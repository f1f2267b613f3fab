--------------------------- MODULE ExecutionLease ---------------------------
(***************************************************************************)
(* One row of the execution_lease table (adapters/postgres/execution.go):   *)
(* which process owns a resource, under which fencing token, and for how    *)
(* much longer.  Time is relative: row.left is what remains until           *)
(* expires_at, so a run needs no bound on the clock.  A row that was never  *)
(* inserted has token 0 and nothing left; the first insertion gives the     *)
(* column's default token 1.                                                *)
(***************************************************************************)
EXTENDS Integers

CONSTANTS
    Procs,    \* lease owners; a restarted process has a new name
    NoProc,   \* owner of the row before the first insertion
    TTL       \* how long an acquisition lasts (10 s for profiles)

ASSUME LeaseAssumption ==
    /\ NoProc \notin Procs
    /\ TTL \in Nat \ {0}

VARIABLE row   \* [owner, token, left]

RowInit == row = [owner |-> NoProc, token |-> 0, left |-> 0]

Rows == [owner: Procs \cup {NoProc}, token: Nat, left: 0 .. TTL]

Expired == row.left = 0

(* AcquireExecutionLease updates the row only for its owner or after its     *)
(* expiry; otherwise it returns no row and the caller does not hold it.      *)
CanAcquire_OwnerOnly(p) == row.owner \in {p, NoProc}
CanAcquire(p) == row.owner = p \/ Expired

Acquired(p) == [owner |-> p,
                token |-> IF Expired THEN row.token + 1 ELSE row.token,
                left  |-> TTL]

(* GetExecutionLease finds only a row that has not expired.                  *)
Owns_AnyLater(p, t) == ~Expired /\ row.token >= t
Owns(p, t) == ~Expired /\ row.owner = p /\ row.token = t

(* ReleaseExecutionLease expires the row if owner and token still match.     *)
Released(p, t) == IF row.owner = p /\ row.token = t THEN [row EXCEPT !.left = 0]
                                                     ELSE row

Passed(n) == IF n > 0 THEN n - 1 ELSE 0

RowTick == row' = [row EXCEPT !.left = Passed(row.left)]
=============================================================================
