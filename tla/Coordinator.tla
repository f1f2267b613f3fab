----------------------------- MODULE Coordinator -----------------------------
(***************************************************************************)
(* The protocol runtime's Coordinator (protocolruntime/coordinator.go) for  *)
(* one access profile: several processes claim, renew and release the       *)
(* profile's execution lease, and each ends its own session by a local      *)
(* timer that is shorter than the database lease.                           *)
(*                                                                          *)
(* Coordinator.mu is held across every database call, so a process makes    *)
(* one call at a time; a call takes effect in the database at some moment    *)
(* between its start and its return, or fails.  A failed call took effect    *)
(* before it failed or not at all.  Timers and the database clock advance    *)
(* at the same rate.                                                         *)
(***************************************************************************)
EXTENDS ExecutionLease, FiniteSets

CONSTANTS
    Deadline,     \* the session's local timer (8 s)
    Late,         \* how late a timer may run its callback
    Idle,         \* a profile not scanned for longer is given up (3 s)
    ClaimLimit,   \* the longest a call of Claim takes; the code sets no limit
    RenewLimit,   \* the longest a call of Run takes (renewCtx, 1 s)
    MaxToken,     \* bound on the number of tokens handed out
    MaxErrors     \* bound on failed database calls

ASSUME CoordinatorAssumption ==
    /\ Deadline \in Nat /\ Late \in Nat /\ Idle \in Nat
    /\ ClaimLimit \in Nat /\ RenewLimit \in Nat
    /\ MaxToken \in Nat /\ MaxErrors \in Nat

VARIABLES
    pc,        \* idle, claiming, renewing, releasing, stopping, down
    session,   \* the entry of held: state none, live or dead (ctx cancelled)
    age,       \* time since the call in progress was started
    reply,     \* its answer: none yet, held (with token), refused, done, error
    check,     \* token read by a Validate in progress, 0 if there is none
    last,      \* history: process and token of the last session started
    errors

vars == <<row, pc, session, age, reply, check, last, errors>>

NoSession == [state |-> "none", token |-> 0, left |-> 0, idle |-> 0]
NoReply   == [kind |-> "none", token |-> 0]

Live(p) == session[p].state = "live"

Cancelled(s) == [state |-> "dead", token |-> s.token, left |-> 0, idle |-> 0]

Init ==
    /\ RowInit
    /\ pc = [p \in Procs |-> "idle"]
    /\ session = [p \in Procs |-> NoSession]
    /\ age = [p \in Procs |-> 0]
    /\ reply = [p \in Procs |-> NoReply]
    /\ check = [p \in Procs |-> 0]
    /\ last = [proc |-> NoProc, token |-> 0]
    /\ errors = 0

(***************************************************************************)
(* Claim, called at each scan for an enabled profile.                       *)
(***************************************************************************)
Touch(p) ==
    /\ pc[p] = "idle" /\ Live(p)
    /\ session' = [session EXCEPT ![p].idle = 0]
    /\ UNCHANGED <<row, pc, age, reply, check, last, errors>>

StartCall(p, kind) ==
    /\ pc' = [pc EXCEPT ![p] = kind]
    /\ age' = [age EXCEPT ![p] = 0]
    /\ reply' = [reply EXCEPT ![p] = NoReply]

EndCall(p) ==
    /\ pc' = [pc EXCEPT ![p] = "idle"]
    /\ age' = [age EXCEPT ![p] = 0]
    /\ reply' = [reply EXCEPT ![p] = NoReply]

Claim(p) ==
    /\ pc[p] = "idle" /\ ~Live(p)
    /\ StartCall(p, "claiming")
    /\ UNCHANGED <<row, session, check, last, errors>>

(* The call's effect in the database, and the answer on its way back.        *)
Acquire(p) ==
    /\ pc[p] \in {"claiming", "renewing"} /\ reply[p].kind = "none"
    /\ IF CanAcquire(p)
       THEN /\ Acquired(p).token <= MaxToken
            /\ row' = Acquired(p)
            /\ reply' = [reply EXCEPT ![p] = [kind |-> "held", token |-> Acquired(p).token]]
       ELSE /\ reply' = [reply EXCEPT ![p] = [kind |-> "refused", token |-> 0]]
            /\ UNCHANGED row
    /\ UNCHANGED <<pc, session, age, check, last, errors>>

(* The connection breaks or the call times out, before or after its effect.  *)
CallFails(p) ==
    /\ pc[p] \in {"claiming", "renewing"} /\ reply[p].kind \in {"none", "held"}
    /\ errors < MaxErrors
    /\ errors' = errors + 1
    /\ reply' = [reply EXCEPT ![p] = [kind |-> "error", token |-> 0]]
    /\ UNCHANGED <<row, pc, session, age, check, last>>

(* The timer counts from the start of the call, not from its return.         *)
Rearmed_FromReturn(p) == Deadline
Rearmed(p) == Deadline - age[p]

ClaimReturns(p) ==
    /\ pc[p] = "claiming" /\ reply[p].kind # "none"
    /\ EndCall(p)
    /\ IF reply[p].kind = "held"
       THEN /\ session' = [session EXCEPT ![p] =
                             [state |-> "live", token |-> reply[p].token,
                              left  |-> Rearmed(p), idle |-> age[p]]]
            /\ last' = [proc |-> p, token |-> reply[p].token]
       ELSE UNCHANGED <<session, last>>
    /\ UNCHANGED <<row, check, errors>>

(* The timer armed with the session cancels its context.                     *)
TimerFires(p) ==
    /\ Live(p) /\ session[p].left <= 0
    /\ session' = [session EXCEPT ![p] = Cancelled(session[p])]
    /\ UNCHANGED <<row, pc, age, reply, check, last, errors>>

(***************************************************************************)
(* Run: at each tick an entry that is no longer scanned, or whose context    *)
(* ended, is cancelled, released and deleted; the others are renewed.        *)
(***************************************************************************)
GivenUp(p) == session[p].idle > Idle \/ session[p].state = "dead"

GiveUp_StillRunning(p) ==
    /\ pc[p] = "idle" /\ session[p].state # "none" /\ GivenUp(p)
    /\ pc' = [pc EXCEPT ![p] = "releasing"]
    /\ UNCHANGED <<row, session, age, reply, check, last, errors>>

GiveUp(p) ==
    /\ pc[p] = "idle" /\ session[p].state # "none" /\ GivenUp(p)
    /\ session' = [session EXCEPT ![p] = Cancelled(session[p])]
    /\ pc' = [pc EXCEPT ![p] = "releasing"]
    /\ UNCHANGED <<row, age, reply, check, last, errors>>

Release(p) ==
    /\ pc[p] \in {"releasing", "stopping"} /\ reply[p].kind = "none"
    /\ \/ /\ row' = Released(p, session[p].token)
          /\ reply' = [reply EXCEPT ![p] = [kind |-> "done", token |-> 0]]
          /\ UNCHANGED errors
       \/ /\ errors < MaxErrors /\ errors' = errors + 1
          /\ reply' = [reply EXCEPT ![p] = [kind |-> "error", token |-> 0]]
          /\ UNCHANGED row
    /\ UNCHANGED <<pc, session, age, check, last>>

ReleaseReturns(p) ==
    /\ pc[p] \in {"releasing", "stopping"} /\ reply[p].kind # "none"
    /\ session' = [session EXCEPT ![p] = NoSession]
    /\ pc' = [pc EXCEPT ![p] = IF pc[p] = "stopping" THEN "down" ELSE "idle"]
    /\ reply' = [reply EXCEPT ![p] = NoReply]
    /\ UNCHANGED <<row, age, check, last, errors>>

Renew(p) ==
    /\ pc[p] = "idle" /\ session[p].state # "none" /\ ~GivenUp(p)
    /\ StartCall(p, "renewing")
    /\ UNCHANGED <<row, session, check, last, errors>>

(* A lost lease cancels the session; a renewal moves its timer, which no     *)
(* longer helps a session whose context has ended meanwhile.                 *)
RenewReturns(p) ==
    /\ pc[p] = "renewing" /\ reply[p].kind # "none"
    /\ session' = [session EXCEPT ![p] =
          IF reply[p].kind = "held" /\ reply[p].token = session[p].token
          THEN IF Live(p) THEN [session[p] EXCEPT !.left = Rearmed(p)] ELSE session[p]
          ELSE NoSession]
    /\ EndCall(p)
    /\ UNCHANGED <<row, check, last, errors>>

(***************************************************************************)
(* Validate, before a frame is archived or a command is sent: the token of   *)
(* the held entry against the row.                                           *)
(***************************************************************************)
ReadToken(p) ==
    /\ session[p].state # "none" /\ check[p] = 0
    /\ check' = [check EXCEPT ![p] = session[p].token]
    /\ UNCHANGED <<row, pc, session, age, reply, last, errors>>

Validated(p) == check[p] # 0 /\ Owns(p, check[p])

Validate(p) ==
    /\ check[p] # 0
    /\ check' = [check EXCEPT ![p] = 0]
    /\ UNCHANGED <<row, pc, session, age, reply, last, errors>>

(***************************************************************************)
(* The end of a process, and time.                                          *)
(***************************************************************************)
(* Shutdown ends every context at once and abandons a call in progress.  The *)
(* entries of held are released, except one whose renewal was abandoned:     *)
(* that failure has deleted it.                                              *)
Stop(p) ==
    /\ pc[p] \in {"idle", "claiming", "renewing"}
    /\ \/ /\ session[p].state # "none"
          /\ session' = [session EXCEPT ![p] = Cancelled(session[p])]
          /\ pc' = [pc EXCEPT ![p] = "stopping"]
       \/ /\ session[p].state = "none" \/ pc[p] = "renewing"
          /\ session' = [session EXCEPT ![p] = NoSession]
          /\ pc' = [pc EXCEPT ![p] = "down"]
    /\ reply' = [reply EXCEPT ![p] = NoReply]
    /\ age' = [age EXCEPT ![p] = 0]
    /\ check' = [check EXCEPT ![p] = 0]
    /\ UNCHANGED <<row, last, errors>>

Crash(p) ==
    /\ pc[p] # "down"
    /\ session' = [session EXCEPT ![p] = NoSession]
    /\ pc' = [pc EXCEPT ![p] = "down"]
    /\ reply' = [reply EXCEPT ![p] = NoReply]
    /\ age' = [age EXCEPT ![p] = 0]
    /\ check' = [check EXCEPT ![p] = 0]
    /\ UNCHANGED <<row, last, errors>>

CallLimit(p) == IF pc[p] = "claiming" THEN ClaimLimit ELSE RenewLimit

InCall(p) == pc[p] \in {"claiming", "renewing"}

(* Time passes unless that makes a timer or a call later than it can be.     *)
Tick ==
    /\ \A p \in Procs : Live(p) => session[p].left > -Late
    /\ \A p \in Procs : InCall(p) => age[p] < CallLimit(p)
    /\ RowTick
    /\ session' = [p \in Procs |->
          [session[p] EXCEPT !.left = IF Live(p) THEN session[p].left - 1 ELSE session[p].left,
                             !.idle = IF Live(p) /\ session[p].idle <= Idle
                                      THEN session[p].idle + 1 ELSE session[p].idle]]
    /\ age' = [p \in Procs |-> IF InCall(p) THEN age[p] + 1 ELSE age[p]]
    /\ UNCHANGED <<pc, reply, check, last, errors>>

Step(p) ==
    \/ Touch(p) \/ Claim(p) \/ Acquire(p) \/ CallFails(p) \/ ClaimReturns(p)
    \/ TimerFires(p) \/ GiveUp(p) \/ Release(p) \/ ReleaseReturns(p)
    \/ Renew(p) \/ RenewReturns(p) \/ ReadToken(p) \/ Validate(p) \/ Stop(p) \/ Crash(p)

Next == Tick \/ \E p \in Procs : Step(p)

Spec == Init /\ [][Next]_vars

(* Calls return, timers run, Run ticks and profiles are scanned; nothing is   *)
(* assumed of errors, shutdowns, crashes and validations.                     *)
Progress(p) ==
    Claim(p) \/ Acquire(p) \/ ClaimReturns(p) \/ TimerFires(p)
    \/ GiveUp(p) \/ Release(p) \/ ReleaseReturns(p) \/ RenewReturns(p)

FairSpec == Spec /\ WF_vars(Tick) /\ \A p \in Procs : WF_vars(Progress(p))

(***************************************************************************)
(* Properties.                                                              *)
(***************************************************************************)
Sessions == [state: {"none", "live", "dead"}, token: Nat,
             left: -Late .. Deadline, idle: Nat]
Replies  == [kind: {"none", "held", "refused", "done", "error"}, token: Nat]

(* Every variable keeps its type; in particular no timer of a live session    *)
(* runs later than Late (coordinator.go:46,87).                               *)
CoordinatorTypeOK ==
    /\ row \in Rows
    /\ pc \in [Procs -> {"idle", "claiming", "renewing", "releasing", "stopping", "down"}]
    /\ session \in [Procs -> Sessions]
    /\ age \in [Procs -> Nat]
    /\ reply \in [Procs -> Replies]
    /\ check \in [Procs -> Nat]
    /\ last \in [proc: Procs \cup {NoProc}, token: Nat]
    /\ errors \in Nat

(* The lease outlasts the session (coordinator.go:19-21, "local monotonic     *)
(* deadlines shorter than the database lease"): while a session is live, the   *)
(* row still names its process and token, and has more time left than the      *)
(* session's timer.                                                            *)
LeaseOutlastsSession ==
    \A p \in Procs : Live(p) =>
        /\ row.owner = p
        /\ row.token = session[p].token
        /\ row.left >= session[p].left + (TTL - Deadline)

Active == {p \in Procs : Live(p)}

(* Sessions of one profile never overlap, and a session of another process     *)
(* has a larger token ("stale sockets stop before another process may acquire  *)
(* the same resource", coordinator.go:20-21): the coordinator implements       *)
(* ExclusiveSession.                                                           *)
Promise == INSTANCE ExclusiveSession
             WITH active <- Active,
                  holder <- last.proc,
                  epoch  <- last.token
ImplementsExclusiveSession == Promise!Spec

(* A validation that succeeds finds no session of another process              *)
(* (coordinator.go:96-110, before a frame is archived or a command is sent).   *)
ValidationFences ==
    [][\A p \in Procs : Validate(p) /\ Validated(p) =>
          \A q \in Procs : Live(q) => q = p]_vars

(* Somebody always serves the profile again, whoever crashed, was refused or   *)
(* lost an answer, until every process has ended or the tokens of the bound    *)
(* are used up.                                                                *)
ServedAgain ==
    []<>(\/ \E p \in Procs : Live(p)
         \/ \A p \in Procs : pc[p] = "down"
         \/ row.token = MaxToken)
=============================================================================
