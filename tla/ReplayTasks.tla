----------------------------- MODULE ReplayTasks -----------------------------
(***************************************************************************)
(* Replays of archived messages and the archive (core/replay.go): what a        *)
(* replay promises when it is reported as completed.  Module Replay has the      *)
(* steps that lead there.                                                   *)
(***************************************************************************)
EXTENDS Integers

CONSTANT Requests     \* replay requests

VARIABLES
    lo, hi,      \* the archive: the messages lo..hi, numbered by age
    state,       \* replay_task: status of each request
    done,        \* history: messages it replayed or counted as failed
    old          \* history: messages that were archived when it started

(* A replay that completed has taken every message that was in the archive when  *)
(* it started and still is: neither messages that arrive nor messages that       *)
(* expire between two pages make the offset skip one.                        *)
CompletedCovers ==
    \A r \in Requests :
        state[r] = "COMPLETED" => old[r] \cap lo..hi \subseteq done[r]

=============================================================================
