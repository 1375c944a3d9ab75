------------------------- MODULE RequestsProperties -------------------------
(***************************************************************************)
(* What a client that waits for a task may rely on.                        *)
(***************************************************************************)
EXTENDS Requests

(***************************************************************************)
(* A channel among the subscribers is open and empty, so that              *)
(* notifySubscribers never sends on a closed channel (a panic under the    *)
(* mutex of the replica) and never finds one full, whatever requests were  *)
(* cancelled or snapshots installed before.                                *)
(***************************************************************************)
SubscribersOpen == \A r \in Request : \A k \in subscribers[r] : chans[r][k] = Open

(***************************************************************************)
(* A request that is blocked can be woken: the channel it waits on is      *)
(* among the subscribers of its task, also after a snapshot.               *)
(***************************************************************************)
BlockedIsRegistered == \A r \in Request : Blocked(r) => Len(chans[r]) \in subscribers[r]

(***************************************************************************)
(* No update is lost between two calls of WaitForEvent: a blocked request  *)
(* has seen the newest version of its task.  (Until a snapshot is          *)
(* installed, which restarts the versions.)                                *)
(***************************************************************************)
Unrestored == Generation = 1

BlockedIsUpToDate ==
    Unrestored => \A r \in Request : Blocked(r) => request[r].seen = version[r]

(***************************************************************************)
(* A request that goes on waiting has got a newer version than before: the *)
(* loop of waitForTask never spins on a version it has seen.               *)
(***************************************************************************)
Continues(r) == request[r].at = "waiting" /\ request'[r].at = "subscribing"

VersionsIncrease ==
    [][Unrestored =>
         \A r \in Request : Continues(r) => request'[r].seen > request[r].seen]_vars

(***************************************************************************)
(* A request whose task is done gets its answer or was cancelled, unless   *)
(* the task is changed again, or the replica installs a snapshot.          *)
(***************************************************************************)
Pending(r) == request[r].at \in {"submitting", "subscribing", "waiting"}
Outcome(r) == StatusAt(r, Len(log))

DoneIsAnswered ==
    \A r \in Request :
        (Pending(r) /\ Outcome(r) = "done") ~>
            (~Pending(r) \/ Outcome(r) # "done" \/ ~Unrestored)

-----------------------------------------------------------------------------
(***************************************************************************)
(* What the repository says and the code does not do.                      *)
(***************************************************************************)

(***************************************************************************)
(* README 74: a done task is answered to the user.  A snapshot that        *)
(* contains the end of the task leaves the request waiting.                *)
(***************************************************************************)
DoneIsAlwaysAnswered ==
    \A r \in Request :
        (Pending(r) /\ Outcome(r) = "done") ~> (~Pending(r) \/ Outcome(r) # "done")
=============================================================================
