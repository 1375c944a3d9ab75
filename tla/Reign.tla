-------------------------------- MODULE Reign --------------------------------
(***************************************************************************)
(* Why one leader (MaxTerm = 0) keeps its promises: an invariant that is   *)
(* inductive.  The leader is the only writer of tasks, and it writes one   *)
(* update at a time, having seen all earlier ones; between the write and   *)
(* the moment it applies it, its own record may run ahead of the log.      *)
(*                                                                         *)
(* The first part is about a log L alone, the second about the agents.     *)
(***************************************************************************)
EXTENDS Refinement

UpdatesIn(L, t) == {i \in 1 .. Len(L) : L[i].type = "UpdateTask" /\ L[i].task = t}
ProposalsIn(L, t) == {i \in UpdatesIn(L, t) : L[i].state.status = "proposal"}

AdmittedBy(L, t, k) == \E i \in 1 .. Len(L) : i <= k /\ L[i] = AdmitTask(t)

(* Entry i is the last update of t among the first k entries. *)
LastBy(L, t, i, k) ==
    /\ i \in UpdatesIn(L, t) /\ i <= k
    /\ \A j \in UpdatesIn(L, t) : j <= k => j <= i

(* s is what the first k entries say of t. *)
Current(L, s, t, k) ==
    \/ s = Absent /\ ~AdmittedBy(L, t, k)
    \/ s = Admitted /\ AdmittedBy(L, t, k) /\ \A j \in UpdatesIn(L, t) : ~(j <= k)
    \/ \E i \in UpdatesIn(L, t) : LastBy(L, t, i, k) /\ s = L[i].state

(* The life of a task in the log. *)
AdmittedFirst(L, t) ==
    /\ \A i, j \in 1 .. Len(L) : L[i] = AdmitTask(t) /\ L[j] = AdmitTask(t) => i = j
    /\ \A i \in UpdatesIn(L, t) :
          AdmittedBy(L, t, i) /\ L[i].state.status \in Final \cup {"proposal"}

FinalStays(L, t) ==
    \A i, j \in UpdatesIn(L, t) :
        i < j /\ L[i].state.status \in Final => L[j].state = TimedOutTask

Upto(L, t, k) == {j \in ProposalsIn(L, t) : j <= k}

Numbered(L, t) ==
    \A i \in ProposalsIn(L, t) :
        /\ L[i].state.round \in 1 .. MaxRounds
        /\ L[i].state.round = Cardinality(Upto(L, t, i))
        /\ \A j \in ProposalsIn(L, t) : i < j => L[i].state.round < L[j].state.round

HistoryOf(L, t) == AdmittedFirst(L, t) /\ FinalStays(L, t) /\ Numbered(L, t)

VotesKnown(L) ==
    \A i \in 1 .. Len(L) : L[i].type = "SubmitVote" =>
        \E j \in ProposalsIn(L, L[i].vote.task) :
            j < i /\ L[j].state.round = L[i].vote.round

History(L) == VotesKnown(L) /\ \A t \in Task : HistoryOf(L, t)

(* What may come next. *)
NextRound(L, t, s) ==
    /\ s.status = "proposal"
    /\ \/ UpdatesIn(L, t) = {} /\ s.round = 1
       \/ \E i \in ProposalsIn(L, t) :
             LastBy(L, t, i, Len(L)) /\ s.round = L[i].state.round + 1 /\ s.round <= MaxRounds

Verdicts(L, t, s) ==
    \E i \in ProposalsIn(L, t) :
        /\ LastBy(L, t, i, Len(L))
        /\ \/ s.status = "failed"
           \/ s.status = "done" /\ s.round \in 1 .. L[i].state.round

MayUpdate(L, t, s) ==
    /\ AdmittedBy(L, t, Len(L))
    /\ NextRound(L, t, s) \/ Verdicts(L, t, s) \/ s = TimedOutTask

MayFollow(L, c) ==
    \/ c.type \in {"SubmitAnswer", "UpdateReputation"}
    \/ \E t \in Task : c = AdmitTask(t) /\ ~AdmittedBy(L, t, Len(L))
    \/ \E t \in Task, s \in TaskState : c = UpdateTask(t, s) /\ MayUpdate(L, t, s)
    \/ /\ c.type = "SubmitVote"
       /\ \E j \in ProposalsIn(L, c.vote.task) : L[j].state.round = c.vote.round

-----------------------------------------------------------------------------
(***************************************************************************)
(* The agents.                                                             *)
(***************************************************************************)
Waits(n) == loop[n].at \in {"applying", "finalizing"}

(* Where a goroutine may be, and what is true of the log while it is there. *)
PlaceFits(L, k, leads, place) ==
    /\ ~leads => place.at \in {"idle", "brainstorming"}
    /\ place.at \in {"applying", "finalizing", "rewarding"} => place.term = 0
    /\ place.at = "aggregating" =>
          AdmittedBy(L, place.task, k) /\ UpdatesIn(L, place.task) = {}
    /\ place.at = "revising" =>
          \E i \in ProposalsIn(L, place.task) :
              LastBy(L, place.task, i, Len(L)) /\ L[i].state.round < MaxRounds

PlaceOK(n) == PlaceFits(log, applied[n], n = leader, loop[n])

(* The leader has applied every update but the one it waits for. *)
Synced ==
    \A t \in Task : \A i \in UpdatesIn(log, t) :
        i <= applied[leader] \/ (Waits(leader) /\ loop[leader].index = i)

(* A record is what the log says, or the leader's, written ahead of Raft. *)
Ahead(n, t) ==
    /\ n = leader /\ Waits(n)
    /\ loop[n].index \in UpdatesIn(log, t) /\ ~(loop[n].index <= applied[n])
    /\ task[n][t].status # "absent" /\ AdmittedBy(log, t, applied[n])

RecordOK(n, t) == Current(log, task[n][t], t, applied[n]) \/ Ahead(n, t)

(* Events, timers and ballots are about tasks and rounds there are. *)
EventFits(L, k, e) ==
    /\ e.type = "TaskAdmitted" => AdmittedBy(L, e.task, Len(L))
    /\ e.type = "VoteSubmitted" => \E j \in ProposalsIn(L, e.task) : j <= k

EventsKnown ==
    \A n \in Node : \A i \in 1 .. Len(events[n]) : EventFits(log, applied[n], events[n][i])

Known(t) == AdmittedBy(log, t, Len(log))

TimersKnown ==
    \A n \in Node :
        /\ \A t \in Task : timers[n][t].armed \/ timers[n][t].orphans > 0 => Known(t)
        /\ \A i \in 1 .. Len(timerCh[n]) : Known(timerCh[n][i])

RoundExists(L, t, r) == \E j \in ProposalsIn(L, t) : L[j].state.round = r

BallotsKnown == \A b \in DOMAIN ballots : RoundExists(log, b.task, b.round)

(* What the properties need, without what only the enabling of steps needs. *)
Core ==
    /\ term = 0
    /\ History(log)
    /\ Synced
    /\ \A n \in Node : PlaceOK(n) /\ \A t \in Task : RecordOK(n, t)

(***************************************************************************)
(* Under one leader each task has a proper life in the log, every replica  *)
(* holds what the log says of it, and only the leader's own record may run *)
(* ahead of Raft, between runProposalPhase or runFinalizeTask writing it   *)
(* and the entry being applied; pending events, timers and ballots never   *)
(* speak of a task or a round that the log does not have.                  *)
(***************************************************************************)
Reigning == Core /\ EventsKnown /\ TimersKnown /\ BallotsKnown
=============================================================================
