-------------------------- MODULE EngineProperties --------------------------
(***************************************************************************)
(* What the engine promises.  The committed log is the common history, so  *)
(* most properties are statements about its entries and their order.       *)
(***************************************************************************)
EXTENDS Engine

Entries(type) == {i \in 1 .. Len(log) : log[i].type = type}
Updates(t) == {i \in Entries("UpdateTask") : log[i].task = t}
Proposals(t) == {i \in Updates(t) : log[i].state.status = "proposal"}
Finals(t) == {i \in Updates(t) : log[i].state.status \in Final}
Expiries(t) == {i \in Updates(t) : log[i].state = TimedOutTask}

(* The votes that stand after the first k entries: the first of each ballot. *)
FirstVote(i) ==
    \A j \in Entries("SubmitVote") : j < i => ~SameBallot(log[j].vote, log[i].vote)
StandingVotes(k) ==
    {log[i].vote : i \in {j \in Entries("SubmitVote") : j <= k /\ FirstVote(j)}}

-----------------------------------------------------------------------------
(***************************************************************************)
(* Properties that hold through every change of leadership.                *)
(***************************************************************************)

(***************************************************************************)
(* A task is only ever declared done for a round that a majority of the    *)
(* cluster accepted, whatever branch of runFinalizeTask declared it (target*)
(* reached, split vote in the last round, fallback), and even by a leader  *)
(* whose replica is behind.                                                *)
(***************************************************************************)
DoneHasQuorum ==
    \A i \in Entries("UpdateTask") :
        log[i].state.status = "done" =>
            Accepted(StandingVotes(i - 1), log[i].task, log[i].state.round) >= Quorum

(***************************************************************************)
(* The votes a replica counts are, at any moment, exactly those that stand *)
(* in the part of the log it has applied, whatever was dropped from its    *)
(* event channel: a second vote of an agent in a round, which the engine   *)
(* does send, is ignored everywhere (SyncMapFSM.Apply, SubmitVote).        *)
(***************************************************************************)
VotesApplied == \A n \in Node : votes[n] = StandingVotes(applied[n])

(***************************************************************************)
(* The first proposal of a task rests on the answers of a majority of      *)
(* distinct agents, although SubmitAnswer only counts entries.             *)
(***************************************************************************)
Answerers(t, k) == {a \in Node : \E i \in 1 .. k : log[i] = SubmitAnswer(t, a)}

ProposalHasQuorumAnswers ==
    \A t \in Task : \A i \in Proposals(t) :
        log[i].state.round = 1 => Cardinality(Answerers(t, i)) >= Quorum

(***************************************************************************)
(* Nobody is rewarded or punished twice for one decision: an agent has at  *)
(* most one reputation update per final status that was ever committed.    *)
(* (The failure a new leader commits for a task that timed out while it    *)
(* was revising it looks exactly like the timeout, so both count.)         *)
(***************************************************************************)
Rewards(a) == {i \in Entries("UpdateReputation") : log[i].agent = a}
Decisions == {i \in Entries("UpdateTask") : log[i].state.status \in Final}

RewardedOnce == \A a \in Node : Cardinality(Rewards(a)) <= Cardinality(Decisions)

-----------------------------------------------------------------------------
(***************************************************************************)
(* Properties of one leader's reign (MaxTerm = 0).                         *)
(***************************************************************************)

(***************************************************************************)
(* Once a task is done or failed, nothing but a timeout writes it again:   *)
(* late votes and late LLM answers neither reopen it nor decide it twice.  *)
(***************************************************************************)
FinalOverwrittenOnlyByTimeout ==
    \A t \in Task : \A i \in Finals(t), j \in Updates(t) :
        i < j => j \in Expiries(t)

(***************************************************************************)
(* The proposals of a task are numbered 1, 2, 3, ... and there are at most *)
(* MaxRounds of them: no vote event revises the same round twice.          *)
(***************************************************************************)
RoundsInOrder ==
    \A t \in Task : \A i \in Proposals(t) :
        /\ log[i].state.round = Cardinality({j \in Proposals(t) : j <= i})
        /\ log[i].state.round <= MaxRounds

(***************************************************************************)
(* The result of a done task is the very text a majority accepted, also    *)
(* when the fallback went back to an earlier round.                        *)
(***************************************************************************)
Endorsers(t, x, k) == {v.agent : v \in {w \in StandingVotes(k) :
                                          w.task = t /\ w.accepted /\ w.text = x}}

ResultIsAcceptedText ==
    \A t \in Task : \A i \in Finals(t) :
        log[i].state.status = "done" =>
            Cardinality(Endorsers(t, log[i].state.result, i - 1)) >= Quorum

(***************************************************************************)
(* A task the leader has taken up and not finished is never abandoned: a   *)
(* timer is running for it, or has fired and waits to be handled, or the   *)
(* engine is working on something right now.                               *)
(***************************************************************************)
Timed(n, t) ==
    \/ timers[n][t].armed
    \/ timers[n][t].orphans > 0
    \/ \E i \in 1 .. Len(timerCh[n]) : timerCh[n][i] = t

LiveTaskIsTimed ==
    \A n \in Node, t \in Task :
        /\ IsLeader(n)
        /\ task[n][t].status \in {"admitted", "proposal"}
        /\ loop[n] = Idle
        /\ events[n] = <<>>
        => Timed(n, t)

(***************************************************************************)
(* Replicas that have applied the whole log hold the same tasks, although  *)
(* the engine writes into its replica's records before it asks Raft        *)
(* (engine.go 314-317, 512, 567-568).                                      *)
(***************************************************************************)
CaughtUp(n) == applied[n] = Len(log)
QuiescentAgreement ==
    \A n, m \in Node : CaughtUp(n) /\ CaughtUp(m) => task[n] = task[m]

-----------------------------------------------------------------------------
(***************************************************************************)
(* Liveness under one leader.  The processes are not idle while one of     *)
(* them has something to do: goroutines are scheduled, Raft replicates,    *)
(* calls return (with a result or an error), running timers expire.  And   *)
(* Aggregate, which the timeout path calls again whenever it failed,       *)
(* succeeds at last if it is retried for ever.  Nothing more is assumed:   *)
(* no order among the processes, no vote that must arrive.                 *)
(***************************************************************************)
Work(n) ==
    \/ Replicate(n)
    \/ HandleEvent(n) \/ HandleTimeout(n)
    \/ CallSucceeds(n) \/ CallFails(n) \/ FinishCall(n)
    \/ Fire(n)
    \/ VoteOf(n)

Fairness ==
    /\ WF_vars(\E n \in Node : Work(n))
    /\ WF_vars(\E n \in Node : Replicate(n))
    /\ SF_vars(\E n \in Node : Propose(n))

FairSpec == Spec /\ Fairness

(***************************************************************************)
(* Every submitted task ends, done or failed, on every replica, and stays  *)
(* ended: lost votes, failed LLM calls and missing answers only delay it.  *)
(***************************************************************************)
Terminates ==
    \A t \in Task : Submitted(t) ~> [](\A n \in Node : task[n][t].status \in Final)

-----------------------------------------------------------------------------
(***************************************************************************)
(* What the repository says and the code does not do.                      *)
(***************************************************************************)

(***************************************************************************)
(* engine.go 205: the timeout path that fails a task is for a "Voting      *)
(* timeout or Brainstorming timeout", so it never hits a finished task.    *)
(***************************************************************************)
TimeoutSparesDoneTasks ==
    \A t \in Task : \A i \in Finals(t), j \in Expiries(t) :
        i < j => log[i].state.status # "done"

(* engine.go 48 and README 79: voting rounds repeat up to MaxRounds.  *)
RoundsBounded ==
    \A t \in Task : \A i \in Proposals(t) : log[i].state.round <= MaxRounds
=============================================================================
