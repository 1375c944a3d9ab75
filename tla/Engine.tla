------------------------------- MODULE Engine -------------------------------
(***************************************************************************)
(* The engine of every agent (internal/engine/engine.go) on top of its     *)
(* replica.  One goroutine per node handles Raft events and timeouts one   *)
(* at a time and blocks in LLM calls and in Raft.Apply; voting runs in a   *)
(* goroutine of its own per proposal; timers fire on their own.  All of    *)
(* them share the replica's task records by pointer.                       *)
(***************************************************************************)
EXTENDS SyncMapFSM, Bags

CONSTANT MaxFires   \* bound: timer expiries explored, or Unbounded

Unbounded == -1
ASSUME EngineAssumption == MaxFires \in Nat \cup {Unbounded}

VARIABLES loop,     \* loop[n]: where the engine goroutine of n is
          timers,   \* timers[n][t]: the entry of e.timers, and the timers it lost
          timerCh,  \* timerCh[n]: fired timers the goroutine has not handled
          ballots,  \* the bag of running runVotePhase goroutines
          fires     \* bound: how many timers have expired, if that is bounded

timerVars == <<timers, timerCh, fires>>
engineVars == <<loop, timerVars, ballots>>
vars == <<raftVars, replicaVars, engineVars>>

(***************************************************************************)
(* Where the goroutine is.  "applying" is a call of Raft.Apply nothing     *)
(* follows; "finalizing" is the one that commits a final status, and is    *)
(* followed by the reputation updates of "rewarding".  index and term      *)
(* identify the entry the call waits for.  drops: an error makes a leader  *)
(* give up leadership (the deferred function of handleRaftEvent).          *)
(***************************************************************************)
Ballots == SUBSET (Node \X BOOLEAN)

LoopState ==
    [at : {"idle"}]
        \cup [at : {"brainstorming"}, task : Task]
        \cup [at : {"aggregating"}, task : Task, drops : BOOLEAN]
        \cup [at : {"revising"}, task : Task, voters : Ballots]
        \cup [at : {"applying"}, index : Nat, term : Nat, drops : BOOLEAN]
        \cup [at : {"finalizing"}, index : Nat, term : Nat, status : Final, voters : Ballots]
        \cup [at : {"rewarding"}, index : Nat, term : Nat, status : Final, voters : Ballots]

Idle == [at |-> "idle"]
Brainstorming(t) == [at |-> "brainstorming", task |-> t]
Aggregating(t, drops) == [at |-> "aggregating", task |-> t, drops |-> drops]
Revising(t, voters) == [at |-> "revising", task |-> t, voters |-> voters]
Applying(drops) ==
    [at |-> "applying", index |-> Len(log) + 1, term |-> term, drops |-> drops]
Finalizing(status, voters) ==
    [at |-> "finalizing", index |-> Len(log) + 1, term |-> term,
     status |-> status, voters |-> voters]

(* A voting goroutine is known by the copy of the task it was started with. *)
Ballot == [agent : Node, task : Task, round : Nat, text : Text]

Timer == [armed : BOOLEAN, orphans : Nat]
NoTimer == [armed |-> FALSE, orphans |-> 0]

BallotsTyped == IsABag(ballots) /\ BagToSet(ballots) \subseteq Ballot

EngineTypeOK ==
    /\ loop \in [Node -> LoopState]
    /\ timers \in [Node -> [Task -> Timer]]
    /\ timerCh \in [Node -> Seq(Task)]
    /\ BallotsTyped
    /\ fires \in Nat

(* Type correctness of the whole state of the agents. *)
TypeOK == FSMTypeOK /\ EngineTypeOK

Init ==
    /\ FSMInit
    /\ loop = [n \in Node |-> Idle]
    /\ timers = [n \in Node |-> [t \in Task |-> NoTimer]]
    /\ timerCh = [n \in Node |-> <<>>]
    /\ ballots = EmptyBag
    /\ fires = 0

IsLeader(n) == leader = n
Goto(n, state) == loop' = [loop EXCEPT ![n] = state]

(***************************************************************************)
(* startTimer, stopTimer.  A timer whose entry was deleted keeps running   *)
(* and nothing can stop it any more.                                       *)
(***************************************************************************)
Armed(timer, on) == [armed |-> on, orphans |-> timer.orphans]
Lost(k) == [armed |-> FALSE, orphans |-> k]
Forget(timer) == Lost(timer.orphans + IF timer.armed THEN 1 ELSE 0)

StartTimer(n, t) == timers' = [timers EXCEPT ![n][t] = Armed(@, TRUE)]
StopTimer(n, t) == timers' = [timers EXCEPT ![n][t] = Armed(@, FALSE)]

Expiry ==
    IF MaxFires = Unbounded THEN UNCHANGED fires
    ELSE fires < MaxFires /\ fires' = fires + 1

TimerFires(n, t) ==
    /\ Expiry
    /\ timers[n][t].armed
    /\ StopTimer(n, t)
    /\ timerCh' = [timerCh EXCEPT ![n] = Append(@, t)]
    /\ UNCHANGED <<raftVars, replicaVars, loop, ballots>>

OrphanFires(n, t) ==
    /\ Expiry
    /\ timers[n][t].orphans > 0
    /\ timers' = [timers EXCEPT ![n][t] = Lost(Forget(@).orphans - 1)]
    /\ timerCh' = [timerCh EXCEPT ![n] = Append(@, t)]
    /\ UNCHANGED <<raftVars, replicaVars, loop, ballots>>

(***************************************************************************)
(* DropLeader and TransferLeadership: the transfer succeeds, or fails and  *)
(* leaves everything as it was.  A node that is not leader cannot do it.   *)
(***************************************************************************)
KeepsLeading == UNCHANGED <<leader, term>>

DropLeader(n) ==
    \/ KeepsLeading
    \/ IsLeader(n) /\ \E m \in Node \ {n} : LeaderMovesTo(m)

(***************************************************************************)
(* The event loop takes the head of EventCh when the goroutine is idle.    *)
(***************************************************************************)
Handle(n, type) ==
    /\ loop[n] = Idle
    /\ events[n] # <<>>
    /\ Head(events[n]).type = type
    /\ events' = [events EXCEPT ![n] = Tail(@)]

Subject(n) == Head(events[n]).task
Live(n) == task[n][Subject(n)]   \* the record the event points to, read now

(***************************************************************************)
(* Submission and brainstorm.                                              *)
(***************************************************************************)
Submitted(t) == \E i \in 1 .. Len(log) : log[i] = AdmitTask(t)

SubmitTask(t) ==
    /\ ~Submitted(t)
    /\ Commit(AdmitTask(t))
    /\ UNCHANGED <<leader, term, replicaVars, engineVars>>

HandleTaskAdmitted(n) ==
    /\ Handle(n, "TaskAdmitted")
    /\ IF IsLeader(n) THEN StartTimer(n, Subject(n)) ELSE UNCHANGED timers
    /\ Goto(n, Brainstorming(Subject(n)))
    /\ UNCHANGED <<raftVars, store, timerCh, ballots, fires>>

(* Variant: the submission is retried although it succeeded. *)
BrainstormRetried(n) ==
    /\ loop[n].at = "brainstorming"
    /\ Commit(SubmitAnswer(loop[n].task, n))
    /\ UNCHANGED <<leader, term, replicaVars, loop, timerVars, ballots>>

Brainstorm(n) ==
    /\ loop[n].at = "brainstorming"
    /\ Commit(SubmitAnswer(loop[n].task, n))
    /\ Goto(n, Idle)
    /\ UNCHANGED <<leader, term, replicaVars, timerVars, ballots>>

BrainstormFails(n) ==
    /\ loop[n].at = "brainstorming"
    /\ Goto(n, Idle)
    /\ UNCHANGED <<raftVars, replicaVars, timerVars, ballots>>

(***************************************************************************)
(* AnswerSubmitted and runProposalPhase.                                   *)
(***************************************************************************)
(* Variant: one answer short of a quorum is enough. *)
HasAnswersOneShort(n, t, force) == answers[n][t] >= Quorum - 1

HasAnswers(n, t, force) ==
    \/ answers[n][t] = ServerCount
    \/ force /\ answers[n][t] >= Quorum

IgnoreAnswer(n) ==
    /\ Handle(n, "AnswerSubmitted")
    /\ ~IsLeader(n)
    /\ UNCHANGED <<raftVars, store, engineVars>>

(***************************************************************************)
(* An answer that comes after the proposal, or to a task this replica no   *)
(* longer has, is an error: the leader resigns.                            *)
(***************************************************************************)
LateAnswer(n) ==
    /\ Handle(n, "AnswerSubmitted")
    /\ IsLeader(n)
    /\ Live(n).status # "admitted"
    /\ DropLeader(n)
    /\ UNCHANGED <<log, store, engineVars>>

AwaitAnswers(n) ==
    /\ Handle(n, "AnswerSubmitted")
    /\ IsLeader(n)
    /\ Live(n).status = "admitted"
    /\ ~HasAnswers(n, Subject(n), FALSE)
    /\ UNCHANGED <<raftVars, store, engineVars>>

(* Variant: the status is changed before the LLM is called. *)
StartProposalEarlyStatus(n) ==
    /\ Handle(n, "AnswerSubmitted")
    /\ IsLeader(n)
    /\ Live(n).status = "admitted"
    /\ HasAnswers(n, Subject(n), FALSE)
    /\ task' = [task EXCEPT ![n][Subject(n)].status = "proposal"]
    /\ StartTimer(n, Subject(n))
    /\ Goto(n, Aggregating(Subject(n), TRUE))
    /\ UNCHANGED <<raftVars, applied, answers, votes, rep, timerCh, ballots, fires>>

StartProposal(n) ==
    /\ Handle(n, "AnswerSubmitted")
    /\ IsLeader(n)
    /\ Live(n).status = "admitted"
    /\ HasAnswers(n, Subject(n), FALSE)
    /\ StartTimer(n, Subject(n))
    /\ Goto(n, Aggregating(Subject(n), TRUE))
    /\ UNCHANGED <<raftVars, store, timerCh, ballots, fires>>

(***************************************************************************)
(* Aggregate returned: the shared record is changed first, then the same   *)
(* content is proposed to Raft, which refuses it if the node no longer     *)
(* leads.                                                                  *)
(***************************************************************************)
FirstProposal(n) ==
    [status |-> "proposal", round |-> 1, result |-> <<n, 1>>,
     proposals |-> {<<1, <<n, 1>> >>}]

Aggregated(n) ==
    /\ loop[n].at = "aggregating"
    /\ task' = [task EXCEPT ![n][loop[n].task] = FirstProposal(n)]
    /\ UNCHANGED <<leader, term, applied, answers, votes, rep, events, timerVars, ballots>>

Propose(n) ==
    /\ Aggregated(n)
    /\ IsLeader(n)
    /\ Commit(UpdateTask(loop[n].task, FirstProposal(n)))
    /\ Goto(n, Applying(loop[n].drops))

ProposeRefused(n) ==
    /\ Aggregated(n)
    /\ ~IsLeader(n)
    /\ Goto(n, Idle)
    /\ UNCHANGED log

AggregateFails(n) ==
    /\ loop[n].at = "aggregating"
    /\ IF loop[n].drops THEN DropLeader(n) ELSE KeepsLeading
    /\ Goto(n, Idle)
    /\ UNCHANGED <<log, replicaVars, timerVars, ballots>>

(***************************************************************************)
(* Raft.Apply returns: with success once this replica has applied the      *)
(* entry, or with an error if leadership changed meanwhile (the entry is   *)
(* committed all the same).                                                *)
(***************************************************************************)
AppliedHere(n) == applied[n] >= loop[n].index
LeadershipLost(n) == term # loop[n].term

ApplyReturns(n) ==
    /\ loop[n].at = "applying"
    /\ AppliedHere(n)
    /\ Goto(n, Idle)
    /\ UNCHANGED <<raftVars, replicaVars, timerVars, ballots>>

ApplyFails(n) ==
    /\ loop[n].at = "applying"
    /\ LeadershipLost(n)
    /\ IF loop[n].drops THEN DropLeader(n) ELSE KeepsLeading
    /\ Goto(n, Idle)
    /\ UNCHANGED <<log, replicaVars, timerVars, ballots>>

(***************************************************************************)
(* TaskUpdated: what is done depends on the record as it is now, which may *)
(* already be newer than the update that caused the event.                 *)
(***************************************************************************)
CompleteTask(n) ==
    /\ Handle(n, "TaskUpdated")
    /\ Live(n).status \in Final
    /\ StopTimer(n, Subject(n))
    /\ UNCHANGED <<raftVars, store, loop, timerCh, ballots, fires>>

OpenBallot(n) ==
    /\ Handle(n, "TaskUpdated")
    /\ Live(n).status = "proposal"
    /\ ballots' = ballots (+) SetToBag({[agent |-> n, task |-> Subject(n),
                               round |-> Live(n).round, text |-> Live(n).result]})
    /\ UNCHANGED <<raftVars, store, loop, timerVars>>

(* runVotePhase: the vote reaches the log, through the leader, or is lost.  *)
EndBallot(b) == BagIn(b, ballots) /\ ballots' = ballots (-) SetToBag({b})

CastVote(b, accepted) ==
    /\ EndBallot(b)
    /\ Commit(SubmitVote([task |-> b.task, round |-> b.round, agent |-> b.agent,
                          accepted |-> accepted, text |-> b.text]))
    /\ UNCHANGED <<leader, term, replicaVars, loop, timerVars>>

LoseVote(b) ==
    /\ EndBallot(b)
    /\ UNCHANGED <<raftVars, replicaVars, loop, timerVars>>

(***************************************************************************)
(* VoteSubmitted and runFinalizeTask.                                      *)
(***************************************************************************)
LiveVerdict(n) == Verdict(votes[n], Subject(n), Live(n).round)
LiveVoters(n) == Voters(votes[n], Subject(n), Live(n).round)

Decidable(n) == IsLeader(n) /\ Live(n).status \notin Final \cup {"absent"}

IgnoreVote(n) ==
    /\ Handle(n, "VoteSubmitted")
    /\ ~Decidable(n)
    /\ UNCHANGED <<raftVars, store, engineVars>>

(* Variant: a finished task is counted again. *)
CountVotesAnyStatus(n) == Handle(n, "VoteSubmitted") /\ IsLeader(n)

CountVotes(n) ==
    /\ Handle(n, "VoteSubmitted")
    /\ Decidable(n)

AwaitVotes(n) ==
    /\ CountVotes(n)
    /\ LiveVerdict(n) = "wait"
    /\ UNCHANGED <<raftVars, store, engineVars>>

StartRevision(n) ==
    /\ CountVotes(n)
    /\ LiveVerdict(n) = "revise"
    /\ Goto(n, Revising(Subject(n), LiveVoters(n)))
    /\ UNCHANGED <<raftVars, store, timerVars, ballots>>

(***************************************************************************)
(* Revise returned: the record is read again, now, to build the next       *)
(* round.  The copy shares its Proposals map with the record.              *)
(***************************************************************************)
WithProposal(ps, r, text) == {p \in ps : p[1] # r} \cup {<<r, text>>}

NextProposal(s, author) ==
    LET r == s.round + 1
    IN  [status |-> "proposal", round |-> r, result |-> <<author, r>>,
         proposals |-> WithProposal(s.proposals, r, <<author, r>>)]

Revised(n) ==
    LET t == loop[n].task
        s == task[n][t]
    IN  /\ loop[n].at = "revising"
        /\ task' = IF s.proposals = {} THEN task
                   ELSE [task EXCEPT ![n][t] =
                           [s EXCEPT !.proposals = NextProposal(s, n).proposals]]
        /\ UNCHANGED <<leader, term, applied, answers, votes, rep, events, timerVars, ballots>>

Revise(n) ==
    /\ Revised(n)
    /\ IsLeader(n)
    /\ Commit(UpdateTask(loop[n].task, NextProposal(task[n][loop[n].task], n)))
    /\ Goto(n, Applying(FALSE))

ReviseRefused(n) ==
    /\ Revised(n)
    /\ ~IsLeader(n)
    /\ Goto(n, Idle)
    /\ UNCHANGED log

(* Revise failed: the task fails, if this node still leads.  *)
ReviseFails(n) ==
    /\ loop[n].at = "revising"
    /\ IsLeader(n)
    /\ Commit(UpdateTask(loop[n].task, [task[n][loop[n].task] EXCEPT !.status = "failed"]))
    /\ Goto(n, Finalizing("failed", loop[n].voters))
    /\ UNCHANGED <<leader, term, replicaVars, timerVars, ballots>>

ReviseFailureRefused(n) ==
    /\ loop[n].at = "revising"
    /\ ~IsLeader(n)
    /\ Goto(n, Idle)
    /\ UNCHANGED <<raftVars, replicaVars, timerVars, ballots>>

(***************************************************************************)
(* A final verdict.  The fallback rewrites round and result of the shared  *)
(* record before Raft is asked.                                            *)
(***************************************************************************)
ProposalOf(s, r) ==
    IF \E p \in s.proposals : p[1] = r
    THEN (CHOOSE p \in s.proposals : p[1] = r)[2]
    ELSE NoText

(* Variant: the round goes back, the text stays. *)
FallBackRoundOnly(s, r) == [s EXCEPT !.round = r]

FallBackTo(s, r) == [s EXCEPT !.round = r, !.result = ProposalOf(s, r)]

Settle(n, status, s) ==
    /\ Commit(UpdateTask(Subject(n), [s EXCEPT !.status = status]))
    /\ Goto(n, Finalizing(status, LiveVoters(n)))
    /\ UNCHANGED <<leader, term, applied, answers, votes, rep, timerVars, ballots>>

Finalize(n) ==
    /\ CountVotes(n)
    /\ LiveVerdict(n) \in Final
    /\ Settle(n, LiveVerdict(n), Live(n))
    /\ UNCHANGED task

FinalizeFallback(n) ==
    /\ CountVotes(n)
    /\ LiveVerdict(n) = "fallback"
    /\ LET s == FallBackTo(Live(n), BestRound(votes[n], Subject(n), Live(n).round))
       IN  /\ task' = [task EXCEPT ![n][Subject(n)] = s]
           /\ Settle(n, "done", s)

(***************************************************************************)
(* Leadership is lost between the test of IsLeader and Raft.Apply, which   *)
(* refuses the entry: the record keeps what the fallback wrote into it.    *)
(* (A refused Finalize has written nothing: it is Elect, then IgnoreVote.) *)
(***************************************************************************)
FinalizeFallbackRefused(n) ==
    /\ CountVotes(n)
    /\ LiveVerdict(n) = "fallback"
    /\ \E m \in Node \ {n} : LeaderMovesTo(m)
    /\ task' = [task EXCEPT ![n][Subject(n)] =
                   FallBackTo(Live(n), BestRound(votes[n], Subject(n), Live(n).round))]
    /\ UNCHANGED <<log, applied, answers, votes, rep, engineVars>>

FinalizeFails(n) ==
    /\ loop[n].at = "finalizing"
    /\ LeadershipLost(n)
    /\ Goto(n, Idle)
    /\ UNCHANGED <<raftVars, replicaVars, timerVars, ballots>>

(***************************************************************************)
(* Reputation updates: one blocking Raft.Apply each, whose failure is only *)
(* logged.  A node that no longer leads writes nothing and goes on.        *)
(***************************************************************************)
Rewarding(status, voters, index, t) ==
    [at |-> "rewarding", index |-> index, term |-> t, status |-> status, voters |-> voters]

Reward(n, agent, value, due) ==
    /\ IF IsLeader(n)
       THEN /\ Commit(UpdateReputation(agent, value))
            /\ Goto(n, Rewarding(loop[n].status, due, Len(log) + 1, term))
       ELSE /\ Goto(n, Rewarding(loop[n].status, due, loop[n].index, loop[n].term))
            /\ UNCHANGED log
    /\ UNCHANGED <<leader, term, replicaVars, timerVars, ballots>>

(* Variant: a leader that voted is not skipped among the voters. *)
RewardLeaderTwice(n) ==
    /\ loop[n].at = "finalizing"
    /\ AppliedHere(n)
    /\ Reward(n, n, LeaderReward(loop[n].status, Reputation(n, n)), loop[n].voters)

RewardLeader(n) ==
    /\ loop[n].at = "finalizing"
    /\ AppliedHere(n)
    /\ Reward(n, n, LeaderReward(loop[n].status, Reputation(n, n)),
              {b \in loop[n].voters : b[1] # n})

CallReturned(n) == AppliedHere(n) \/ LeadershipLost(n)

RewardVoter(n) ==
    /\ loop[n].at = "rewarding"
    /\ CallReturned(n)
    /\ \E b \in loop[n].voters :
          Reward(n, b[1], VoterReward(loop[n].status, b[2], Reputation(n, b[1])),
                 loop[n].voters \ {b})

(* checkForLeadershipTransfer: only stored reputations, strictly higher.  *)
Better(n) == {a \in Node : rep[n][a] > Reputation(n, n)}
Best(n) == {a \in Better(n) : \A b \in Better(n) : rep[n][a] >= rep[n][b]}

TransferLeadership(n) ==
    \/ KeepsLeading
    \/ IsLeader(n) /\ \E m \in Best(n) : LeaderMovesTo(m)

CheckTransfer(n) ==
    /\ loop[n].at = "rewarding"
    /\ CallReturned(n)
    /\ loop[n].voters = {}
    /\ TransferLeadership(n)
    /\ Goto(n, Idle)
    /\ UNCHANGED <<log, replicaVars, timerVars, ballots>>

(***************************************************************************)
(* handleTaskTimeout.  The status is looked at only to try a proposal with *)
(* a quorum of answers; every other task is failed, whatever its status.   *)
(***************************************************************************)
Expire(n, t) ==
    /\ loop[n] = Idle
    /\ timerCh[n] # <<>>
    /\ t = Head(timerCh[n])
    /\ timerCh' = [timerCh EXCEPT ![n] = Tail(@)]

(* Variant: a task that has a proposal already gets its first one again. *)
CanForceAnyStatus(n, t) == IsLeader(n) /\ answers[n][t] >= Quorum

CanForce(n, t) ==
    task[n][t].status = "admitted" /\ IsLeader(n) /\ answers[n][t] >= Quorum

(* Variant: the vote timer is not started. *)
ForceProposalUntimed(n, t) ==
    /\ Expire(n, t)
    /\ CanForce(n, t)
    /\ timers' = [timers EXCEPT ![n][t] = Forget(@)]
    /\ Goto(n, Aggregating(t, FALSE))
    /\ UNCHANGED <<raftVars, replicaVars, ballots, fires>>

ForceProposal(n, t) ==
    /\ Expire(n, t)
    /\ CanForce(n, t)
    /\ timers' = [timers EXCEPT ![n][t] = Armed(Forget(@), TRUE)]
    /\ Goto(n, Aggregating(t, FALSE))
    /\ UNCHANGED <<raftVars, replicaVars, ballots, fires>>

TimedOutTask == [status |-> "failed", round |-> 0, result |-> TimedOut, proposals |-> {}]

FailTask(n, t) ==
    /\ Expire(n, t)
    /\ ~CanForce(n, t)
    /\ IsLeader(n)
    /\ timers' = [timers EXCEPT ![n][t] = Forget(@)]
    /\ Commit(UpdateTask(t, TimedOutTask))
    /\ Goto(n, Applying(FALSE))
    /\ UNCHANGED <<leader, term, replicaVars, ballots, fires>>

FailTaskRefused(n, t) ==
    /\ Expire(n, t)
    /\ ~IsLeader(n)
    /\ timers' = [timers EXCEPT ![n][t] = Forget(@)]
    /\ UNCHANGED <<raftVars, replicaVars, loop, ballots, fires>>

(***************************************************************************)
(* A Raft election moves leadership to any node, at any moment.            *)
(***************************************************************************)
Elect(m) ==
    /\ LeaderMovesTo(m)
    /\ UNCHANGED <<log, replicaVars, engineVars>>

Replicate(n) == ApplyCommand(n) /\ UNCHANGED engineVars

HandleEvent(n) ==
    \/ HandleTaskAdmitted(n)
    \/ IgnoreAnswer(n) \/ LateAnswer(n) \/ AwaitAnswers(n) \/ StartProposal(n)
    \/ CompleteTask(n) \/ OpenBallot(n)
    \/ IgnoreVote(n) \/ AwaitVotes(n) \/ StartRevision(n)
    \/ Finalize(n) \/ FinalizeFallback(n) \/ FinalizeFallbackRefused(n)

HandleTimeout(n) ==
    \E t \in Task : ForceProposal(n, t) \/ FailTask(n, t) \/ FailTaskRefused(n, t)

CallSucceeds(n) ==
    \/ Brainstorm(n)
    \/ Propose(n) \/ ProposeRefused(n)
    \/ Revise(n) \/ ReviseRefused(n)

CallFails(n) ==
    \/ BrainstormFails(n)
    \/ AggregateFails(n)
    \/ ReviseFails(n) \/ ReviseFailureRefused(n)

FinishCall(n) ==
    \/ ApplyReturns(n) \/ ApplyFails(n)
    \/ FinalizeFails(n)
    \/ RewardLeader(n) \/ RewardVoter(n) \/ CheckTransfer(n)

Fire(n) == \E t \in Task : TimerFires(n, t) \/ OrphanFires(n, t)

VoteOf(n) ==
    \E b \in BagToSet(ballots) : b.agent = n /\ ((\E ok \in BOOLEAN : CastVote(b, ok)) \/ LoseVote(b))

Step(n) ==
    \/ Replicate(n)
    \/ HandleEvent(n) \/ HandleTimeout(n)
    \/ CallSucceeds(n) \/ CallFails(n) \/ FinishCall(n)
    \/ Fire(n)
    \/ VoteOf(n)
    \/ Elect(n)

Next ==
    \/ \E t \in Task : SubmitTask(t)
    \/ \E n \in Node : Step(n)

Spec == Init /\ [][Next]_vars
=============================================================================
