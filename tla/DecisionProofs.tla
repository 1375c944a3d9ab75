--------------------------- MODULE DecisionProofs ---------------------------
(***************************************************************************)
(* The two safety properties that every other guarantee about decisions    *)
(* rests on: replicas never disagree about votes, and a task is only done  *)
(* for a round that a majority accepted.  Both hold through any number of  *)
(* elections, for any cluster and any replication lag.                     *)
(*                                                                         *)
(* Neither is inductive.  What makes them so is VotesApplied: the votes a  *)
(* replica holds are exactly the standing votes of the prefix of the log   *)
(* it has applied.                                                         *)
(***************************************************************************)
EXTENDS EngineProofs

IInv == TypeOK /\ VotesApplied /\ DoneHasQuorum

-----------------------------------------------------------------------------
(***************************************************************************)
(* The standing votes of a prefix of the log.                              *)
(***************************************************************************)

(* Entries already in the log are not affected by a commit.  *)
LEMMA EntriesStable ==
    ASSUME TypeOK, NEW c, log' = Append(log, c), NEW type
    PROVE  /\ Len(log') = Len(log) + 1
           /\ \A i \in 1 .. Len(log) : log'[i] = log[i]
           /\ log'[Len(log) + 1] = c
           /\ Entries(type) = {i \in Entries(type)' : i <= Len(log)}
  BY DEF TypeOK, FSMTypeOK, Entries

(* The votes among the entries after b, up to k, and the first of each ballot. *)
Window(b, k) == {i \in Entries("SubmitVote") : b < i /\ i <= k}
FirstIn(b, k, j) == \A m \in Window(b, k) : m < j => ~SameBallot(log[m].vote, log[j].vote)
FirstVotes(b, k) == {log[i].vote : i \in {j \in Window(b, k) : FirstIn(b, k, j)}}

LEMMA StandingAreFirst ==
    ASSUME TypeOK, NEW k \in Nat
    PROVE  StandingVotes(k) = FirstVotes(0, k)
  <1> DEFINE E == Entries("SubmitVote")
  <1>1. E \in SUBSET Nat /\ \A i \in E : 0 < i
    <2>1. Len(log) \in Nat
      BY DEF TypeOK, FSMTypeOK
    <2> QED
      BY <2>1 DEF Entries
  <1>2. Window(0, k) = {j \in E : j <= k}
    BY <1>1 DEF Window
  <1>3. ASSUME NEW j \in E, j <= k
        PROVE  FirstVote(j) <=> FirstIn(0, k, j)
    <2>1. \A m \in E : m < j => m <= k
      BY <1>1, <1>3
    <2> QED
      BY <1>2, <2>1 DEF FirstVote, FirstIn
  <1> HIDE DEF E
  <1>4. {j \in E : j <= k /\ FirstVote(j)} = {j \in Window(0, k) : FirstIn(0, k, j)}
    BY <1>2, <1>3
  <1> QED
    BY <1>4 DEF StandingVotes, FirstVotes, E

(* A commit does not change what was first among earlier entries. *)
LEMMA FirstStable ==
    ASSUME TypeOK, NEW c, log' = Append(log, c), NEW b \in Nat, NEW k \in Nat, k <= Len(log)
    PROVE  FirstVotes(b, k)' = FirstVotes(b, k)
  <1> DEFINE W == Window(b, k)
             WN == Window(b, k)'
  <1>1. WN = W /\ \A i \in W : log'[i] = log[i]
    <2>1. /\ Len(log) \in Nat /\ \A i \in 1 .. Len(log) : log'[i] = log[i]
          /\ Entries("SubmitVote") = {i \in Entries("SubmitVote")' : i <= Len(log)}
      BY EntriesStable DEF TypeOK, FSMTypeOK
    <2>2. Entries("SubmitVote")' \in SUBSET Nat /\ Entries("SubmitVote") \in SUBSET (1 .. Len(log))
      BY DEF Entries
    <2> QED
      BY <2>1, <2>2 DEF Window
  <1> DEFINE F == {j \in W : FirstIn(b, k, j)}
             FN == {j \in WN : FirstIn(b, k, j)'}
  <1>2. FirstVotes(b, k)' = {log'[i].vote : i \in FN} /\ FirstVotes(b, k) = {log[i].vote : i \in F}
    BY DEF FirstVotes
  <1> HIDE DEF W, WN
  <1>3. \A j \in W : FirstIn(b, k, j)' <=> FirstIn(b, k, j)
    BY <1>1 DEF FirstIn, W, WN, SameBallot
  <1>4. FN = F /\ F \in SUBSET W
    BY <1>1, <1>3
  <1> HIDE DEF F, FN
  <1>5. \A i \in F : log'[i].vote = log[i].vote
    BY <1>1, <1>4
  <1> QED
    BY <1>2, <1>4, <1>5

(* A commit does not change which votes stand in an earlier prefix. *)
LEMMA StandingStable ==
    ASSUME TypeOK, NEW c, log' = Append(log, c), NEW k \in Nat, k <= Len(log)
    PROVE  StandingVotes(k)' = StandingVotes(k)
  <1> DEFINE E == Entries("SubmitVote")
             EN == Entries("SubmitVote")'
  <1>0. Len(log) \in Nat
    BY DEF TypeOK, FSMTypeOK
  <1>1. /\ \A i \in 1 .. Len(log) : log'[i] = log[i]
        /\ E = {i \in EN : i <= Len(log)}
        /\ E \in SUBSET (1 .. Len(log)) /\ EN \in SUBSET Nat
    <2>1. E \in SUBSET (1 .. Len(log)) /\ EN \in SUBSET Nat
      BY DEF Entries
    <2> QED
      BY <2>1, EntriesStable
  <1>2. ASSUME NEW i \in E
        PROVE  FirstVote(i)' <=> FirstVote(i)
    <2>1. /\ i \in 1 .. Len(log)
          /\ \A j \in EN : j < i => j \in E
      BY <1>0, <1>1
    <2> HIDE DEF E, EN
    <2>2. FirstVote(i)' <=> \A j \in EN : j < i => ~SameBallot(log'[j].vote, log'[i].vote)
      BY DEF FirstVote, EN, SameBallot
    <2>3. FirstVote(i) <=> \A j \in E : j < i => ~SameBallot(log[j].vote, log[i].vote)
      BY DEF FirstVote, E
    <2>4. \A j \in E : j \in EN /\ log'[j] = log[j]
      BY <1>1
    <2>5. log'[i] = log[i]
      BY <1>1, <2>1
    <2> QED
      BY <2>1, <2>2, <2>3, <2>4, <2>5
  <1>3. {j \in EN : j <= k /\ FirstVote(j)'} = {j \in E : j <= k /\ FirstVote(j)}
    <2>1. \A j \in EN : j <= k => j \in E
      BY <1>0, <1>1
    <2>2. \A j \in E : j \in EN
      BY <1>1
    <2> HIDE DEF E, EN
    <2> QED
      BY <1>2, <2>1, <2>2
  <1>4. \A j \in E : log'[j].vote = log[j].vote
    BY <1>1
  <1>5. StandingVotes(k)' = {log'[i].vote : i \in {j \in EN : j <= k /\ FirstVote(j)'}}
    BY DEF StandingVotes
  <1>6. StandingVotes(k) = {log[i].vote : i \in {j \in E : j <= k /\ FirstVote(j)}}
    BY DEF StandingVotes
  <1> HIDE DEF E, EN
  <1> QED
    BY <1>3, <1>4, <1>5, <1>6

(* Votes that stand in a prefix stand in every longer one. *)
LEMMA StandingMonotone ==
    ASSUME NEW k \in Nat, NEW m \in Nat, k <= m
    PROVE  StandingVotes(k) \subseteq StandingVotes(m)
  BY DEF StandingVotes, Entries

(* Standing votes can be counted. *)
LEMMA StandingTyped ==
    ASSUME TypeOK, NEW k \in Nat
    PROVE  Agents(StandingVotes(k))
  <1> SUFFICES ASSUME NEW v \in StandingVotes(k)
               PROVE  v.agent \in Node /\ v.accepted \in BOOLEAN
    BY DEF Agents
  <1>1. PICK i \in Entries("SubmitVote") : v = log[i].vote
    BY DEF StandingVotes
  <1>2. log[i] \in Command /\ log[i].type = "SubmitVote"
    BY <1>1 DEF Entries, TypeOK, FSMTypeOK
  <1>3. v \in Vote
    BY <1>1, <1>2, CommandFields
  <1> QED
    BY <1>3 DEF Vote

(* The next entry adds its vote unless the ballot is taken already. *)
LEMMA FirstNext ==
    ASSUME TypeOK, NEW b \in Nat, NEW k \in Nat, b <= k, k < Len(log)
    PROVE  /\ log[k + 1].type # "SubmitVote" => FirstVotes(b, k + 1) = FirstVotes(b, k)
           /\ log[k + 1].type = "SubmitVote" =>
                FirstVotes(b, k + 1) =
                    IF \E w \in FirstVotes(b, k) : SameBallot(log[k + 1].vote, w)
                    THEN FirstVotes(b, k)
                    ELSE FirstVotes(b, k) \cup {log[k + 1].vote}
  <1> DEFINE E == Entries("SubmitVote")
             W == Window(b, k)
             F(m) == {j \in Window(b, m) : FirstIn(b, m, j)}
             v == log[k + 1].vote
  <1>1. E \in SUBSET Nat /\ (k + 1 \in E <=> log[k + 1].type = "SubmitVote")
    <2>1. Len(log) \in Nat
      BY DEF TypeOK, FSMTypeOK
    <2> QED
      BY <2>1 DEF Entries
  <1>2. \A m : FirstVotes(b, m) = {log[i].vote : i \in F(m)}
    BY DEF FirstVotes
  <1>3. /\ W \in SUBSET E /\ \A j \in W : j \in Nat /\ j <= k
        /\ Window(b, k + 1) = IF k + 1 \in E THEN W \cup {k + 1} ELSE W
    <2>1. \A j \in E : j <= k + 1 <=> (j <= k \/ j = k + 1)
      BY <1>1
    <2> QED
      BY <1>1, <2>1 DEF Window
  <1>4. ASSUME NEW j \in W
        PROVE  FirstIn(b, k + 1, j) <=> FirstIn(b, k, j)
    <2>1. ~(k + 1 < j)
      BY <1>3
    <2> QED
      BY <1>3, <2>1 DEF FirstIn
  <1> HIDE DEF E, W
  <1>5. ASSUME log[k + 1].type # "SubmitVote"
        PROVE  FirstVotes(b, k + 1) = FirstVotes(b, k)
    <2>1. F(k + 1) = F(k)
      BY <1>1, <1>3, <1>4, <1>5 DEF W
    <2> HIDE DEF F
    <2> QED
      BY <1>2, <1>5, <2>1
  <1>6. ASSUME log[k + 1].type = "SubmitVote"
        PROVE  FirstVotes(b, k + 1) = IF \E w \in FirstVotes(b, k) : SameBallot(v, w)
                                      THEN FirstVotes(b, k) ELSE FirstVotes(b, k) \cup {v}
    <2>1. FirstIn(b, k + 1, k + 1) <=> ~ \E w \in FirstVotes(b, k) : SameBallot(v, w)
      <3>1. ASSUME NEW w \in FirstVotes(b, k), SameBallot(v, w)
            PROVE  ~FirstIn(b, k + 1, k + 1)
        <4>1. PICK i \in F(k) : w = log[i].vote
          BY <1>2
        <4>2. i \in W /\ i < k + 1 /\ SameBallot(log[i].vote, v)
          BY <1>3, <3>1, <4>1 DEF SameBallot, W
        <4> QED
          BY <1>1, <1>3, <1>6, <4>2 DEF FirstIn
      <3>2. ASSUME ~FirstIn(b, k + 1, k + 1)
            PROVE  \E w \in FirstVotes(b, k) : SameBallot(v, w)
        <4> DEFINE T == {j \in W : SameBallot(log[j].vote, v)}
        <4>1. T # {} /\ T \in SUBSET Nat
          BY <1>1, <1>3, <1>6, <3>2 DEF FirstIn
        <4>2. PICK i \in T : \A j \in T : i <= j
          BY <4>1, Smallest
        <4>3. i \in W /\ SameBallot(log[i].vote, v)
          BY <4>2
        <4>4. FirstIn(b, k, i)
          <5> SUFFICES ASSUME NEW j \in W, j < i, SameBallot(log[j].vote, log[i].vote)
                       PROVE  FALSE
            BY DEF FirstIn, W
          <5>1. j \in T
            BY <4>3 DEF SameBallot
          <5> QED
            BY <1>3, <4>2, <4>3, <5>1
        <4>5. log[i].vote \in FirstVotes(b, k)
          BY <1>2, <4>3, <4>4 DEF W
        <4> QED
          BY <4>3, <4>5 DEF SameBallot
      <3> QED
        BY <3>1, <3>2
    <2>2. F(k + 1) = IF FirstIn(b, k + 1, k + 1) THEN F(k) \cup {k + 1} ELSE F(k)
      BY <1>1, <1>3, <1>4, <1>6 DEF W
    <2> HIDE DEF F
    <2>3. ASSUME FirstIn(b, k + 1, k + 1)
          PROVE  FirstVotes(b, k + 1) = FirstVotes(b, k) \cup {v}
      BY <1>2, <2>2, <2>3
    <2>4. ASSUME ~FirstIn(b, k + 1, k + 1)
          PROVE  FirstVotes(b, k + 1) = FirstVotes(b, k)
      BY <1>2, <2>2, <2>4
    <2> QED
      BY <2>1, <2>3, <2>4
  <1> QED
    BY <1>5, <1>6

LEMMA StandingNext ==
    ASSUME TypeOK, NEW k \in Nat, k < Len(log)
    PROVE  /\ log[k + 1].type # "SubmitVote" => StandingVotes(k + 1) = StandingVotes(k)
           /\ log[k + 1].type = "SubmitVote" =>
                StandingVotes(k + 1) =
                    IF \E w \in StandingVotes(k) : SameBallot(log[k + 1].vote, w)
                    THEN StandingVotes(k)
                    ELSE StandingVotes(k) \cup {log[k + 1].vote}
  <1>1. StandingVotes(k + 1) = FirstVotes(0, k + 1) /\ StandingVotes(k) = FirstVotes(0, k)
    BY StandingAreFirst
  <1>2. 0 \in Nat /\ 0 <= k
    OBVIOUS
  <1> QED
    BY <1>1, <1>2, FirstNext

-----------------------------------------------------------------------------
(***************************************************************************)
(* What a step that is not a replica applying a command does to the log:   *)
(* nothing, or it appends one command, and a command that declares a task  *)
(* done is backed by the votes of the replica that wrote it.               *)
(***************************************************************************)
Backed(c) ==
    c.type = "UpdateTask" /\ c.state.status = "done" =>
        \E n \in Node : Accepted(votes[n], c.task, c.state.round) >= Quorum

LogStep ==
    /\ UNCHANGED <<applied, votes>>
    /\ \/ UNCHANGED log
       \/ \E c : log' = Append(log, c) /\ Backed(c)

(* Finalize and FinalizeFallback are the steps that declare a task done.  *)
LEMMA DecisionBacked ==
    ASSUME TypeOK, NEW n \in Node, Finalize(n) \/ FinalizeFallback(n)
    PROVE  LogStep
  <1> DEFINE t == Subject(n)
             s == Live(n)
             r == BestRound(votes[n], t, s.round)
  <1>1. Handle(n, "VoteSubmitted")
    BY DEF Finalize, FinalizeFallback, CountVotes
  <1>2. s \in TaskState /\ s.round \in Nat /\ Agents(votes[n])
    BY <1>1, HandleTyped, ReplicaVotesCount DEF TaskState
  <1>3. ASSUME NEW status \in Final, NEW w \in TaskState, Settle(n, status, w),
               status = "done" => Accepted(votes[n], t, w.round) >= Quorum
        PROVE  LogStep
    <2> DEFINE c == UpdateTask(t, [w EXCEPT !.status = status])
    <2>1. c.task = t /\ c.state.round = w.round /\ c.state.status = status
      BY DEF UpdateTask, TaskState
    <2>2. log' = Append(log, c) /\ UNCHANGED <<applied, votes>>
      BY <1>3 DEF Settle, Commit
    <2>3. Backed(c)
      BY <1>3, <2>1 DEF Backed
    <2> QED
      BY <2>2, <2>3 DEF LogStep
  <1>4. CASE Finalize(n)
    <2>1. LiveVerdict(n) \in Final /\ Settle(n, LiveVerdict(n), s)
      BY <1>4 DEF Finalize
    <2>2. LiveVerdict(n) = "done" => Accepted(votes[n], t, s.round) >= Quorum
      BY <1>2, DoneVerdictHasQuorum DEF LiveVerdict
    <2> QED
      BY <1>2, <1>3, <2>1, <2>2
  <1>5. CASE FinalizeFallback(n)
    <2>1. r \in Nat /\ Accepted(votes[n], t, r) >= Quorum
      <3>1. Candidates(votes[n], t, s.round) # {}
        BY <1>2, <1>5, DoneVerdictHasQuorum DEF FinalizeFallback, LiveVerdict
      <3> QED
        BY <1>2, <3>1, BestRoundExists
    <2>2. FallBackTo(s, r) \in TaskState
      BY <1>2, <2>1, RecordsTyped
    <2>3. FallBackTo(s, r).round = r
      BY <1>2 DEF FallBackTo, TaskState
    <2>4. Settle(n, "done", FallBackTo(s, r))
      BY <1>5 DEF FinalizeFallback
    <2> QED
      BY <1>3, <2>1, <2>2, <2>3, <2>4 DEF Final
  <1> QED
    BY <1>4, <1>5

(* A step that commits nothing. *)
LEMMA QuietStep ==
    ASSUME UNCHANGED <<log, applied, votes>>
    PROVE  LogStep
  BY DEF LogStep

(* A step that commits something other than a done task. *)
LEMMA UndecidedStep ==
    ASSUME NEW c, Commit(c), UNCHANGED <<applied, votes>>,
           c.type = "UpdateTask" => c.state.status # "done"
    PROVE  LogStep
  BY DEF LogStep, Backed, Commit

LEMMA EventLogStep ==
    ASSUME TypeOK, NEW n \in Node, HandleEvent(n) \/ HandleTimeout(n)
    PROVE  LogStep
  <1>1. CASE HandleTaskAdmitted(n)
    BY <1>1, QuietStep DEF HandleTaskAdmitted, raftVars, store
  <1>2. CASE IgnoreAnswer(n) \/ LateAnswer(n) \/ AwaitAnswers(n) \/ StartProposal(n)
    BY <1>2, QuietStep
    DEF IgnoreAnswer, LateAnswer, AwaitAnswers, StartProposal, raftVars, store
  <1>3. CASE CompleteTask(n) \/ OpenBallot(n)
    BY <1>3, QuietStep DEF CompleteTask, OpenBallot, raftVars, store
  <1>4. CASE IgnoreVote(n) \/ AwaitVotes(n) \/ StartRevision(n)
    BY <1>4, QuietStep DEF IgnoreVote, AwaitVotes, StartRevision, raftVars, store
  <1>5. CASE Finalize(n) \/ FinalizeFallback(n)
    BY <1>5, DecisionBacked
  <1>8. CASE FinalizeFallbackRefused(n)
    BY <1>8, QuietStep DEF FinalizeFallbackRefused
  <1>6. ASSUME NEW t \in Task, ForceProposal(n, t) \/ FailTaskRefused(n, t)
        PROVE  LogStep
    BY <1>6, QuietStep DEF ForceProposal, FailTaskRefused, raftVars, replicaVars, store
  <1>7. ASSUME NEW t \in Task, FailTask(n, t)
        PROVE  LogStep
    <2>1. UpdateTask(t, TimedOutTask).state.status # "done"
      BY DEF UpdateTask, TimedOutTask
    <2> QED
      BY <1>7, <2>1, UndecidedStep DEF FailTask, replicaVars, store
  <1> QED
    BY <1>1, <1>2, <1>3, <1>4, <1>5, <1>6, <1>7, <1>8 DEF HandleEvent, HandleTimeout

LEMMA CallLogStep ==
    ASSUME TypeOK, NEW n \in Node, CallSucceeds(n) \/ CallFails(n)
    PROVE  LogStep
  <1> DEFINE t == loop[n].task
  <1>1. CASE Brainstorm(n)
    <2>1. SubmitAnswer(t, n).type # "UpdateTask"
      BY DEF SubmitAnswer
    <2> QED
      BY <1>1, <2>1, UndecidedStep DEF Brainstorm, replicaVars, store
  <1>2. CASE Propose(n)
    <2>1. UpdateTask(t, FirstProposal(n)).state.status # "done"
      BY DEF UpdateTask, FirstProposal
    <2> QED
      BY <1>2, <2>1, UndecidedStep DEF Propose, Aggregated
  <1>3. CASE Revise(n)
    <2>1. UpdateTask(t, NextProposal(task[n][t], n)).state.status # "done"
      BY DEF UpdateTask, NextProposal
    <2> QED
      BY <1>3, <2>1, UndecidedStep DEF Revise, Revised
  <1>4. CASE ReviseFails(n)
    <2>1. task[n][t] \in TaskState
      BY <1>4, LoopFields DEF ReviseFails, TypeOK, FSMTypeOK, EngineTypeOK
    <2>2. UpdateTask(t, [task[n][t] EXCEPT !.status = "failed"]).state.status # "done"
      BY <2>1 DEF UpdateTask, TaskState
    <2> QED
      BY <1>4, <2>2, UndecidedStep DEF ReviseFails, replicaVars, store
  <1>5. CASE ProposeRefused(n) \/ ReviseRefused(n)
    BY <1>5, QuietStep DEF ProposeRefused, Aggregated, ReviseRefused, Revised
  <1>6. CASE BrainstormFails(n) \/ AggregateFails(n) \/ ReviseFailureRefused(n)
    BY <1>6, QuietStep
    DEF BrainstormFails, AggregateFails, ReviseFailureRefused, raftVars, replicaVars, store
  <1> QED
    BY <1>1, <1>2, <1>3, <1>4, <1>5, <1>6 DEF CallSucceeds, CallFails

LEMMA RewardLogStep ==
    ASSUME NEW n, NEW a, NEW x, NEW due, Reward(n, a, x, due)
    PROVE  LogStep
  <1>1. UpdateReputation(a, x).type # "UpdateTask"
    BY DEF UpdateReputation
  <1> QED
    BY <1>1, UndecidedStep, QuietStep DEF Reward, replicaVars, store

LEMMA FinishLogStep ==
    ASSUME NEW n \in Node, FinishCall(n)
    PROVE  LogStep
  <1>1. CASE ApplyReturns(n) \/ ApplyFails(n) \/ FinalizeFails(n) \/ CheckTransfer(n)
    BY <1>1, QuietStep
    DEF ApplyReturns, ApplyFails, FinalizeFails, CheckTransfer, raftVars, replicaVars, store
  <1>2. CASE RewardLeader(n) \/ RewardVoter(n)
    BY <1>2, RewardLogStep DEF RewardLeader, RewardVoter
  <1> QED
    BY <1>1, <1>2 DEF FinishCall

LEMMA BallotLogStep ==
    ASSUME NEW n \in Node, VoteOf(n)
    PROVE  LogStep
  <1>1. ASSUME NEW b, NEW ok, CastVote(b, ok)
        PROVE  LogStep
    <2> DEFINE v == [task |-> b.task, round |-> b.round, agent |-> b.agent,
                     accepted |-> ok, text |-> b.text]
    <2>1. SubmitVote(v).type # "UpdateTask"
      BY DEF SubmitVote
    <2> QED
      BY <1>1, <2>1, UndecidedStep DEF CastVote, replicaVars, store
  <1>2. ASSUME NEW b, LoseVote(b)
        PROVE  LogStep
    BY <1>2, QuietStep DEF LoseVote, raftVars, replicaVars, store
  <1> QED
    BY <1>1, <1>2 DEF VoteOf

LEMMA NextLogStep ==
    ASSUME TypeOK, [Next]_vars
    PROVE  LogStep \/ \E n \in Node : Replicate(n)
  <1>1. ASSUME NEW t \in Task, SubmitTask(t)
        PROVE  LogStep
    <2>1. AdmitTask(t).type # "UpdateTask"
      BY DEF AdmitTask
    <2> QED
      BY <1>1, <2>1, UndecidedStep DEF SubmitTask, replicaVars, store
  <1>2. ASSUME NEW n \in Node, Step(n)
        PROVE  LogStep \/ Replicate(n)
    <2>1. CASE Fire(n) \/ Elect(n)
      BY <2>1, QuietStep
      DEF Fire, TimerFires, OrphanFires, Elect, raftVars, replicaVars, store
    <2> QED
      BY <1>2, <2>1, EventLogStep, CallLogStep, FinishLogStep, BallotLogStep DEF Step
  <1>3. CASE UNCHANGED vars
    BY <1>3, QuietStep DEF vars, raftVars, replicaVars, store
  <1> QED
    BY <1>1, <1>2, <1>3 DEF Next

-----------------------------------------------------------------------------
(***************************************************************************)
(* The inductive invariant.                                                *)
(***************************************************************************)
LEMMA InitDecision == Init => IInv
  <1> SUFFICES ASSUME Init
               PROVE  IInv
    OBVIOUS
  <1>1. log = <<>> /\ Len(log) = 0
    BY DEF Init, FSMInit
  <1>2. ASSUME NEW type
        PROVE  Entries(type) = {}
    BY <1>1 DEF Entries
  <1>3. VotesApplied
    BY <1>2 DEF VotesApplied, StandingVotes, Init, FSMInit
  <1>4. DoneHasQuorum
    BY <1>2 DEF DoneHasQuorum
  <1> QED
    BY <1>3, <1>4, InitTypeOK DEF IInv

(* A replica that applies a command keeps exactly the standing votes. *)
LEMMA ReplicaKeepsVotes ==
    ASSUME IInv, NEW n \in Node, Replicate(n)
    PROVE  UNCHANGED log /\ VotesApplied'
  <1> USE DEF IInv
  <1> DEFINE k == applied[n]
  <1>1. k \in Nat /\ Len(log) \in Nat
    BY DEF TypeOK, FSMTypeOK
  <1>2. /\ UNCHANGED log /\ k < Len(log)
        /\ applied' = [applied EXCEPT ![n] = k + 1]
    BY DEF Replicate, ApplyCommand, ApplyAdmitTask, ApplySubmitAnswer, ApplyUpdateTask,
           ApplySubmitVote, ApplyUpdateReputation, Take, raftVars
  <1>3. ASSUME NEW m \in Node
        PROVE  StandingVotes(applied[m])' = StandingVotes(applied'[m])
    BY <1>2 DEF StandingVotes, Entries, FirstVote
  <1>4. votes[n] = StandingVotes(k)
    BY DEF VotesApplied
  <1>5. votes' = [votes EXCEPT ![n] = StandingVotes(k + 1)]
    <2>1. votes \in [Node -> SUBSET Vote]
      BY DEF TypeOK, FSMTypeOK
    <2>2. CASE ApplySubmitVote(n)
      <3>1. log[k + 1].type = "SubmitVote"
        BY <2>2 DEF ApplySubmitVote, Take, NextCommand
      <3>2. votes' = IF \E w \in votes[n] : SameBallot(log[k + 1].vote, w) THEN votes
                     ELSE [votes EXCEPT ![n] = votes[n] \cup {log[k + 1].vote}]
        BY <2>2 DEF ApplySubmitVote, NextCommand
      <3> HIDE DEF k
      <3> QED
        BY <1>1, <1>2, <1>4, <2>1, <3>1, <3>2, StandingNext
    <2>3. CASE ~ApplySubmitVote(n)
      <3>1. log[k + 1].type # "SubmitVote" /\ votes' = votes
        BY <2>3 DEF Replicate, ApplyCommand, ApplyAdmitTask, ApplySubmitAnswer,
                    ApplyUpdateTask, ApplyUpdateReputation, Take, NextCommand
      <3> HIDE DEF k
      <3> QED
        BY <1>1, <1>2, <1>4, <2>1, <3>1, StandingNext
    <2> QED
      BY <2>2, <2>3
  <1>6. ASSUME NEW m \in Node
        PROVE  votes'[m] = StandingVotes(applied'[m])
    <2>1. /\ votes \in [Node -> SUBSET Vote] /\ applied \in [Node -> Nat]
      BY DEF TypeOK, FSMTypeOK
    <2>2. CASE m = n
      BY <1>1, <1>2, <1>3, <1>5, <2>1, <2>2
    <2>3. CASE m # n
      BY <1>1, <1>2, <1>3, <1>5, <2>1, <2>3 DEF VotesApplied
    <2> QED
      BY <2>2, <2>3
  <1> QED
    BY <1>2, <1>3, <1>6 DEF VotesApplied

LEMMA NextDecision == IInv /\ [Next]_vars => IInv'
  <1> SUFFICES ASSUME IInv, [Next]_vars
               PROVE  IInv'
    OBVIOUS
  <1> USE DEF IInv
  <1>1. TypeOK'
    BY NextTypeOK
  <1>2. ASSUME NEW n \in Node, Replicate(n)
        PROVE  VotesApplied' /\ DoneHasQuorum'
    BY <1>2, ReplicaKeepsVotes
    DEF DoneHasQuorum, StandingVotes, FirstVote, Entries
  <1>3. ASSUME LogStep, UNCHANGED log
        PROVE  VotesApplied' /\ DoneHasQuorum'
    BY <1>3 DEF LogStep, VotesApplied, DoneHasQuorum, StandingVotes, FirstVote, Entries
  <1>4. ASSUME NEW c, log' = Append(log, c), Backed(c), UNCHANGED <<applied, votes>>
        PROVE  VotesApplied' /\ DoneHasQuorum'
    <2>0. /\ Len(log) \in Nat
          /\ \A n \in Node : applied[n] \in Nat /\ applied[n] <= Len(log)
      BY DEF TypeOK, FSMTypeOK
    <2>1. VotesApplied'
      BY <1>4, <2>0, StandingStable DEF VotesApplied
    <2>2. ASSUME NEW i \in Entries("UpdateTask")', log'[i].state.status = "done"
          PROVE  Accepted(StandingVotes(i - 1)', log'[i].task, log'[i].state.round) >= Quorum
      <3>1. i \in 1 .. Len(log) + 1 /\ log'[i].type = "UpdateTask"
        BY <1>4, EntriesStable DEF Entries
      <3>2. i - 1 \in Nat /\ i - 1 <= Len(log)
        BY <2>0, <3>1
      <3>3. StandingVotes(i - 1)' = StandingVotes(i - 1)
        BY <1>4, <3>2, StandingStable
      <3>4. CASE i <= Len(log)
        <4>1. i \in Entries("UpdateTask") /\ log'[i] = log[i]
          BY <1>4, <3>1, <3>4, EntriesStable
        <4> QED
          BY <2>2, <3>3, <4>1 DEF DoneHasQuorum
      <3>5. CASE i = Len(log) + 1
        <4>1. log'[i] = c /\ i - 1 = Len(log)
          BY <1>4, <2>0, <3>5, EntriesStable
        <4>2. PICK n \in Node : Accepted(votes[n], c.task, c.state.round) >= Quorum
          BY <1>4, <2>2, <3>1, <4>1 DEF Backed
        <4>3. votes[n] \subseteq StandingVotes(i - 1)
          BY <2>0, <4>1, StandingMonotone DEF VotesApplied
        <4>4. Agents(StandingVotes(i - 1)) /\ Agents(votes[n])
          BY <3>2, StandingTyped, ReplicaVotesCount
        <4>5. Accepted(votes[n], c.task, c.state.round)
                <= Accepted(StandingVotes(i - 1), c.task, c.state.round)
          BY <4>3, <4>4, AcceptedMonotone
        <4>6. Accepted(StandingVotes(i - 1), c.task, c.state.round) >= Quorum
          <5>1. /\ Accepted(votes[n], c.task, c.state.round) \in 0 .. ServerCount
                /\ Accepted(StandingVotes(i - 1), c.task, c.state.round) \in 0 .. ServerCount
            BY <4>4, CountsTyped
          <5> QED
            BY <4>2, <4>5, <5>1, QuorumIsMajority
        <4> QED
          BY <3>3, <4>1, <4>6
      <3> QED
        BY <2>0, <3>1, <3>4, <3>5
    <2>3. DoneHasQuorum'
      BY <2>2 DEF DoneHasQuorum, Accepted, Acceptors, InRound
    <2> QED
      BY <2>1, <2>3
  <1>5. VotesApplied' /\ DoneHasQuorum'
    BY <1>2, <1>3, <1>4, NextLogStep DEF LogStep
  <1> QED
    BY <1>1, <1>5

LEMMA DecisionInvariant == Spec => []IInv
  <1> QED
    BY InitDecision, NextDecision, PTL DEF Spec

(***************************************************************************)
(* The votes a replica counts are at any moment those that stand in the    *)
(* part of the log it has applied: the first vote of every ballot, no more *)
(* and no less (SyncMapFSM.Apply, SubmitVote).                             *)
(***************************************************************************)
THEOREM VotesAlwaysApplied == Spec => []VotesApplied
  <1>1. IInv => VotesApplied
    BY DEF IInv
  <1> QED
    BY <1>1, DecisionInvariant, PTL

(***************************************************************************)
(* Every entry of the log that declares a task done names a round that a   *)
(* majority of the cluster had accepted by then, whoever wrote it: a       *)
(* leader just elected, one that lags, or one that was just deposed.       *)
(***************************************************************************)
THEOREM DoneAlwaysHasQuorum == Spec => []DoneHasQuorum
  <1>1. IInv => DoneHasQuorum
    BY DEF IInv
  <1> QED
    BY <1>1, DecisionInvariant, PTL
=============================================================================
