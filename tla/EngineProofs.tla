---------------------------- MODULE EngineProofs ----------------------------
(***************************************************************************)
(* Theorems about the engine, for any cluster, any set of tasks, any       *)
(* target, and any value of the bounds.                                    *)
(***************************************************************************)
EXTENDS EngineProperties, FiniteSetTheorems, WellFoundedInduction, TLAPS

-----------------------------------------------------------------------------
(***************************************************************************)
(* What the vote counting of runFinalizeTask guarantees for any set of     *)
(* votes, any cluster and any target.                                      *)
(***************************************************************************)

(* The votes of a replica, as far as counting is concerned. *)
Agents(vs) == \A v \in vs : v.agent \in Node /\ v.accepted \in BOOLEAN

-----------------------------------------------------------------------------
(* The cluster's size, its quorum and its target are natural numbers.  *)
LEMMA QuorumIsMajority ==
    /\ ServerCount \in Nat \ {0}
    /\ Quorum \in Nat
    /\ Target \in Nat
    /\ Target >= Quorum
    /\ 2 * Quorum > ServerCount
  <1>1. ServerCount \in Nat \ {0}
    BY TallyAssumption, FS_CardinalityType, FS_EmptySet DEF ServerCount
  <1>2. Quorum \in Nat /\ 2 * Quorum > ServerCount
    BY <1>1 DEF Quorum
  <1> QED
    BY <1>1, <1>2, TallyAssumption DEF Target

(* A round has at most one accept and one reject per server.  *)
LEMMA CountsTyped ==
    ASSUME NEW vs, NEW t, NEW r, Agents(vs)
    PROVE  /\ IsFiniteSet(Acceptors(vs, t, r)) /\ Accepted(vs, t, r) \in 0 .. ServerCount
           /\ IsFiniteSet(Rejecters(vs, t, r)) /\ Rejected(vs, t, r) \in 0 .. ServerCount
  <1>1. Acceptors(vs, t, r) \in SUBSET Node /\ Rejecters(vs, t, r) \in SUBSET Node
    BY DEF Agents, Acceptors, Rejecters, InRound
  <1> QED
    BY <1>1, TallyAssumption, FS_Subset, FS_CardinalityType
    DEF Accepted, Rejected, ServerCount

(* Votes that come in never take an accept away. *)
LEMMA AcceptedMonotone ==
    ASSUME NEW vs, NEW ws, NEW t, NEW r, vs \subseteq ws, Agents(ws)
    PROVE  Accepted(vs, t, r) <= Accepted(ws, t, r)
  <1>1. Acceptors(vs, t, r) \in SUBSET Acceptors(ws, t, r)
    BY DEF Acceptors, InRound
  <1> QED
    BY <1>1, CountsTyped, FS_Subset DEF Accepted

(* A nonempty set of natural numbers has a smallest element. *)
LEMMA Smallest ==
    ASSUME NEW T \in SUBSET Nat, T # {}
    PROVE  \E x \in T : \A y \in T : x <= y
  <1> DEFINE R == OpToRel(<, Nat)
  <1>1. IsWellFoundedOn(R, Nat)
    BY NatLessThanWellFounded
  <1>2. \A x, y \in Nat : x < y => <<x, y>> \in R
    BY DEF OpToRel
  <1> HIDE DEF R
  <1>3. PICK x \in T : \A y \in T : ~ (<<y, x>> \in R)
    BY <1>1, WFMin
  <1>4. \A y \in T : ~ (y < x)
    BY <1>2, <1>3
  <1>5. x \in Nat /\ \A y \in T : y \in Nat
    OBVIOUS
  <1>6. \A y \in T : x <= y
    BY <1>4, <1>5
  <1> QED
    BY <1>6

(***************************************************************************)
(* The fallback of runFinalizeTask has a round to return to whenever one   *)
(* was accepted by a majority: its choice is well defined.                 *)
(***************************************************************************)
THEOREM BestRoundExists ==
    ASSUME NEW vs, NEW t, NEW r \in Nat, Agents(vs), Candidates(vs, t, r) # {}
    PROVE  /\ BestRound(vs, t, r) \in 1 .. r
           /\ Accepted(vs, t, BestRound(vs, t, r)) >= Quorum
  <1> DEFINE C == Candidates(vs, t, r)
             missing(q) == ServerCount - Accepted(vs, t, q)
             age(q) == r - q
  <1>1. \A q \in C : q \in Nat /\ q <= r /\ missing(q) \in Nat /\ age(q) \in Nat
    BY CountsTyped, QuorumIsMajority DEF Candidates
  <1>2. PICK p \in C : \A q \in C : missing(p) <= missing(q)
    <2>1. {missing(q) : q \in C} \in SUBSET Nat /\ {missing(q) : q \in C} # {}
      BY <1>1
    <2>2. PICK x \in {missing(q) : q \in C} : \A y \in {missing(q) : q \in C} : x <= y
      BY <2>1, Smallest
    <2> QED
      BY <2>2
  <1> DEFINE D == {q \in C : missing(q) = missing(p)}
  <1>3. PICK b \in D : \A q \in D : age(b) <= age(q)
    <2>1. {age(q) : q \in D} \in SUBSET Nat /\ {age(q) : q \in D} # {}
      BY <1>1
    <2>2. PICK x \in {age(q) : q \in D} : \A y \in {age(q) : q \in D} : x <= y
      BY <2>1, Smallest
    <2> QED
      BY <2>2
  <1>4. ASSUME NEW q \in C
        PROVE  BetterRound(vs, t, q, b)
    <2>1. missing(b) <= missing(q) /\ missing(b) \in Nat /\ missing(q) \in Nat
      BY <1>1, <1>2, <1>3
    <2>2. Accepted(vs, t, b) >= Accepted(vs, t, q)
      BY <2>1, CountsTyped, QuorumIsMajority
    <2>3. CASE missing(q) = missing(b)
      BY <1>1, <1>3, <2>2, <2>3, CountsTyped, QuorumIsMajority DEF BetterRound
    <2>4. CASE missing(q) # missing(b)
      BY <2>2, <2>4, CountsTyped, QuorumIsMajority DEF BetterRound
    <2> QED
      BY <2>3, <2>4
  <1>5. BestRound(vs, t, r) \in C
    <2>1. b \in C /\ \A q \in C : BetterRound(vs, t, q, b)
      BY <1>3, <1>4
    <2> HIDE DEF C
    <2>2. \E x \in C : \A q \in C : BetterRound(vs, t, q, x)
      BY <2>1
    <2>3. BestRound(vs, t, r) = CHOOSE x \in C : \A q \in C : BetterRound(vs, t, q, x)
      BY DEF BestRound, C
    <2> QED
      BY <2>2, <2>3
  <1> QED
    BY <1>1, <1>5 DEF Candidates

-----------------------------------------------------------------------------
(***************************************************************************)
(* Whatever branch of runFinalizeTask declares the current round done, a   *)
(* majority of the servers accepted it; and the fallback is only chosen    *)
(* when an earlier round has one.                                          *)
(***************************************************************************)
THEOREM DoneVerdictHasQuorum ==
    ASSUME NEW vs, NEW t, NEW r \in Nat, Agents(vs)
    PROVE  /\ Verdict(vs, t, r) \in {"done", "failed", "revise", "fallback", "wait"}
           /\ Verdict(vs, t, r) = "done" => Accepted(vs, t, r) >= Quorum
           /\ Verdict(vs, t, r) = "fallback" => Candidates(vs, t, r) # {}
  <1> DEFINE a == Accepted(vs, t, r)
             x == Rejected(vs, t, r)
  <1>1. a \in Nat /\ x \in Nat
    BY CountsTyped, QuorumIsMajority
  <1>2. Consensus(vs, t, r) => a >= Quorum
    BY <1>1, QuorumIsMajority DEF Consensus
  <1>3. AllVoted(vs, t, r) /\ Majority(vs, t, r) => a >= Quorum
    <2> SUFFICES ASSUME a + x >= ServerCount, a > x
                 PROVE  a >= Quorum
      BY DEF AllVoted, Majority
    <2>1. 2 * a > ServerCount
      BY <1>1, QuorumIsMajority
    <2> HIDE DEF a
    <2> QED
      BY <1>1, <2>1, QuorumIsMajority DEF Quorum
  <1> HIDE DEF a, x
  <1> QED
    BY <1>2, <1>3 DEF Verdict, AfterRejection, AfterSplit, a

-----------------------------------------------------------------------------
(***************************************************************************)
(* Lemmas about the records of the log and of the event loop.              *)
(***************************************************************************)

(* What a command of a given type carries. *)
LEMMA CommandFields ==
    ASSUME NEW c \in Command
    PROVE  /\ c.type \in {"AdmitTask", "SubmitAnswer", "UpdateTask"} => c.task \in Task
           /\ c.type = "SubmitAnswer" => c.agent \in Node
           /\ c.type = "UpdateTask" => c.state \in TaskState
           /\ c.type = "SubmitVote" => c.vote \in Vote
           /\ c.type = "UpdateReputation" =>
                c.agent \in Node /\ c.value \in 0 .. FullReputation
  BY DEF Command

(* What the event loop remembers while it is in a given place. *)
LEMMA LoopFields ==
    ASSUME NEW s \in LoopState
    PROVE  /\ s.at \in {"brainstorming", "aggregating", "revising"} => s.task \in Task
           /\ s.at \in {"aggregating", "applying"} => s.drops \in BOOLEAN
           /\ s.at \in {"revising", "finalizing", "rewarding"} =>
                s.voters \in SUBSET (Node \X BOOLEAN)
           /\ s.at \in {"applying", "finalizing", "rewarding"} =>
                s.index \in Nat /\ s.term \in Nat
           /\ s.at \in {"finalizing", "rewarding"} => s.status \in Final
  BY DEF LoopState, Ballots

(* The commands the engine builds are commands of the log. *)
LEMMA CommandsTyped ==
    ASSUME NEW t \in Task, NEW a \in Node
    PROVE  /\ AdmitTask(t) \in Command
           /\ SubmitAnswer(t, a) \in Command
           /\ \A s \in TaskState : UpdateTask(t, s) \in Command
           /\ \A v \in Vote : SubmitVote(v) \in Command
           /\ \A x \in 0 .. FullReputation : UpdateReputation(a, x) \in Command
  BY DEF Command, AdmitTask, SubmitAnswer, UpdateTask, SubmitVote, UpdateReputation

(* The places the event loop goes to. *)
LEMMA PlacesTyped ==
    ASSUME TypeOK
    PROVE  /\ Idle \in LoopState
           /\ \A t \in Task : Brainstorming(t) \in LoopState
           /\ \A t \in Task, d \in BOOLEAN : Aggregating(t, d) \in LoopState
           /\ \A t \in Task, vs \in Ballots : Revising(t, vs) \in LoopState
           /\ \A d \in BOOLEAN : Applying(d) \in LoopState
           /\ \A s \in Final, vs \in Ballots : Finalizing(s, vs) \in LoopState
           /\ \A s \in Final, vs \in Ballots, i, k \in Nat :
                 Rewarding(s, vs, i, k) \in LoopState
  <1>1. Len(log) + 1 \in Nat /\ term \in Nat
    BY DEF TypeOK, FSMTypeOK
  <1> QED
    BY <1>1 DEF LoopState, Idle, Brainstorming, Aggregating, Revising, Applying,
                Finalizing, Rewarding

(* Committing a command keeps the log well typed, and grows it by one. *)
LEMMA CommitTyped ==
    ASSUME TypeOK, NEW c \in Command, Commit(c)
    PROVE  /\ log' \in Seq(Command)
           /\ Len(log') = Len(log) + 1
           /\ \A n \in Node : applied[n] <= Len(log')
  BY DEF TypeOK, FSMTypeOK, Commit

-----------------------------------------------------------------------------
(***************************************************************************)
(* Type correctness.                                                       *)
(***************************************************************************)
LEMMA InitTypeOK == Init => TypeOK
  BY DEF Init, FSMInit, TypeOK, FSMTypeOK, EngineTypeOK, Absent, TaskState, Status,
         NoTimer, Timer, LoopState, Idle, Text, Unset, FullReputation,
         BallotsTyped, EmptyBag, SetToBag, IsABag, BagToSet

(* Clamped values are reputations. *)
LEMMA ClampRange == \A x \in Int : Clamp(x) \in 0 .. FullReputation
  BY DEF Clamp, FullReputation

LEMMA PublishTyped ==
    ASSUME TypeOK, NEW n \in Node, NEW t \in Task, NEW type \in EventType,
           Publish(n, type, t)
    PROVE  events' \in [Node -> Seq(Event)]
  <1>1. [type |-> type, task |-> t] \in Event
    BY DEF Event
  <1>2. Append(events[n], [type |-> type, task |-> t]) \in Seq(Event)
    BY <1>1 DEF TypeOK, FSMTypeOK
  <1> QED
    BY <1>2 DEF TypeOK, FSMTypeOK, Publish

(* The next command a replica takes is a command of the log. *)
LEMMA NextCommandTyped ==
    ASSUME TypeOK, NEW n \in Node, NEW type, Take(n, type)
    PROVE  /\ NextCommand(n) \in Command
           /\ NextCommand(n).type = type
           /\ applied' \in [Node -> Nat]
           /\ \A m \in Node : applied'[m] <= Len(log)
  BY DEF TypeOK, FSMTypeOK, Take, NextCommand

LEMMA ReplicateTypeOK ==
    ASSUME TypeOK, NEW n \in Node, Replicate(n)
    PROVE  TypeOK'
  <1> DEFINE c == NextCommand(n)
  <1> USE DEF EventType
  <1>0. EngineTypeOK'
    BY DEF TypeOK, EngineTypeOK, BallotsTyped, Replicate, engineVars, timerVars
  <1>1. CASE ApplyAdmitTask(n)
    <2>1. c \in Command /\ c.task \in Task /\ UNCHANGED <<raftVars, answers, votes, rep>>
      BY <1>1, NextCommandTyped, CommandFields DEF ApplyAdmitTask
    <2>2. Admitted \in TaskState
      BY DEF Admitted, Absent, TaskState, Status, Text
    <2>3. events' \in [Node -> Seq(Event)]
      BY <1>1, <2>1, PublishTyped DEF ApplyAdmitTask
    <2>4. task' \in [Node -> [Task -> TaskState]]
      BY <1>1, <2>1, <2>2 DEF ApplyAdmitTask, TypeOK, FSMTypeOK
    <2> QED
      BY <1>0, <1>1, <2>1, <2>3, <2>4, NextCommandTyped
      DEF ApplyAdmitTask, TypeOK, FSMTypeOK, raftVars
  <1>2. CASE ApplySubmitAnswer(n)
    <2>1. c \in Command /\ c.task \in Task /\ UNCHANGED <<raftVars, task, votes, rep>>
      BY <1>2, NextCommandTyped, CommandFields DEF ApplySubmitAnswer
    <2>2. events' \in [Node -> Seq(Event)]
      BY <1>2, <2>1, PublishTyped DEF ApplySubmitAnswer
    <2>3. answers' \in [Node -> [Task -> Nat]]
      BY <1>2, <2>1 DEF ApplySubmitAnswer, TypeOK, FSMTypeOK
    <2> QED
      BY <1>0, <1>2, <2>1, <2>2, <2>3, NextCommandTyped
      DEF ApplySubmitAnswer, TypeOK, FSMTypeOK, raftVars
  <1>3. CASE ApplyUpdateTask(n)
    <2>1. /\ c \in Command /\ c.task \in Task /\ c.state \in TaskState
          /\ UNCHANGED <<raftVars, answers, votes, rep>>
      BY <1>3, NextCommandTyped, CommandFields DEF ApplyUpdateTask
    <2>2. events' \in [Node -> Seq(Event)]
      BY <1>3, <2>1, PublishTyped DEF ApplyUpdateTask, TypeOK, FSMTypeOK
    <2>3. task' = task \/ task' = [task EXCEPT ![n][c.task] = c.state]
      BY <1>3 DEF ApplyUpdateTask
    <2>4. task' \in [Node -> [Task -> TaskState]]
      <3>1. task \in [Node -> [Task -> TaskState]]
        BY DEF TypeOK, FSMTypeOK
      <3>2. [task[n] EXCEPT ![c.task] = c.state] \in [Task -> TaskState]
        BY <2>1, <3>1
      <3> QED
        BY <2>1, <2>3, <3>1, <3>2
    <2> QED
      BY <1>0, <1>3, <2>1, <2>2, <2>4, NextCommandTyped
      DEF ApplyUpdateTask, TypeOK, FSMTypeOK, raftVars
  <1>4. CASE ApplySubmitVote(n)
    <2>1. /\ c \in Command /\ c.vote \in Vote /\ c.vote.task \in Task
          /\ UNCHANGED <<raftVars, task, answers, rep>>
      BY <1>4, NextCommandTyped, CommandFields DEF ApplySubmitVote, Vote
    <2>2. events' \in [Node -> Seq(Event)]
      BY <1>4, <2>1, PublishTyped DEF ApplySubmitVote, TypeOK, FSMTypeOK
    <2>3. votes' = votes \/ votes' = [votes EXCEPT ![n] = @ \cup {c.vote}]
      BY <1>4 DEF ApplySubmitVote
    <2>4. votes' \in [Node -> SUBSET Vote]
      <3>1. votes \in [Node -> SUBSET Vote]
        BY DEF TypeOK, FSMTypeOK
      <3>2. votes[n] \cup {c.vote} \in SUBSET Vote
        BY <2>1, <3>1
      <3> QED
        BY <2>3, <3>1, <3>2
    <2> QED
      BY <1>0, <1>4, <2>1, <2>2, <2>4, NextCommandTyped
      DEF ApplySubmitVote, TypeOK, FSMTypeOK, raftVars
  <1>5. CASE ApplyUpdateReputation(n)
    <2>1. /\ c \in Command /\ c.agent \in Node /\ c.value \in 0 .. FullReputation
          /\ UNCHANGED <<raftVars, task, answers, votes, events>>
      BY <1>5, NextCommandTyped, CommandFields DEF ApplyUpdateReputation
    <2>2. rep' \in [Node -> [Node -> 0 .. FullReputation \cup {Unset}]]
      BY <1>5, <2>1 DEF ApplyUpdateReputation, TypeOK, FSMTypeOK
    <2> QED
      BY <1>0, <1>5, <2>1, <2>2, NextCommandTyped
      DEF ApplyUpdateReputation, TypeOK, FSMTypeOK, raftVars
  <1> QED
    BY <1>1, <1>2, <1>3, <1>4, <1>5 DEF Replicate, ApplyCommand

(* Taking an event leaves the channel well typed and names a known task. *)
LEMMA HandleTyped ==
    ASSUME TypeOK, NEW n \in Node, NEW type, Handle(n, type)
    PROVE  /\ events' \in [Node -> Seq(Event)]
           /\ Subject(n) \in Task
           /\ Live(n) \in TaskState
  <1>1. events[n] \in Seq(Event) /\ events[n] # <<>>
    BY DEF Handle, TypeOK, FSMTypeOK
  <1>2. Head(events[n]) \in Event /\ Tail(events[n]) \in Seq(Event)
    BY <1>1
  <1>3. Subject(n) \in Task
    BY <1>2 DEF Subject, Event
  <1>4. events' = [events EXCEPT ![n] = Tail(events[n])]
    BY DEF Handle
  <1> QED
    BY <1>2, <1>3, <1>4 DEF Live, TypeOK, FSMTypeOK

LEMMA GotoTyped ==
    ASSUME TypeOK, NEW n \in Node, NEW s \in LoopState, Goto(n, s)
    PROVE  loop' \in [Node -> LoopState]
  BY DEF TypeOK, EngineTypeOK, Goto

LEMMA TimersTyped ==
    ASSUME TypeOK, NEW n \in Node, NEW t \in Task
    PROVE  /\ timers[n][t] \in Timer
           /\ Forget(timers[n][t]) \in Timer
           /\ \A r \in Timer : timers' = [timers EXCEPT ![n][t] = r]
                             => timers' \in [Node -> [Task -> Timer]]
           /\ StartTimer(n, t) => timers' \in [Node -> [Task -> Timer]]
           /\ StopTimer(n, t) => timers' \in [Node -> [Task -> Timer]]
  <1>1. timers[n][t] \in Timer
    BY DEF TypeOK, EngineTypeOK
  <1>2. Forget(timers[n][t]) \in Timer
    BY <1>1 DEF Timer, Forget, Lost
  <1>3. \A b \in BOOLEAN : Armed(timers[n][t], b) \in Timer
    BY <1>1 DEF Timer, Armed
  <1>4. ASSUME NEW r \in Timer, timers' = [timers EXCEPT ![n][t] = r]
        PROVE  timers' \in [Node -> [Task -> Timer]]
    BY <1>4 DEF TypeOK, EngineTypeOK
  <1> QED
    BY <1>1, <1>2, <1>3, <1>4 DEF StartTimer, StopTimer

LEMMA LeadershipTyped ==
    ASSUME TypeOK, NEW n \in Node,
           \/ KeepsLeading
           \/ DropLeader(n)
           \/ TransferLeadership(n)
           \/ LeaderMovesTo(n)
    PROVE  leader' \in Node /\ term' \in Nat
  <1>1. \/ KeepsLeading
        \/ \E m \in Node : LeaderMovesTo(m)
    BY DEF DropLeader, TransferLeadership, Best, Better
  <1> QED
    BY <1>1 DEF KeepsLeading, LeaderMovesTo, TypeOK, FSMTypeOK

(* A step that touches neither the log nor a replica's data. *)
LEMMA StoreKept ==
    ASSUME TypeOK, UNCHANGED <<log, store>>,
           leader' \in Node, term' \in Nat, events' \in [Node -> Seq(Event)]
    PROVE  FSMTypeOK'
  BY DEF TypeOK, FSMTypeOK, store

(* A step that commits one command and touches nothing else of Raft. *)
LEMMA CommitKeepsFSM ==
    ASSUME TypeOK, NEW c \in Command, Commit(c),
           UNCHANGED <<leader, term, applied, answers, votes, rep>>,
           task' \in [Node -> [Task -> TaskState]],
           events' \in [Node -> Seq(Event)]
    PROVE  FSMTypeOK'
  BY CommitTyped DEF TypeOK, FSMTypeOK

(* The ballots counted from a replica's votes are agents with their choice. *)
LEMMA VotersTyped ==
    ASSUME TypeOK, NEW n \in Node, NEW t, NEW r
    PROVE  Voters(votes[n], t, r) \in Ballots
  BY DEF TypeOK, FSMTypeOK, Voters, InRound, Ballots, Vote

(* The records the engine writes. *)
LEMMA RecordsTyped ==
    ASSUME NEW n \in Node, NEW s \in TaskState
    PROVE  /\ FirstProposal(n) \in TaskState
           /\ NextProposal(s, n) \in TaskState
           /\ TimedOutTask \in TaskState
           /\ \A x \in Final : [s EXCEPT !.status = x] \in TaskState
           /\ \A r \in Nat : FallBackTo(s, r) \in TaskState
  <1>1. FirstProposal(n) \in TaskState
    BY DEF FirstProposal, TaskState, Status, Text
  <1>2. NextProposal(s, n) \in TaskState
    <2> DEFINE r == s.round + 1
    <2>1. r \in Nat /\ <<n, r>> \in Text
      BY DEF TaskState, Text
    <2>2. WithProposal(s.proposals, r, <<n, r>>) \in SUBSET (Nat \X Text)
      BY <2>1 DEF WithProposal, TaskState
    <2> QED
      BY <2>1, <2>2 DEF NextProposal, TaskState, Status
  <1>3. TimedOutTask \in TaskState
    BY DEF TimedOutTask, TaskState, Status, Text
  <1>4. \A x \in Final : [s EXCEPT !.status = x] \in TaskState
    BY DEF TaskState, Status, Final
  <1>5. ASSUME NEW r \in Nat
        PROVE  FallBackTo(s, r) \in TaskState
    <2>1. ProposalOf(s, r) \in Text
      <3>1. s.proposals \in SUBSET (Nat \X Text)
        BY DEF TaskState
      <3>2. CASE \E p \in s.proposals : p[1] = r
        <4>1. (CHOOSE p \in s.proposals : p[1] = r) \in s.proposals
          BY <3>2
        <4> QED
          BY <3>1, <3>2, <4>1 DEF ProposalOf
      <3>3. CASE ~ \E p \in s.proposals : p[1] = r
        BY <3>3 DEF ProposalOf, Text
      <3> QED
        BY <3>2, <3>3
    <2> QED
      BY <2>1 DEF FallBackTo, TaskState
  <1> QED
    BY <1>1, <1>2, <1>3, <1>4, <1>5

(* The bag of voting goroutines stays one when a goroutine starts or ends. *)
LEMMA BallotBag ==
    ASSUME TypeOK, NEW b
    PROVE  /\ b \in Ballot /\ ballots' = ballots (+) SetToBag({b}) => BallotsTyped'
           /\ EndBallot(b) => b \in Ballot /\ BallotsTyped'
  <1> USE DEF BallotsTyped, IsABag, BagToSet, SetToBag, BagIn
  <1>1. BallotsTyped
    BY DEF TypeOK, EngineTypeOK
  <1>2. ASSUME b \in Ballot, ballots' = ballots (+) SetToBag({b})
        PROVE  BallotsTyped'
    BY <1>1, <1>2 DEF (+)
  <1>3. ASSUME EndBallot(b)
        PROVE  b \in Ballot /\ BallotsTyped'
    BY <1>1, <1>3 DEF EndBallot, (-)
  <1> QED
    BY <1>2, <1>3

(* The parts of the state of the engines that a step leaves alone. *)
LEMMA EngineKept ==
    ASSUME TypeOK
    PROVE  /\ UNCHANGED loop => loop' \in [Node -> LoopState]
           /\ UNCHANGED timers => timers' \in [Node -> [Task -> Timer]]
           /\ UNCHANGED timerCh => timerCh' \in [Node -> Seq(Task)]
           /\ UNCHANGED ballots => BallotsTyped'
           /\ UNCHANGED fires => fires' \in Nat
           /\ UNCHANGED events => events' \in [Node -> Seq(Event)]
           /\ UNCHANGED task => task' \in [Node -> [Task -> TaskState]]
           /\ UNCHANGED <<leader, term>> => leader' \in Node /\ term' \in Nat
  BY DEF TypeOK, FSMTypeOK, EngineTypeOK, BallotsTyped

LEMMA SubmitTypeOK ==
    ASSUME TypeOK, NEW t \in Task, SubmitTask(t)
    PROVE  TypeOK'
  <1>1. AdmitTask(t) \in Command
    BY DEF AdmitTask, Command
  <1>2. FSMTypeOK'
    BY <1>1, CommitKeepsFSM, EngineKept DEF SubmitTask, replicaVars, store
  <1> QED
    BY <1>2, EngineKept DEF SubmitTask, engineVars, timerVars, TypeOK, EngineTypeOK

LEMMA BrainstormTypeOK ==
    ASSUME TypeOK, NEW n \in Node,
           HandleTaskAdmitted(n) \/ Brainstorm(n) \/ BrainstormFails(n)
    PROVE  TypeOK'
  <1>1. CASE HandleTaskAdmitted(n)
    <2>1. Brainstorming(Subject(n)) \in LoopState
      BY <1>1, HandleTyped, PlacesTyped DEF HandleTaskAdmitted
    <2>2. loop' \in [Node -> LoopState]
      BY <1>1, <2>1, GotoTyped DEF HandleTaskAdmitted
    <2>3. timers' \in [Node -> [Task -> Timer]]
      BY <1>1, HandleTyped, TimersTyped, EngineKept DEF HandleTaskAdmitted
    <2>4. FSMTypeOK'
      BY <1>1, HandleTyped, StoreKept, EngineKept DEF HandleTaskAdmitted, raftVars
    <2> QED
      BY <1>1, <2>2, <2>3, <2>4, EngineKept DEF HandleTaskAdmitted, TypeOK, EngineTypeOK
  <1>2. CASE Brainstorm(n)
    <2>1. loop[n].task \in Task
      BY <1>2, LoopFields DEF Brainstorm, TypeOK, EngineTypeOK
    <2>2. SubmitAnswer(loop[n].task, n) \in Command
      BY <2>1, CommandsTyped
    <2>3. FSMTypeOK'
      BY <1>2, <2>2, CommitKeepsFSM, EngineKept DEF Brainstorm, replicaVars, store
    <2>4. loop' \in [Node -> LoopState]
      BY <1>2, GotoTyped, PlacesTyped DEF Brainstorm
    <2> QED
      BY <1>2, <2>3, <2>4, EngineKept DEF Brainstorm, timerVars, TypeOK, EngineTypeOK
  <1>3. CASE BrainstormFails(n)
    <2>1. FSMTypeOK'
      BY <1>3, StoreKept, EngineKept DEF BrainstormFails, raftVars, replicaVars
    <2>2. loop' \in [Node -> LoopState]
      BY <1>3, GotoTyped, PlacesTyped DEF BrainstormFails
    <2> QED
      BY <1>3, <2>1, <2>2, EngineKept DEF BrainstormFails, timerVars, TypeOK, EngineTypeOK
  <1> QED
    BY <1>1, <1>2, <1>3

LEMMA AnswerTypeOK ==
    ASSUME TypeOK, NEW n \in Node,
           IgnoreAnswer(n) \/ LateAnswer(n) \/ AwaitAnswers(n) \/ StartProposal(n)
    PROVE  TypeOK'
  <1>1. CASE IgnoreAnswer(n) \/ AwaitAnswers(n)
    <2>1. FSMTypeOK'
      BY <1>1, HandleTyped, StoreKept, EngineKept DEF IgnoreAnswer, AwaitAnswers, raftVars
    <2> QED
      BY <1>1, <2>1, EngineKept
      DEF IgnoreAnswer, AwaitAnswers, engineVars, timerVars, TypeOK, EngineTypeOK
  <1>2. CASE LateAnswer(n)
    <2>1. leader' \in Node /\ term' \in Nat
      BY <1>2, LeadershipTyped DEF LateAnswer
    <2>2. FSMTypeOK'
      BY <1>2, <2>1, HandleTyped, StoreKept DEF LateAnswer
    <2> QED
      BY <1>2, <2>2, EngineKept DEF LateAnswer, engineVars, timerVars, TypeOK, EngineTypeOK
  <1>3. CASE StartProposal(n)
    <2>1. loop' \in [Node -> LoopState]
      BY <1>3, HandleTyped, PlacesTyped, GotoTyped DEF StartProposal
    <2>2. timers' \in [Node -> [Task -> Timer]]
      BY <1>3, HandleTyped, TimersTyped DEF StartProposal
    <2>3. FSMTypeOK'
      BY <1>3, HandleTyped, StoreKept, EngineKept DEF StartProposal, raftVars
    <2> QED
      BY <1>3, <2>1, <2>2, <2>3, EngineKept DEF StartProposal, TypeOK, EngineTypeOK
  <1> QED
    BY <1>1, <1>2, <1>3

LEMMA ProposeTypeOK ==
    ASSUME TypeOK, NEW n \in Node,
           Propose(n) \/ ProposeRefused(n) \/ AggregateFails(n)
    PROVE  TypeOK'
  <1>1. ASSUME Aggregated(n)
        PROVE  /\ loop[n].task \in Task /\ loop[n].drops \in BOOLEAN
               /\ task' \in [Node -> [Task -> TaskState]]
    <2>1. loop[n].task \in Task /\ loop[n].drops \in BOOLEAN
      BY <1>1, LoopFields DEF Aggregated, TypeOK, EngineTypeOK
    <2>2. FirstProposal(n) \in TaskState
      BY DEF FirstProposal, TaskState, Status, Text
    <2> QED
      BY <1>1, <2>1, <2>2 DEF Aggregated, TypeOK, FSMTypeOK
  <1>2. CASE Propose(n)
    <2>1. UpdateTask(loop[n].task, FirstProposal(n)) \in Command
      <3>1. FirstProposal(n) \in TaskState
        BY DEF FirstProposal, TaskState, Status, Text
      <3> QED
        BY <1>1, <1>2, <3>1, CommandsTyped DEF Propose
    <2>2. FSMTypeOK'
      BY <1>1, <1>2, <2>1, CommitKeepsFSM, EngineKept DEF Propose, Aggregated
    <2>3. loop' \in [Node -> LoopState]
      BY <1>1, <1>2, PlacesTyped, GotoTyped DEF Propose
    <2> QED
      BY <1>2, <2>2, <2>3, EngineKept
      DEF Propose, Aggregated, timerVars, TypeOK, EngineTypeOK
  <1>3. CASE ProposeRefused(n)
    <2>1. FSMTypeOK'
      BY <1>1, <1>3 DEF ProposeRefused, Aggregated, TypeOK, FSMTypeOK
    <2>2. loop' \in [Node -> LoopState]
      BY <1>3, PlacesTyped, GotoTyped DEF ProposeRefused
    <2> QED
      BY <1>3, <2>1, <2>2, EngineKept
      DEF ProposeRefused, Aggregated, timerVars, TypeOK, EngineTypeOK
  <1>4. CASE AggregateFails(n)
    <2>1. leader' \in Node /\ term' \in Nat
      BY <1>4, LeadershipTyped DEF AggregateFails
    <2>2. FSMTypeOK'
      BY <1>4, <2>1, StoreKept, EngineKept DEF AggregateFails, replicaVars
    <2>3. loop' \in [Node -> LoopState]
      BY <1>4, PlacesTyped, GotoTyped DEF AggregateFails
    <2> QED
      BY <1>4, <2>2, <2>3, EngineKept DEF AggregateFails, timerVars, TypeOK, EngineTypeOK
  <1> QED
    BY <1>2, <1>3, <1>4

LEMMA CallTypeOK ==
    ASSUME TypeOK, NEW n \in Node,
           ApplyReturns(n) \/ ApplyFails(n) \/ FinalizeFails(n)
    PROVE  TypeOK'
  <1>1. UNCHANGED <<log, replicaVars, timerVars, ballots>>
    BY DEF ApplyReturns, ApplyFails, FinalizeFails, raftVars
  <1>2. loop' \in [Node -> LoopState]
    BY PlacesTyped, GotoTyped DEF ApplyReturns, ApplyFails, FinalizeFails
  <1>3. leader' \in Node /\ term' \in Nat
    BY LeadershipTyped, EngineKept DEF ApplyReturns, ApplyFails, FinalizeFails, raftVars
  <1>4. FSMTypeOK'
    BY <1>1, <1>3, StoreKept, EngineKept DEF replicaVars
  <1> QED
    BY <1>1, <1>2, <1>4, EngineKept DEF timerVars, TypeOK, EngineTypeOK

LEMMA UpdateTypeOK ==
    ASSUME TypeOK, NEW n \in Node, CompleteTask(n) \/ OpenBallot(n)
    PROVE  TypeOK'
  <1>1. CASE CompleteTask(n)
    <2>1. timers' \in [Node -> [Task -> Timer]]
      BY <1>1, HandleTyped, TimersTyped DEF CompleteTask
    <2>2. FSMTypeOK'
      BY <1>1, HandleTyped, StoreKept, EngineKept DEF CompleteTask, raftVars
    <2> QED
      BY <1>1, <2>1, <2>2, EngineKept DEF CompleteTask, TypeOK, EngineTypeOK
  <1>2. CASE OpenBallot(n)
    <2>1. Subject(n) \in Task /\ Live(n).round \in Nat /\ Live(n).result \in Text
      BY <1>2, HandleTyped DEF OpenBallot, TaskState
    <2>2. BallotsTyped'
      BY <1>2, <2>1, BallotBag DEF OpenBallot, Ballot
    <2>3. FSMTypeOK'
      BY <1>2, HandleTyped, StoreKept, EngineKept DEF OpenBallot, raftVars
    <2> QED
      BY <1>2, <2>2, <2>3, EngineKept DEF OpenBallot, timerVars, TypeOK, EngineTypeOK
  <1> QED
    BY <1>1, <1>2

LEMMA BallotTypeOK ==
    ASSUME TypeOK, NEW b, NEW ok \in BOOLEAN, CastVote(b, ok) \/ LoseVote(b)
    PROVE  TypeOK'
  <1>1. b \in Ballot /\ BallotsTyped'
    BY BallotBag DEF CastVote, LoseVote
  <1>2. CASE CastVote(b, ok)
    <2> DEFINE v == [task |-> b.task, round |-> b.round, agent |-> b.agent,
                     accepted |-> ok, text |-> b.text]
    <2>1. v \in Vote /\ b.task \in Task /\ b.agent \in Node
      BY <1>1 DEF Vote, Ballot
    <2>2. SubmitVote(v) \in Command
      BY <2>1, CommandsTyped
    <2>3. FSMTypeOK'
      BY <1>2, <2>2, CommitKeepsFSM, EngineKept DEF CastVote, replicaVars, store
    <2> QED
      BY <1>1, <1>2, <2>3, EngineKept DEF CastVote, timerVars, TypeOK, EngineTypeOK
  <1>3. CASE LoseVote(b)
    <2>1. FSMTypeOK'
      BY <1>3, StoreKept, EngineKept DEF LoseVote, raftVars, replicaVars
    <2> QED
      BY <1>1, <1>3, <2>1, EngineKept DEF LoseVote, timerVars, TypeOK, EngineTypeOK
  <1> QED
    BY <1>2, <1>3

LEMMA VoteTypeOK ==
    ASSUME TypeOK, NEW n \in Node, IgnoreVote(n) \/ AwaitVotes(n) \/ StartRevision(n)
    PROVE  TypeOK'
  <1>1. Handle(n, "VoteSubmitted") /\ UNCHANGED <<raftVars, store, timerVars, ballots>>
    BY DEF IgnoreVote, AwaitVotes, StartRevision, CountVotes, engineVars
  <1>2. FSMTypeOK'
    BY <1>1, HandleTyped, StoreKept, EngineKept DEF raftVars
  <1>3. loop' \in [Node -> LoopState]
    <2>1. Revising(Subject(n), LiveVoters(n)) \in LoopState
      BY <1>1, HandleTyped, VotersTyped, PlacesTyped DEF LiveVoters
    <2> QED
      BY <2>1, GotoTyped, EngineKept DEF IgnoreVote, AwaitVotes, StartRevision, engineVars
  <1> QED
    BY <1>1, <1>2, <1>3, EngineKept DEF timerVars, TypeOK, EngineTypeOK

LEMMA ReviseTypeOK ==
    ASSUME TypeOK, NEW n \in Node, Revise(n) \/ ReviseRefused(n)
    PROVE  TypeOK'
  <1> DEFINE t == loop[n].task
             s == task[n][t]
  <1>1. Revised(n)
    BY DEF Revise, ReviseRefused
  <1>2. t \in Task /\ s \in TaskState
    BY <1>1, LoopFields DEF Revised, TypeOK, FSMTypeOK, EngineTypeOK
  <1>3. NextProposal(s, n) \in TaskState
    BY <1>2, RecordsTyped
  <1>4. task' \in [Node -> [Task -> TaskState]]
    <2> DEFINE w == [s EXCEPT !.proposals = NextProposal(s, n).proposals]
    <2>1. w \in TaskState
      BY <1>2, <1>3 DEF TaskState
    <2>2. task' = task \/ task' = [task EXCEPT ![n][t] = w]
      BY <1>1 DEF Revised
    <2>3. task \in [Node -> [Task -> TaskState]]
      BY DEF TypeOK, FSMTypeOK
    <2> HIDE DEF w, s
    <2>4. [task[n] EXCEPT ![t] = w] \in [Task -> TaskState]
      BY <1>2, <2>1, <2>3
    <2> QED
      BY <2>2, <2>3, <2>4
  <1>5. CASE Revise(n)
    <2>1. UpdateTask(t, NextProposal(s, n)) \in Command
      BY <1>2, <1>3, CommandsTyped
    <2>2. FSMTypeOK'
      BY <1>1, <1>4, <1>5, <2>1, CommitKeepsFSM, EngineKept DEF Revise, Revised
    <2>3. loop' \in [Node -> LoopState]
      BY <1>5, PlacesTyped, GotoTyped DEF Revise
    <2> QED
      BY <1>1, <2>2, <2>3, EngineKept DEF Revised, timerVars, TypeOK, EngineTypeOK
  <1>6. CASE ReviseRefused(n)
    <2>1. FSMTypeOK'
      BY <1>1, <1>4, <1>6 DEF ReviseRefused, Revised, TypeOK, FSMTypeOK
    <2>2. loop' \in [Node -> LoopState]
      BY <1>6, PlacesTyped, GotoTyped DEF ReviseRefused
    <2> QED
      BY <1>1, <2>1, <2>2, EngineKept DEF Revised, timerVars, TypeOK, EngineTypeOK
  <1> QED
    BY <1>5, <1>6

LEMMA RevisionFailureTypeOK ==
    ASSUME TypeOK, NEW n \in Node, ReviseFails(n) \/ ReviseFailureRefused(n)
    PROVE  TypeOK'
  <1>1. CASE ReviseFails(n)
    <2> DEFINE s == [task[n][loop[n].task] EXCEPT !.status = "failed"]
    <2>1. loop[n].task \in Task /\ loop[n].voters \in Ballots
      BY <1>1, LoopFields DEF ReviseFails, TypeOK, EngineTypeOK, Ballots
    <2>2. s \in TaskState
      <3>1. task[n][loop[n].task] \in TaskState
        BY <2>1 DEF TypeOK, FSMTypeOK
      <3> QED
        BY <3>1, RecordsTyped DEF Final
    <2>3. UpdateTask(loop[n].task, s) \in Command
      BY <2>1, <2>2, CommandsTyped
    <2>4. FSMTypeOK'
      BY <1>1, <2>3, CommitKeepsFSM, EngineKept DEF ReviseFails, replicaVars, store
    <2>5. loop' \in [Node -> LoopState]
      BY <1>1, <2>1, PlacesTyped, GotoTyped DEF ReviseFails, Final
    <2> QED
      BY <1>1, <2>4, <2>5, EngineKept DEF ReviseFails, timerVars, TypeOK, EngineTypeOK
  <1>2. CASE ReviseFailureRefused(n)
    <2>1. FSMTypeOK'
      BY <1>2, StoreKept, EngineKept DEF ReviseFailureRefused, raftVars, replicaVars
    <2>2. loop' \in [Node -> LoopState]
      BY <1>2, PlacesTyped, GotoTyped DEF ReviseFailureRefused
    <2> QED
      BY <1>2, <2>1, <2>2, EngineKept
      DEF ReviseFailureRefused, timerVars, TypeOK, EngineTypeOK
  <1> QED
    BY <1>1, <1>2

(* A replica's votes can be counted, so its fallback round is well defined. *)
LEMMA ReplicaVotesCount ==
    ASSUME TypeOK, NEW n \in Node
    PROVE  Agents(votes[n])
  BY DEF TypeOK, FSMTypeOK, Agents, Vote

LEMMA FinalizeTypeOK ==
    ASSUME TypeOK, NEW n \in Node, Finalize(n) \/ FinalizeFallback(n)
    PROVE  TypeOK'
  <1> DEFINE s == Live(n)
             r == BestRound(votes[n], Subject(n), s.round)
  <1>1. Handle(n, "VoteSubmitted")
    BY DEF Finalize, FinalizeFallback, CountVotes
  <1>2. /\ Subject(n) \in Task /\ s \in TaskState /\ s.round \in Nat
        /\ events' \in [Node -> Seq(Event)]
    BY <1>1, HandleTyped DEF TaskState
  <1>3. ASSUME NEW status \in Final, NEW w \in TaskState, Settle(n, status, w),
               task' \in [Node -> [Task -> TaskState]]
        PROVE  TypeOK'
    <2>1. UpdateTask(Subject(n), [w EXCEPT !.status = status]) \in Command
      BY <1>2, RecordsTyped, CommandsTyped
    <2>2. FSMTypeOK'
      BY <1>2, <1>3, <2>1, CommitKeepsFSM DEF Settle
    <2>3. loop' \in [Node -> LoopState]
      BY <1>3, VotersTyped, PlacesTyped, GotoTyped DEF Settle, LiveVoters
    <2> QED
      BY <1>3, <2>2, <2>3, EngineKept DEF Settle, timerVars, TypeOK, EngineTypeOK
  <1>4. CASE Finalize(n)
    BY <1>2, <1>3, <1>4, EngineKept DEF Finalize
  <1>5. CASE FinalizeFallback(n)
    <2>1. r \in Nat
      <3>1. Candidates(votes[n], Subject(n), s.round) # {}
        BY <1>2, <1>5, ReplicaVotesCount, DoneVerdictHasQuorum DEF FinalizeFallback, LiveVerdict
      <3> QED
        BY <1>2, <3>1, ReplicaVotesCount, BestRoundExists
    <2>2. FallBackTo(s, r) \in TaskState
      BY <1>2, <2>1, RecordsTyped
    <2>3. task' \in [Node -> [Task -> TaskState]]
      <3>1. task' = [task EXCEPT ![n][Subject(n)] = FallBackTo(s, r)]
        BY <1>5 DEF FinalizeFallback
      <3> QED
        BY <1>2, <2>2, <3>1 DEF TypeOK, FSMTypeOK
    <2> QED
      BY <1>3, <1>5, <2>2, <2>3 DEF FinalizeFallback, Final
  <1> QED
    BY <1>4, <1>5

(* A refused fallback has changed the record and the leadership. *)
LEMMA FallbackRefusedTypeOK ==
    ASSUME TypeOK, NEW n \in Node, FinalizeFallbackRefused(n)
    PROVE  TypeOK'
  <1> DEFINE s == Live(n)
             r == BestRound(votes[n], Subject(n), s.round)
  <1>1. Handle(n, "VoteSubmitted") /\ UNCHANGED <<log, applied, answers, votes, rep, engineVars>>
    BY DEF FinalizeFallbackRefused, CountVotes
  <1>2. /\ Subject(n) \in Task /\ s \in TaskState /\ s.round \in Nat
        /\ events' \in [Node -> Seq(Event)]
    BY <1>1, HandleTyped DEF TaskState
  <1>3. r \in Nat
    <2>1. Candidates(votes[n], Subject(n), s.round) # {}
      BY <1>2, ReplicaVotesCount, DoneVerdictHasQuorum DEF FinalizeFallbackRefused, LiveVerdict
    <2> QED
      BY <1>2, <2>1, ReplicaVotesCount, BestRoundExists
  <1>4. task' \in [Node -> [Task -> TaskState]]
    <2>1. FallBackTo(s, r) \in TaskState
      BY <1>2, <1>3, RecordsTyped
    <2>2. task' = [task EXCEPT ![n][Subject(n)] = FallBackTo(s, r)]
      BY DEF FinalizeFallbackRefused
    <2> QED
      BY <1>2, <2>1, <2>2 DEF TypeOK, FSMTypeOK
  <1>5. leader' \in Node /\ term' \in Nat
    BY LeadershipTyped DEF FinalizeFallbackRefused
  <1>6. FSMTypeOK'
    BY <1>1, <1>2, <1>4, <1>5 DEF TypeOK, FSMTypeOK
  <1> QED
    BY <1>1, <1>6, EngineKept DEF engineVars, timerVars, TypeOK, EngineTypeOK

(* One reputation update, or none, with what remains to be rewarded. *)
LEMMA RewardTypeOK ==
    ASSUME TypeOK, NEW n \in Node, NEW a \in Node, NEW x \in 0 .. FullReputation,
           NEW due \in Ballots, loop[n].at \in {"finalizing", "rewarding"},
           Reward(n, a, x, due)
    PROVE  TypeOK'
  <1>1. /\ UpdateReputation(a, x) \in Command
        /\ loop[n].status \in Final /\ loop[n].index \in Nat /\ loop[n].term \in Nat
        /\ Len(log) + 1 \in Nat /\ term \in Nat
    <2>1. UpdateReputation(a, x) \in Command
      BY DEF UpdateReputation, Command
    <2> QED
      BY <2>1, LoopFields DEF TypeOK, FSMTypeOK, EngineTypeOK
  <1>2. loop' \in [Node -> LoopState]
    BY <1>1, PlacesTyped, GotoTyped DEF Reward
  <1>3. FSMTypeOK'
    <2>1. CASE IsLeader(n)
      BY <1>1, <2>1, CommitKeepsFSM, EngineKept DEF Reward, replicaVars, store
    <2>2. CASE ~IsLeader(n)
      BY <2>2, StoreKept, EngineKept DEF Reward, replicaVars
    <2> QED
      BY <2>1, <2>2
  <1> QED
    BY <1>2, <1>3, EngineKept DEF Reward, timerVars, TypeOK, EngineTypeOK

LEMMA RewardsTypeOK ==
    ASSUME TypeOK, NEW n \in Node, RewardLeader(n) \/ RewardVoter(n) \/ CheckTransfer(n)
    PROVE  TypeOK'
  <1>1. ASSUME NEW a \in Node
        PROVE  Reputation(n, a) \in Int
    <2>1. rep[n][a] \in 0 .. FullReputation \cup {Unset}
      BY DEF TypeOK, FSMTypeOK
    <2> QED
      BY <2>1 DEF Reputation, FullReputation, Unset
  <1>2. loop[n] \in LoopState
    BY DEF TypeOK, EngineTypeOK
  <1>3. CASE RewardLeader(n)
    <2>1. LeaderReward(loop[n].status, Reputation(n, n)) \in 0 .. FullReputation
      BY <1>1, ClampRange DEF LeaderReward
    <2>2. {b \in loop[n].voters : b[1] # n} \in Ballots
      BY <1>2, <1>3, LoopFields DEF RewardLeader, Ballots
    <2> QED
      BY <1>3, <2>1, <2>2, RewardTypeOK DEF RewardLeader
  <1>4. CASE RewardVoter(n)
    <2>1. PICK b \in loop[n].voters :
            Reward(n, b[1], VoterReward(loop[n].status, b[2], Reputation(n, b[1])),
                   loop[n].voters \ {b})
      BY <1>4 DEF RewardVoter
    <2>2. b[1] \in Node /\ loop[n].voters \ {b} \in Ballots
      BY <1>2, <1>4, LoopFields DEF RewardVoter, Ballots
    <2>3. VoterReward(loop[n].status, b[2], Reputation(n, b[1])) \in 0 .. FullReputation
      BY <1>1, <2>2, ClampRange DEF VoterReward
    <2> QED
      BY <1>4, <2>1, <2>2, <2>3, RewardTypeOK DEF RewardVoter
  <1>5. CASE CheckTransfer(n)
    <2>1. leader' \in Node /\ term' \in Nat
      BY <1>5, LeadershipTyped DEF CheckTransfer
    <2>2. FSMTypeOK'
      BY <1>5, <2>1, StoreKept, EngineKept DEF CheckTransfer, replicaVars
    <2>3. loop' \in [Node -> LoopState]
      BY <1>5, PlacesTyped, GotoTyped DEF CheckTransfer
    <2> QED
      BY <1>5, <2>2, <2>3, EngineKept DEF CheckTransfer, timerVars, TypeOK, EngineTypeOK
  <1> QED
    BY <1>3, <1>4, <1>5

LEMMA FireTypeOK ==
    ASSUME TypeOK, NEW n \in Node, NEW t \in Task, TimerFires(n, t) \/ OrphanFires(n, t)
    PROVE  TypeOK'
  <1>1. FSMTypeOK'
    BY StoreKept, EngineKept DEF TimerFires, OrphanFires, raftVars, replicaVars
  <1>2. fires' \in Nat
    BY DEF TimerFires, OrphanFires, Expiry, TypeOK, EngineTypeOK
  <1>3. timers' \in [Node -> [Task -> Timer]]
    <2>1. timers[n][t].orphans > 0 => Lost(Forget(timers[n][t]).orphans - 1) \in Timer
      BY TimersTyped DEF Timer, Lost, Forget
    <2> QED
      BY <2>1, TimersTyped DEF TimerFires, OrphanFires
  <1>4. timerCh' \in [Node -> Seq(Task)]
    <2>1. Append(timerCh[n], t) \in Seq(Task)
      BY DEF TypeOK, EngineTypeOK
    <2> QED
      BY <2>1 DEF TimerFires, OrphanFires, TypeOK, EngineTypeOK
  <1> QED
    BY <1>1, <1>2, <1>3, <1>4, EngineKept DEF TimerFires, OrphanFires, TypeOK, EngineTypeOK

LEMMA TimeoutTypeOK ==
    ASSUME TypeOK, NEW n \in Node, NEW t \in Task,
           ForceProposal(n, t) \/ FailTask(n, t) \/ FailTaskRefused(n, t)
    PROVE  TypeOK'
  <1>1. timerCh' \in [Node -> Seq(Task)]
    <2>1. timerCh[n] \in Seq(Task) /\ timerCh[n] # <<>>
      BY DEF ForceProposal, FailTask, FailTaskRefused, Expire, TypeOK, EngineTypeOK
    <2>2. Tail(timerCh[n]) \in Seq(Task)
      BY <2>1
    <2> QED
      BY <2>2 DEF ForceProposal, FailTask, FailTaskRefused, Expire, TypeOK, EngineTypeOK
  <1>2. timers' \in [Node -> [Task -> Timer]]
    <2>1. Armed(Forget(timers[n][t]), TRUE) \in Timer
      BY TimersTyped DEF Timer, Armed
    <2> QED
      BY <2>1, TimersTyped DEF ForceProposal, FailTask, FailTaskRefused
  <1>3. loop' \in [Node -> LoopState]
    BY PlacesTyped, GotoTyped, EngineKept DEF ForceProposal, FailTask, FailTaskRefused
  <1>4. FSMTypeOK'
    <2>1. CASE FailTask(n, t)
      <3>1. UpdateTask(t, TimedOutTask) \in Command
        <4>1. TimedOutTask \in TaskState
          BY DEF TimedOutTask, TaskState, Status, Text
        <4> QED
          BY <4>1 DEF UpdateTask, Command
      <3> QED
        BY <2>1, <3>1, CommitKeepsFSM, EngineKept DEF FailTask, replicaVars, store
    <2>2. CASE ForceProposal(n, t) \/ FailTaskRefused(n, t)
      BY <2>2, StoreKept, EngineKept
      DEF ForceProposal, FailTaskRefused, raftVars, replicaVars
    <2> QED
      BY <2>1, <2>2
  <1> QED
    BY <1>1, <1>2, <1>3, <1>4, EngineKept
    DEF ForceProposal, FailTask, FailTaskRefused, TypeOK, EngineTypeOK

LEMMA ElectTypeOK ==
    ASSUME TypeOK, NEW m \in Node, Elect(m)
    PROVE  TypeOK'
  <1>1. FSMTypeOK'
    BY LeadershipTyped, StoreKept, EngineKept DEF Elect, replicaVars
  <1> QED
    BY <1>1, EngineKept DEF Elect, engineVars, timerVars, TypeOK, EngineTypeOK

LEMMA StepTypeOK ==
    ASSUME TypeOK, NEW n \in Node, Step(n)
    PROVE  TypeOK'
  <1>1. CASE Replicate(n)
    BY <1>1, ReplicateTypeOK
  <1>2. CASE HandleEvent(n)
    BY <1>2, BrainstormTypeOK, AnswerTypeOK, UpdateTypeOK, VoteTypeOK, FinalizeTypeOK,
       FallbackRefusedTypeOK
    DEF HandleEvent
  <1>3. CASE HandleTimeout(n)
    BY <1>3, TimeoutTypeOK DEF HandleTimeout
  <1>4. CASE CallSucceeds(n)
    BY <1>4, BrainstormTypeOK, ProposeTypeOK, ReviseTypeOK DEF CallSucceeds
  <1>5. CASE CallFails(n)
    BY <1>5, BrainstormTypeOK, ProposeTypeOK, RevisionFailureTypeOK DEF CallFails
  <1>6. CASE FinishCall(n)
    BY <1>6, CallTypeOK, RewardsTypeOK DEF FinishCall
  <1>7. CASE Fire(n)
    BY <1>7, FireTypeOK DEF Fire
  <1>8. CASE VoteOf(n)
    BY <1>8, BallotTypeOK DEF VoteOf
  <1>9. CASE Elect(n)
    BY <1>9, ElectTypeOK
  <1> QED
    BY <1>1, <1>2, <1>3, <1>4, <1>5, <1>6, <1>7, <1>8, <1>9 DEF Step

LEMMA NextTypeOK == TypeOK /\ [Next]_vars => TypeOK'
  <1> SUFFICES ASSUME TypeOK, [Next]_vars
               PROVE  TypeOK'
    OBVIOUS
  <1>1. ASSUME NEW t \in Task, SubmitTask(t)
        PROVE  TypeOK'
    BY <1>1, SubmitTypeOK
  <1>2. ASSUME NEW n \in Node, Step(n)
        PROVE  TypeOK'
    BY <1>2, StepTypeOK
  <1>3. CASE UNCHANGED vars
    BY <1>3 DEF vars, raftVars, replicaVars, store, engineVars, timerVars,
                TypeOK, FSMTypeOK, EngineTypeOK, BallotsTyped
  <1> QED
    BY <1>1, <1>2, <1>3 DEF Next

(***************************************************************************)
(* Every variable of replicas and engines keeps its type in every          *)
(* behaviour: no handler takes an event, a command or a voter it does not  *)
(* know, stored reputations stay within 0..100, and the fallback always    *)
(* finds a round to return to.                                             *)
(***************************************************************************)
THEOREM TypeCorrect == Spec => []TypeOK
  <1> QED
    BY InitTypeOK, NextTypeOK, PTL DEF Spec
=============================================================================
