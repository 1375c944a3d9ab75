---------------------------- MODULE LedgerProofs ----------------------------
(***************************************************************************)
(* What the log adds up to, through any number of elections, for any       *)
(* cluster and any replication lag: nobody is rewarded twice for one       *)
(* decision, nobody answers a task twice, and no proposal comes before the *)
(* answers of a majority.  The first two are accounts: what an agent may   *)
(* still get, or must still send, is counted with what it got or sent.     *)
(***************************************************************************)
EXTENDS DecisionProofs

(* Those whom the goroutine of n has yet to reward for its last decision. *)
Owed(n) ==
    IF loop[n].at = "finalizing" THEN {n} \cup {b[1] : b \in loop[n].voters}
    ELSE IF loop[n].at = "rewarding" THEN {b[1] : b \in loop[n].voters}
    ELSE {}

Debtors(a) == {n \in Node : a \in Owed(n)}

Solvent(a) ==
    Cardinality(Rewards(a)) + Cardinality(Debtors(a)) <= Cardinality(Decisions)

(* A ballot has one vote on each replica, and one place among the voters. *)
OncePerAgent(voters) == \A b, c \in voters : b[1] = c[1] => b = c
BallotsOnce == \A n \in Node : \A v, w \in votes[n] : SameBallot(v, w) => v = w
VotersOnce ==
    \A n \in Node :
        loop[n].at \in {"revising", "finalizing", "rewarding"} => OncePerAgent(loop[n].voters)

RewardInv == TypeOK /\ BallotsOnce /\ VotersOnce /\ \A a \in Node : Solvent(a)

-----------------------------------------------------------------------------
(***************************************************************************)
(* What a step does to the duties of the goroutines: they grow only with a *)
(* decision, by those of one goroutine, and a reward ends one of them.     *)
(***************************************************************************)
Decides(c) == c.type = "UpdateTask" /\ c.state.status \in Final

DutiesShrink == \A m \in Node : Owed(m)' \subseteq Owed(m)

DutyStep ==
    \/ UNCHANGED log /\ DutiesShrink
    \/ \E c : /\ log' = Append(log, c)
                          /\ c.type # "UpdateReputation" /\ DutiesShrink
    \/ \E c : \E n \in Node :
          /\ log' = Append(log, c)
          /\ Decides(c)
          /\ \A m \in Node \ {n} : Owed(m)' \subseteq Owed(m)
    \/ \E c : \E n \in Node :
          /\ log' = Append(log, c)
          /\ c.type = "UpdateReputation"
          /\ c.agent \in Owed(n) \ Owed(n)' /\ DutiesShrink

(* An entry more. *)
LEMMA EntriesAppended ==
    ASSUME TypeOK, NEW c, log' = Append(log, c)
    PROVE  /\ \A a : Rewards(a)' = IF c.type = "UpdateReputation" /\ c.agent = a
                                   THEN Rewards(a) \cup {Len(log) + 1} ELSE Rewards(a)
           /\ Decisions' = IF Decides(c) THEN Decisions \cup {Len(log) + 1} ELSE Decisions
           /\ Len(log) + 1 \notin Decisions /\ \A a : Len(log) + 1 \notin Rewards(a)
  <1>1. /\ Len(log) \in Nat /\ Len(log') = Len(log) + 1
        /\ 1 .. Len(log') = (1 .. Len(log)) \cup {Len(log) + 1}
        /\ Len(log) + 1 \notin 1 .. Len(log)
        /\ \A i \in 1 .. Len(log) : log'[i] = log[i]
        /\ log'[Len(log) + 1] = c
    BY DEF TypeOK, FSMTypeOK
  <1> DEFINE q == Len(log) + 1
             I == 1 .. Len(log)
  <1> HIDE DEF q, I
  <1>2. 1 .. Len(log') = I \cup {q} /\ q \notin I /\ log'[q] = c /\ \A i \in I : log'[i] = log[i]
    BY <1>1 DEF q, I
  <1>3. ASSUME NEW a
        PROVE  /\ Rewards(a) = {i \in I : log[i].type = "UpdateReputation" /\ log[i].agent = a}
               /\ Rewards(a)' = {i \in I \cup {q} : log'[i].type = "UpdateReputation"
                                                    /\ log'[i].agent = a}
    BY <1>2 DEF Rewards, Entries, I
  <1>4. /\ Decisions = {i \in I : Decides(log[i])}
        /\ Decisions' = {i \in I \cup {q} : Decides(log'[i])}
    BY <1>2 DEF Decisions, Entries, I, Decides
  <1>5. ASSUME NEW a
        PROVE  /\ Rewards(a)' = IF c.type = "UpdateReputation" /\ c.agent = a
                                THEN Rewards(a) \cup {q} ELSE Rewards(a)
               /\ q \notin Rewards(a)
    <2>0. \A i : i \in Rewards(a)' <=>
                   \/ i \in Rewards(a)
                   \/ i = q /\ c.type = "UpdateReputation" /\ c.agent = a
      BY <1>2, <1>3
    <2> DEFINE old == Rewards(a)
               new == Rewards(a)'
    <2> HIDE DEF old, new
    <2>1. \A i : i \in new <=> i \in old \/ (i = q /\ c.type = "UpdateReputation" /\ c.agent = a)
      BY <2>0 DEF old, new
    <2>2. q \notin old
      BY <1>2, <1>3 DEF old
    <2>3. CASE c.type = "UpdateReputation" /\ c.agent = a
      <3>1. new = old \cup {q}
        BY <2>1, <2>3
      <3> QED
        BY <2>2, <2>3, <3>1 DEF old, new
    <2>4. CASE ~(c.type = "UpdateReputation" /\ c.agent = a)
      <3>1. new = old
        BY <2>1, <2>4
      <3> QED
        BY <2>2, <2>4, <3>1 DEF old, new
    <2> QED
      BY <2>3, <2>4
  <1>6. /\ Decisions' = IF Decides(c) THEN Decisions \cup {q} ELSE Decisions
        /\ q \notin Decisions
    BY <1>2, <1>4
  <1> QED
    BY <1>5, <1>6 DEF q

(* Rewards and decisions can be counted, and so can debtors. *)
LEMMA BooksFinite ==
    ASSUME TypeOK, NEW a
    PROVE  /\ IsFiniteSet(Rewards(a)) /\ Cardinality(Rewards(a)) \in Nat
           /\ IsFiniteSet(Decisions) /\ Cardinality(Decisions) \in Nat
           /\ IsFiniteSet(Debtors(a)) /\ Cardinality(Debtors(a)) \in Nat
  <1>1. Len(log) \in Nat /\ IsFiniteSet(1 .. Len(log))
    BY FS_Interval DEF TypeOK, FSMTypeOK
  <1>2. Rewards(a) \in SUBSET (1 .. Len(log)) /\ Decisions \in SUBSET (1 .. Len(log))
    BY DEF Rewards, Decisions, Entries
  <1>3. Debtors(a) \in SUBSET Node
    BY DEF Debtors
  <1> QED
    BY <1>1, <1>2, <1>3, TallyAssumption, FS_Subset, FS_CardinalityType

(* A step of the books keeps everyone solvent. *)
LEMMA DutyStepSolvent ==
    ASSUME TypeOK, TypeOK', DutyStep, NEW a \in Node, Solvent(a)
    PROVE  Solvent(a)'
  <1> DEFINE R == Cardinality(Rewards(a))
             D == Cardinality(Debtors(a))
             F == Cardinality(Decisions)
  <1>1. /\ R \in Nat /\ D \in Nat /\ F \in Nat /\ R + D <= F
        /\ IsFiniteSet(Debtors(a)) /\ IsFiniteSet(Rewards(a)) /\ IsFiniteSet(Decisions)
    BY BooksFinite DEF Solvent
  <1>0. D' \in Nat
    <2>1. Debtors(a)' \in SUBSET Node
      BY DEF Debtors
    <2> QED
      BY <2>1, TallyAssumption, FS_Subset, FS_CardinalityType
  <1>2. DutiesShrink => D' <= D
    <2>1. DutiesShrink => Debtors(a)' \in SUBSET Debtors(a)
      BY DEF DutiesShrink, Debtors
    <2> QED
      BY <1>1, <2>1, FS_Subset
  <1>3. CASE UNCHANGED log /\ DutiesShrink
    <2>1. R' = R /\ F' = F
      BY <1>3 DEF Rewards, Decisions, Entries
    <2> QED
      BY <1>0, <1>1, <1>2, <1>3, <2>1 DEF Solvent
  <1>4. ASSUME NEW c, log' = Append(log, c), c.type # "UpdateReputation",
               DutiesShrink
        PROVE  Solvent(a)'
    <2>1. R' = R /\ F' \in {F, F + 1}
      <3>1. Rewards(a)' = Rewards(a)
        BY <1>4, EntriesAppended
      <3>2. Decisions' = Decisions \/ Decisions' = Decisions \cup {Len(log) + 1}
        BY <1>4, EntriesAppended
      <3>3. Len(log) + 1 \notin Decisions
        BY <1>4, EntriesAppended
      <3> QED
        BY <1>1, <3>1, <3>2, <3>3, FS_AddElement
    <2> QED
      BY <1>0, <1>1, <1>2, <1>4, <2>1 DEF Solvent
  <1>5. ASSUME NEW c, NEW n \in Node, log' = Append(log, c), Decides(c),
               \A m \in Node \ {n} : Owed(m)' \subseteq Owed(m)
        PROVE  Solvent(a)'
    <2>1. R' = R /\ F' = F + 1
      BY <1>1, <1>5, EntriesAppended, FS_AddElement DEF Decides
    <2>2. Debtors(a)' \in SUBSET (Debtors(a) \cup {n})
      BY <1>5 DEF Debtors
    <2>3. D' <= D + 1
      <3>1. /\ IsFiniteSet(Debtors(a) \cup {n})
            /\ Cardinality(Debtors(a) \cup {n}) \in Nat
            /\ Cardinality(Debtors(a) \cup {n}) <= D + 1
        <4>1. /\ IsFiniteSet(Debtors(a) \cup {n})
              /\ Cardinality(Debtors(a) \cup {n}) = IF n \in Debtors(a) THEN D ELSE D + 1
          BY <1>1, FS_AddElement
        <4> QED
          BY <1>1, <4>1
      <3>2. D' <= Cardinality(Debtors(a) \cup {n})
        BY <2>2, <3>1, FS_Subset
      <3> QED
        BY <1>0, <1>1, <3>1, <3>2
    <2> QED
      BY <1>0, <1>1, <2>1, <2>3 DEF Solvent
  <1>6. ASSUME NEW c, NEW n \in Node, log' = Append(log, c),
               c.type = "UpdateReputation", c.agent \in Owed(n) \ Owed(n)', DutiesShrink
        PROVE  Solvent(a)'
    <2>1. F' = F
      BY <1>6, EntriesAppended DEF Decides
    <2>2. CASE c.agent # a
      <3>1. R' = R
        BY <1>6, <2>2, EntriesAppended
      <3> QED
        BY <1>0, <1>1, <1>2, <1>6, <2>1, <3>1 DEF Solvent
    <2>3. CASE c.agent = a
      <3>1. R' = R + 1
        BY <1>1, <1>6, <2>3, EntriesAppended, FS_AddElement
      <3>2. Debtors(a)' \in SUBSET (Debtors(a) \ {n}) /\ n \in Debtors(a)
        BY <1>6, <2>3 DEF Debtors, DutiesShrink
      <3>3. D' <= D - 1
        <4>1. /\ IsFiniteSet(Debtors(a) \ {n})
              /\ Cardinality(Debtors(a) \ {n}) = D - 1
          BY <1>1, <3>2, FS_RemoveElement
        <4> QED
          BY <3>2, <4>1, FS_Subset
      <3> QED
        BY <1>0, <1>1, <2>1, <3>1, <3>3 DEF Solvent
    <2> QED
      BY <2>2, <2>3
  <1> QED
    BY <1>3, <1>4, <1>5, <1>6 DEF DutyStep

-----------------------------------------------------------------------------
(***************************************************************************)
(* Every step of the engines is one of those, and lets nobody be rewarded  *)
(* twice from then on.                                                     *)
(***************************************************************************)
BookStep == DutyStep /\ VotersOnce'

(* Where the duties end, or never began. *)
LEMMA FreeGoto ==
    ASSUME TypeOK, VotersOnce, NEW n \in Node, NEW place,
           loop' = [loop EXCEPT ![n] = place],
           place.at \notin {"revising", "finalizing", "rewarding"}
    PROVE  DutiesShrink /\ VotersOnce'
  <1>1. \A m \in Node : loop'[m] = IF m = n THEN place ELSE loop[m]
    BY DEF TypeOK, EngineTypeOK
  <1> QED
    BY <1>1 DEF DutiesShrink, Owed, VotersOnce, OncePerAgent

LEMMA SameLoop ==
    ASSUME VotersOnce, UNCHANGED loop
    PROVE  DutiesShrink /\ VotersOnce'
  BY DEF DutiesShrink, Owed, VotersOnce, OncePerAgent

(* Nothing is committed. *)
LEMMA QuietBooks ==
    ASSUME UNCHANGED log, DutiesShrink
    PROVE  DutyStep
  BY DEF DutyStep

(* Something else than a reward is committed. *)
LEMMA OtherEntry ==
    ASSUME NEW c, Commit(c), c.type # "UpdateReputation", DutiesShrink
    PROVE  DutyStep
  BY DEF DutyStep, Commit

(* The places the goroutine goes to without duties. *)
LEMMA FreePlaces ==
    /\ Idle.at = "idle"
    /\ \A t : Brainstorming(t).at = "brainstorming"
    /\ \A t, d : Aggregating(t, d).at = "aggregating"
    /\ \A d : Applying(d).at = "applying"
  BY DEF Idle, Brainstorming, Aggregating, Applying

(* The commands that reward nobody. *)
LEMMA OtherCommands ==
    /\ \A t : AdmitTask(t).type = "AdmitTask"
    /\ \A t, a : SubmitAnswer(t, a).type = "SubmitAnswer"
    /\ \A t, s : UpdateTask(t, s).type = "UpdateTask"
    /\ \A v : SubmitVote(v).type = "SubmitVote"
  BY DEF AdmitTask, SubmitAnswer, UpdateTask, SubmitVote

(* The voters of a round are counted once each. *)
LEMMA LiveVotersOnce ==
    ASSUME BallotsOnce, NEW n \in Node, NEW t, NEW r
    PROVE  OncePerAgent(Voters(votes[n], t, r))
  <1> SUFFICES ASSUME NEW v \in InRound(votes[n], t, r), NEW w \in InRound(votes[n], t, r),
                      v.agent = w.agent
               PROVE  v = w
    BY DEF OncePerAgent, Voters
  <1> QED
    BY DEF BallotsOnce, InRound, SameBallot

(* Waiting for a result, or for a decision to be committed. *)
LEMMA DutyGoto ==
    ASSUME TypeOK, VotersOnce, NEW n \in Node, NEW place,
           loop' = [loop EXCEPT ![n] = place], OncePerAgent(place.voters)
    PROVE  /\ VotersOnce'
           /\ \A m \in Node \ {n} : Owed(m)' = Owed(m)
           /\ place.at = "revising" => DutiesShrink
  <1>1. \A m \in Node : loop'[m] = IF m = n THEN place ELSE loop[m]
    BY DEF TypeOK, EngineTypeOK
  <1> QED
    BY <1>1 DEF DutiesShrink, Owed, VotersOnce, OncePerAgent

LEMMA EventBookStep ==
    ASSUME TypeOK, BallotsOnce, VotersOnce, NEW n \in Node, HandleEvent(n)
    PROVE  BookStep
  <1> USE DEF BookStep
  <1>1. CASE HandleTaskAdmitted(n) \/ StartProposal(n)
    <2>1. CASE HandleTaskAdmitted(n)
      <3>1. loop' = [loop EXCEPT ![n] = Brainstorming(Subject(n))] /\ UNCHANGED log
        BY <2>1 DEF HandleTaskAdmitted, Goto, raftVars
      <3> QED
        BY <3>1, FreePlaces, FreeGoto, QuietBooks
    <2>2. CASE StartProposal(n)
      <3>1. loop' = [loop EXCEPT ![n] = Aggregating(Subject(n), TRUE)] /\ UNCHANGED log
        BY <2>2 DEF StartProposal, Goto, raftVars
      <3> QED
        BY <3>1, FreePlaces, FreeGoto, QuietBooks
    <2> QED
      BY <1>1, <2>1, <2>2
  <1>2. CASE IgnoreAnswer(n) \/ LateAnswer(n) \/ AwaitAnswers(n)
    BY <1>2, SameLoop, QuietBooks
    DEF IgnoreAnswer, LateAnswer, AwaitAnswers, raftVars, engineVars
  <1>3. CASE CompleteTask(n) \/ OpenBallot(n)
    BY <1>3, SameLoop, QuietBooks DEF CompleteTask, OpenBallot, raftVars
  <1>4. CASE IgnoreVote(n) \/ AwaitVotes(n)
    BY <1>4, SameLoop, QuietBooks DEF IgnoreVote, AwaitVotes, raftVars, engineVars
  <1>5. CASE StartRevision(n)
    <2> DEFINE place == Revising(Subject(n), LiveVoters(n))
    <2>1. place.at = "revising" /\ place.voters = LiveVoters(n)
      BY DEF Revising
    <2>2. UNCHANGED log /\ loop' = [loop EXCEPT ![n] = place]
      BY <1>5 DEF StartRevision, Goto, raftVars
    <2>3. OncePerAgent(LiveVoters(n))
      BY LiveVotersOnce DEF LiveVoters
    <2> QED
      BY <2>1, <2>2, <2>3, DutyGoto, QuietBooks
  <1>6. ASSUME NEW status \in Final, NEW s \in TaskState, Settle(n, status, s)
        PROVE  BookStep
    <2> DEFINE place == Finalizing(status, LiveVoters(n))
               c == UpdateTask(Subject(n), [s EXCEPT !.status = status])
    <2>1. place.voters = LiveVoters(n) /\ Decides(c)
      BY DEF Finalizing, Decides, UpdateTask, TaskState
    <2>2. log' = Append(log, c) /\ loop' = [loop EXCEPT ![n] = place]
      BY <1>6 DEF Settle, Commit, Goto
    <2>3. OncePerAgent(LiveVoters(n))
      BY LiveVotersOnce DEF LiveVoters
    <2>4. VotersOnce' /\ \A m \in Node \ {n} : Owed(m)' \subseteq Owed(m)
      BY <2>1, <2>2, <2>3, DutyGoto
    <2> QED
      BY <2>1, <2>2, <2>4 DEF DutyStep
  <1>7. CASE Finalize(n) \/ FinalizeFallback(n)
    <2>1. PICK status \in Final, s \in TaskState : Settle(n, status, s)
      <3>1. Handle(n, "VoteSubmitted") /\ Live(n) \in TaskState
        BY <1>7, HandleTyped DEF Finalize, FinalizeFallback, CountVotes
      <3>2. CASE Finalize(n)
        BY <3>1, <3>2 DEF Finalize
      <3>3. CASE FinalizeFallback(n)
        <4> DEFINE r == BestRound(votes[n], Subject(n), Live(n).round)
        <4>1. r \in Nat
          <5>1. Live(n).round \in Nat /\ Agents(votes[n])
            BY <3>1, ReplicaVotesCount DEF TaskState
          <5>2. Candidates(votes[n], Subject(n), Live(n).round) # {}
            BY <3>3, <5>1, DoneVerdictHasQuorum DEF FinalizeFallback, LiveVerdict
          <5> QED
            BY <5>1, <5>2, BestRoundExists
        <4> QED
          BY <3>1, <3>3, <4>1, RecordsTyped DEF FinalizeFallback, Final
      <3> QED
        BY <1>7, <3>2, <3>3
    <2> QED
      BY <1>6, <2>1
  <1>8. CASE FinalizeFallbackRefused(n)
    BY <1>8, SameLoop, QuietBooks DEF FinalizeFallbackRefused, engineVars
  <1> QED
    BY <1>1, <1>2, <1>3, <1>4, <1>5, <1>7, <1>8 DEF HandleEvent

LEMMA TimeoutBookStep ==
    ASSUME TypeOK, VotersOnce, NEW n \in Node, HandleTimeout(n) \/ Fire(n)
    PROVE  BookStep
  <1> USE DEF BookStep
  <1>1. CASE Fire(n)
    BY <1>1, SameLoop, QuietBooks DEF Fire, TimerFires, OrphanFires, raftVars
  <1>2. ASSUME NEW t \in Task, ForceProposal(n, t)
        PROVE  BookStep
    BY <1>2, FreePlaces, FreeGoto, QuietBooks DEF ForceProposal, Goto, raftVars
  <1>3. ASSUME NEW t \in Task, FailTask(n, t)
        PROVE  BookStep
    BY <1>3, FreePlaces, FreeGoto, OtherCommands, OtherEntry DEF FailTask, Goto
  <1>4. ASSUME NEW t \in Task, FailTaskRefused(n, t)
        PROVE  BookStep
    BY <1>4, SameLoop, QuietBooks DEF FailTaskRefused, raftVars
  <1> QED
    BY <1>1, <1>2, <1>3, <1>4 DEF HandleTimeout

LEMMA CallBookStep ==
    ASSUME TypeOK, VotersOnce, NEW n \in Node, CallSucceeds(n) \/ CallFails(n)
    PROVE  BookStep
  <1> USE DEF BookStep
  <1>1. CASE Brainstorm(n) \/ Propose(n) \/ Revise(n)
    <2>1. PICK c : Commit(c) /\ c.type # "UpdateReputation"
      BY <1>1, OtherCommands DEF Brainstorm, Propose, Revise
    <2>2. \/ loop' = [loop EXCEPT ![n] = Idle]
          \/ loop' = [loop EXCEPT ![n] = Applying(loop[n].drops)]
          \/ loop' = [loop EXCEPT ![n] = Applying(FALSE)]
      BY <1>1 DEF Brainstorm, Propose, Revise, Goto
    <2>3. DutiesShrink /\ VotersOnce'
      BY <2>2, FreePlaces, FreeGoto
    <2> QED
      BY <2>1, <2>3, OtherEntry
  <1>2. CASE ProposeRefused(n) \/ ReviseRefused(n) \/ BrainstormFails(n) \/ AggregateFails(n)
             \/ ReviseFailureRefused(n)
    <2>1. UNCHANGED log /\ loop' = [loop EXCEPT ![n] = Idle]
      BY <1>2 DEF ProposeRefused, ReviseRefused, BrainstormFails, AggregateFails,
                  ReviseFailureRefused, Goto, raftVars
    <2> QED
      BY <2>1, FreePlaces, FreeGoto, QuietBooks
  <1>3. CASE ReviseFails(n)
    <2> DEFINE s == task[n][loop[n].task]
               c == UpdateTask(loop[n].task, [s EXCEPT !.status = "failed"])
               place == Finalizing("failed", loop[n].voters)
    <2>1. s \in TaskState /\ OncePerAgent(loop[n].voters)
      BY <1>3, LoopFields DEF ReviseFails, TypeOK, FSMTypeOK, EngineTypeOK, VotersOnce
    <2>2. log' = Append(log, c) /\ loop' = [loop EXCEPT ![n] = place]
      BY <1>3 DEF ReviseFails, Commit, Goto
    <2>3. Decides(c) /\ place.voters = loop[n].voters
      BY <2>1 DEF Decides, UpdateTask, TaskState, Final, Finalizing
    <2>4. VotersOnce' /\ \A m \in Node \ {n} : Owed(m)' \subseteq Owed(m)
      BY <2>1, <2>2, <2>3, DutyGoto
    <2> QED
      BY <2>2, <2>3, <2>4 DEF DutyStep
  <1> QED
    BY <1>1, <1>2, <1>3 DEF CallSucceeds, CallFails

(* A reward pays for one duty, and the rest remains. *)
LEMMA RewardBookStep ==
    ASSUME TypeOK, VotersOnce, NEW n \in Node, NEW a \in Node, NEW x, NEW due,
           Reward(n, a, x, due), loop[n].at \in {"finalizing", "rewarding"},
           due \subseteq loop[n].voters, a \in Owed(n), \A b \in due : b[1] # a
    PROVE  BookStep
  <1> USE DEF BookStep
  <1>1. PICK place : /\ place.at = "rewarding" /\ place.voters = due
                     /\ loop' = [loop EXCEPT ![n] = place]
    BY DEF Reward, Goto, Rewarding
  <1>2. OncePerAgent(due)
    BY DEF VotersOnce, OncePerAgent
  <1>3. VotersOnce' /\ \A m \in Node \ {n} : Owed(m)' = Owed(m)
    BY <1>1, <1>2, DutyGoto
  <1>4. Owed(n)' = {b[1] : b \in due}
    BY <1>1 DEF Owed, TypeOK, EngineTypeOK
  <1>5. Owed(n)' \subseteq Owed(n) /\ a \notin Owed(n)'
    <2>1. {b[1] : b \in loop[n].voters} \subseteq Owed(n)
      BY DEF Owed
    <2> QED
      BY <1>4, <2>1
  <1>6. DutiesShrink
    BY <1>3, <1>5 DEF DutiesShrink
  <1>7. CASE IsLeader(n)
    <2> DEFINE c == UpdateReputation(a, x)
    <2>1. log' = Append(log, c) /\ c.type = "UpdateReputation" /\ c.agent = a
      BY <1>7 DEF Reward, Commit, UpdateReputation
    <2> HIDE DEF c
    <2> QED
      BY <1>3, <1>5, <1>6, <2>1 DEF DutyStep
  <1>8. CASE ~IsLeader(n)
    BY <1>3, <1>6, <1>8, QuietBooks DEF Reward
  <1> QED
    BY <1>7, <1>8

LEMMA FinishBookStep ==
    ASSUME TypeOK, VotersOnce, NEW n \in Node, FinishCall(n)
    PROVE  BookStep
  <1>1. CASE ApplyReturns(n) \/ ApplyFails(n) \/ FinalizeFails(n) \/ CheckTransfer(n)
    <2>1. UNCHANGED log /\ loop' = [loop EXCEPT ![n] = Idle]
      BY <1>1 DEF ApplyReturns, ApplyFails, FinalizeFails, CheckTransfer, Goto, raftVars
    <2> QED
      BY <2>1, FreePlaces, FreeGoto, QuietBooks DEF BookStep
  <1>2. CASE RewardLeader(n)
    <2> DEFINE due == {b \in loop[n].voters : b[1] # n}
    <2>1. loop[n].at = "finalizing" /\ \E x : Reward(n, n, x, due)
      BY <1>2 DEF RewardLeader
    <2>2. n \in Owed(n) /\ due \subseteq loop[n].voters /\ \A b \in due : b[1] # n
      BY <2>1 DEF Owed
    <2> HIDE DEF due
    <2> QED
      BY <2>1, <2>2, RewardBookStep
  <1>3. CASE RewardVoter(n)
    <2>1. loop[n].at = "rewarding"
      BY <1>3 DEF RewardVoter
    <2>2. PICK b \in loop[n].voters : \E x : Reward(n, b[1], x, loop[n].voters \ {b})
      BY <1>3 DEF RewardVoter
    <2>3. b[1] \in Node
      BY <2>1, LoopFields DEF TypeOK, EngineTypeOK
    <2>4. b[1] \in Owed(n) /\ \A d \in loop[n].voters \ {b} : d[1] # b[1]
      BY <2>1 DEF Owed, VotersOnce, OncePerAgent
    <2> QED
      BY <2>1, <2>2, <2>3, <2>4, RewardBookStep
  <1> QED
    BY <1>1, <1>2, <1>3 DEF FinishCall

LEMMA NextBookStep ==
    ASSUME TypeOK, BallotsOnce, VotersOnce, [Next]_vars
    PROVE  BookStep
  <1>1. ASSUME NEW t \in Task, SubmitTask(t)
        PROVE  BookStep
    BY <1>1, SameLoop, OtherCommands, OtherEntry DEF BookStep, SubmitTask, engineVars
  <1>2. ASSUME NEW n \in Node, Step(n)
        PROVE  BookStep
    <2>1. CASE Replicate(n)
      BY <2>1, SameLoop, QuietBooks
      DEF BookStep, Replicate, ApplyCommand, ApplyAdmitTask, ApplySubmitAnswer,
          ApplyUpdateTask, ApplySubmitVote, ApplyUpdateReputation, raftVars, engineVars
    <2>2. CASE Elect(n)
      BY <2>2, SameLoop, QuietBooks DEF BookStep, Elect, engineVars
    <2>3. CASE VoteOf(n)
      <3>1. ASSUME NEW b, NEW ok, CastVote(b, ok)
            PROVE  BookStep
        BY <3>1, SameLoop, OtherCommands, OtherEntry DEF BookStep, CastVote
      <3>2. ASSUME NEW b, LoseVote(b)
            PROVE  BookStep
        BY <3>2, SameLoop, QuietBooks DEF BookStep, LoseVote, raftVars
      <3> QED
        BY <2>3, <3>1, <3>2 DEF VoteOf
    <2> QED
      BY <1>2, <2>1, <2>2, <2>3, EventBookStep, TimeoutBookStep, CallBookStep, FinishBookStep
      DEF Step
  <1>3. CASE UNCHANGED vars
    BY <1>3, SameLoop, QuietBooks DEF BookStep, vars, raftVars, engineVars
  <1> QED
    BY <1>1, <1>2, <1>3 DEF Next

(* A replica that applies a second vote of a ballot ignores it. *)
LEMMA NextBallotsOnce ==
    ASSUME TypeOK, BallotsOnce, [Next]_vars
    PROVE  BallotsOnce'
  <1>1. CASE LogStep
    BY <1>1 DEF LogStep, BallotsOnce
  <1>2. ASSUME NEW n \in Node, Replicate(n)
        PROVE  BallotsOnce'
    <2>1. CASE ApplySubmitVote(n)
      <3> DEFINE v == NextCommand(n).vote
      <3>1. \/ votes' = votes
            \/ /\ votes' = [votes EXCEPT ![n] = votes[n] \cup {v}]
               /\ \A w \in votes[n] : ~SameBallot(v, w)
        BY <2>1 DEF ApplySubmitVote
      <3> HIDE DEF v
      <3>2. CASE votes' = votes
        BY <3>2 DEF BallotsOnce
      <3>3. CASE votes' = [votes EXCEPT ![n] = votes[n] \cup {v}]
                 /\ \A w \in votes[n] : ~SameBallot(v, w)
        <4>1. \A m \in Node : votes'[m] = IF m = n THEN votes[n] \cup {v} ELSE votes[m]
          BY <3>3 DEF TypeOK, FSMTypeOK
        <4>2. \A w \in votes[n] : ~SameBallot(v, w) /\ ~SameBallot(w, v)
          BY <3>3 DEF SameBallot
        <4> QED
          BY <4>1, <4>2 DEF BallotsOnce
      <3> QED
        BY <3>1, <3>2, <3>3
    <2>2. CASE ~ApplySubmitVote(n)
      <3>1. UNCHANGED votes
        BY <1>2, <2>2 DEF Replicate, ApplyCommand, ApplyAdmitTask, ApplySubmitAnswer,
                          ApplyUpdateTask, ApplyUpdateReputation
      <3> QED
        BY <3>1 DEF BallotsOnce
    <2> QED
      BY <2>1, <2>2
  <1> QED
    BY <1>1, <1>2, NextLogStep

-----------------------------------------------------------------------------
LEMMA InitReward == Init => RewardInv
  <1> SUFFICES ASSUME Init
               PROVE  RewardInv
    OBVIOUS
  <1>1. BallotsOnce /\ VotersOnce
    BY DEF Init, FSMInit, BallotsOnce, VotersOnce, Idle
  <1>2. ASSUME NEW a \in Node
        PROVE  Solvent(a)
    <2>1. Rewards(a) = {} /\ Decisions = {}
      BY DEF Init, FSMInit, Rewards, Decisions, Entries
    <2>2. Debtors(a) = {}
      BY DEF Init, Debtors, Owed, Idle
    <2> QED
      BY <2>1, <2>2, FS_EmptySet DEF Solvent
  <1> QED
    BY <1>1, <1>2, InitTypeOK DEF RewardInv

LEMMA NextReward == RewardInv /\ [Next]_vars => RewardInv'
  <1> SUFFICES ASSUME RewardInv, [Next]_vars
               PROVE  RewardInv'
    OBVIOUS
  <1> USE DEF RewardInv
  <1>1. TypeOK'
    BY NextTypeOK
  <1>2. DutyStep /\ VotersOnce'
    BY NextBookStep DEF BookStep
  <1>3. \A a \in Node : Solvent(a)'
    BY <1>1, <1>2, DutyStepSolvent
  <1> QED
    BY <1>1, <1>2, <1>3, NextBallotsOnce

(***************************************************************************)
(* Whoever leads, and however often leadership moves while updateRep-      *)
(* utations is on its way through the voters, no agent is rewarded or      *)
(* punished more often than tasks were decided.                            *)
(***************************************************************************)
THEOREM AlwaysRewardedOnce == Spec => []RewardedOnce
  <1>1. RewardInv => RewardedOnce
    <2> SUFFICES ASSUME RewardInv, NEW a \in Node
                 PROVE  Cardinality(Rewards(a)) <= Cardinality(Decisions)
      BY DEF RewardedOnce
    <2> QED
      BY BooksFinite DEF RewardInv, Solvent
  <1> QED
    BY <1>1, InitReward, NextReward, PTL DEF Spec

-----------------------------------------------------------------------------
(***************************************************************************)
(* No agent answers a task twice.  An agent owes a task an answer until it *)
(* has sent one: before it is told of the task, while the event waits, and *)
(* while it brainstorms.  The task is admitted once, so that the debt does *)
(* not come back.                                                          *)
(***************************************************************************)
AdmittedOnce ==
    \A t \in Task : \A i, j \in 1 .. Len(log) :
        log[i] = AdmitTask(t) /\ log[j] = AdmitTask(t) => i = j

Told(n, t) == \E i \in 1 .. applied[n] : log[i] = AdmitTask(t)
Notice(t) == [type |-> "TaskAdmitted", task |-> t]
Notices(n, t) == {i \in 1 .. Len(events[n]) : events[n][i] = Notice(t)}
Thinking(n, t) == loop[n] = Brainstorming(t)

OneNotice(n, t) ==
    /\ \A i, j \in Notices(n, t) : i = j
    /\ Notices(n, t) # {} \/ Thinking(n, t) => Told(n, t)
    /\ Notices(n, t) # {} => ~Thinking(n, t)

Due(n, t) == ~Told(n, t) \/ Notices(n, t) # {} \/ Thinking(n, t)
AnswersOf(n, t) == {i \in Entries("SubmitAnswer") : log[i] = SubmitAnswer(t, n)}
Bill(n, t) == Cardinality(AnswersOf(n, t)) + (IF Due(n, t) THEN 1 ELSE 0)

NoticesOnce == AdmittedOnce /\ \A n \in Node, t \in Task : OneNotice(n, t)

(***************************************************************************)
(* A step that has nothing to do with answering: it may commit something   *)
(* else, take other events and go on elsewhere.                            *)
(***************************************************************************)
OtherCommit(c) ==
    c.type # "SubmitAnswer" /\ \A t \in Task : c = AdmitTask(t) => ~Submitted(t)

TakesOther(m) ==
    \/ events'[m] = events[m]
    \/ /\ events[m] # <<>> /\ events'[m] = Tail(events[m])
       /\ Head(events[m]).type # "TaskAdmitted"

LeavesOther(m) == loop'[m] = loop[m] \/ loop'[m].at # "brainstorming"

Aside ==
    /\ UNCHANGED applied
    /\ UNCHANGED log \/ \E c : log' = Append(log, c) /\ OtherCommit(c)
    /\ \A m \in Node : TakesOther(m) /\ LeavesOther(m)

-----------------------------------------------------------------------------
(* The channel of a replica after its head was taken, or an event added. *)
LEMMA NoticesTail ==
    ASSUME TypeOK, NEW n \in Node, NEW t, events[n] # <<>>, events'[n] = Tail(events[n])
    PROVE  /\ \A i \in Notices(n, t)' : i \in Nat /\ i >= 1 /\ i + 1 \in Notices(n, t)
           /\ Head(events[n]) = Notice(t) <=> 1 \in Notices(n, t)
  <1>1. events[n] \in Seq(Event)
    BY DEF TypeOK, FSMTypeOK
  <1> QED
    BY <1>1 DEF Notices

LEMMA NoticesAppend ==
    ASSUME TypeOK, NEW n \in Node, NEW t, NEW e, events'[n] = Append(events[n], e)
    PROVE  /\ e # Notice(t) => Notices(n, t)' = Notices(n, t)
           /\ Notices(n, t) = {} => \A i, j \in Notices(n, t)' : i = j
  <1>1. events[n] \in Seq(Event)
    BY DEF TypeOK, FSMTypeOK
  <1> QED
    BY <1>1 DEF Notices

(* Taking something else leaves no new notice, and at most one. *)
LEMMA OtherTaken ==
    ASSUME TypeOK, NEW n \in Node, NEW t \in Task, OneNotice(n, t), TakesOther(n)
    PROVE  /\ \A i, j \in Notices(n, t)' : i = j
           /\ Notices(n, t)' # {} => Notices(n, t) # {}
  <1>1. CASE events'[n] = events[n]
    BY <1>1 DEF OneNotice, Notices
  <1>2. CASE events[n] # <<>> /\ events'[n] = Tail(events[n])
    <2>1. \A i \in Notices(n, t)' : i \in Nat /\ i + 1 \in Notices(n, t)
      BY <1>2, NoticesTail
    <2> QED
      BY <2>1 DEF OneNotice
  <1> QED
    BY <1>1, <1>2 DEF TakesOther

(* What an agent was told it stays told. *)
LEMMA ToldStays ==
    ASSUME TypeOK, UNCHANGED applied, NEW n \in Node, NEW t,
           UNCHANGED log \/ \E c : log' = Append(log, c)
    PROVE  Told(n, t)' <=> Told(n, t)
  <1>1. \A i \in 1 .. applied[n] : log'[i] = log[i]
    <2>1. applied[n] \in Nat /\ Len(log) \in Nat /\ applied[n] <= Len(log)
      BY DEF TypeOK, FSMTypeOK
    <2> QED
      BY <2>1, EntriesStable
  <1> QED
    BY <1>1 DEF Told

(* The answers in the log can be counted, and one entry more is one more. *)
LEMMA AnswersFinite ==
    ASSUME TypeOK, NEW n, NEW t
    PROVE  /\ IsFiniteSet(AnswersOf(n, t)) /\ Cardinality(AnswersOf(n, t)) \in Nat
           /\ Bill(n, t) \in Nat
  <1>1. Len(log) \in Nat /\ IsFiniteSet(1 .. Len(log))
    BY FS_Interval DEF TypeOK, FSMTypeOK
  <1>2. AnswersOf(n, t) \in SUBSET (1 .. Len(log))
    BY DEF AnswersOf, Entries
  <1>3. IsFiniteSet(AnswersOf(n, t)) /\ Cardinality(AnswersOf(n, t)) \in Nat
    BY <1>1, <1>2, FS_Subset, FS_CardinalityType
  <1> QED
    BY <1>3 DEF Bill

LEMMA AnswersAppended ==
    ASSUME TypeOK, NEW c, log' = Append(log, c), NEW n, NEW t
    PROVE  /\ c = SubmitAnswer(t, n) =>
                /\ AnswersOf(n, t)' = AnswersOf(n, t) \cup {Len(log) + 1}
                /\ Cardinality(AnswersOf(n, t)') = Cardinality(AnswersOf(n, t)) + 1
           /\ c # SubmitAnswer(t, n) => AnswersOf(n, t)' = AnswersOf(n, t)
  <1> DEFINE q == Len(log) + 1
             I == 1 .. Len(log)
             old == AnswersOf(n, t)
             new == AnswersOf(n, t)'
  <1>1. /\ 1 .. Len(log') = I \cup {q} /\ q \notin I
        /\ log'[q] = c /\ \A i \in I : log'[i] = log[i]
    BY DEF TypeOK, FSMTypeOK
  <1> HIDE DEF q, I
  <1>2. SubmitAnswer(t, n).type = "SubmitAnswer"
    BY DEF SubmitAnswer
  <1>3. old = {i \in I : log[i] = SubmitAnswer(t, n)}
    BY <1>2 DEF AnswersOf, Entries, I
  <1>4. new = {i \in I \cup {q} : log'[i] = SubmitAnswer(t, n)}
    BY <1>1, <1>2 DEF AnswersOf, Entries
  <1> HIDE DEF old, new
  <1>5. \A i : i \in new <=> i \in old \/ (i = q /\ c = SubmitAnswer(t, n))
    BY <1>1, <1>3, <1>4
  <1>6. ASSUME c = SubmitAnswer(t, n)
        PROVE  new = old \cup {q} /\ Cardinality(new) = Cardinality(old) + 1
    <2>1. new = old \cup {q} /\ q \notin old
      BY <1>1, <1>3, <1>5, <1>6
    <2>2. IsFiniteSet(old)
      BY AnswersFinite DEF old
    <2> QED
      BY <2>1, <2>2, FS_AddElement
  <1>7. ASSUME c # SubmitAnswer(t, n)
        PROVE  new = old
    BY <1>5, <1>7
  <1> QED
    BY <1>6, <1>7 DEF old, new, q

-----------------------------------------------------------------------------
(***************************************************************************)
(* Who answers what, one kind of step at a time.                           *)
(***************************************************************************)
NoMoreAnswers ==
    \A n \in Node, t \in Task : OneNotice(n, t)' /\ Bill(n, t)' <= Bill(n, t)

(* It is enough that no answer is added and none becomes due. *)
LEMMA BillKept ==
    ASSUME TypeOK, NEW n, NEW t, AnswersOf(n, t)' = AnswersOf(n, t), Due(n, t)' => Due(n, t)
    PROVE  Bill(n, t)' <= Bill(n, t)
  <1>1. Cardinality(AnswersOf(n, t)) \in Nat
    BY AnswersFinite
  <1> QED
    BY <1>1 DEF Bill

LEMMA SameAnswers ==
    ASSUME UNCHANGED log, NEW n, NEW t
    PROVE  AnswersOf(n, t)' = AnswersOf(n, t)
  BY DEF AnswersOf, Entries

LEMMA AsideAnswers ==
    ASSUME TypeOK, NoticesOnce, Aside
    PROVE  NoMoreAnswers /\ AdmittedOnce'
  <1>1. ASSUME NEW n \in Node, NEW t \in Task
        PROVE  OneNotice(n, t)' /\ Bill(n, t)' <= Bill(n, t)
    <2>1. Told(n, t)' <=> Told(n, t)
      BY ToldStays DEF Aside
    <2>2. /\ \A i, j \in Notices(n, t)' : i = j
          /\ Notices(n, t)' # {} => Notices(n, t) # {}
      BY OtherTaken DEF NoticesOnce, Aside
    <2>3. Thinking(n, t)' => Thinking(n, t)
      BY DEF Aside, LeavesOther, Thinking, Brainstorming
    <2>4. AnswersOf(n, t)' = AnswersOf(n, t)
      <3>1. CASE UNCHANGED log
        BY <3>1, SameAnswers
      <3>2. ASSUME NEW c, log' = Append(log, c), OtherCommit(c)
            PROVE  AnswersOf(n, t)' = AnswersOf(n, t)
        <4>1. c # SubmitAnswer(t, n)
          BY <3>2 DEF OtherCommit, SubmitAnswer
        <4> QED
          BY <3>2, <4>1, AnswersAppended
      <3> QED
        BY <3>1, <3>2 DEF Aside
    <2>5. Due(n, t)' => Due(n, t)
      BY <2>1, <2>2, <2>3 DEF Due
    <2>6. OneNotice(n, t)
      BY DEF NoticesOnce
    <2>7. OneNotice(n, t)'
      BY <2>1, <2>2, <2>3, <2>6 DEF OneNotice
    <2> QED
      BY <2>4, <2>5, <2>7, BillKept
  <1>2. AdmittedOnce'
    <2>1. CASE UNCHANGED log
      BY <2>1 DEF NoticesOnce, AdmittedOnce
    <2>2. ASSUME NEW c, log' = Append(log, c), OtherCommit(c)
          PROVE  AdmittedOnce'
      <3> SUFFICES ASSUME NEW t \in Task, NEW i \in 1 .. Len(log'), NEW j \in 1 .. Len(log'),
                          log'[i] = AdmitTask(t), log'[j] = AdmitTask(t)
                   PROVE  i = j
        BY DEF AdmittedOnce
      <3>1. /\ Len(log) \in Nat /\ Len(log') = Len(log) + 1
            /\ \A k \in 1 .. Len(log) : log'[k] = log[k]
            /\ log'[Len(log) + 1] = c
        BY <2>2, EntriesStable DEF TypeOK, FSMTypeOK
      <3>2. c = AdmitTask(t) => \A k \in 1 .. Len(log) : log[k] # AdmitTask(t)
        BY <2>2 DEF OtherCommit, Submitted
      <3> QED
        BY <3>1, <3>2 DEF NoticesOnce, AdmittedOnce
    <2> QED
      BY <2>1, <2>2 DEF Aside
  <1> QED
    BY <1>1, <1>2 DEF NoMoreAnswers

(* An agent takes its one notice of a task and begins to think. *)
LEMMA AdmittedAnswers ==
    ASSUME TypeOK, NoticesOnce, NEW k \in Node, HandleTaskAdmitted(k)
    PROVE  NoMoreAnswers /\ AdmittedOnce'
  <1> DEFINE s == Subject(k)
  <1>1. /\ UNCHANGED <<log, applied>> /\ loop[k] = Idle
        /\ events[k] # <<>> /\ Head(events[k]).type = "TaskAdmitted"
        /\ events' = [events EXCEPT ![k] = Tail(events[k])]
        /\ loop' = [loop EXCEPT ![k] = Brainstorming(s)]
    BY DEF HandleTaskAdmitted, Handle, Goto, raftVars, store
  <1>2. \A m \in Node : /\ events'[m] = IF m = k THEN Tail(events[k]) ELSE events[m]
                        /\ loop'[m] = IF m = k THEN Brainstorming(s) ELSE loop[m]
    BY <1>1 DEF TypeOK, FSMTypeOK, EngineTypeOK
  <1>3. Head(events[k]) = Notice(s)
    <2>1. Head(events[k]) \in Event
      BY <1>1 DEF TypeOK, FSMTypeOK
    <2> QED
      BY <1>1, <2>1 DEF Event, Notice, Subject
  <1>4. ASSUME NEW n \in Node, NEW t \in Task
        PROVE  OneNotice(n, t)' /\ (Due(n, t)' => Due(n, t))
    <2>1. Told(n, t)' <=> Told(n, t)
      BY <1>1, ToldStays
    <2>2. OneNotice(n, t)
      BY DEF NoticesOnce
    <2>3. CASE n # k
      <3>1. Notices(n, t)' = Notices(n, t) /\ (Thinking(n, t)' <=> Thinking(n, t))
        BY <1>2, <2>3 DEF Notices, Thinking
      <3> QED
        BY <2>1, <2>2, <3>1 DEF OneNotice, Due
    <2>4. CASE n = k
      <3>1. /\ \A i \in Notices(k, t)' : i \in Nat /\ i >= 1 /\ i + 1 \in Notices(k, t)
            /\ Notice(s) = Notice(t) <=> 1 \in Notices(k, t)
        BY <1>1, <1>2, <1>3, NoticesTail
      <3>2. ~Thinking(k, t) /\ (Thinking(k, t)' <=> s = t)
        BY <1>1, <1>2 DEF Thinking, Brainstorming, Idle
      <3>3. CASE s = t
        <4>1. 1 \in Notices(k, t)
          BY <3>1, <3>3
        <4>2. Notices(k, t)' = {}
          BY <2>2, <2>4, <3>1, <4>1 DEF OneNotice
        <4> QED
          BY <2>1, <2>2, <2>4, <3>2, <4>1, <4>2 DEF OneNotice, Due
      <3>4. CASE s # t
        <4>1. /\ \A i, j \in Notices(k, t)' : i = j
              /\ Notices(k, t)' # {} => Notices(k, t) # {}
          BY <2>2, <2>4, <3>1 DEF OneNotice
        <4> QED
          BY <2>1, <2>2, <2>4, <3>2, <3>4, <4>1 DEF OneNotice, Due
      <3> QED
        BY <3>3, <3>4
    <2> QED
      BY <2>3, <2>4
  <1>5. AdmittedOnce'
    BY <1>1 DEF NoticesOnce, AdmittedOnce
  <1> QED
    BY <1>1, <1>4, <1>5, BillKept, SameAnswers DEF NoMoreAnswers

(* An agent that answers owes no answer any more. *)
LEMMA BrainstormAnswers ==
    ASSUME TypeOK, NoticesOnce, NEW k \in Node, Brainstorm(k)
    PROVE  NoMoreAnswers /\ AdmittedOnce'
  <1> DEFINE s == loop[k].task
             c == SubmitAnswer(s, k)
  <1>1. /\ UNCHANGED <<applied, events>> /\ log' = Append(log, c)
        /\ loop' = [loop EXCEPT ![k] = Idle]
    BY DEF Brainstorm, Commit, Goto, replicaVars, store
  <1>2. loop[k] = Brainstorming(s) /\ s \in Task
    <2>1. loop[k] \in LoopState /\ loop[k].at = "brainstorming"
      BY DEF Brainstorm, TypeOK, EngineTypeOK
    <2> QED
      BY <2>1 DEF LoopState, Brainstorming
  <1>3. \A m \in Node : loop'[m] = IF m = k THEN Idle ELSE loop[m]
    BY <1>1 DEF TypeOK, EngineTypeOK
  <1>4. ASSUME NEW n \in Node, NEW t \in Task
        PROVE  OneNotice(n, t)' /\ Bill(n, t)' <= Bill(n, t)
    <2>1. Told(n, t)' <=> Told(n, t)
      BY <1>1, ToldStays
    <2>2. OneNotice(n, t)
      BY DEF NoticesOnce
    <2>3. Notices(n, t)' = Notices(n, t)
      BY <1>1 DEF Notices
    <2>4. Thinking(n, t)' <=> Thinking(n, t) /\ n # k
      BY <1>3 DEF Thinking, Idle, Brainstorming
    <2>5. OneNotice(n, t)'
      BY <2>1, <2>2, <2>3, <2>4 DEF OneNotice
    <2>6. CASE n = k /\ t = s
      <3>1. Thinking(n, t) /\ Notices(n, t) = {} /\ Told(n, t)
        BY <1>2, <2>2, <2>6 DEF OneNotice, Thinking
      <3>2. Due(n, t) /\ ~Due(n, t)'
        BY <2>1, <2>3, <2>4, <2>6, <3>1 DEF Due
      <3>3. /\ Cardinality(AnswersOf(n, t)') = Cardinality(AnswersOf(n, t)) + 1
            /\ Cardinality(AnswersOf(n, t)) \in Nat
        BY <1>1, <2>6, AnswersAppended, AnswersFinite
      <3> QED
        BY <2>5, <3>2, <3>3 DEF Bill
    <2>7. CASE ~(n = k /\ t = s)
      <3>1. c # SubmitAnswer(t, n)
        BY <2>7 DEF SubmitAnswer
      <3>2. AnswersOf(n, t)' = AnswersOf(n, t)
        BY <1>1, <3>1, AnswersAppended
      <3>3. Due(n, t)' => Due(n, t)
        BY <2>1, <2>3, <2>4 DEF Due
      <3> QED
        BY <2>5, <3>2, <3>3, BillKept
    <2> QED
      BY <2>6, <2>7
  <1>5. AdmittedOnce'
    <2>1. \A t \in Task : c # AdmitTask(t)
      BY DEF SubmitAnswer, AdmitTask
    <2>2. /\ Len(log) \in Nat /\ Len(log') = Len(log) + 1
          /\ \A i \in 1 .. Len(log) : log'[i] = log[i]
          /\ log'[Len(log) + 1] = c
      BY <1>1, EntriesStable DEF TypeOK, FSMTypeOK
    <2> QED
      BY <2>1, <2>2 DEF NoticesOnce, AdmittedOnce
  <1> QED
    BY <1>4, <1>5 DEF NoMoreAnswers

(* A replica that applies the admission tells its agent for the first time. *)
LEMMA ReplicaAnswers ==
    ASSUME TypeOK, NoticesOnce, NEW k \in Node, Replicate(k)
    PROVE  NoMoreAnswers /\ AdmittedOnce'
  <1> DEFINE p == applied[k]
             c == log[p + 1]
  <1>1. /\ UNCHANGED <<log, loop>> /\ p \in Nat /\ p < Len(log) /\ Len(log) \in Nat
        /\ applied' = [applied EXCEPT ![k] = p + 1]
    BY DEF Replicate, ApplyCommand, ApplyAdmitTask, ApplySubmitAnswer, ApplyUpdateTask,
           ApplySubmitVote, ApplyUpdateReputation, Take, raftVars, engineVars,
           TypeOK, FSMTypeOK
  <1>2. \A m \in Node : applied'[m] = IF m = k THEN p + 1 ELSE applied[m]
    BY <1>1 DEF TypeOK, FSMTypeOK
  <1>3. c \in Command
    BY <1>1 DEF TypeOK, FSMTypeOK
  <1>4. /\ \A m \in Node \ {k} : events'[m] = events[m]
        /\ \/ events'[k] = events[k]
           \/ \E e : /\ events'[k] = Append(events[k], e)
                     /\ \A t : e = Notice(t) => c = AdmitTask(t)
    <2>1. ASSUME NEW type, NEW t, Publish(k, type, t),
                 type = "TaskAdmitted" => c = AdmitTask(t)
          PROVE  /\ \A m \in Node \ {k} : events'[m] = events[m]
                 /\ \/ events'[k] = events[k]
                    \/ \E e : /\ events'[k] = Append(events[k], e)
                              /\ \A u : e = Notice(u) => c = AdmitTask(u)
      <3> DEFINE e == [type |-> type, task |-> t]
      <3>1. \A u : e = Notice(u) => type = "TaskAdmitted" /\ u = t
        BY DEF Notice
      <3>2. \/ events' = events
            \/ events' = [events EXCEPT ![k] = Append(events[k], e)]
        BY <2>1 DEF Publish
      <3>3. events \in [Node -> Seq(Event)]
        BY DEF TypeOK, FSMTypeOK
      <3> HIDE DEF e, c
      <3>4. \A u : e = Notice(u) => c = AdmitTask(u)
        BY <2>1, <3>1
      <3>5. CASE events' = events
        BY <3>5
      <3>6. CASE events' = [events EXCEPT ![k] = Append(events[k], e)]
        <4>1. events'[k] = Append(events[k], e) /\ \A m \in Node \ {k} : events'[m] = events[m]
          BY <3>3, <3>6
        <4> QED
          BY <3>4, <4>1
      <3> QED
        BY <3>2, <3>5, <3>6
    <2>2. CASE ApplyAdmitTask(k)
      <3>1. c = AdmitTask(c.task)
        BY <1>3, <2>2 DEF ApplyAdmitTask, Take, NextCommand, Command, AdmitTask
      <3> QED
        BY <2>1, <2>2, <3>1 DEF ApplyAdmitTask, NextCommand
    <2>3. CASE ApplySubmitAnswer(k)
      BY <2>1, <2>3 DEF ApplySubmitAnswer
    <2>4. CASE ApplyUpdateTask(k)
      BY <2>1, <2>4 DEF ApplyUpdateTask
    <2>5. CASE ApplySubmitVote(k)
      BY <2>1, <2>5 DEF ApplySubmitVote
    <2>6. CASE ApplyUpdateReputation(k)
      BY <2>6 DEF ApplyUpdateReputation
    <2> QED
      BY <2>2, <2>3, <2>4, <2>5, <2>6 DEF Replicate, ApplyCommand
  <1>5. ASSUME NEW n \in Node, NEW t \in Task
        PROVE  OneNotice(n, t)' /\ (Due(n, t)' => Due(n, t))
    <2>1. OneNotice(n, t)
      BY DEF NoticesOnce
    <2>2. Thinking(n, t)' <=> Thinking(n, t)
      BY <1>1 DEF Thinking
    <2>3. CASE n # k
      <3>1. Notices(n, t)' = Notices(n, t) /\ (Told(n, t)' <=> Told(n, t))
        BY <1>1, <1>2, <1>4, <2>3 DEF Notices, Told
      <3> QED
        BY <2>1, <2>2, <3>1 DEF OneNotice, Due
    <2>4. CASE n = k
      <3>1. Told(k, t)' <=> Told(k, t) \/ c = AdmitTask(t)
        <4>1. 1 .. p + 1 = 1 .. p \cup {p + 1}
          BY <1>1
        <4> QED
          BY <1>1, <1>2, <4>1 DEF Told
      <3>2. CASE c = AdmitTask(t)
        <4>1. ~Told(k, t)
          BY <1>1, <3>2 DEF Told, NoticesOnce, AdmittedOnce
        <4>2. Notices(k, t) = {} /\ ~Thinking(k, t)
          BY <2>1, <2>4, <4>1 DEF OneNotice
        <4>3. \A i, j \in Notices(k, t)' : i = j
          <5>1. CASE events'[k] = events[k]
            BY <4>2, <5>1 DEF Notices
          <5>2. ASSUME NEW e, events'[k] = Append(events[k], e)
                PROVE  \A i, j \in Notices(k, t)' : i = j
            BY <4>2, <5>2, NoticesAppend
          <5> QED
            BY <1>4, <5>1, <5>2
        <4> QED
          BY <2>2, <2>4, <3>1, <3>2, <4>1, <4>2, <4>3 DEF OneNotice, Due
      <3>3. CASE c # AdmitTask(t)
        <4>1. Notices(k, t)' = Notices(k, t)
          <5>1. CASE events'[k] = events[k]
            BY <5>1 DEF Notices
          <5>2. ASSUME NEW e, events'[k] = Append(events[k], e), e # Notice(t)
                PROVE  Notices(k, t)' = Notices(k, t)
            BY <5>2, NoticesAppend
          <5> QED
            BY <1>4, <3>3, <5>1, <5>2
        <4> QED
          BY <2>1, <2>2, <2>4, <3>1, <3>3, <4>1 DEF OneNotice, Due
      <3> QED
        BY <3>2, <3>3
    <2> QED
      BY <2>3, <2>4
  <1>6. AdmittedOnce'
    BY <1>1 DEF NoticesOnce, AdmittedOnce
  <1> QED
    BY <1>1, <1>5, <1>6, BillKept, SameAnswers DEF NoMoreAnswers

-----------------------------------------------------------------------------
(***************************************************************************)
(* Every step of the agents is of one of these kinds.                      *)
(***************************************************************************)
LEMMA OtherCommits ==
    /\ \A t, s : OtherCommit(UpdateTask(t, s))
    /\ \A v : OtherCommit(SubmitVote(v))
    /\ \A a, x : OtherCommit(UpdateReputation(a, x))
    /\ \A t : ~Submitted(t) => OtherCommit(AdmitTask(t))
  <1>1. ASSUME NEW c, c.type \notin {"AdmitTask", "SubmitAnswer"}
        PROVE  OtherCommit(c)
    BY <1>1 DEF OtherCommit, AdmitTask
  <1>2. ASSUME NEW t, ~Submitted(t)
        PROVE  OtherCommit(AdmitTask(t))
    <2>1. AdmitTask(t).type = "AdmitTask" /\ \A u : AdmitTask(u) = AdmitTask(t) => u = t
      BY DEF AdmitTask
    <2> QED
      BY <1>2, <2>1 DEF OtherCommit
  <1>3. /\ \A t, s : UpdateTask(t, s).type = "UpdateTask"
        /\ \A v : SubmitVote(v).type = "SubmitVote"
        /\ \A a, x : UpdateReputation(a, x).type = "UpdateReputation"
    BY DEF UpdateTask, SubmitVote, UpdateReputation
  <1> QED
    BY <1>1, <1>2, <1>3

TakesOtherEvent(n) ==
    Handle(n, "AnswerSubmitted") \/ Handle(n, "TaskUpdated") \/ Handle(n, "VoteSubmitted")

(* The goroutine of n takes an event, or none, and stays or goes on. *)
LEMMA AsideMove ==
    ASSUME TypeOK, UNCHANGED applied, NEW n \in Node,
           UNCHANGED log \/ \E c : Commit(c) /\ OtherCommit(c),
           UNCHANGED events \/ TakesOtherEvent(n),
           UNCHANGED loop \/ \E place : Goto(n, place) /\ place.at # "brainstorming"
    PROVE  Aside
  <1>1. UNCHANGED log \/ \E c : log' = Append(log, c) /\ OtherCommit(c)
    BY DEF Commit
  <1>2. \A m \in Node : TakesOther(m)
    BY DEF TakesOther, TakesOtherEvent, Handle, TypeOK, FSMTypeOK
  <1>3. \A m \in Node : LeavesOther(m)
    BY DEF LeavesOther, Goto, TypeOK, EngineTypeOK
  <1> QED
    BY <1>1, <1>2, <1>3 DEF Aside

(* The places that are not brainstorming. *)
LEMMA OtherPlaces ==
    /\ Idle.at # "brainstorming"
    /\ \A t, d : Aggregating(t, d).at # "brainstorming"
    /\ \A t, vs : Revising(t, vs).at # "brainstorming"
    /\ \A d : Applying(d).at # "brainstorming"
    /\ \A s, vs : Finalizing(s, vs).at # "brainstorming"
    /\ \A s, vs, i, k : Rewarding(s, vs, i, k).at # "brainstorming"
  BY DEF Idle, Aggregating, Revising, Applying, Finalizing, Rewarding

LEMMA EventAside ==
    ASSUME TypeOK, NEW n \in Node, HandleEvent(n)
    PROVE  Aside \/ HandleTaskAdmitted(n)
  <1>1. CASE IgnoreAnswer(n) \/ LateAnswer(n) \/ AwaitAnswers(n) \/ IgnoreVote(n) \/ AwaitVotes(n)
    <2>1. TakesOtherEvent(n)
      BY <1>1 DEF IgnoreAnswer, LateAnswer, AwaitAnswers, IgnoreVote, AwaitVotes, CountVotes, TakesOtherEvent
    <2>2. UNCHANGED <<applied, log, loop>>
      BY <1>1 DEF IgnoreAnswer, LateAnswer, AwaitAnswers, IgnoreVote, AwaitVotes,
                  raftVars, store, engineVars
    <2> QED
      BY <2>1, <2>2, AsideMove
  <1>2. CASE StartProposal(n)
    <2>1. Handle(n, "AnswerSubmitted") /\ Goto(n, Aggregating(Subject(n), TRUE))
          /\ UNCHANGED <<applied, log>>
      BY <1>2 DEF StartProposal, raftVars, store
    <2> QED
      BY <2>1, AsideMove, OtherPlaces DEF TakesOtherEvent
  <1>3. CASE CompleteTask(n) \/ OpenBallot(n)
    <2>1. Handle(n, "TaskUpdated") /\ UNCHANGED <<applied, log, loop>>
      BY <1>3 DEF CompleteTask, OpenBallot, raftVars, store
    <2> QED
      BY <2>1, AsideMove DEF TakesOtherEvent
  <1>4. CASE StartRevision(n)
    <2>1. /\ Handle(n, "VoteSubmitted") /\ UNCHANGED <<applied, log>>
          /\ Goto(n, Revising(Subject(n), LiveVoters(n)))
      BY <1>4 DEF StartRevision, CountVotes, raftVars, store
    <2> QED
      BY <2>1, AsideMove, OtherPlaces DEF TakesOtherEvent
  <1>5. CASE Finalize(n) \/ FinalizeFallback(n)
    <2>1. PICK status, s : Settle(n, status, s)
      BY <1>5 DEF Finalize, FinalizeFallback
    <2>2. Handle(n, "VoteSubmitted")
      BY <1>5 DEF Finalize, FinalizeFallback, CountVotes
    <2>3. /\ Commit(UpdateTask(Subject(n), [s EXCEPT !.status = status]))
          /\ Goto(n, Finalizing(status, LiveVoters(n))) /\ UNCHANGED applied
      BY <2>1 DEF Settle
    <2> QED
      BY <2>2, <2>3, AsideMove, OtherCommits, OtherPlaces DEF TakesOtherEvent
  <1>6. CASE FinalizeFallbackRefused(n)
    <2>1. Handle(n, "VoteSubmitted") /\ UNCHANGED <<applied, log, loop>>
      BY <1>6 DEF FinalizeFallbackRefused, CountVotes, engineVars
    <2> QED
      BY <2>1, AsideMove DEF TakesOtherEvent
  <1> QED
    BY <1>1, <1>2, <1>3, <1>4, <1>5, <1>6 DEF HandleEvent

LEMMA TimeoutAside ==
    ASSUME TypeOK, NEW n \in Node, HandleTimeout(n) \/ Fire(n) \/ Elect(n)
    PROVE  Aside
  <1>1. CASE Fire(n) \/ Elect(n)
    <2>1. UNCHANGED <<applied, log, events, loop>>
      BY <1>1 DEF Fire, TimerFires, OrphanFires, Elect, raftVars, replicaVars, store, engineVars
    <2> QED
      BY <2>1, AsideMove
  <1>2. ASSUME NEW t \in Task, ForceProposal(n, t)
        PROVE  Aside
    <2>1. UNCHANGED <<applied, log, events>> /\ Goto(n, Aggregating(t, FALSE))
      BY <1>2 DEF ForceProposal, raftVars, replicaVars, store
    <2> QED
      BY <2>1, AsideMove, OtherPlaces
  <1>3. ASSUME NEW t \in Task, FailTask(n, t)
        PROVE  Aside
    <2>1. /\ Commit(UpdateTask(t, TimedOutTask)) /\ Goto(n, Applying(FALSE))
          /\ UNCHANGED <<applied, events>>
      BY <1>3 DEF FailTask, replicaVars, store
    <2> QED
      BY <2>1, AsideMove, OtherCommits, OtherPlaces
  <1>4. ASSUME NEW t \in Task, FailTaskRefused(n, t)
        PROVE  Aside
    <2>1. UNCHANGED <<applied, log, events, loop>>
      BY <1>4 DEF FailTaskRefused, raftVars, replicaVars, store
    <2> QED
      BY <2>1, AsideMove
  <1> QED
    BY <1>1, <1>2, <1>3, <1>4 DEF HandleTimeout

LEMMA CallAside ==
    ASSUME TypeOK, NEW n \in Node, CallSucceeds(n) \/ CallFails(n)
    PROVE  Aside \/ Brainstorm(n)
  <1>1. CASE Propose(n) \/ Revise(n)
    <2>1. \E t, s : Commit(UpdateTask(t, s))
      BY <1>1 DEF Propose, Revise
    <2>2. \E d : Goto(n, Applying(d))
      BY <1>1 DEF Propose, Revise
    <2>3. UNCHANGED <<applied, events>>
      BY <1>1 DEF Propose, Aggregated, Revise, Revised
    <2> QED
      BY <2>1, <2>2, <2>3, AsideMove, OtherCommits, OtherPlaces
  <1>2. CASE ReviseFails(n)
    <2>1. \E t, s : Commit(UpdateTask(t, s))
      BY <1>2 DEF ReviseFails
    <2>2. \E s, vs : Goto(n, Finalizing(s, vs))
      BY <1>2 DEF ReviseFails
    <2>3. UNCHANGED <<applied, events>>
      BY <1>2 DEF ReviseFails, replicaVars, store
    <2> QED
      BY <2>1, <2>2, <2>3, AsideMove, OtherCommits, OtherPlaces
  <1>3. CASE ProposeRefused(n) \/ ReviseRefused(n) \/ BrainstormFails(n) \/ AggregateFails(n)
             \/ ReviseFailureRefused(n)
    <2>1. UNCHANGED <<applied, events, log>> /\ Goto(n, Idle)
      BY <1>3 DEF ProposeRefused, Aggregated, ReviseRefused, Revised, BrainstormFails,
                  AggregateFails, ReviseFailureRefused, raftVars, replicaVars, store
    <2> QED
      BY <2>1, AsideMove, OtherPlaces
  <1> QED
    BY <1>1, <1>2, <1>3 DEF CallSucceeds, CallFails

LEMMA FinishAside ==
    ASSUME TypeOK, NEW n \in Node, FinishCall(n) \/ VoteOf(n)
    PROVE  Aside
  <1>1. CASE ApplyReturns(n) \/ ApplyFails(n) \/ FinalizeFails(n) \/ CheckTransfer(n)
    <2>1. UNCHANGED <<applied, events, log>> /\ Goto(n, Idle)
      BY <1>1 DEF ApplyReturns, ApplyFails, FinalizeFails, CheckTransfer,
                  raftVars, replicaVars, store
    <2> QED
      BY <2>1, AsideMove, OtherPlaces
  <1>2. ASSUME NEW a, NEW x, NEW due, Reward(n, a, x, due)
        PROVE  Aside
    <2>1. UNCHANGED log \/ \E b, y : Commit(UpdateReputation(b, y))
      BY <1>2 DEF Reward
    <2>2. \E s, vs, i, k : Goto(n, Rewarding(s, vs, i, k))
      BY <1>2 DEF Reward
    <2>3. UNCHANGED <<applied, events>>
      BY <1>2 DEF Reward, replicaVars, store
    <2> QED
      BY <2>1, <2>2, <2>3, AsideMove, OtherCommits, OtherPlaces
  <1>3. CASE RewardLeader(n) \/ RewardVoter(n)
    BY <1>2, <1>3 DEF RewardLeader, RewardVoter
  <1>4. CASE VoteOf(n)
    <2>1. UNCHANGED log \/ \E v : Commit(SubmitVote(v))
      BY <1>4 DEF VoteOf, CastVote, LoseVote, raftVars
    <2>2. UNCHANGED <<applied, events, loop>>
      BY <1>4 DEF VoteOf, CastVote, LoseVote, replicaVars, store
    <2> QED
      BY <2>1, <2>2, AsideMove, OtherCommits
  <1> QED
    BY <1>1, <1>3, <1>4 DEF FinishCall

LEMMA NextAnswers ==
    ASSUME TypeOK, NoticesOnce, [Next]_vars
    PROVE  NoMoreAnswers /\ NoticesOnce'
  <1>1. ASSUME NEW t \in Task, SubmitTask(t)
        PROVE  Aside
    <2>1. /\ ~Submitted(t) /\ Commit(AdmitTask(t))
          /\ UNCHANGED <<applied, events, loop>>
      BY <1>1 DEF SubmitTask, replicaVars, store, engineVars
    <2>2. Node # {}
      BY TallyAssumption
    <2> QED
      BY <2>1, <2>2, AsideMove, OtherCommits
  <1>2. CASE UNCHANGED vars
    <2>1. UNCHANGED <<applied, log, events, loop>>
      BY <1>2 DEF vars, raftVars, replicaVars, store, engineVars
    <2>2. Node # {}
      BY TallyAssumption
    <2> QED
      BY <2>1, <2>2, AsideMove, AsideAnswers DEF NoMoreAnswers, NoticesOnce
  <1>3. ASSUME NEW n \in Node, Step(n)
        PROVE  Aside \/ HandleTaskAdmitted(n) \/ Brainstorm(n) \/ Replicate(n)
    BY <1>3, EventAside, TimeoutAside, CallAside, FinishAside DEF Step
  <1>4. NoMoreAnswers /\ AdmittedOnce'
    BY <1>1, <1>2, <1>3, AsideAnswers, AdmittedAnswers, BrainstormAnswers, ReplicaAnswers
    DEF Next, NoticesOnce
  <1> QED
    BY <1>4 DEF NoticesOnce, NoMoreAnswers

-----------------------------------------------------------------------------
(***************************************************************************)
(* How many agents are behind the count of answers.                        *)
(***************************************************************************)
AnsweredOnce == \A n \in Node, t \in Task : Bill(n, t) <= 1

AnswersCounted ==
    \A n \in Node, t \in Task : answers[n][t] <= Cardinality(Answerers(t, applied[n]))

(* A majority has answered. *)
Backing(t, k) == Cardinality(Answerers(t, k)) >= Quorum
Rooted(t) == Backing(t, Len(log))

LEMMA AnswerersFinite ==
    ASSUME NEW t, NEW k
    PROVE  IsFiniteSet(Answerers(t, k)) /\ Cardinality(Answerers(t, k)) \in Nat
  <1>1. Answerers(t, k) \in SUBSET Node
    BY DEF Answerers
  <1> QED
    BY <1>1, TallyAssumption, FS_Subset, FS_CardinalityType

LEMMA AnswerersMonotone ==
    ASSUME NEW t, NEW k \in Nat, NEW m \in Nat, k <= m
    PROVE  /\ Cardinality(Answerers(t, k)) <= Cardinality(Answerers(t, m))
           /\ Backing(t, k) => Backing(t, m)
  <1>1. Answerers(t, k) \in SUBSET Answerers(t, m)
    BY DEF Answerers
  <1>2. Cardinality(Answerers(t, k)) <= Cardinality(Answerers(t, m))
    BY <1>1, AnswerersFinite, FS_Subset
  <1> QED
    BY <1>2, AnswerersFinite, QuorumIsMajority DEF Backing

(* Entries already in the log keep saying the same. *)
LEMMA AnswerersStable ==
    ASSUME TypeOK, NEW t, NEW k \in Nat, k <= Len(log),
           UNCHANGED log \/ \E c : log' = Append(log, c)
    PROVE  Answerers(t, k)' = Answerers(t, k) /\ (Backing(t, k)' <=> Backing(t, k))
  <1>1. \A i \in 1 .. k : log'[i] = log[i]
    <2>1. Len(log) \in Nat /\ \A i \in 1 .. k : i \in 1 .. Len(log)
      BY DEF TypeOK, FSMTypeOK
    <2> QED
      BY <2>1, EntriesStable
  <1>2. Answerers(t, k)' = Answerers(t, k)
    BY <1>1 DEF Answerers
  <1> QED
    BY <1>2 DEF Backing

(* No agent has two entries that answer one task. *)
LEMMA AnswerUnique ==
    ASSUME TypeOK, AnsweredOnce, NEW a \in Node, NEW t \in Task,
           NEW i \in 1 .. Len(log), NEW j \in 1 .. Len(log),
           log[i] = SubmitAnswer(t, a), log[j] = SubmitAnswer(t, a)
    PROVE  i = j
  <1> SUFFICES ASSUME i # j
               PROVE  FALSE
    OBVIOUS
  <1> DEFINE A == AnswersOf(a, t)
  <1>1. i \in A /\ j \in A
    BY DEF AnswersOf, Entries, SubmitAnswer
  <1>2. IsFiniteSet(A) /\ Cardinality(A) \in Nat
    BY AnswersFinite
  <1>3. Cardinality(A) <= 1
    BY <1>2 DEF AnsweredOnce, Bill
  <1> HIDE DEF A
  <1>4. IsFiniteSet(A \ {i}) /\ Cardinality(A \ {i}) = Cardinality(A) - 1
    BY <1>1, <1>2, FS_RemoveElement
  <1>5. Cardinality(A \ {i}) > 0
    <2>1. A \ {i} # {}
      BY <1>1
    <2> QED
      BY <1>4, <2>1, FS_EmptySet, FS_CardinalityType
  <1> QED
    BY <1>2, <1>3, <1>4, <1>5

LEMMA NextAnsweredOnce ==
    ASSUME TypeOK, NoticesOnce, AnsweredOnce, [Next]_vars
    PROVE  AnsweredOnce'
  <1>1. ASSUME NEW n \in Node, NEW t \in Task
        PROVE  Bill(n, t)' <= 1
    <2>1. Bill(n, t)' <= Bill(n, t) /\ Bill(n, t) <= 1 /\ Bill(n, t) \in Nat
      BY NextAnswers, AnswersFinite DEF NoMoreAnswers, AnsweredOnce
    <2>2. Bill(n, t)' \in Nat
      <3>1. TypeOK'
        BY NextTypeOK
      <3>2. Len(log') \in Nat /\ IsFiniteSet(1 .. Len(log'))
        BY <3>1, FS_Interval DEF TypeOK, FSMTypeOK
      <3>3. AnswersOf(n, t)' \in SUBSET (1 .. Len(log'))
        BY DEF AnswersOf, Entries
      <3>4. Cardinality(AnswersOf(n, t)') \in Nat
        BY <3>2, <3>3, FS_Subset, FS_CardinalityType
      <3> QED
        BY <3>4 DEF Bill
    <2> QED
      BY <2>1, <2>2
  <1> QED
    BY <1>1 DEF AnsweredOnce

(* A replica counts an answer of an agent it has not heard of. *)
LEMMA ReplicaAnswersCounted ==
    ASSUME TypeOK, AnsweredOnce, AnswersCounted, NEW n \in Node, Replicate(n)
    PROVE  AnswersCounted'
  <1> DEFINE k == applied[n]
             c == log[k + 1]
  <1>1. /\ UNCHANGED log /\ k \in Nat /\ k < Len(log) /\ Len(log) \in Nat
        /\ applied' = [applied EXCEPT ![n] = k + 1] /\ c \in Command
    BY DEF Replicate, ApplyCommand, ApplyAdmitTask, ApplySubmitAnswer, ApplyUpdateTask,
           ApplySubmitVote, ApplyUpdateReputation, Take, raftVars, TypeOK, FSMTypeOK
  <1>2. \A m \in Node : applied'[m] = IF m = n THEN k + 1 ELSE applied[m]
    BY <1>1 DEF TypeOK, FSMTypeOK
  <1>3. \A t, i : Answerers(t, i)' = Answerers(t, i)
    BY <1>1 DEF Answerers
  <1>4. ASSUME NEW m \in Node, NEW t \in Task, answers'[m][t] = answers[m][t]
        PROVE  answers'[m][t] <= Cardinality(Answerers(t, applied[m])')
    <2>1. answers[m][t] \in Nat /\ answers[m][t] <= Cardinality(Answerers(t, applied[m]))
      BY DEF AnswersCounted, TypeOK, FSMTypeOK
    <2>2. applied[m] \in Nat /\ applied'[m] \in Nat /\ applied[m] <= applied'[m]
      BY <1>1, <1>2 DEF TypeOK, FSMTypeOK
    <2>3. Cardinality(Answerers(t, applied[m])) <= Cardinality(Answerers(t, applied'[m]))
      BY <2>2, AnswerersMonotone
    <2>4. Answerers(t, applied[m])' = Answerers(t, applied'[m])
      BY <1>1 DEF Answerers
    <2> QED
      BY <1>4, <2>1, <2>3, <2>4, AnswerersFinite
  <1>5. CASE ApplySubmitAnswer(n)
    <2>1. PICK t \in Task, a \in Node : /\ c = SubmitAnswer(t, a)
                                         /\ answers' = [answers EXCEPT ![n][t] = @ + 1]
      <3>1. /\ c = SubmitAnswer(c.task, c.agent) /\ c.task \in Task /\ c.agent \in Node
            /\ answers' = [answers EXCEPT ![n][c.task] = @ + 1]
        BY <1>1, <1>5 DEF ApplySubmitAnswer, Take, NextCommand, Command, SubmitAnswer
      <3> HIDE DEF c
      <3> QED
        BY <3>1
    <2> HIDE DEF c
    <2>2. \A m \in Node, u \in Task :
            answers'[m][u] = IF m = n /\ u = t THEN answers[n][t] + 1 ELSE answers[m][u]
      BY <2>1 DEF TypeOK, FSMTypeOK
    <2>3. a \notin Answerers(t, k)
      <3> SUFFICES ASSUME NEW i \in 1 .. k, log[i] = SubmitAnswer(t, a)
                   PROVE  FALSE
        BY DEF Answerers
      <3>1. i \in 1 .. Len(log) /\ k + 1 \in 1 .. Len(log) /\ i # k + 1
        BY <1>1
      <3> QED
        BY <2>1, <3>1, AnswerUnique DEF c
    <2>4. Answerers(t, k + 1) = Answerers(t, k) \cup {a}
      <3>1. 1 .. k + 1 = 1 .. k \cup {k + 1}
        BY <1>1
      <3>2. \A b \in Node : log[k + 1] = SubmitAnswer(t, b) <=> b = a
        BY <2>1 DEF SubmitAnswer, c
      <3> QED
        BY <2>1, <3>1, <3>2 DEF Answerers
    <2>5. Cardinality(Answerers(t, k + 1)) = Cardinality(Answerers(t, k)) + 1
      BY <2>3, <2>4, AnswerersFinite, FS_AddElement
    <2>6. answers'[n][t] <= Cardinality(Answerers(t, applied[n])')
      <3>1. answers[n][t] \in Nat /\ answers[n][t] <= Cardinality(Answerers(t, k))
        BY <2>1 DEF AnswersCounted, TypeOK, FSMTypeOK
      <3>2. Answerers(t, applied[n])' = Answerers(t, k + 1)
        BY <1>1, <1>2 DEF Answerers
      <3> QED
        BY <2>1, <2>2, <2>5, <3>1, <3>2, AnswerersFinite
    <2>7. ASSUME NEW m \in Node, NEW u \in Task
          PROVE  answers'[m][u] <= Cardinality(Answerers(u, applied[m])')
      <3>1. CASE m = n /\ u = t
        BY <2>6, <3>1
      <3>2. CASE ~(m = n /\ u = t)
        BY <1>4, <2>2, <3>2
      <3> QED
        BY <3>1, <3>2
    <2> QED
      BY <2>7 DEF AnswersCounted
  <1>6. CASE ~ApplySubmitAnswer(n)
    <2>1. UNCHANGED answers
      BY <1>6 DEF Replicate, ApplyCommand, ApplyAdmitTask, ApplyUpdateTask, ApplySubmitVote,
                  ApplyUpdateReputation
    <2> QED
      BY <1>4, <2>1 DEF AnswersCounted
  <1> QED
    BY <1>5, <1>6

-----------------------------------------------------------------------------
(***************************************************************************)
(* Whatever comes after the answers of a majority: the LLM calls, the      *)
(* proposals, the ballots and the votes of a task.                         *)
(***************************************************************************)
LoopRooted(place) == place.at \in {"aggregating", "revising"} => Rooted(place.task)

CommitRooted(c) ==
    /\ c.type = "SubmitVote" => Rooted(c.vote.task)
    /\ c.type = "UpdateTask" /\ c.state.status = "proposal" => Rooted(c.task)

AgentsRooted ==
    /\ \A n \in Node, t \in Task : task[n][t].status = "proposal" => Rooted(t)
    /\ \A n \in Node : \A v \in votes[n] : Rooted(v.task)
    /\ \A n \in Node : LoopRooted(loop[n])
    /\ \A b \in DOMAIN ballots : Rooted(b.task)

LogRooted ==
    /\ \A i \in Entries("SubmitVote") : Rooted(log[i].vote.task)
    /\ \A i \in Entries("UpdateTask") :
          log[i].state.status = "proposal" => Backing(log[i].task, i)

AnswerInv ==
    /\ TypeOK /\ NoticesOnce /\ AnsweredOnce /\ AnswersCounted
    /\ AgentsRooted /\ LogRooted

(* What a step leads to has a majority behind it before the step. *)
RootStep ==
    /\ UNCHANGED log \/ \E c : log' = Append(log, c) /\ CommitRooted(c)
    /\ \A n \in Node, t \in Task : task'[n][t].status = "proposal" => Rooted(t)
    /\ \A n \in Node : \A v \in votes'[n] : Rooted(v.task)
    /\ \A n \in Node : LoopRooted(loop'[n])
    /\ \A b \in DOMAIN ballots' : Rooted(b.task)

(* A majority that has answered stays one. *)
LEMMA BackingStays ==
    ASSUME TypeOK, UNCHANGED log \/ \E c : log' = Append(log, c),
           NEW t, NEW k \in Nat, NEW m \in Nat, k <= Len(log), k <= m, Backing(t, k)
    PROVE  Backing(t, m)'
  <1>1. \A i \in 1 .. k : i \in 1 .. m /\ log'[i] = log[i]
    <2>1. Len(log) \in Nat /\ \A i \in 1 .. k : i \in 1 .. Len(log) /\ i \in 1 .. m
      BY DEF TypeOK, FSMTypeOK
    <2> QED
      BY <2>1, EntriesStable
  <1>2. Answerers(t, k) \in SUBSET (Answerers(t, m)') /\ Answerers(t, m)' \in SUBSET Node
    BY <1>1 DEF Answerers
  <1>3. /\ Cardinality(Answerers(t, k)) <= Cardinality(Answerers(t, m)')
        /\ Cardinality(Answerers(t, k)) \in Nat /\ Cardinality(Answerers(t, m)') \in Nat
    BY <1>2, TallyAssumption, FS_Subset, FS_CardinalityType
  <1> QED
    BY <1>3, QuorumIsMajority DEF Backing

LEMMA RootStepKeeps ==
    ASSUME TypeOK, LogRooted, RootStep
    PROVE  AgentsRooted' /\ LogRooted'
  <1>0. Len(log) \in Nat
    BY DEF TypeOK, FSMTypeOK
  <1>1. /\ UNCHANGED log \/ \E c : log' = Append(log, c)
        /\ Len(log') \in Nat /\ Len(log) <= Len(log')
    BY <1>0, EntriesStable DEF RootStep
  <1>2. ASSUME NEW t, Rooted(t)
        PROVE  Rooted(t)'
    BY <1>0, <1>1, <1>2, BackingStays DEF Rooted
  <1>3. AgentsRooted'
    <2>1. \A n \in Node, t \in Task : task'[n][t].status = "proposal" => Rooted(t)'
      BY <1>2 DEF RootStep
    <2>2. \A n \in Node : \A v \in votes'[n] : Rooted(v.task)'
      BY <1>2 DEF RootStep
    <2>3. ASSUME NEW n \in Node, loop'[n].at \in {"aggregating", "revising"}
          PROVE  Rooted(loop[n].task)'
      <3>1. PICK t : t = loop'[n].task
        OBVIOUS
      <3>2. Rooted(t)
        BY <2>3, <3>1 DEF RootStep, LoopRooted
      <3>3. Rooted(t)'
        BY <1>2, <3>2
      <3> QED
        BY <3>1, <3>3 DEF Rooted, Backing, Answerers
    <2>4. \A b \in DOMAIN ballots' : Rooted(b.task)'
      BY <1>2 DEF RootStep
    <2> QED
      BY <2>1, <2>2, <2>3, <2>4 DEF AgentsRooted, LoopRooted
  <1>4. LogRooted'
    <2>1. CASE UNCHANGED log
      BY <2>1 DEF LogRooted, Entries, Rooted, Backing, Answerers
    <2>2. ASSUME NEW c, log' = Append(log, c), CommitRooted(c)
          PROVE  LogRooted'
      <3>1. /\ Len(log') = Len(log) + 1 /\ log'[Len(log) + 1] = c
            /\ \A i \in 1 .. Len(log) : log'[i] = log[i]
        BY <2>2, EntriesStable
      <3>2. ASSUME NEW i \in Entries("SubmitVote")'
            PROVE  Rooted(log[i].vote.task)'
        <4>1. i \in 1 .. Len(log) + 1 /\ log'[i].type = "SubmitVote"
          BY <3>1, <3>2 DEF Entries
        <4>2. PICK t : t = log'[i].vote.task
          OBVIOUS
        <4>3. CASE i = Len(log) + 1
          <5>1. Rooted(t)
            BY <2>2, <3>1, <4>1, <4>2, <4>3 DEF CommitRooted
          <5> QED
            BY <1>2, <4>2, <5>1 DEF Rooted, Backing, Answerers
        <4>4. CASE i # Len(log) + 1
          <5>1. i \in Entries("SubmitVote") /\ log'[i] = log[i]
            BY <1>0, <3>1, <4>1, <4>4 DEF Entries
          <5>2. Rooted(t)
            BY <4>2, <5>1 DEF LogRooted
          <5> QED
            BY <1>2, <4>2, <5>2 DEF Rooted, Backing, Answerers
        <4> QED
          BY <4>3, <4>4
      <3>3. ASSUME NEW i \in Entries("UpdateTask")', log'[i].state.status = "proposal"
            PROVE  Backing(log[i].task, i)'
        <4>1. i \in 1 .. Len(log) + 1 /\ i \in Nat /\ log'[i].type = "UpdateTask"
          BY <1>0, <3>1, <3>3 DEF Entries
        <4>2. PICK t : t = log'[i].task
          OBVIOUS
        <4>3. CASE i = Len(log) + 1
          <5>1. Backing(t, Len(log)) /\ Len(log) <= i
            BY <1>0, <2>2, <3>1, <3>3, <4>1, <4>2, <4>3 DEF CommitRooted, Rooted
          <5>2. Backing(t, i)'
            BY <1>0, <1>1, <4>1, <5>1, BackingStays
          <5> QED
            BY <4>2, <5>2 DEF Backing, Answerers
        <4>4. CASE i # Len(log) + 1
          <5>1. i \in Entries("UpdateTask") /\ log'[i] = log[i] /\ i <= Len(log)
            BY <1>0, <3>1, <4>1, <4>4 DEF Entries
          <5>2. Backing(t, i)
            BY <3>3, <4>2, <5>1 DEF LogRooted
          <5>3. Backing(t, i)'
            BY <1>1, <4>1, <5>1, <5>2, BackingStays
          <5> QED
            BY <4>2, <5>3 DEF Backing, Answerers
        <4> QED
          BY <4>3, <4>4
      <3> QED
        BY <3>2, <3>3 DEF LogRooted
    <2> QED
      BY <2>1, <2>2 DEF RootStep
  <1> QED
    BY <1>3, <1>4

(* A step of the engine of n, or of a client. *)
LEMMA RootMove ==
    ASSUME TypeOK, AgentsRooted, NEW n \in Node, UNCHANGED votes,
           UNCHANGED log \/ \E c : Commit(c) /\ CommitRooted(c),
           UNCHANGED loop \/ \E place : Goto(n, place) /\ LoopRooted(place),
           \/ UNCHANGED task
           \/ \E t \in Task : \E s : /\ task' = [task EXCEPT ![n][t] = s]
                                     /\ s.status = "proposal" => Rooted(t),
           \A b \in DOMAIN ballots' : b \in DOMAIN ballots \/ Rooted(b.task)
    PROVE  RootStep
  <1>1. UNCHANGED log \/ \E c : log' = Append(log, c) /\ CommitRooted(c)
    BY DEF Commit
  <1>2. \A m \in Node, t \in Task : task'[m][t].status = "proposal" => Rooted(t)
    <2>1. CASE UNCHANGED task
      BY <2>1 DEF AgentsRooted
    <2>2. ASSUME NEW t \in Task, NEW s, task' = [task EXCEPT ![n][t] = s],
                 s.status = "proposal" => Rooted(t)
          PROVE  \A m \in Node, u \in Task : task'[m][u].status = "proposal" => Rooted(u)
      <3>1. \A m \in Node, u \in Task :
              task'[m][u] = IF m = n /\ u = t THEN s ELSE task[m][u]
        BY <2>2 DEF TypeOK, FSMTypeOK
      <3> QED
        BY <2>2, <3>1 DEF AgentsRooted
    <2> QED
      BY <2>1, <2>2
  <1>3. \A m \in Node : LoopRooted(loop'[m])
    <2>1. CASE UNCHANGED loop
      BY <2>1 DEF AgentsRooted
    <2>2. ASSUME NEW place, Goto(n, place), LoopRooted(place)
          PROVE  \A m \in Node : LoopRooted(loop'[m])
      <3>1. \A m \in Node : loop'[m] = IF m = n THEN place ELSE loop[m]
        BY <2>2 DEF Goto, TypeOK, EngineTypeOK
      <3> QED
        BY <2>2, <3>1 DEF AgentsRooted
    <2> QED
      BY <2>1, <2>2
  <1> QED
    BY <1>1, <1>2, <1>3 DEF RootStep, AgentsRooted

-----------------------------------------------------------------------------
(* A quorum of counted answers is a majority of agents. *)
LEMMA EnoughAnswers ==
    ASSUME TypeOK, AnswersCounted, NEW n \in Node, NEW t \in Task,
           answers[n][t] >= Quorum \/ answers[n][t] = ServerCount
    PROVE  Rooted(t)
  <1>1. /\ applied[n] \in Nat /\ Len(log) \in Nat /\ applied[n] <= Len(log)
        /\ answers[n][t] \in Nat
    BY DEF TypeOK, FSMTypeOK
  <1>2. ServerCount >= Quorum
    BY QuorumIsMajority DEF Quorum
  <1>3. answers[n][t] <= Cardinality(Answerers(t, applied[n]))
    BY DEF AnswersCounted
  <1>4. Cardinality(Answerers(t, applied[n])) <= Cardinality(Answerers(t, Len(log)))
    BY <1>1, AnswerersMonotone
  <1> QED
    BY <1>1, <1>2, <1>3, <1>4, AnswerersFinite, QuorumIsMajority DEF Rooted, Backing

(* No verdict without votes. *)
LEMMA VerdictNeedsVotes ==
    ASSUME NEW vs, NEW t, NEW r, Verdict(vs, t, r) # "wait"
    PROVE  \E v \in vs : v.task = t
  <1> SUFFICES ASSUME \A v \in vs : v.task # t
               PROVE  FALSE
    OBVIOUS
  <1>1. Acceptors(vs, t, r) = {} /\ Rejecters(vs, t, r) = {}
    BY DEF Acceptors, Rejecters, InRound
  <1>2. Accepted(vs, t, r) = 0 /\ Rejected(vs, t, r) = 0
    BY <1>1, FS_EmptySet DEF Accepted, Rejected
  <1>3. Target \in Nat /\ Quorum \in Nat /\ ServerCount \in Nat
        /\ Target >= 1 /\ Quorum >= 1 /\ ServerCount >= 1
    BY QuorumIsMajority
  <1>4. ~Consensus(vs, t, r) /\ ~Rejection(vs, t, r) /\ ~AllVoted(vs, t, r)
    BY <1>2, <1>3 DEF Consensus, Rejection, AllVoted
  <1> QED
    BY <1>4 DEF Verdict

(* Places and commands that need nothing. *)
LEMMA FreeRooted ==
    /\ LoopRooted(Idle)
    /\ \A t : LoopRooted(Brainstorming(t))
    /\ \A d : LoopRooted(Applying(d))
    /\ \A s, vs : LoopRooted(Finalizing(s, vs))
    /\ \A s, vs, i, k : LoopRooted(Rewarding(s, vs, i, k))
    /\ \A t : CommitRooted(AdmitTask(t))
    /\ \A t, a : CommitRooted(SubmitAnswer(t, a))
    /\ \A a, x : CommitRooted(UpdateReputation(a, x))
    /\ \A t, s : (s.status = "proposal" => Rooted(t)) => CommitRooted(UpdateTask(t, s))
    /\ \A v : Rooted(v.task) => CommitRooted(SubmitVote(v))
  BY DEF LoopRooted, Idle, Brainstorming, Applying, Finalizing, Rewarding, CommitRooted,
         AdmitTask, SubmitAnswer, UpdateReputation, UpdateTask, SubmitVote

(* The goroutines that vote. *)
LEMMA BallotDomain ==
    ASSUME NEW b
    PROVE  /\ ballots' = ballots (+) SetToBag({b}) => DOMAIN ballots' = DOMAIN ballots \cup {b}
           /\ EndBallot(b) => b \in DOMAIN ballots /\ DOMAIN ballots' \subseteq DOMAIN ballots
           /\ UNCHANGED ballots => DOMAIN ballots' = DOMAIN ballots
  BY DEF (+), (-), SetToBag, BagToSet, EndBallot, BagIn

LEMMA EventRooted ==
    ASSUME AnswerInv, NEW n \in Node, HandleEvent(n)
    PROVE  RootStep
  <1> USE DEF AnswerInv
  <1> DEFINE t == Subject(n)
  <1>1. CASE HandleTaskAdmitted(n)
    <2>1. UNCHANGED <<votes, log, task, ballots>> /\ Goto(n, Brainstorming(t))
      BY <1>1 DEF HandleTaskAdmitted, raftVars, store
    <2> QED
      BY <2>1, RootMove, FreeRooted
  <1>2. CASE IgnoreAnswer(n) \/ LateAnswer(n) \/ AwaitAnswers(n) \/ CompleteTask(n)
             \/ IgnoreVote(n) \/ AwaitVotes(n)
    <2>1. UNCHANGED <<votes, log, task, ballots, loop>>
      BY <1>2 DEF IgnoreAnswer, LateAnswer, AwaitAnswers, CompleteTask, IgnoreVote, AwaitVotes,
                  raftVars, store, engineVars
    <2> QED
      BY <2>1, RootMove
  <1>3. CASE StartProposal(n)
    <2>1. t \in Task
      BY <1>3, HandleTyped DEF StartProposal
    <2>2. HasAnswers(n, t, FALSE)
      BY <1>3 DEF StartProposal
    <2>3. Rooted(t)
      BY <2>1, <2>2, EnoughAnswers DEF HasAnswers
    <2>4. LoopRooted(Aggregating(t, TRUE))
      BY <2>3 DEF LoopRooted, Aggregating
    <2>5. UNCHANGED <<votes, log, task, ballots>> /\ Goto(n, Aggregating(t, TRUE))
      BY <1>3 DEF StartProposal, raftVars, store
    <2> QED
      BY <2>4, <2>5, RootMove
  <1>4. CASE OpenBallot(n)
    <2>1. t \in Task /\ Live(n).status = "proposal"
      BY <1>4, HandleTyped DEF OpenBallot
    <2>2. Rooted(t)
      BY <2>1 DEF AgentsRooted, Live
    <2>3. PICK b : b.task = t /\ ballots' = ballots (+) SetToBag({b})
      BY <1>4 DEF OpenBallot
    <2>4. UNCHANGED <<votes, log, task, loop>>
      BY <1>4 DEF OpenBallot, raftVars, store
    <2> QED
      BY <2>2, <2>3, <2>4, BallotDomain, RootMove
  <1>5. CASE StartRevision(n)
    <2>1. LiveVerdict(n) = "revise"
      BY <1>5 DEF StartRevision
    <2>2. \E v \in votes[n] : v.task = t
      BY <2>1, VerdictNeedsVotes DEF LiveVerdict
    <2>3. Rooted(t)
      BY <2>2 DEF AgentsRooted
    <2>4. LoopRooted(Revising(t, LiveVoters(n)))
      BY <2>3 DEF LoopRooted, Revising
    <2>5. UNCHANGED <<votes, log, task, ballots>> /\ Goto(n, Revising(t, LiveVoters(n)))
      BY <1>5 DEF StartRevision, raftVars, store
    <2> QED
      BY <2>4, <2>5, RootMove
  <1>6. CASE Finalize(n) \/ FinalizeFallback(n)
    <2> DEFINE s == Live(n)
               r == BestRound(votes[n], t, s.round)
    <2>1. s \in TaskState /\ t \in Task
      BY <1>6, HandleTyped DEF Finalize, FinalizeFallback, CountVotes
    <2>2. \/ UNCHANGED task
          \/ task' = [task EXCEPT ![n][t] = FallBackTo(s, r)]
      BY <1>6 DEF Finalize, FinalizeFallback
    <2>3. FallBackTo(s, r).status = "proposal" => Rooted(t)
      BY <2>1 DEF FallBackTo, TaskState, AgentsRooted, Live
    <2>4. PICK status \in Final, w \in {s, FallBackTo(s, r)} : Settle(n, status, w)
      BY <1>6 DEF Finalize, FinalizeFallback, Final
    <2> DEFINE x == [w EXCEPT !.status = status]
    <2>5. x.status # "proposal"
      BY <2>1, <2>4 DEF TaskState, FallBackTo, Final
    <2>6. /\ Commit(UpdateTask(t, x)) /\ Goto(n, Finalizing(status, LiveVoters(n)))
          /\ UNCHANGED <<votes, ballots>>
      BY <2>4 DEF Settle
    <2> HIDE DEF x
    <2>7. CommitRooted(UpdateTask(t, x)) /\ LoopRooted(Finalizing(status, LiveVoters(n)))
      BY <2>5, FreeRooted
    <2> QED
      BY <2>1, <2>2, <2>3, <2>6, <2>7, RootMove
  <1>7. CASE FinalizeFallbackRefused(n)
    <2> DEFINE s == Live(n)
               w == FallBackTo(s, BestRound(votes[n], t, s.round))
    <2>1. s \in TaskState /\ t \in Task
      BY <1>7, HandleTyped DEF FinalizeFallbackRefused, CountVotes
    <2>2. task' = [task EXCEPT ![n][t] = w] /\ UNCHANGED <<votes, log, ballots, loop>>
      BY <1>7 DEF FinalizeFallbackRefused, engineVars
    <2>3. w.status = "proposal" => Rooted(t)
      BY <2>1 DEF FallBackTo, TaskState, AgentsRooted, Live
    <2> HIDE DEF w
    <2> QED
      BY <2>1, <2>2, <2>3, RootMove
  <1> QED
    BY <1>1, <1>2, <1>3, <1>4, <1>5, <1>6, <1>7 DEF HandleEvent

LEMMA TimeoutRooted ==
    ASSUME AnswerInv, NEW n \in Node, HandleTimeout(n) \/ Fire(n) \/ Elect(n)
    PROVE  RootStep
  <1> USE DEF AnswerInv
  <1>1. CASE Fire(n) \/ Elect(n)
    <2>1. UNCHANGED <<votes, log, task, ballots, loop>>
      BY <1>1 DEF Fire, TimerFires, OrphanFires, Elect, raftVars, replicaVars, store, engineVars
    <2> QED
      BY <2>1, RootMove
  <1>2. ASSUME NEW t \in Task, ForceProposal(n, t)
        PROVE  RootStep
    <2>1. Rooted(t)
      BY <1>2, EnoughAnswers DEF ForceProposal, CanForce
    <2>2. LoopRooted(Aggregating(t, FALSE))
      BY <2>1 DEF LoopRooted, Aggregating
    <2>3. UNCHANGED <<votes, log, task, ballots>> /\ Goto(n, Aggregating(t, FALSE))
      BY <1>2 DEF ForceProposal, raftVars, replicaVars, store
    <2> QED
      BY <2>2, <2>3, RootMove
  <1>3. ASSUME NEW t \in Task, FailTask(n, t)
        PROVE  RootStep
    <2>1. TimedOutTask.status # "proposal"
      BY DEF TimedOutTask
    <2>2. /\ UNCHANGED <<votes, task, ballots>>
          /\ Commit(UpdateTask(t, TimedOutTask)) /\ Goto(n, Applying(FALSE))
      BY <1>3 DEF FailTask, replicaVars, store
    <2> QED
      BY <2>1, <2>2, RootMove, FreeRooted
  <1>4. ASSUME NEW t \in Task, FailTaskRefused(n, t)
        PROVE  RootStep
    <2>1. UNCHANGED <<votes, log, task, ballots, loop>>
      BY <1>4 DEF FailTaskRefused, raftVars, replicaVars, store
    <2> QED
      BY <2>1, RootMove
  <1> QED
    BY <1>1, <1>2, <1>3, <1>4 DEF HandleTimeout

LEMMA CallRooted ==
    ASSUME AnswerInv, NEW n \in Node, CallSucceeds(n) \/ CallFails(n)
    PROVE  RootStep
  <1> USE DEF AnswerInv
  <1> DEFINE t == loop[n].task
             s == task[n][t]
  <1>0. /\ loop[n].at \in {"aggregating", "revising"} => t \in Task /\ Rooted(t)
        /\ t \in Task => s \in TaskState
    <2>1. loop[n] \in LoopState /\ LoopRooted(loop[n])
      BY DEF TypeOK, EngineTypeOK, AgentsRooted
    <2> QED
      BY <2>1, LoopFields DEF LoopRooted, TypeOK, FSMTypeOK
  <1>1. CASE Brainstorm(n)
    <2>1. /\ UNCHANGED <<votes, task, ballots>>
          /\ Commit(SubmitAnswer(t, n)) /\ Goto(n, Idle)
      BY <1>1 DEF Brainstorm, replicaVars, store
    <2> QED
      BY <2>1, RootMove, FreeRooted
  <1>2. CASE BrainstormFails(n) \/ AggregateFails(n) \/ ReviseFailureRefused(n)
    <2>1. UNCHANGED <<votes, task, ballots, log>> /\ Goto(n, Idle)
      BY <1>2 DEF BrainstormFails, AggregateFails, ReviseFailureRefused,
                  raftVars, replicaVars, store
    <2> QED
      BY <2>1, RootMove, FreeRooted
  <1>3. CASE Propose(n) \/ ProposeRefused(n)
    <2>1. t \in Task /\ Rooted(t)
      BY <1>0, <1>3 DEF Propose, ProposeRefused, Aggregated
    <2>2. /\ task' = [task EXCEPT ![n][t] = FirstProposal(n)]
          /\ UNCHANGED <<votes, ballots>>
      BY <1>3 DEF Propose, ProposeRefused, Aggregated
    <2>3. UNCHANGED log \/ Commit(UpdateTask(t, FirstProposal(n)))
      BY <1>3 DEF Propose, ProposeRefused
    <2>4. CommitRooted(UpdateTask(t, FirstProposal(n)))
      BY <2>1, FreeRooted
    <2>5. \E place : Goto(n, place) /\ LoopRooted(place)
      BY <1>3, FreeRooted DEF Propose, ProposeRefused
    <2> QED
      BY <2>1, <2>2, <2>3, <2>4, <2>5, RootMove
  <1>4. CASE Revise(n) \/ ReviseRefused(n)
    <2>1. t \in Task /\ Rooted(t) /\ s \in TaskState
      BY <1>0, <1>4 DEF Revise, ReviseRefused, Revised
    <2>2. \/ UNCHANGED task
          \/ task' = [task EXCEPT ![n][t] =
                        [s EXCEPT !.proposals = NextProposal(s, n).proposals]]
      BY <1>4 DEF Revise, ReviseRefused, Revised
    <2>3. UNCHANGED <<votes, ballots>>
      BY <1>4 DEF Revise, ReviseRefused, Revised
    <2>4. UNCHANGED log \/ Commit(UpdateTask(t, NextProposal(s, n)))
      BY <1>4 DEF Revise, ReviseRefused
    <2>5. CommitRooted(UpdateTask(t, NextProposal(s, n)))
      BY <2>1, FreeRooted
    <2>6. \E place : Goto(n, place) /\ LoopRooted(place)
      BY <1>4, FreeRooted DEF Revise, ReviseRefused
    <2> QED
      BY <2>1, <2>2, <2>3, <2>4, <2>5, <2>6, RootMove
  <1>5. CASE ReviseFails(n)
    <2> DEFINE x == [s EXCEPT !.status = "failed"]
    <2>1. s \in TaskState
      BY <1>0, <1>5 DEF ReviseFails
    <2>2. x.status # "proposal"
      BY <2>1 DEF TaskState
    <2>3. /\ Commit(UpdateTask(t, x)) /\ Goto(n, Finalizing("failed", loop[n].voters))
          /\ UNCHANGED <<votes, task, ballots>>
      BY <1>5 DEF ReviseFails, replicaVars, store
    <2> HIDE DEF x
    <2> QED
      BY <2>2, <2>3, RootMove, FreeRooted
  <1> QED
    BY <1>1, <1>2, <1>3, <1>4, <1>5 DEF CallSucceeds, CallFails

LEMMA FinishRooted ==
    ASSUME AnswerInv, NEW n \in Node, FinishCall(n) \/ VoteOf(n)
    PROVE  RootStep
  <1> USE DEF AnswerInv
  <1>1. CASE ApplyReturns(n) \/ ApplyFails(n) \/ FinalizeFails(n) \/ CheckTransfer(n)
    <2>1. UNCHANGED <<votes, task, ballots, log>> /\ Goto(n, Idle)
      BY <1>1 DEF ApplyReturns, ApplyFails, FinalizeFails, CheckTransfer,
                  raftVars, replicaVars, store
    <2> QED
      BY <2>1, RootMove, FreeRooted
  <1>2. ASSUME NEW a, NEW x, NEW due, Reward(n, a, x, due)
        PROVE  RootStep
    <2>1. UNCHANGED log \/ Commit(UpdateReputation(a, x))
      BY <1>2 DEF Reward
    <2>2. \E s, vs, i, k : Goto(n, Rewarding(s, vs, i, k))
      BY <1>2 DEF Reward
    <2>3. UNCHANGED <<votes, task, ballots>>
      BY <1>2 DEF Reward, replicaVars, store
    <2> QED
      BY <2>1, <2>2, <2>3, RootMove, FreeRooted
  <1>3. CASE RewardLeader(n) \/ RewardVoter(n)
    BY <1>2, <1>3 DEF RewardLeader, RewardVoter
  <1>4. CASE VoteOf(n)
    <2>1. PICK b : EndBallot(b) /\ ((\E ok \in BOOLEAN : CastVote(b, ok)) \/ LoseVote(b))
      BY <1>4 DEF VoteOf, CastVote, LoseVote
    <2>2. b \in DOMAIN ballots /\ DOMAIN ballots' \subseteq DOMAIN ballots
      BY <2>1, BallotDomain
    <2>3. Rooted(b.task)
      BY <2>2 DEF AgentsRooted
    <2>4. UNCHANGED <<votes, task, loop>>
      BY <2>1 DEF CastVote, LoseVote, replicaVars, store
    <2>5. UNCHANGED log \/ \E v : v.task = b.task /\ Commit(SubmitVote(v))
      BY <2>1 DEF CastVote, LoseVote, raftVars
    <2> QED
      BY <2>2, <2>3, <2>4, <2>5, RootMove, FreeRooted
  <1> QED
    BY <1>1, <1>3, <1>4 DEF FinishCall

(* A replica learns of proposals and votes from the log. *)
LEMMA ReplicaRooted ==
    ASSUME AnswerInv, NEW n \in Node, Replicate(n)
    PROVE  RootStep
  <1> USE DEF AnswerInv
  <1> DEFINE k == applied[n]
             c == log[k + 1]
  <1>1. /\ UNCHANGED <<log, loop, ballots>> /\ k \in Nat /\ k < Len(log) /\ Len(log) \in Nat
        /\ c \in Command
    BY DEF Replicate, ApplyCommand, ApplyAdmitTask, ApplySubmitAnswer, ApplyUpdateTask,
           ApplySubmitVote, ApplyUpdateReputation, Take, raftVars, engineVars, TypeOK, FSMTypeOK
  <1>2. /\ c.type = "SubmitVote" => Rooted(c.vote.task)
        /\ c.type = "UpdateTask" /\ c.state.status = "proposal" => Rooted(c.task)
    <2>1. k + 1 \in 1 .. Len(log) /\ k + 1 \in Nat /\ k + 1 <= Len(log)
      BY <1>1
    <2>2. c.type = "SubmitVote" => Rooted(c.vote.task)
      BY <2>1 DEF LogRooted, Entries
    <2>3. ASSUME c.type = "UpdateTask", c.state.status = "proposal"
          PROVE  Rooted(c.task)
      <3>1. Backing(c.task, k + 1)
        BY <2>1, <2>3 DEF LogRooted, Entries
      <3> QED
        BY <1>1, <2>1, <3>1, AnswerersMonotone DEF Rooted
    <2> QED
      BY <2>2, <2>3
  <1>3. \A m \in Node, t \in Task : task'[m][t].status = "proposal" => Rooted(t)
    <2>1. CASE UNCHANGED task
      BY <2>1 DEF AgentsRooted
    <2>2. ASSUME NEW s, task' = [task EXCEPT ![n][c.task] = s], c.task \in Task,
                 s.status = "proposal" => Rooted(c.task)
          PROVE  \A m \in Node, t \in Task : task'[m][t].status = "proposal" => Rooted(t)
      <3> HIDE DEF c
      <3>1. \A m \in Node, t \in Task :
              task'[m][t] = IF m = n /\ t = c.task THEN s ELSE task[m][t]
        BY <2>2 DEF TypeOK, FSMTypeOK
      <3> QED
        BY <2>2, <3>1 DEF AgentsRooted
    <2>3. CASE ApplyAdmitTask(n)
      <3>1. task' = [task EXCEPT ![n][c.task] = Admitted] /\ c.task \in Task
        BY <1>1, <2>3, CommandFields DEF ApplyAdmitTask, Take, NextCommand
      <3>2. Admitted.status # "proposal"
        BY DEF Admitted
      <3> QED
        BY <2>2, <3>1, <3>2
    <2>4. CASE ApplyUpdateTask(n)
      <3>1. /\ c.type = "UpdateTask" /\ c.task \in Task
            /\ UNCHANGED task \/ task' = [task EXCEPT ![n][c.task] = c.state]
        BY <1>1, <2>4, CommandFields DEF ApplyUpdateTask, Take, NextCommand
      <3> QED
        BY <1>2, <2>1, <2>2, <3>1
    <2>5. CASE ApplySubmitAnswer(n) \/ ApplySubmitVote(n) \/ ApplyUpdateReputation(n)
      BY <2>1, <2>5 DEF ApplySubmitAnswer, ApplySubmitVote, ApplyUpdateReputation
    <2> QED
      BY <2>3, <2>4, <2>5 DEF Replicate, ApplyCommand
  <1>4. \A m \in Node : \A v \in votes'[m] : Rooted(v.task)
    <2>1. CASE UNCHANGED votes
      BY <2>1 DEF AgentsRooted
    <2>2. CASE ApplySubmitVote(n)
      <3>1. /\ c.type = "SubmitVote"
            /\ UNCHANGED votes \/ votes' = [votes EXCEPT ![n] = @ \cup {c.vote}]
        BY <2>2 DEF ApplySubmitVote, Take, NextCommand
      <3> HIDE DEF c
      <3>2. CASE votes' = [votes EXCEPT ![n] = @ \cup {c.vote}]
        <4>1. \A m \in Node : votes'[m] = IF m = n THEN votes[n] \cup {c.vote} ELSE votes[m]
          BY <3>2 DEF TypeOK, FSMTypeOK
        <4> QED
          BY <1>2, <3>1, <4>1 DEF AgentsRooted
      <3> QED
        BY <2>1, <3>1, <3>2
    <2>3. CASE ~ApplySubmitVote(n)
      BY <2>1, <2>3 DEF Replicate, ApplyCommand, ApplyAdmitTask, ApplySubmitAnswer,
                        ApplyUpdateTask, ApplyUpdateReputation
    <2> QED
      BY <2>2, <2>3
  <1>5. /\ \A m \in Node : LoopRooted(loop'[m])
        /\ \A b \in DOMAIN ballots' : Rooted(b.task)
    BY <1>1 DEF AgentsRooted
  <1> QED
    BY <1>1, <1>3, <1>4, <1>5 DEF RootStep

LEMMA NextRooted ==
    ASSUME AnswerInv, [Next]_vars
    PROVE  RootStep
  <1>1. ASSUME NEW t \in Task, SubmitTask(t)
        PROVE  RootStep
    <2>1. UNCHANGED <<votes, task, loop, ballots>> /\ Commit(AdmitTask(t)) /\ Node # {}
      BY <1>1, TallyAssumption DEF SubmitTask, replicaVars, store, engineVars
    <2> QED
      BY <2>1, RootMove, FreeRooted DEF AnswerInv
  <1>2. CASE UNCHANGED vars
    <2>1. UNCHANGED <<votes, task, loop, ballots, log>> /\ Node # {}
      BY <1>2, TallyAssumption DEF vars, raftVars, replicaVars, store, engineVars
    <2> QED
      BY <2>1, RootMove DEF AnswerInv
  <1>3. ASSUME NEW n \in Node, Step(n)
        PROVE  RootStep
    BY <1>3, EventRooted, TimeoutRooted, CallRooted, FinishRooted, ReplicaRooted DEF Step
  <1> QED
    BY <1>1, <1>2, <1>3 DEF Next

(* Only a replica that applies a command counts answers. *)
LEMMA OthersCountNothing ==
    ASSUME [Next]_vars
    PROVE  UNCHANGED answers \/ \E n \in Node : Replicate(n)
  <1> USE DEF raftVars, replicaVars, store
  <1>1. ASSUME NEW n \in Node, HandleEvent(n)
        PROVE  UNCHANGED answers
    BY <1>1 DEF HandleEvent, HandleTaskAdmitted, IgnoreAnswer, LateAnswer, AwaitAnswers,
                StartProposal, CompleteTask, OpenBallot, IgnoreVote, AwaitVotes, StartRevision,
                Finalize, FinalizeFallback, FinalizeFallbackRefused, Settle
  <1>2. ASSUME NEW n \in Node, HandleTimeout(n) \/ Fire(n) \/ Elect(n)
        PROVE  UNCHANGED answers
    BY <1>2 DEF HandleTimeout, ForceProposal, FailTask, FailTaskRefused, Fire, TimerFires,
                OrphanFires, Elect
  <1>3. ASSUME NEW n \in Node, CallSucceeds(n) \/ CallFails(n)
        PROVE  UNCHANGED answers
    BY <1>3 DEF CallSucceeds, Brainstorm, Propose, ProposeRefused, Aggregated, Revise,
                ReviseRefused, Revised, CallFails, BrainstormFails, AggregateFails, ReviseFails,
                ReviseFailureRefused
  <1>4. ASSUME NEW n \in Node, FinishCall(n) \/ VoteOf(n)
        PROVE  UNCHANGED answers
    BY <1>4 DEF FinishCall, ApplyReturns, ApplyFails, FinalizeFails, RewardLeader, RewardVoter,
                Reward, CheckTransfer, VoteOf, CastVote, LoseVote
  <1>5. ASSUME NEW t \in Task, SubmitTask(t)
        PROVE  UNCHANGED answers
    BY <1>5 DEF SubmitTask
  <1>6. CASE UNCHANGED vars
    BY <1>6 DEF vars
  <1> QED
    BY <1>1, <1>2, <1>3, <1>4, <1>5, <1>6 DEF Next, Step

-----------------------------------------------------------------------------
LEMMA InitAnswers == Init => AnswerInv
  <1> SUFFICES ASSUME Init
               PROVE  AnswerInv
    OBVIOUS
  <1> USE DEF Init, FSMInit
  <1>1. TypeOK
    BY InitTypeOK
  <1>2. NoticesOnce
    BY DEF NoticesOnce, AdmittedOnce, OneNotice, Notices, Thinking, Idle, Brainstorming
  <1>3. ASSUME NEW n \in Node, NEW t \in Task
        PROVE  Bill(n, t) <= 1
    <2>1. AnswersOf(n, t) = {}
      BY DEF AnswersOf, Entries
    <2> QED
      BY <2>1, FS_EmptySet DEF Bill
  <1>4. AnswersCounted
    BY AnswerersFinite DEF AnswersCounted
  <1>5. AgentsRooted
    BY DEF AgentsRooted, Absent, LoopRooted, Idle, EmptyBag, SetToBag
  <1>6. LogRooted
    BY DEF LogRooted, Entries
  <1> QED
    BY <1>1, <1>2, <1>3, <1>4, <1>5, <1>6 DEF AnswerInv, AnsweredOnce

LEMMA NextAnswerInv == AnswerInv /\ [Next]_vars => AnswerInv'
  <1> SUFFICES ASSUME AnswerInv, [Next]_vars
               PROVE  AnswerInv'
    OBVIOUS
  <1>1. TypeOK' /\ NoticesOnce' /\ AnsweredOnce'
    BY NextTypeOK, NextAnswers, NextAnsweredOnce DEF AnswerInv
  <1>2. AnswersCounted'
    <2>1. ASSUME NEW n \in Node, Replicate(n)
          PROVE  AnswersCounted'
      BY <2>1, ReplicaAnswersCounted DEF AnswerInv
    <2>2. CASE LogStep /\ UNCHANGED answers
      <3>1. ASSUME NEW n \in Node, NEW t \in Task
            PROVE  answers'[n][t] <= Cardinality(Answerers(t, applied[n])')
        <4>1. PICK k \in Nat : k = applied[n] /\ k = applied'[n] /\ k <= Len(log)
          BY <2>2 DEF LogStep, AnswerInv, TypeOK, FSMTypeOK
        <4>2. UNCHANGED log \/ \E c : log' = Append(log, c)
          BY <2>2 DEF LogStep
        <4>3. Answerers(t, k)' = Answerers(t, k)
          BY <4>1, <4>2, AnswerersStable DEF AnswerInv
        <4>4. Answerers(t, applied[n])' = Answerers(t, k)
          BY <4>1, <4>3 DEF Answerers
        <4> QED
          BY <2>2, <4>1, <4>4 DEF AnswerInv, AnswersCounted
      <3> QED
        BY <3>1 DEF AnswersCounted
    <2> QED
      BY <2>1, <2>2, NextLogStep, OthersCountNothing DEF AnswerInv
  <1>3. AgentsRooted' /\ LogRooted'
    BY NextRooted, RootStepKeeps DEF AnswerInv
  <1> QED
    BY <1>1, <1>2, <1>3 DEF AnswerInv

(***************************************************************************)
(* Whoever leads, and however far behind its replica is: no first proposal *)
(* of a task is committed before a majority of distinct agents has         *)
(* answered it, although all the engine looks at is a count of entries     *)
(* (HasAnswers, CanForce).                                                 *)
(***************************************************************************)
THEOREM ProposalAlwaysHasQuorumAnswers == Spec => []ProposalHasQuorumAnswers
  <1>1. AnswerInv => ProposalHasQuorumAnswers
    BY DEF AnswerInv, LogRooted, Backing, ProposalHasQuorumAnswers, Proposals, Updates
  <1> QED
    BY <1>1, InitAnswers, NextAnswerInv, PTL DEF Spec
=============================================================================
