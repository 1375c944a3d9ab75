--------------------------- MODULE RecoveryProofs ---------------------------
(***************************************************************************)
(* Agents that crash, come back with an old snapshot and apply the log     *)
(* again: what still holds of their replicas, of decisions and of answers, *)
(* for any cluster and any number of restarts and snapshots.               *)
(***************************************************************************)
EXTENDS Recovery, LedgerProofs

(* A snapshot being encoded is newer than the last one, and not too new. *)
EncodingOrdered ==
    \A n \in Node : \A s \in encoding[n] :
        snapshot[n].index <= s.index /\ s.index <= applied[n]

TypesInv == RecoveryTypeOK /\ EncodingOrdered

(* A step of the agents while nobody restarts, or of a snapshot. *)
Running == [Next]_vars /\ UNCHANGED <<starts, base>>

-----------------------------------------------------------------------------
(***************************************************************************)
(* Types, and the order of what was applied, taken and stored.             *)
(***************************************************************************)
LEMMA EmptyTyped == Empty \in Persisted /\ Empty.index = 0
  BY DEF Empty, Persisted, NoTasks, Absent, TaskState, Status, Text, Unset, FullReputation

(* A replica never goes back while it runs. *)
LEMMA AppliedGrows ==
    ASSUME TypeOK, [Next]_vars, NEW n \in Node
    PROVE  applied[n] \in Nat /\ applied'[n] \in Nat /\ applied[n] <= applied'[n]
  <1>0. applied \in [Node -> Nat]
    BY DEF TypeOK, FSMTypeOK
  <1>1. CASE LogStep
    BY <1>0, <1>1 DEF LogStep
  <1>2. ASSUME NEW m \in Node, Replicate(m)
        PROVE  applied[n] \in Nat /\ applied'[n] \in Nat /\ applied[n] <= applied'[n]
    <2>1. applied' = [applied EXCEPT ![m] = @ + 1]
      BY <1>2 DEF Replicate, ApplyCommand, ApplyAdmitTask, ApplySubmitAnswer, ApplyUpdateTask,
                  ApplySubmitVote, ApplyUpdateReputation, Take
    <2> QED
      BY <1>0, <2>1
  <1> QED
    BY <1>1, <1>2, NextLogStep

LEMMA SnapshotTypes ==
    ASSUME TypesInv, NEW n \in Node, TakeSnapshot(n) \/ Persist(n)
    PROVE  TypesInv'
  <1> USE DEF TypesInv, RecoveryTypeOK
  <1>1. UNCHANGED <<vars, starts, base>> /\ TypeOK'
    <2>1. UNCHANGED <<vars, starts, base>>
      BY DEF TakeSnapshot, Persist
    <2> QED
      BY <2>1, NextTypeOK
  <1>2. UNCHANGED <<applied, rep, task>>
    BY <1>1 DEF vars, replicaVars, store
  <1>3. applied[n] \in Nat /\ rep[n] \in [Node -> 0 .. FullReputation \cup {Unset}]
        /\ task[n] \in [Task -> TaskState]
    BY DEF TypeOK, FSMTypeOK
  <1>4. CASE TakeSnapshot(n)
    <2> DEFINE s == [index |-> applied[n], rep |-> rep[n]]
    <2>1. /\ encoding' = [encoding EXCEPT ![n] = {s}] /\ taken' = taken + 1
          /\ UNCHANGED snapshot
      BY <1>4 DEF TakeSnapshot
    <2>2. s \in Taken /\ s.index = applied[n]
      BY <1>3 DEF Taken
    <2> HIDE DEF s
    <2>3. \A m \in Node : encoding'[m] = IF m = n THEN {s} ELSE encoding[m]
      BY <2>1
    <2>4. encoding' \in [Node -> SUBSET Taken] /\ taken' \in Nat
      BY <2>1, <2>2
    <2>5. EncodingOrdered'
      <3>1. snapshot[n].index <= s.index /\ s.index <= applied[n]
        BY <1>3, <2>2
      <3> QED
        BY <1>2, <2>1, <2>3, <3>1 DEF EncodingOrdered
    <2> QED
      BY <1>1, <1>2, <2>1, <2>4, <2>5
  <1>5. CASE Persist(n)
    <2>1. PICK s \in encoding[n] :
            snapshot' = [snapshot EXCEPT ![n] = [index |-> s.index, rep |-> s.rep, task |-> task[n]]]
      BY <1>5 DEF Persist
    <2> DEFINE p == [index |-> s.index, rep |-> s.rep, task |-> task[n]]
    <2>2. /\ encoding' = [encoding EXCEPT ![n] = {}] /\ UNCHANGED taken
      BY <1>5 DEF Persist
    <2>3. p \in Persisted /\ p.index = s.index /\ s.index \in Nat
      BY <1>3, <2>1 DEF Persisted, Taken
    <2>4. snapshot' = [snapshot EXCEPT ![n] = p]
      BY <2>1
    <2> HIDE DEF p
    <2>5. /\ \A m \in Node : snapshot'[m] = IF m = n THEN p ELSE snapshot[m]
          /\ \A m \in Node : encoding'[m] = IF m = n THEN {} ELSE encoding[m]
          /\ snapshot' \in [Node -> Persisted] /\ encoding' \in [Node -> SUBSET Taken]
      BY <2>2, <2>3, <2>4
    <2>6. EncodingOrdered'
      BY <1>2, <2>5 DEF EncodingOrdered
    <2>7. ASSUME NEW m \in Node
          PROVE  base'[m] <= snapshot'[m].index /\ snapshot'[m].index <= applied'[m]
      <3>1. CASE m = n
        <4>1. /\ base[n] \in Nat /\ snapshot[n].index \in Nat
              /\ base[n] <= snapshot[n].index
              /\ snapshot[n].index <= s.index /\ s.index <= applied[n]
          BY <2>1 DEF EncodingOrdered, Persisted
        <4> QED
          BY <1>1, <1>2, <1>3, <2>3, <2>5, <3>1, <4>1
      <3>2. CASE m # n
        BY <1>1, <1>2, <2>5, <3>2
      <3> QED
        BY <3>1, <3>2
    <2> QED
      BY <1>1, <2>2, <2>5, <2>6, <2>7
  <1> QED
    BY <1>4, <1>5

LEMMA RunningTypes ==
    ASSUME TypesInv, Next, UNCHANGED diskVars
    PROVE  TypesInv'
  <1> USE DEF TypesInv, RecoveryTypeOK
  <1>1. UNCHANGED <<snapshot, encoding, taken, starts, base>> /\ TypeOK'
    BY NextTypeOK DEF diskVars
  <1>2. ASSUME NEW n \in Node
        PROVE  base'[n] <= snapshot'[n].index /\ snapshot'[n].index <= applied'[n]
    <2>1. applied[n] \in Nat /\ applied'[n] \in Nat /\ applied[n] <= applied'[n]
      BY AppliedGrows
    <2>2. snapshot[n].index \in Nat
      BY DEF Persisted
    <2> QED
      BY <1>1, <2>1, <2>2
  <1>3. ASSUME NEW n \in Node, NEW s \in encoding[n]
        PROVE  snapshot[n].index <= s.index /\ s.index <= applied'[n]
    <2>1. applied[n] \in Nat /\ applied'[n] \in Nat /\ applied[n] <= applied'[n]
      BY AppliedGrows
    <2>2. s.index \in Nat /\ snapshot[n].index <= s.index /\ s.index <= applied[n]
      BY DEF Taken, EncodingOrdered
    <2> QED
      BY <2>1, <2>2
  <1> QED
    BY <1>1, <1>2, <1>3 DEF EncodingOrdered

(* What a restart does to an agent, and to nobody else. *)
LEMMA RestartEffect ==
    ASSUME TypesInv, NEW n \in Node, Restart(n)
    PROVE  /\ UNCHANGED log
           /\ \A m \in Node :
                /\ starts'[m] = IF m = n THEN starts[n] + 1 ELSE starts[m]
                /\ applied'[m] = IF m = n THEN snapshot[n].index ELSE applied[m]
                /\ base'[m] = IF m = n THEN snapshot[n].index ELSE base[m]
                /\ votes'[m] = IF m = n THEN {} ELSE votes[m]
                /\ events'[m] = IF m = n THEN <<>> ELSE events[m]
                /\ loop'[m] = IF m = n THEN Idle ELSE loop[m]
                /\ encoding'[m] = IF m = n THEN {} ELSE encoding[m]
           /\ snapshot[n].index \in Nat /\ snapshot[n].index <= applied[n]
           /\ applied[n] \in Nat /\ starts[n] \in Nat
  BY DEF TypesInv, RecoveryTypeOK, TypeOK, FSMTypeOK, EngineTypeOK, Restart, Restore, NewEngine,
         Persisted

LEMMA RestartTypes ==
    ASSUME TypesInv, NEW n \in Node, Restart(n)
    PROVE  TypesInv'
  <1> USE DEF TypesInv, RecoveryTypeOK
  <1> DEFINE s == snapshot[n]
  <1>1. s \in Persisted /\ s.index \in Nat /\ s.index <= applied[n]
        /\ applied[n] \in Nat /\ Len(log) \in Nat /\ applied[n] <= Len(log)
    BY DEF TypeOK, FSMTypeOK, Persisted
  <1>2. /\ Restore(n, s) /\ NewEngine(n) /\ UNCHANGED <<log, snapshot, taken>>
        /\ starts' = [starts EXCEPT ![n] = @ + 1]
        /\ base' = [base EXCEPT ![n] = s.index]
        /\ encoding' = [encoding EXCEPT ![n] = {}]
    BY DEF Restart
  <1>3. leader' \in Node /\ term' \in Nat
    BY LeadershipTyped DEF Restart
  <1>4. /\ applied' \in [Node -> Nat] /\ \A m \in Node : applied'[m] <= Len(log')
        /\ rep' \in [Node -> [Node -> 0 .. FullReputation \cup {Unset}]]
        /\ task' \in [Node -> [Task -> TaskState]]
        /\ answers' \in [Node -> [Task -> Nat]]
        /\ votes' \in [Node -> SUBSET Vote]
    <2>1. s.rep \in [Node -> 0 .. FullReputation \cup {Unset}]
      BY <1>1 DEF Persisted
    <2>2. [t \in Task |-> Unfinished(s.task[t])] \in [Task -> TaskState]
      <3>1. Absent \in TaskState
        BY DEF Absent, TaskState, Status, Text
      <3> QED
        BY <1>1, <3>1 DEF Persisted, Unfinished
    <2>3. [t \in Task |-> 0] \in [Task -> Nat]
      OBVIOUS
    <2> DEFINE restored == [t \in Task |-> Unfinished(s.task[t])]
               none == [t \in Task |-> 0]
    <2>4. /\ applied' = [applied EXCEPT ![n] = s.index] /\ rep' = [rep EXCEPT ![n] = s.rep]
          /\ task' = [task EXCEPT ![n] = restored] /\ answers' = [answers EXCEPT ![n] = none]
          /\ votes' = [votes EXCEPT ![n] = {}]
      BY <1>2 DEF Restore
    <2> HIDE DEF restored, none
    <2>5. restored \in [Task -> TaskState] /\ none \in [Task -> Nat]
      BY <2>2, <2>3 DEF restored, none
    <2> QED
      BY <1>1, <1>2, <2>1, <2>4, <2>5 DEF TypeOK, FSMTypeOK
  <1>5. /\ loop' \in [Node -> LoopState] /\ timers' \in [Node -> [Task -> Timer]]
        /\ timerCh' \in [Node -> Seq(Task)] /\ events' \in [Node -> Seq(Event)]
        /\ fires' \in Nat
    <2>1. Idle \in LoopState
      BY DEF Idle, LoopState
    <2>2. [t \in Task |-> NoTimer] \in [Task -> Timer]
      BY DEF NoTimer, Timer
    <2> DEFINE none == [t \in Task |-> NoTimer]
    <2>3. /\ loop' = [loop EXCEPT ![n] = Idle] /\ timers' = [timers EXCEPT ![n] = none]
          /\ timerCh' = [timerCh EXCEPT ![n] = <<>>] /\ events' = [events EXCEPT ![n] = <<>>]
          /\ UNCHANGED fires
      BY <1>2 DEF NewEngine
    <2>4. none \in [Task -> Timer]
      BY <2>2
    <2> HIDE DEF none
    <2> QED
      BY <2>1, <2>3, <2>4 DEF TypeOK, FSMTypeOK, EngineTypeOK
  <1>6. BallotsTyped'
    <2>1. ballots' = [b \in {x \in DOMAIN ballots : x.agent # n} |-> ballots[b]]
      BY <1>2 DEF NewEngine
    <2> QED
      BY <2>1 DEF TypeOK, EngineTypeOK, BallotsTyped, IsABag, BagToSet
  <1>7. TypeOK'
    BY <1>2, <1>3, <1>4, <1>5, <1>6 DEF TypeOK, FSMTypeOK, EngineTypeOK
  <1>8. /\ snapshot' \in [Node -> Persisted] /\ encoding' \in [Node -> SUBSET Taken]
        /\ taken' \in Nat /\ starts' \in [Node -> Nat] /\ base' \in [Node -> Nat]
    BY <1>1, <1>2
  <1>9. \A m \in Node : base'[m] <= snapshot'[m].index /\ snapshot'[m].index <= applied'[m]
    <2>1. \A m \in Node : /\ base'[m] = IF m = n THEN s.index ELSE base[m]
                          /\ applied'[m] = IF m = n THEN s.index ELSE applied[m]
      BY RestartEffect
    <2> QED
      BY <1>1, <1>2, <2>1
  <1>10. EncodingOrdered'
    <2>1. \A m \in Node : /\ encoding'[m] = IF m = n THEN {} ELSE encoding[m]
                          /\ applied'[m] = IF m = n THEN s.index ELSE applied[m]
      BY RestartEffect
    <2> QED
      BY <1>2, <2>1 DEF EncodingOrdered
  <1> QED
    BY <1>7, <1>8, <1>9, <1>10

LEMMA InitTypes == RecoveryInit => TypesInv
  <1> SUFFICES ASSUME RecoveryInit
               PROVE  TypesInv
    OBVIOUS
  <1>1. TypeOK /\ \A n \in Node : applied[n] = 0
    BY InitTypeOK DEF RecoveryInit, Init, FSMInit
  <1> QED
    BY <1>1, EmptyTyped DEF RecoveryInit, TypesInv, RecoveryTypeOK, EncodingOrdered

LEMMA NextTypes == TypesInv /\ [RecoveryNext]_recoveryVars => TypesInv'
  <1> SUFFICES ASSUME TypesInv, [RecoveryNext]_recoveryVars
               PROVE  TypesInv'
    OBVIOUS
  <1>1. CASE UNCHANGED recoveryVars
    <2>1. UNCHANGED <<vars, snapshot, encoding, taken, starts, base>>
      BY <1>1 DEF recoveryVars, diskVars
    <2>2. TypeOK' /\ UNCHANGED applied
      BY <2>1, NextTypeOK DEF TypesInv, RecoveryTypeOK, vars, replicaVars, store
    <2> QED
      BY <2>1, <2>2 DEF TypesInv, RecoveryTypeOK, EncodingOrdered
  <1> QED
    BY <1>1, RunningTypes, SnapshotTypes, RestartTypes DEF RecoveryNext

(***************************************************************************)
(* Through crashes too, every variable keeps its type, a snapshot never    *)
(* covers more than its replica has applied, and a replica never begins    *)
(* after what it can be restored to.                                       *)
(***************************************************************************)
THEOREM RecoveryTypeCorrect == RecoverySpec => []RecoveryTypeOK
  <1>1. TypesInv => RecoveryTypeOK
    BY DEF TypesInv
  <1> QED
    BY <1>1, InitTypes, NextTypes, PTL DEF RecoverySpec

-----------------------------------------------------------------------------
(***************************************************************************)
(* The votes of a replica are those of its window of the log: the entries  *)
(* it has applied since its last start.                                    *)
(***************************************************************************)
WindowVotes == \A n \in Node : votes[n] = FirstVotes(base[n], applied[n])

WindowInv == TypesInv /\ WindowVotes

(* The windows lie within the log. *)
LEMMA WindowsTyped ==
    ASSUME TypesInv, NEW n \in Node
    PROVE  /\ base[n] \in Nat /\ applied[n] \in Nat /\ Len(log) \in Nat
           /\ base[n] <= applied[n] /\ applied[n] <= Len(log)
  BY DEF TypesInv, RecoveryTypeOK, TypeOK, FSMTypeOK, Persisted

(* A replica that applies a command counts what its window now holds. *)
LEMMA ReplicaKeepsWindow ==
    ASSUME WindowInv, NEW n \in Node, Replicate(n), UNCHANGED base
    PROVE  UNCHANGED log /\ WindowVotes'
  <1> DEFINE k == applied[n]
             b == base[n]
  <1>1. TypeOK /\ votes \in [Node -> SUBSET Vote] /\ applied \in [Node -> Nat]
    BY DEF WindowInv, TypesInv, RecoveryTypeOK, TypeOK, FSMTypeOK
  <1>2. /\ UNCHANGED log /\ k < Len(log)
        /\ applied' = [applied EXCEPT ![n] = k + 1]
    BY DEF Replicate, ApplyCommand, ApplyAdmitTask, ApplySubmitAnswer, ApplyUpdateTask,
           ApplySubmitVote, ApplyUpdateReputation, Take, raftVars
  <1>3. b \in Nat /\ k \in Nat /\ b <= k /\ votes[n] = FirstVotes(b, k)
    BY WindowsTyped DEF WindowInv, WindowVotes
  <1>4. votes' = [votes EXCEPT ![n] = FirstVotes(b, k + 1)]
    <2>1. CASE ApplySubmitVote(n)
      <3>1. log[k + 1].type = "SubmitVote"
        BY <2>1 DEF ApplySubmitVote, Take, NextCommand
      <3>2. votes' = IF \E w \in votes[n] : SameBallot(log[k + 1].vote, w) THEN votes
                     ELSE [votes EXCEPT ![n] = votes[n] \cup {log[k + 1].vote}]
        BY <2>1 DEF ApplySubmitVote, NextCommand
      <3> HIDE DEF k, b
      <3> QED
        BY <1>1, <1>2, <1>3, <3>1, <3>2, FirstNext
    <2>2. CASE ~ApplySubmitVote(n)
      <3>1. log[k + 1].type # "SubmitVote" /\ votes' = votes
        BY <2>2 DEF Replicate, ApplyCommand, ApplyAdmitTask, ApplySubmitAnswer,
                    ApplyUpdateTask, ApplyUpdateReputation, Take, NextCommand
      <3> HIDE DEF k, b
      <3> QED
        BY <1>1, <1>2, <1>3, <3>1, FirstNext
    <2> QED
      BY <2>1, <2>2
  <1>5. \A m \in Node : FirstVotes(base[m], applied[m])' = FirstVotes(base[m], applied'[m])
    BY <1>2 DEF FirstVotes, FirstIn, Window, Entries
  <1>6. \A m \in Node : /\ votes'[m] = IF m = n THEN FirstVotes(b, k + 1) ELSE votes[m]
                        /\ applied'[m] = IF m = n THEN k + 1 ELSE applied[m]
    BY <1>1, <1>2, <1>4
  <1> HIDE DEF k, b
  <1>7. ASSUME NEW m \in Node
        PROVE  votes'[m] = FirstVotes(base[m], applied'[m])
    <2>1. CASE m = n
      BY <1>6, <2>1 DEF b
    <2>2. CASE m # n
      BY <1>6, <2>2 DEF WindowInv, WindowVotes
    <2> QED
      BY <2>1, <2>2
  <1> QED
    BY <1>2, <1>5, <1>7 DEF WindowVotes

(* Every step is one of the running system, or a restart. *)
LEMMA RecoverySteps ==
    ASSUME [RecoveryNext]_recoveryVars
    PROVE  Running \/ \E n \in Node : Restart(n)
  <1>1. CASE UNCHANGED recoveryVars
    BY <1>1 DEF Running, recoveryVars, diskVars
  <1>2. CASE Next /\ UNCHANGED diskVars
    BY <1>2 DEF Running, diskVars
  <1>3. ASSUME NEW n \in Node, TakeSnapshot(n) \/ Persist(n)
        PROVE  Running
    BY <1>3 DEF Running, TakeSnapshot, Persist
  <1> QED
    BY <1>1, <1>2, <1>3 DEF RecoveryNext

(* While the system runs the windows grow, one entry at a time. *)
LEMMA RunningWindow ==
    ASSUME WindowInv, Running
    PROVE  WindowVotes'
  <1>1. TypeOK /\ [Next]_vars /\ UNCHANGED base
    BY DEF WindowInv, TypesInv, RecoveryTypeOK, Running
  <1>2. CASE LogStep
    <2>1. ASSUME NEW n \in Node
          PROVE  votes'[n] = FirstVotes(base[n], applied[n])'
      <3>1. PICK b \in Nat, k \in Nat : b = base[n] /\ k = applied[n] /\ k <= Len(log)
        BY WindowsTyped DEF WindowInv
      <3>2. b = base'[n] /\ k = applied'[n] /\ votes'[n] = FirstVotes(b, k)
        BY <1>1, <1>2, <3>1 DEF LogStep, WindowInv, WindowVotes
      <3>3. FirstVotes(b, k)' = FirstVotes(b, k)
        <4>1. CASE UNCHANGED log
          BY <4>1 DEF FirstVotes, FirstIn, Window, Entries
        <4>2. ASSUME NEW c, log' = Append(log, c)
              PROVE  FirstVotes(b, k)' = FirstVotes(b, k)
          BY <1>1, <3>1, <4>2, FirstStable
        <4> QED
          BY <1>2, <4>1, <4>2 DEF LogStep
      <3>4. FirstVotes(base[n], applied[n])' = FirstVotes(b, k)'
        BY <3>2 DEF FirstVotes, FirstIn, Window, Entries
      <3> QED
        BY <3>2, <3>3, <3>4
    <2> QED
      BY <2>1 DEF WindowVotes
  <1> QED
    BY <1>1, <1>2, NextLogStep, ReplicaKeepsWindow

(* A restart empties the window. *)
LEMMA RestartWindow ==
    ASSUME WindowInv, NEW n \in Node, Restart(n)
    PROVE  WindowVotes'
  <1>1. ASSUME NEW m \in Node
        PROVE  FirstVotes(base[m], applied[m])' = FirstVotes(base'[m], applied'[m])
    BY RestartEffect DEF WindowInv, FirstVotes, FirstIn, Window, Entries
  <1>2. ASSUME NEW b \in Nat
        PROVE  FirstVotes(b, b) = {}
    <2>1. Entries("SubmitVote") \in SUBSET Nat
      BY DEF Entries
    <2>2. Window(b, b) = {}
      BY <2>1 DEF Window
    <2> QED
      BY <2>2 DEF FirstVotes
  <1>3. ASSUME NEW m \in Node
        PROVE  votes'[m] = FirstVotes(base'[m], applied'[m])
    <2>1. /\ votes'[m] = IF m = n THEN {} ELSE votes[m]
          /\ base'[m] = IF m = n THEN snapshot[n].index ELSE base[m]
          /\ applied'[m] = IF m = n THEN snapshot[n].index ELSE applied[m]
          /\ snapshot[n].index \in Nat
      BY RestartEffect DEF WindowInv
    <2>2. CASE m = n
      BY <1>2, <2>1, <2>2
    <2>3. CASE m # n
      BY <2>1, <2>3 DEF WindowInv, WindowVotes
    <2> QED
      BY <2>2, <2>3
  <1> QED
    BY <1>1, <1>3 DEF WindowVotes

LEMMA InitWindow == RecoveryInit => WindowInv
  <1> SUFFICES ASSUME RecoveryInit
               PROVE  WindowInv
    OBVIOUS
  <1>1. log = <<>> /\ votes = [n \in Node |-> {}]
    BY DEF RecoveryInit, Init, FSMInit
  <1>2. \A b, k : FirstVotes(b, k) = {}
    BY <1>1 DEF FirstVotes, Window, Entries
  <1> QED
    BY <1>1, <1>2, InitTypes DEF WindowInv, WindowVotes

LEMMA NextWindow == WindowInv /\ [RecoveryNext]_recoveryVars => WindowInv'
  BY NextTypes, RecoverySteps, RunningWindow, RestartWindow DEF WindowInv

LEMMA WindowAgrees == WindowInv => VotesSinceStart
  <1> SUFFICES ASSUME WindowVotes
               PROVE  VotesSinceStart
    BY DEF WindowInv
  <1>1. ASSUME NEW n \in Node
        PROVE  Since(n) = Window(base[n], applied[n])
    BY DEF Since, Window
  <1>2. ASSUME NEW n \in Node
        PROVE  votes[n] = {log[i].vote : i \in {j \in Since(n) :
                    \A k \in Since(n) : k < j => ~SameBallot(log[k].vote, log[j].vote)}}
    BY <1>1 DEF WindowVotes, FirstVotes, FirstIn
  <1> QED
    BY <1>2 DEF VotesSinceStart

(***************************************************************************)
(* Whatever snapshot it came back with, a replica counts the first vote of *)
(* every ballot among the entries it has applied since it started, and no  *)
(* vote that it knew before (SyncMapFSM.Restore, SyncMapFSM.Apply).        *)
(***************************************************************************)
THEOREM VotesAlwaysSinceStart == RecoverySpec => []VotesSinceStart
  <1> QED
    BY InitWindow, NextWindow, WindowAgrees, PTL DEF RecoverySpec

-----------------------------------------------------------------------------
(***************************************************************************)
(* A decision has a majority of acceptors behind it: those whose votes its *)
(* leader counts have all accepted, at some entry before.                  *)
(***************************************************************************)
AcceptorInv == WindowInv /\ DoneHasAcceptors

(* Acceptors can be counted, and nobody stops being one. *)
LEMMA EverFinite ==
    ASSUME NEW t, NEW r, NEW k
    PROVE  /\ IsFiniteSet(EverAccepted(t, r, k))
           /\ Cardinality(EverAccepted(t, r, k)) \in Nat
  <1>1. EverAccepted(t, r, k) \in SUBSET Node
    BY DEF EverAccepted
  <1> QED
    BY <1>1, TallyAssumption, FS_Subset, FS_CardinalityType

LEMMA EverStable ==
    ASSUME TypeOK, UNCHANGED log \/ \E c : log' = Append(log, c),
           NEW t, NEW r, NEW k \in Nat, k <= Len(log)
    PROVE  EverAccepted(t, r, k)' = EverAccepted(t, r, k)
  <1>1. CASE UNCHANGED log
    BY <1>1 DEF EverAccepted, Entries
  <1>2. ASSUME NEW c, log' = Append(log, c)
        PROVE  EverAccepted(t, r, k)' = EverAccepted(t, r, k)
    <2> DEFINE E == {i \in Entries("SubmitVote") : i <= k}
               EN == {i \in Entries("SubmitVote")' : i <= k}
    <2>1. Len(log) \in Nat /\ Entries("SubmitVote") = {i \in Entries("SubmitVote")' : i <= Len(log)}
          /\ \A i \in 1 .. Len(log) : log'[i] = log[i]
      BY <1>2, EntriesStable DEF TypeOK, FSMTypeOK
    <2>2. Entries("SubmitVote")' \in SUBSET Nat /\ Entries("SubmitVote") \in SUBSET (1 .. Len(log))
      BY DEF Entries
    <2>3. EN = E /\ \A i \in E : log'[i] = log[i]
      BY <2>1, <2>2
    <2>4. /\ EverAccepted(t, r, k) = {a \in Node : \E i \in E :
                /\ log[i].vote.task = t /\ log[i].vote.round = r
                /\ log[i].vote.agent = a /\ log[i].vote.accepted}
          /\ EverAccepted(t, r, k)' = {a \in Node : \E i \in EN :
                /\ log'[i].vote.task = t /\ log'[i].vote.round = r
                /\ log'[i].vote.agent = a /\ log'[i].vote.accepted}
      BY DEF EverAccepted
    <2> HIDE DEF E, EN
    <2> QED
      BY <2>3, <2>4
  <1> QED
    BY <1>1, <1>2

(* Whoever a replica counts as an acceptor has accepted. *)
LEMMA CountedHaveAccepted ==
    ASSUME WindowInv, NEW n \in Node, NEW t, NEW r, NEW k \in Nat, applied[n] <= k
    PROVE  Accepted(votes[n], t, r) <= Cardinality(EverAccepted(t, r, k))
  <1>1. Acceptors(votes[n], t, r) \in SUBSET EverAccepted(t, r, k)
    <2> SUFFICES ASSUME NEW v \in votes[n], v.task = t, v.round = r, v.accepted
                 PROVE  v.agent \in EverAccepted(t, r, k)
      BY DEF Acceptors, InRound
    <2>1. PICK i \in Window(base[n], applied[n]) : v = log[i].vote
      BY DEF WindowInv, WindowVotes, FirstVotes
    <2>2. v.agent \in Node
      BY DEF WindowInv, TypesInv, RecoveryTypeOK, TypeOK, FSMTypeOK, Vote
    <2>3. i \in Entries("SubmitVote") /\ i <= k
      <3>1. i \in Entries("SubmitVote") /\ i \in Nat /\ i <= applied[n]
        BY <2>1 DEF Window, Entries
      <3> QED
        BY <3>1, WindowsTyped DEF WindowInv
    <2> QED
      BY <2>1, <2>2, <2>3 DEF EverAccepted
  <1> QED
    BY <1>1, EverFinite, FS_Subset DEF Accepted

(* What is written when a task is done is backed by such a replica. *)
LEMMA RunningAcceptors ==
    ASSUME AcceptorInv, Running
    PROVE  DoneHasAcceptors'
  <1>1. TypeOK /\ WindowInv /\ [Next]_vars /\ Len(log) \in Nat
    BY DEF AcceptorInv, WindowInv, TypesInv, RecoveryTypeOK, TypeOK, FSMTypeOK, Running
  <1>2. CASE UNCHANGED log
    BY <1>2 DEF AcceptorInv, DoneHasAcceptors, EverAccepted, Entries
  <1>3. ASSUME NEW c, log' = Append(log, c), Backed(c)
        PROVE  DoneHasAcceptors'
    <2>1. ASSUME NEW i \in Entries("UpdateTask")', log'[i].state.status = "done"
          PROVE  (Cardinality(EverAccepted(log[i].task, log[i].state.round, i - 1)) >= Quorum)'
      <3>1. i \in 1 .. Len(log) + 1 /\ log'[i].type = "UpdateTask"
        BY <1>1, <1>3, EntriesStable DEF Entries
      <3>2. PICK t, r, k : /\ t = log'[i].task /\ r = log'[i].state.round
                           /\ k = i - 1 /\ k \in Nat /\ k <= Len(log)
        <4>1. i - 1 \in Nat /\ i - 1 <= Len(log)
          BY <1>1, <3>1
        <4> QED
          BY <4>1
      <3>3. EverAccepted(log[i].task, log[i].state.round, i - 1)' = EverAccepted(t, r, k)
        <4>1. EverAccepted(log[i].task, log[i].state.round, i - 1)' = EverAccepted(t, r, k)'
          BY <3>2 DEF EverAccepted
        <4>2. EverAccepted(t, r, k)' = EverAccepted(t, r, k)
          BY <1>1, <1>3, <3>2, EverStable
        <4> QED
          BY <4>1, <4>2
      <3>4. Cardinality(EverAccepted(t, r, k)) >= Quorum
        <4>1. CASE i <= Len(log)
          <5>1. i \in Entries("UpdateTask") /\ log'[i] = log[i]
            BY <1>1, <1>3, <3>1, <4>1, EntriesStable
          <5> QED
            BY <2>1, <3>2, <5>1 DEF AcceptorInv, DoneHasAcceptors
        <4>2. CASE i = Len(log) + 1
          <5>1. log'[i] = c /\ k = Len(log)
            BY <1>1, <1>3, <3>2, <4>2, EntriesStable
          <5>2. PICK n \in Node : Accepted(votes[n], t, r) >= Quorum
            BY <1>3, <2>1, <3>1, <3>2, <5>1 DEF Backed
          <5>3. Accepted(votes[n], t, r) <= Cardinality(EverAccepted(t, r, k))
            BY <1>1, <5>1, WindowsTyped, CountedHaveAccepted DEF WindowInv
          <5>4. Accepted(votes[n], t, r) \in Nat
            BY <1>1, ReplicaVotesCount, CountsTyped
          <5> QED
            BY <5>2, <5>3, <5>4, EverFinite, QuorumIsMajority
        <4> QED
          BY <1>1, <3>1, <4>1, <4>2
      <3> QED
        BY <3>3, <3>4
    <2> QED
      BY <2>1 DEF DoneHasAcceptors
  <1>4. ASSUME NEW n \in Node, Replicate(n)
        PROVE  UNCHANGED log
    BY <1>4 DEF Replicate, ApplyCommand, ApplyAdmitTask, ApplySubmitAnswer, ApplyUpdateTask,
                ApplySubmitVote, ApplyUpdateReputation, raftVars
  <1> QED
    BY <1>1, <1>2, <1>3, <1>4, NextLogStep DEF LogStep

LEMMA NextAcceptors == AcceptorInv /\ [RecoveryNext]_recoveryVars => AcceptorInv'
  <1> SUFFICES ASSUME AcceptorInv, [RecoveryNext]_recoveryVars
               PROVE  AcceptorInv'
    OBVIOUS
  <1>1. WindowInv'
    BY NextWindow DEF AcceptorInv
  <1>2. ASSUME NEW n \in Node, Restart(n)
        PROVE  DoneHasAcceptors'
    BY <1>2 DEF Restart, AcceptorInv, DoneHasAcceptors, EverAccepted, Entries
  <1> QED
    BY <1>1, <1>2, RecoverySteps, RunningAcceptors DEF AcceptorInv

(***************************************************************************)
(* Leaders may lose the votes they knew and count second votes as first,   *)
(* and still no task is declared done for a round that less than a         *)
(* majority of the agents has, at some time, accepted (runFinalizeTask).   *)
(***************************************************************************)
THEOREM DoneAlwaysHasAcceptors == RecoverySpec => []DoneHasAcceptors
  <1>1. RecoveryInit => AcceptorInv
    <2>1. RecoveryInit => DoneHasAcceptors
      BY DEF RecoveryInit, Init, FSMInit, DoneHasAcceptors, Entries
    <2> QED
      BY <2>1, InitWindow DEF AcceptorInv
  <1>2. AcceptorInv => DoneHasAcceptors
    BY DEF AcceptorInv
  <1> QED
    BY <1>1, <1>2, NextAcceptors, PTL DEF RecoverySpec

-----------------------------------------------------------------------------
(***************************************************************************)
(* The bill of an agent for a task, the answers it gave and the one it may *)
(* yet give, grows by one at most when it starts again, and never else.    *)
(***************************************************************************)
BillsBounded == \A n \in Node, t \in Task : Bill(n, t) <= 1 + starts[n]

BillInv == TypesInv /\ NoticesOnce /\ BillsBounded

LEMMA InitBills == RecoveryInit => BillInv
  <1> SUFFICES ASSUME RecoveryInit
               PROVE  BillInv
    OBVIOUS
  <1>1. TypesInv /\ AnswerInv /\ starts = [n \in Node |-> 0]
    BY InitTypes, InitAnswers DEF RecoveryInit
  <1> QED
    BY <1>1 DEF BillInv, AnswerInv, AnsweredOnce, BillsBounded

LEMMA RunningBills ==
    ASSUME BillInv, Running
    PROVE  NoticesOnce' /\ BillsBounded'
  <1>1. TypeOK /\ NoticesOnce /\ [Next]_vars /\ UNCHANGED starts
    BY DEF BillInv, TypesInv, RecoveryTypeOK, Running
  <1>2. NoMoreAnswers /\ NoticesOnce' /\ TypeOK'
    BY <1>1, NextAnswers, NextTypeOK
  <1>3. ASSUME NEW n \in Node, NEW t \in Task
        PROVE  Bill(n, t)' <= 1 + starts'[n]
    <2>1. Bill(n, t)' <= Bill(n, t) /\ Bill(n, t) <= 1 + starts[n] /\ starts[n] \in Nat
      BY <1>2 DEF NoMoreAnswers, BillInv, BillsBounded, TypesInv, RecoveryTypeOK
    <2>2. Bill(n, t) \in Nat
      BY <1>1, AnswersFinite
    <2>3. Bill(n, t)' \in Nat
      <3>1. Len(log') \in Nat /\ IsFiniteSet(1 .. Len(log'))
        BY <1>2, FS_Interval DEF TypeOK, FSMTypeOK
      <3>2. AnswersOf(n, t)' \in SUBSET (1 .. Len(log'))
        BY DEF AnswersOf, Entries
      <3>3. Cardinality(AnswersOf(n, t)') \in Nat
        BY <3>1, <3>2, FS_Subset, FS_CardinalityType
      <3> QED
        BY <3>3 DEF Bill
    <2> QED
      BY <1>1, <2>1, <2>2, <2>3
  <1> QED
    BY <1>2, <1>3 DEF BillsBounded

LEMMA RestartBills ==
    ASSUME BillInv, NEW n \in Node, Restart(n)
    PROVE  NoticesOnce' /\ BillsBounded'
  <1>1. /\ UNCHANGED log
        /\ \A m \in Node :
             /\ starts'[m] = IF m = n THEN starts[n] + 1 ELSE starts[m]
             /\ applied'[m] = IF m = n THEN snapshot[n].index ELSE applied[m]
             /\ events'[m] = IF m = n THEN <<>> ELSE events[m]
             /\ loop'[m] = IF m = n THEN Idle ELSE loop[m]
        /\ starts[n] \in Nat
    BY RestartEffect DEF BillInv
  <1>2. ASSUME NEW t \in Task
        PROVE  OneNotice(n, t)'
    <2>1. Notices(n, t)' = {} /\ ~Thinking(n, t)'
      BY <1>1 DEF Notices, Thinking, Idle, Brainstorming
    <2> QED
      BY <2>1 DEF OneNotice
  <1>3. ASSUME NEW m \in Node, m # n, NEW t \in Task
        PROVE  OneNotice(m, t)' /\ Bill(m, t)' = Bill(m, t)
    <2>1. /\ Notices(m, t)' = Notices(m, t) /\ (Thinking(m, t)' <=> Thinking(m, t))
          /\ (Told(m, t)' <=> Told(m, t)) /\ AnswersOf(m, t)' = AnswersOf(m, t)
      BY <1>1, <1>3 DEF Notices, Thinking, Told, AnswersOf, Entries
    <2>2. OneNotice(m, t)
      BY DEF BillInv, NoticesOnce
    <2> QED
      BY <2>1, <2>2 DEF OneNotice, Bill, Due
  <1>4. ASSUME NEW t \in Task
        PROVE  Bill(n, t)' <= 1 + starts'[n]
    <2>1. AnswersOf(n, t)' = AnswersOf(n, t)
      BY <1>1 DEF AnswersOf, Entries
    <2>2. Cardinality(AnswersOf(n, t)) \in Nat /\ Cardinality(AnswersOf(n, t)) <= 1 + starts[n]
      <3>1. Bill(n, t) <= 1 + starts[n] /\ Cardinality(AnswersOf(n, t)) \in Nat
        BY AnswersFinite DEF BillInv, BillsBounded, TypesInv, RecoveryTypeOK
      <3> QED
        BY <1>1, <3>1 DEF Bill
    <2>3. Bill(n, t)' <= Cardinality(AnswersOf(n, t)) + 1
      BY <2>1, <2>2 DEF Bill
    <2>4. Bill(n, t)' \in Nat
      BY <2>1, <2>2 DEF Bill
    <2> QED
      BY <1>1, <2>2, <2>3, <2>4
  <1>5. NoticesOnce'
    BY <1>1, <1>2, <1>3 DEF BillInv, NoticesOnce, AdmittedOnce
  <1>6. ASSUME NEW m \in Node, NEW t \in Task
        PROVE  Bill(m, t)' <= 1 + starts'[m]
    <2>1. CASE m = n
      BY <1>4, <2>1
    <2>2. CASE m # n
      BY <1>1, <1>3, <2>2 DEF BillInv, BillsBounded
    <2> QED
      BY <2>1, <2>2
  <1> QED
    BY <1>5, <1>6 DEF BillsBounded

LEMMA NextBills == BillInv /\ [RecoveryNext]_recoveryVars => BillInv'
  BY NextTypes, RecoverySteps, RunningBills, RestartBills DEF BillInv

(***************************************************************************)
(* An agent that restarts may answer a task again, and once only: the      *)
(* log is replayed to it from the snapshot, with the admission of the task *)
(* (handleTaskAdmitted), but never holds more answers of one agent to one  *)
(* task than it was started.                                               *)
(***************************************************************************)
THEOREM AlwaysOneAnswerPerStart == RecoverySpec => []OneAnswerPerStart
  <1>1. BillInv => OneAnswerPerStart
    <2> SUFFICES ASSUME BillInv, NEW n \in Node, NEW t \in Task
                 PROVE  Cardinality(AnswersOf(n, t)) <= 1 + starts[n]
      BY DEF OneAnswerPerStart, AnswersOf
    <2>1. TypeOK /\ starts[n] \in Nat /\ Bill(n, t) <= 1 + starts[n]
      BY DEF BillInv, BillsBounded, TypesInv, RecoveryTypeOK
    <2>2. Cardinality(AnswersOf(n, t)) \in Nat
      BY <2>1, AnswersFinite
    <2> QED
      BY <2>1, <2>2 DEF Bill
  <1> QED
    BY <1>1, InitBills, NextBills, PTL DEF RecoverySpec

-----------------------------------------------------------------------------
(***************************************************************************)
(* What restarted replicas hold.  A record is what the newest entry of the *)
(* applied prefix says, or an entry that is to come will write it, or the  *)
(* replica lacks it, and then the task was over at some time.  The same is *)
(* true of the records in a snapshot, for the prefix it covers.            *)
(***************************************************************************)
Writes(c, t) == c.type \in {"AdmitTask", "UpdateTask"} /\ c.task = t
Says(c) == IF c.type = "AdmitTask" THEN Admitted ELSE c.state

NewestSays(l, s, t, k) ==
    \E i \in 1 .. k :
        /\ Writes(l[i], t) /\ s = Says(l[i])
        /\ \A j \in i + 1 .. k : ~Writes(l[j], t)

ToBeWritten(l, t, k) == \E i \in k + 1 .. Len(l) : Writes(l[i], t)
AdmittedIn(l, t, k) == \E i \in 1 .. k : l[i] = AdmitTask(t)

OverIn(l, t) ==
    \E i \in 1 .. Len(l) :
        l[i].type = "UpdateTask" /\ l[i].task = t /\ l[i].state.status \in Final

Fresh(l, s, t, k) ==
    /\ s.status \in Final => OverIn(l, t)
    /\ \/ s = Absent /\ (OverIn(l, t) \/ ~AdmittedIn(l, t, k))
       \/ /\ s.status # "absent" /\ AdmittedIn(l, t, Len(l))
          /\ NewestSays(l, s, t, k) \/ ToBeWritten(l, t, k)

(* An entry tells of a task that was admitted before. *)
Tells(c, t) ==
    \/ c.type \in {"SubmitAnswer", "UpdateTask"} /\ c.task = t
    \/ c.type = "SubmitVote" /\ c.vote.task = t

InOrder(l) ==
    \A i \in 1 .. Len(l) :
        /\ \A t \in Task : Tells(l[i], t) => AdmittedIn(l, t, i)
        /\ l[i].type = "UpdateTask" => l[i].state.status # "absent"

(* A longer log changes nothing about what its prefix says. *)
LEMMA FreshLonger ==
    ASSUME NEW l \in Seq(Command), NEW m \in Seq(Command), Len(l) <= Len(m),
           \A i \in 1 .. Len(l) : m[i] = l[i],
           NEW s, NEW t, NEW k \in Nat, k <= Len(l), Fresh(l, s, t, k)
    PROVE  Fresh(m, s, t, k)
  <1>0. Len(l) \in Nat /\ Len(m) \in Nat
    OBVIOUS
  <1>1. OverIn(l, t) => OverIn(m, t)
    BY <1>0 DEF OverIn
  <1>2. AdmittedIn(m, t, k) <=> AdmittedIn(l, t, k)
    BY <1>0 DEF AdmittedIn
  <1>3. AdmittedIn(l, t, Len(l)) => AdmittedIn(m, t, Len(m))
    BY <1>0 DEF AdmittedIn
  <1>4. NewestSays(l, s, t, k) => NewestSays(m, s, t, k)
    <2> SUFFICES ASSUME NEW i \in 1 .. k, Writes(l[i], t) /\ s = Says(l[i]),
                        \A j \in i + 1 .. k : ~Writes(l[j], t)
                 PROVE  NewestSays(m, s, t, k)
      BY DEF NewestSays
    <2>1. \A j \in 1 .. k : m[j] = l[j]
      BY <1>0
    <2>2. m[i] = l[i] /\ \A j \in i + 1 .. k : m[j] = l[j]
      BY <2>1
    <2> QED
      BY <2>2 DEF NewestSays
  <1>5. ToBeWritten(l, t, k) => ToBeWritten(m, t, k)
    BY <1>0 DEF ToBeWritten
  <1> QED
    BY <1>1, <1>2, <1>3, <1>4, <1>5 DEF Fresh

(* What is fresh for a prefix is fresh for a shorter one. *)
LEMMA FreshEarlier ==
    ASSUME NEW l \in Seq(Command), NEW k \in Nat, NEW j \in Nat, j <= k, k <= Len(l),
           NEW s, NEW t, Fresh(l, s, t, k)
    PROVE  Fresh(l, s, t, j)
  <1>0. Len(l) \in Nat
    OBVIOUS
  <1>1. AdmittedIn(l, t, j) => AdmittedIn(l, t, k)
    BY DEF AdmittedIn
  <1>2. ToBeWritten(l, t, k) => ToBeWritten(l, t, j)
    BY <1>0 DEF ToBeWritten
  <1>3. NewestSays(l, s, t, k) => NewestSays(l, s, t, j) \/ ToBeWritten(l, t, j)
    <2> SUFFICES ASSUME NEW i \in 1 .. k, Writes(l[i], t) /\ s = Says(l[i]),
                        \A q \in i + 1 .. k : ~Writes(l[q], t)
                 PROVE  NewestSays(l, s, t, j) \/ ToBeWritten(l, t, j)
      BY DEF NewestSays
    <2>1. CASE i <= j
      <3>1. i \in 1 .. j /\ \A q \in i + 1 .. j : q \in i + 1 .. k
        BY <2>1
      <3> QED
        BY <3>1 DEF NewestSays
    <2>2. CASE ~(i <= j)
      <3>1. i \in j + 1 .. Len(l)
        BY <1>0, <2>2
      <3> QED
        BY <3>1 DEF ToBeWritten
    <2> QED
      BY <2>1, <2>2
  <1> QED
    BY <1>1, <1>2, <1>3 DEF Fresh

(* Restore drops a record that is final, and then the task was over. *)
LEMMA FreshUnfinished ==
    ASSUME NEW l, NEW s, NEW t, NEW k, Fresh(l, s, t, k)
    PROVE  Fresh(l, Unfinished(s), t, k)
  <1>1. Absent.status \notin Final
    BY DEF Absent, Final
  <1> QED
    BY <1>1 DEF Fresh, Unfinished

(* Applying an entry does to a record what the entry says. *)
LEMMA FreshApplied ==
    ASSUME NEW l \in Seq(Command), InOrder(l), NEW k \in Nat, k < Len(l),
           NEW s, NEW t \in Task, Fresh(l, s, t, k), NEW r,
           r = IF Writes(l[k + 1], t) /\ (l[k + 1].type = "AdmitTask" \/ s.status # "absent")
               THEN Says(l[k + 1]) ELSE s
    PROVE  Fresh(l, r, t, k + 1)
  <1> DEFINE p == k + 1
             c == l[p]
  <1>0. Len(l) \in Nat /\ p \in 1 .. Len(l) /\ c \in Command
    OBVIOUS
  <1>1. c.type = "AdmitTask" /\ c.task = t => c = AdmitTask(t)
    BY <1>0 DEF Command, AdmitTask
  <1>2. c = AdmitTask(t) => Writes(c, t)
    BY DEF AdmitTask, Writes
  <1>3. AdmittedIn(l, t, p) => AdmittedIn(l, t, Len(l))
    BY <1>0 DEF AdmittedIn
  <1>4. AdmittedIn(l, t, p) <=> AdmittedIn(l, t, k) \/ c = AdmitTask(t)
    <2>1. 1 .. p = 1 .. k \cup {p}
      BY <1>0
    <2> QED
      BY <2>1 DEF AdmittedIn
  <1>5. CASE Writes(c, t) /\ (c.type = "AdmitTask" \/ s.status # "absent")
    <2>1. r = Says(c)
      BY <1>5
    <2>2. AdmittedIn(l, t, p)
      <3>1. CASE c.type = "AdmitTask"
        BY <1>1, <1>4, <1>5, <3>1 DEF Writes
      <3>2. CASE c.type # "AdmitTask"
        <4>1. Tells(c, t)
          BY <1>5, <3>2 DEF Writes, Tells
        <4> QED
          BY <1>0, <4>1 DEF InOrder
      <3> QED
        BY <3>1, <3>2
    <2>3. NewestSays(l, r, t, p)
      <3>1. p \in 1 .. p /\ \A j \in p + 1 .. p : FALSE
        BY <1>0
      <3> QED
        BY <1>5, <2>1, <3>1 DEF NewestSays
    <2>4. r.status # "absent" /\ (r.status \in Final => OverIn(l, t))
      <3>1. CASE c.type = "AdmitTask"
        BY <2>1, <3>1 DEF Says, Admitted, Final
      <3>2. CASE c.type # "AdmitTask"
        <4>1. c.type = "UpdateTask" /\ c.task = t /\ r = c.state
          BY <1>5, <2>1, <3>2 DEF Writes, Says
        <4> QED
          BY <1>0, <4>1 DEF InOrder, OverIn
      <3> QED
        BY <3>1, <3>2
    <2> QED
      BY <1>3, <2>2, <2>3, <2>4 DEF Fresh
  <1>6. CASE ~(Writes(c, t) /\ (c.type = "AdmitTask" \/ s.status # "absent"))
    <2>1. r = s /\ c # AdmitTask(t)
      <3>1. AdmitTask(t).type = "AdmitTask"
        BY DEF AdmitTask
      <3> QED
        BY <1>2, <1>6, <3>1
    <2>2. AdmittedIn(l, t, p) <=> AdmittedIn(l, t, k)
      BY <1>4, <2>1
    <2>3. CASE s = Absent /\ (OverIn(l, t) \/ ~AdmittedIn(l, t, k))
      BY <2>1, <2>2, <2>3 DEF Fresh
    <2>4. CASE /\ s.status # "absent" /\ AdmittedIn(l, t, Len(l))
               /\ NewestSays(l, s, t, k) \/ ToBeWritten(l, t, k)
      <3>1. ~Writes(c, t)
        BY <1>6, <2>4
      <3>2. NewestSays(l, s, t, k) => NewestSays(l, s, t, p)
        <4> SUFFICES ASSUME NEW i \in 1 .. k, Writes(l[i], t) /\ s = Says(l[i]),
                            \A q \in i + 1 .. k : ~Writes(l[q], t)
                     PROVE  NewestSays(l, s, t, p)
          BY DEF NewestSays
        <4>1. i \in 1 .. p /\ \A q \in i + 1 .. p : q \in i + 1 .. k \/ q = p
          OBVIOUS
        <4> QED
          BY <3>1, <4>1 DEF NewestSays
      <3>3. ToBeWritten(l, t, k) => ToBeWritten(l, t, p)
        <4>1. \A i \in k + 1 .. Len(l) : i = p \/ i \in p + 1 .. Len(l)
          BY <1>0
        <4> QED
          BY <3>1, <4>1 DEF ToBeWritten
      <3> QED
        BY <2>1, <2>4, <3>2, <3>3 DEF Fresh
    <2> QED
      BY <2>3, <2>4 DEF Fresh
  <1> QED
    BY <1>5, <1>6

(* A record that an entry of the log is about to write. *)
LEMMA FreshWritten ==
    ASSUME NEW l \in Seq(Command), NEW k \in Nat, k < Len(l), NEW t, Writes(l[Len(l)], t),
           AdmittedIn(l, t, Len(l)), NEW s, s.status # "absent",
           s.status \in Final => OverIn(l, t)
    PROVE  Fresh(l, s, t, k)
  <1>1. Len(l) \in k + 1 .. Len(l)
    OBVIOUS
  <1> QED
    BY <1>1 DEF Fresh, ToBeWritten

(* All who have read the whole log hold the same, but for what was over. *)
LEMMA FreshAgree ==
    ASSUME NEW l \in Seq(Command), NEW t, NEW s, NEW r,
           Fresh(l, s, t, Len(l)), Fresh(l, r, t, Len(l))
    PROVE  \/ s = r
           \/ s = Absent /\ OverIn(l, t)
           \/ r = Absent /\ OverIn(l, t)
  <1> DEFINE k == Len(l)
  <1>0. k \in Nat /\ ~ToBeWritten(l, t, k)
    BY DEF ToBeWritten
  <1>1. ASSUME NewestSays(l, s, t, k), NewestSays(l, r, t, k)
        PROVE  s = r
    <2>1. PICK i \in 1 .. k : /\ Writes(l[i], t) /\ s = Says(l[i])
                              /\ \A j \in i + 1 .. k : ~Writes(l[j], t)
      BY <1>1 DEF NewestSays
    <2>2. PICK j \in 1 .. k : /\ Writes(l[j], t) /\ r = Says(l[j])
                              /\ \A q \in j + 1 .. k : ~Writes(l[q], t)
      BY <1>1 DEF NewestSays
    <2>3. ~(i < j) /\ ~(j < i)
      BY <2>1, <2>2, <1>0
    <2>4. i = j
      BY <2>3
    <2> QED
      BY <2>1, <2>2, <2>4
  <1> QED
    BY <1>0, <1>1 DEF Fresh

-----------------------------------------------------------------------------
(***************************************************************************)
(* Nobody is busy with a task that was not submitted, and who waits for an *)
(* LLM to write a record leads.                                            *)
(***************************************************************************)
Writing == {"aggregating", "revising"}
Busy == {"brainstorming"} \cup Writing

Concerns(n, t) ==
    \/ \E i \in 1 .. Len(events[n]) : events[n][i].task = t
    \/ loop[n].at \in Busy /\ loop[n].task = t
    \/ Timed(n, t)
    \/ \E b \in DOMAIN ballots : b.agent = n /\ b.task = t

OnlySubmitted == \A n \in Node, t \in Task : Concerns(n, t) => Submitted(t)
WritersLead == \A n \in Node : loop[n].at \in Writing => IsLeader(n)

RecordsFresh == \A n \in Node, t \in Task : Fresh(log, task[n][t], t, applied[n])
SnapshotsFresh ==
    \A n \in Node, t \in Task : Fresh(log, snapshot[n].task[t], t, snapshot[n].index)

RestoreInv ==
    /\ TypesInv /\ OnlySubmitted /\ WritersLead /\ InOrder(log)
    /\ RecordsFresh /\ SnapshotsFresh

(***************************************************************************)
(* A step of an agent, in what matters here: it speaks of tasks that were  *)
(* submitted, and writes into its replica's record what it commits.        *)
(***************************************************************************)
MayCommit(c) ==
    /\ \A t \in Task : Tells(c, t) => Submitted(t)
    /\ c.type = "UpdateTask" => c.state.status # "absent"

Rewritten(n, t) ==
    \/ task'[n][t] = task[n][t]
    \/ /\ task'[n][t].status # "absent" /\ Submitted(t)
       /\ task'[n][t].status \in Final => task[n][t].status \in Final
       /\ \E c : log' = Append(log, c) /\ Writes(c, t)

Turn ==
    /\ UNCHANGED applied
    /\ UNCHANGED log \/ \E c : log' = Append(log, c) /\ MayCommit(c)
    /\ \A n \in Node, t \in Task : Rewritten(n, t) /\ (Concerns(n, t)' => Submitted(t))
    /\ \A n \in Node : loop'[n].at \in Writing => loop'[n] = loop[n] \/ IsLeader(n)
    /\ UNCHANGED leader \/ \E m : LeaderMovesTo(m)

(* What an agent may go on with. *)
MayGo(n, place) ==
    /\ place.at \in Busy => Submitted(place.task)
    /\ place.at \in Writing => IsLeader(n)

TimersTurn == \A n \in Node, t \in Task : Timed(n, t)' => Submitted(t)
BallotsTurn == \A b \in DOMAIN ballots' : b \in DOMAIN ballots \/ Submitted(b.task)

LEMMA TurnMove ==
    ASSUME TypeOK, OnlySubmitted, UNCHANGED applied, NEW n \in Node,
           UNCHANGED log \/ \E c : Commit(c) /\ MayCommit(c),
           UNCHANGED leader \/ \E m : LeaderMovesTo(m),
           UNCHANGED events \/ \E type : Handle(n, type),
           UNCHANGED loop \/ \E place : Goto(n, place) /\ MayGo(n, place),
           TimersTurn, BallotsTurn,
           \A m \in Node, t \in Task : Rewritten(m, t)
    PROVE  Turn
  <1>1. UNCHANGED log \/ \E c : log' = Append(log, c) /\ MayCommit(c)
    BY DEF Commit
  <1>2. \A m \in Node : \/ loop'[m] = loop[m]
                        \/ m = n /\ MayGo(n, loop'[m])
    BY DEF Goto, TypeOK, EngineTypeOK
  <1>3. \A m \in Node : loop'[m].at \in Writing => loop'[m] = loop[m] \/ IsLeader(m)
    BY <1>2 DEF MayGo
  <1>4. ASSUME NEW m \in Node, NEW t \in Task, Concerns(m, t)'
        PROVE  Submitted(t)
    <2>1. ASSUME NEW i \in 1 .. Len(events'[m]), events'[m][i].task = t
          PROVE  Submitted(t)
      <3>1. \E j \in 1 .. Len(events[m]) : events[m][j].task = t
        <4>1. CASE events'[m] = events[m]
          BY <2>1, <4>1
        <4>2. CASE events[m] # <<>> /\ events'[m] = Tail(events[m])
          <5>1. events[m] \in Seq(Event)
            BY DEF TypeOK, FSMTypeOK
          <5>2. i \in Nat /\ i + 1 \in 1 .. Len(events[m]) /\ events'[m][i] = events[m][i + 1]
            BY <2>1, <4>2, <5>1
          <5> QED
            BY <2>1, <5>2
        <4>3. events'[m] = events[m] \/ (events[m] # <<>> /\ events'[m] = Tail(events[m]))
          BY DEF Handle, TypeOK, FSMTypeOK
        <4> QED
          BY <4>1, <4>2, <4>3
      <3> QED
        BY <3>1 DEF OnlySubmitted, Concerns
    <2>2. ASSUME loop'[m].at \in Busy, loop'[m].task = t
          PROVE  Submitted(t)
      BY <1>2, <2>2 DEF OnlySubmitted, Concerns, MayGo
    <2>3. ASSUME NEW b \in DOMAIN ballots', b.agent = m, b.task = t
          PROVE  Submitted(t)
      BY <2>3 DEF BallotsTurn, OnlySubmitted, Concerns
    <2>4. Timed(m, t)' => Submitted(t)
      BY DEF TimersTurn
    <2> QED
      BY <1>4, <2>1, <2>2, <2>3, <2>4 DEF Concerns
  <1> QED
    BY <1>1, <1>3, <1>4 DEF Turn

(* Tasks that are taken up were submitted. *)
LEMMA TakenUp ==
    ASSUME TypeOK, OnlySubmitted, NEW n \in Node
    PROVE  /\ \A type : Handle(n, type) => Subject(n) \in Task /\ Submitted(Subject(n))
           /\ loop[n].at \in Busy => loop[n].task \in Task /\ Submitted(loop[n].task)
           /\ \A t \in Task : Timed(n, t) => Submitted(t)
           /\ \A t : Expire(n, t) => t \in Task /\ Submitted(t)
           /\ \A b \in DOMAIN ballots : b.agent = n => b.task \in Task /\ Submitted(b.task)
  <1>1. ASSUME NEW type, Handle(n, type)
        PROVE  Subject(n) \in Task /\ Submitted(Subject(n))
    <2>1. Subject(n) \in Task
      BY <1>1, HandleTyped
    <2>2. 1 \in 1 .. Len(events[n]) /\ events[n][1] = Head(events[n])
      BY <1>1 DEF Handle, TypeOK, FSMTypeOK
    <2> QED
      BY <2>1, <2>2 DEF OnlySubmitted, Concerns, Subject
  <1>2. ASSUME loop[n].at \in Busy
        PROVE  loop[n].task \in Task /\ Submitted(loop[n].task)
    <2>1. loop[n] \in LoopState
      BY DEF TypeOK, EngineTypeOK
    <2>2. loop[n].task \in Task
      BY <1>2, <2>1 DEF LoopState, Busy, Writing
    <2> QED
      BY <1>2, <2>2 DEF OnlySubmitted, Concerns
  <1>3. \A t \in Task : Timed(n, t) => Submitted(t)
    BY DEF OnlySubmitted, Concerns
  <1>4. ASSUME NEW t, Expire(n, t)
        PROVE  t \in Task /\ Submitted(t)
    <2>1. timerCh[n] \in Seq(Task) /\ timerCh[n] # <<>> /\ t = Head(timerCh[n])
      BY <1>4 DEF Expire, TypeOK, EngineTypeOK
    <2>2. t \in Task /\ 1 \in 1 .. Len(timerCh[n]) /\ timerCh[n][1] = t
      BY <2>1
    <2> QED
      BY <1>3, <2>2 DEF Timed
  <1>5. ASSUME NEW b \in DOMAIN ballots, b.agent = n
        PROVE  b.task \in Task /\ Submitted(b.task)
    <2>1. b.task \in Task
      BY DEF TypeOK, EngineTypeOK, BallotsTyped, BagToSet, Ballot
    <2> QED
      BY <1>5, <2>1 DEF OnlySubmitted, Concerns
  <1> QED
    BY <1>1, <1>2, <1>3, <1>4, <1>5

(* Timers that are untouched, or those of one submitted task. *)
LEMMA SameTimers ==
    ASSUME TypeOK, OnlySubmitted, UNCHANGED <<timers, timerCh>>
    PROVE  TimersTurn
  BY TakenUp DEF TimersTurn, Timed

LEMMA TimersOf ==
    ASSUME TypeOK, OnlySubmitted, NEW n \in Node, NEW t \in Task, Submitted(t),
           UNCHANGED timers \/ \E x : timers' = [timers EXCEPT ![n][t] = x],
           \/ UNCHANGED timerCh
           \/ timerCh[n] # <<>> /\ timerCh' = [timerCh EXCEPT ![n] = Tail(@)]
           \/ timerCh' = [timerCh EXCEPT ![n] = Append(@, t)]
    PROVE  TimersTurn
  <1> SUFFICES ASSUME NEW m \in Node, NEW u \in Task, u # t, Timed(m, u)'
               PROVE  Submitted(u)
    BY DEF TimersTurn
  <1>1. timers'[m][u] = timers[m][u]
    <2>1. timers \in [Node -> [Task -> Timer]]
      BY DEF TypeOK, EngineTypeOK
    <2>2. ASSUME NEW x, timers' = [timers EXCEPT ![n][t] = x]
          PROVE  timers'[m][u] = timers[m][u]
      <3>1. timers' = [timers EXCEPT ![n] = [timers[n] EXCEPT ![t] = x]]
        BY <2>2
      <3>2. timers'[m] = IF m = n THEN [timers[n] EXCEPT ![t] = x] ELSE timers[m]
        BY <2>1, <3>1
      <3>3. timers[n] \in [Task -> Timer]
        BY <2>1
      <3> QED
        BY <3>2, <3>3
    <2> QED
      BY <2>2
  <1>2. ASSUME NEW i \in 1 .. Len(timerCh'[m]), timerCh'[m][i] = u
        PROVE  \E j \in 1 .. Len(timerCh[m]) : timerCh[m][j] = u
    <2>1. timerCh[m] \in Seq(Task) /\ timerCh \in [Node -> Seq(Task)]
      BY DEF TypeOK, EngineTypeOK
    <2>2. \/ timerCh'[m] = timerCh[m]
          \/ timerCh[m] # <<>> /\ timerCh'[m] = Tail(timerCh[m])
          \/ timerCh'[m] = Append(timerCh[m], t)
      BY <2>1
    <2>3. CASE timerCh'[m] = timerCh[m]
      BY <1>2, <2>3
    <2>4. CASE timerCh[m] # <<>> /\ timerCh'[m] = Tail(timerCh[m])
      <3>1. i + 1 \in 1 .. Len(timerCh[m]) /\ timerCh'[m][i] = timerCh[m][i + 1]
        BY <1>2, <2>1, <2>4
      <3> QED
        BY <1>2, <3>1
    <2>5. CASE timerCh'[m] = Append(timerCh[m], t)
      <3>1. i \in 1 .. Len(timerCh[m]) /\ timerCh'[m][i] = timerCh[m][i]
        BY <1>2, <2>1, <2>5
      <3> QED
        BY <1>2, <3>1
    <2> QED
      BY <2>2, <2>3, <2>4, <2>5
  <1>3. Timed(m, u)
    BY <1>1, <1>2 DEF Timed
  <1> QED
    BY <1>3, TakenUp

LEMMA SameRecords ==
    ASSUME UNCHANGED task
    PROVE  \A n \in Node, t \in Task : Rewritten(n, t)
  BY DEF Rewritten

LEMMA RecordsOf ==
    ASSUME TypeOK, NEW n \in Node, NEW t \in Task, Submitted(t), NEW s,
           task' = [task EXCEPT ![n][t] = s], s.status # "absent",
           s.status \in Final => task[n][t].status \in Final,
           NEW c, Commit(c), Writes(c, t)
    PROVE  \A m \in Node, u \in Task : Rewritten(m, u)
  <1>1. task \in [Node -> [Task -> TaskState]] /\ task[n] \in [Task -> TaskState]
    BY DEF TypeOK, FSMTypeOK
  <1>2. task' = [task EXCEPT ![n] = [task[n] EXCEPT ![t] = s]]
    OBVIOUS
  <1>3. /\ task'[n] = [task[n] EXCEPT ![t] = s]
        /\ \A m \in Node \ {n} : task'[m] = task[m]
    BY <1>1, <1>2
  <1>4. task'[n][t] = s /\ \A u \in Task \ {t} : task'[n][u] = task[n][u]
    BY <1>1, <1>3
  <1> QED
    BY <1>3, <1>4 DEF Rewritten, Commit

(* The places an agent may go on to, and the commands it may commit. *)
LEMMA MayGoOn ==
    ASSUME NEW n
    PROVE  /\ MayGo(n, Idle)
           /\ \A d : MayGo(n, Applying(d))
           /\ \A s, vs : MayGo(n, Finalizing(s, vs))
           /\ \A s, vs, i, k : MayGo(n, Rewarding(s, vs, i, k))
           /\ \A t : Submitted(t) => MayGo(n, Brainstorming(t))
           /\ \A t, d : Submitted(t) /\ IsLeader(n) => MayGo(n, Aggregating(t, d))
           /\ \A t, vs : Submitted(t) /\ IsLeader(n) => MayGo(n, Revising(t, vs))
  BY DEF MayGo, Busy, Writing, Idle, Applying, Finalizing, Rewarding, Brainstorming, Aggregating,
         Revising

LEMMA MayCommits ==
    /\ \A t : MayCommit(AdmitTask(t))
    /\ \A t, a : Submitted(t) => MayCommit(SubmitAnswer(t, a))
    /\ \A v : Submitted(v.task) => MayCommit(SubmitVote(v))
    /\ \A a, x : MayCommit(UpdateReputation(a, x))
    /\ \A t, s : Submitted(t) /\ s.status # "absent" =>
          MayCommit(UpdateTask(t, s)) /\ Writes(UpdateTask(t, s), t)
  <1>1. ASSUME NEW t PROVE MayCommit(AdmitTask(t))
    BY DEF MayCommit, Tells, AdmitTask
  <1>2. ASSUME NEW t, NEW a, Submitted(t) PROVE MayCommit(SubmitAnswer(t, a))
    BY <1>2 DEF MayCommit, Tells, SubmitAnswer
  <1>3. ASSUME NEW v, Submitted(v.task) PROVE MayCommit(SubmitVote(v))
    BY <1>3 DEF MayCommit, Tells, SubmitVote
  <1>4. ASSUME NEW a, NEW x PROVE MayCommit(UpdateReputation(a, x))
    BY DEF MayCommit, Tells, UpdateReputation
  <1>5. ASSUME NEW t, NEW s, Submitted(t), s.status # "absent"
        PROVE  MayCommit(UpdateTask(t, s)) /\ Writes(UpdateTask(t, s), t)
    BY <1>5 DEF MayCommit, Tells, Writes, UpdateTask
  <1> QED
    BY <1>1, <1>2, <1>3, <1>4, <1>5

(* Ballots that end, and one that is opened. *)
LEMMA BallotsOf ==
    /\ UNCHANGED ballots => BallotsTurn
    /\ \A b : EndBallot(b) => b \in DOMAIN ballots /\ BallotsTurn
    /\ \A b : ballots' = ballots (+) SetToBag({b}) /\ Submitted(b.task) => BallotsTurn
  <1>1. UNCHANGED ballots => BallotsTurn
    BY DEF BallotsTurn
  <1>2. ASSUME NEW b, EndBallot(b)
        PROVE  b \in DOMAIN ballots /\ BallotsTurn
    BY <1>2 DEF EndBallot, BallotsTurn, BagIn, BagToSet, SetToBag, (-)
  <1>3. ASSUME NEW b, ballots' = ballots (+) SetToBag({b}), Submitted(b.task)
        PROVE  BallotsTurn
    BY <1>3 DEF BallotsTurn, BagToSet, SetToBag, (+)
  <1> QED
    BY <1>1, <1>2, <1>3

-----------------------------------------------------------------------------
(***************************************************************************)
(* Every step of the agents but a replica's own is a Turn, as long as      *)
(* leadership stays: what the record keeps of a refused fallback no entry  *)
(* of the log has.                                                         *)
(***************************************************************************)
TurnInv == TypeOK /\ OnlySubmitted /\ WritersLead

Bare == \A n \in Node, t \in Task : task[n][t].status = "absent" => task[n][t] = Absent

LEMMA EventTurn ==
    ASSUME TurnInv, UNCHANGED term, NEW n \in Node, HandleEvent(n)
    PROVE  Turn
  <1> USE DEF TurnInv
  <1> DEFINE s == Subject(n)
  <1>0. \A type : Handle(n, type) => s \in Task /\ Submitted(s)
    BY TakenUp
  <1>1. CASE IgnoreAnswer(n) \/ LateAnswer(n) \/ AwaitAnswers(n) \/ IgnoreVote(n) \/ AwaitVotes(n)
    <2>1. \E type : Handle(n, type)
      BY <1>1 DEF IgnoreAnswer, LateAnswer, AwaitAnswers, IgnoreVote, AwaitVotes, CountVotes
    <2>2. UNCHANGED <<applied, log, loop, task, timers, timerCh, ballots>>
      BY <1>1 DEF IgnoreAnswer, LateAnswer, AwaitAnswers, IgnoreVote, AwaitVotes,
                  raftVars, store, engineVars, timerVars
    <2>3. UNCHANGED leader \/ \E m : LeaderMovesTo(m)
      BY <1>1 DEF IgnoreAnswer, LateAnswer, AwaitAnswers, IgnoreVote, AwaitVotes,
                  raftVars, DropLeader, KeepsLeading
    <2> QED
      BY <2>1, <2>2, <2>3, TurnMove, SameTimers, SameRecords, BallotsOf
  <1>2. CASE HandleTaskAdmitted(n) \/ StartProposal(n)
    <2>1. \E type : Handle(n, type)
      BY <1>2 DEF HandleTaskAdmitted, StartProposal
    <2>2. UNCHANGED <<applied, log, leader, task, timerCh, ballots>>
      BY <1>2 DEF HandleTaskAdmitted, StartProposal, raftVars, store
    <2>3. TimersTurn
      <3>1. UNCHANGED timers \/ \E x : timers' = [timers EXCEPT ![n][s] = x]
        BY <1>2 DEF HandleTaskAdmitted, StartProposal, StartTimer
      <3> QED
        BY <1>0, <2>1, <2>2, <3>1, TimersOf
    <2>4. \E place : Goto(n, place) /\ MayGo(n, place)
      BY <1>0, <1>2, <2>1, MayGoOn DEF HandleTaskAdmitted, StartProposal
    <2> QED
      BY <2>1, <2>2, <2>3, <2>4, TurnMove, SameRecords, BallotsOf
  <1>3. CASE CompleteTask(n)
    <2>1. Handle(n, "TaskUpdated") /\ UNCHANGED <<applied, log, leader, loop, task, timerCh, ballots>>
          /\ StopTimer(n, s)
      BY <1>3 DEF CompleteTask, raftVars, store
    <2>2. TimersTurn
      BY <1>0, <2>1, TimersOf DEF StopTimer
    <2> QED
      BY <2>1, <2>2, TurnMove, SameRecords, BallotsOf
  <1>4. CASE OpenBallot(n)
    <2>1. /\ Handle(n, "TaskUpdated")
          /\ UNCHANGED <<applied, log, leader, loop, task, timers, timerCh>>
      BY <1>4 DEF OpenBallot, raftVars, store, timerVars
    <2> DEFINE b == [agent |-> n, task |-> s, round |-> Live(n).round, text |-> Live(n).result]
    <2>2. ballots' = ballots (+) SetToBag({b}) /\ b.task = s
      BY <1>4 DEF OpenBallot
    <2> HIDE DEF b
    <2>3. BallotsTurn
      BY <1>0, <2>1, <2>2, BallotsOf
    <2> QED
      BY <2>1, <2>3, TurnMove, SameTimers, SameRecords
  <1>5. CASE StartRevision(n)
    <2>1. /\ Handle(n, "VoteSubmitted") /\ IsLeader(n) /\ Goto(n, Revising(s, LiveVoters(n)))
          /\ UNCHANGED <<applied, log, leader, task, timers, timerCh, ballots>>
      BY <1>5 DEF StartRevision, CountVotes, Decidable, raftVars, store, timerVars
    <2>2. MayGo(n, Revising(s, LiveVoters(n)))
      BY <1>0, <2>1, MayGoOn
    <2> QED
      BY <2>1, <2>2, TurnMove, SameTimers, SameRecords, BallotsOf
  <1>6. ASSUME NEW status, NEW w, Settle(n, status, w), Handle(n, "VoteSubmitted"),
               w \in TaskState, status \in Final,
               UNCHANGED task \/ (task' = [task EXCEPT ![n][s] = w] /\ w.status = Live(n).status
                                  /\ w.status # "absent")
        PROVE  Turn
    <2> DEFINE r == [w EXCEPT !.status = status]
               c == UpdateTask(s, r)
    <2>1. /\ Commit(c) /\ Goto(n, Finalizing(status, LiveVoters(n)))
          /\ UNCHANGED <<applied, leader, timers, timerCh, ballots>>
      BY <1>6 DEF Settle, timerVars
    <2>2. r.status # "absent"
      BY <1>6 DEF TaskState, Final
    <2> HIDE DEF r
    <2>3. MayCommit(c) /\ Writes(c, s)
      BY <1>0, <1>6, <2>2, MayCommits
    <2> HIDE DEF c
    <2>4. \A m \in Node, t \in Task : Rewritten(m, t)
      <3>1. CASE task' = [task EXCEPT ![n][s] = w] /\ w.status = Live(n).status
                 /\ w.status # "absent"
        BY <1>0, <1>6, <2>1, <2>3, <3>1, RecordsOf DEF Live
      <3> QED
        BY <1>6, <3>1, SameRecords
    <2> QED
      BY <1>6, <2>1, <2>3, <2>4, MayGoOn, TurnMove, SameTimers, BallotsOf
  <1>7. CASE Finalize(n)
    <2>1. Handle(n, "VoteSubmitted") /\ LiveVerdict(n) \in Final
          /\ Settle(n, LiveVerdict(n), Live(n)) /\ UNCHANGED task
      BY <1>7 DEF Finalize, CountVotes
    <2>2. Live(n) \in TaskState
      BY <2>1, HandleTyped
    <2> QED
      BY <1>6, <2>1, <2>2
  <1>8. CASE FinalizeFallback(n)
    <2> DEFINE w == FallBackTo(Live(n), BestRound(votes[n], Subject(n), Live(n).round))
    <2>1. /\ Handle(n, "VoteSubmitted") /\ task' = [task EXCEPT ![n][s] = w]
          /\ Settle(n, "done", w) /\ Live(n).status # "absent"
      BY <1>8 DEF FinalizeFallback, CountVotes, Decidable
    <2>2. Live(n) \in TaskState
      BY <2>1, HandleTyped
    <2>3. w \in TaskState
      <3>1. Live(n).round \in Nat /\ Agents(votes[n])
        BY <2>2, ReplicaVotesCount DEF TaskState
      <3>2. Candidates(votes[n], s, Live(n).round) # {}
        BY <1>8, <3>1, DoneVerdictHasQuorum DEF FinalizeFallback, LiveVerdict
      <3>3. BestRound(votes[n], s, Live(n).round) \in Nat
        BY <3>1, <3>2, BestRoundExists
      <3> QED
        BY <2>2, <3>3, RecordsTyped
    <2>4. w.status = Live(n).status
      BY <2>2 DEF FallBackTo, TaskState
    <2> QED
      BY <1>6, <2>1, <2>3, <2>4 DEF Final
  <1>9. ~FinalizeFallbackRefused(n)
    BY DEF FinalizeFallbackRefused, LeaderMovesTo, TypeOK, FSMTypeOK
  <1> QED
    BY <1>1, <1>2, <1>3, <1>4, <1>5, <1>7, <1>8, <1>9 DEF HandleEvent

LEMMA TimerTurn ==
    ASSUME TurnInv, NEW n \in Node, HandleTimeout(n) \/ Fire(n) \/ Elect(n)
    PROVE  Turn
  <1> USE DEF TurnInv
  <1>1. CASE Elect(n)
    <2>1. UNCHANGED <<applied, log, events, loop, task, timers, timerCh, ballots>>
          /\ LeaderMovesTo(n)
      BY <1>1 DEF Elect, replicaVars, store, engineVars, timerVars
    <2> QED
      BY <2>1, TurnMove, SameTimers, SameRecords, BallotsOf
  <1>2. ASSUME NEW t \in Task, TimerFires(n, t) \/ OrphanFires(n, t)
        PROVE  Turn
    <2>1. /\ UNCHANGED <<applied, log, leader, events, loop, task, ballots>>
          /\ timerCh' = [timerCh EXCEPT ![n] = Append(@, t)]
          /\ \E x : timers' = [timers EXCEPT ![n][t] = x]
          /\ timers[n][t].armed \/ timers[n][t].orphans > 0
      BY <1>2 DEF TimerFires, OrphanFires, StopTimer, raftVars, replicaVars, store
    <2>2. Submitted(t)
      BY <2>1, TakenUp DEF Timed
    <2>3. TimersTurn
      BY <2>1, <2>2, TimersOf
    <2> QED
      BY <2>1, <2>3, TurnMove, SameRecords, BallotsOf
  <1>3. ASSUME NEW t \in Task, ForceProposal(n, t) \/ FailTask(n, t) \/ FailTaskRefused(n, t)
        PROVE  Turn
    <2>1. /\ Expire(n, t)
          /\ UNCHANGED <<applied, leader, events, task, ballots>>
          /\ \E x : timers' = [timers EXCEPT ![n][t] = x]
      BY <1>3 DEF ForceProposal, FailTask, FailTaskRefused, raftVars, replicaVars, store
    <2>2. Submitted(t)
      BY <2>1, TakenUp
    <2>3. TimersTurn
      BY <2>1, <2>2, TimersOf DEF Expire
    <2>4. CASE ForceProposal(n, t)
      <3>1. UNCHANGED log /\ Goto(n, Aggregating(t, FALSE)) /\ IsLeader(n)
        BY <2>4 DEF ForceProposal, CanForce, raftVars
      <3>2. MayGo(n, Aggregating(t, FALSE))
        BY <2>2, <3>1, MayGoOn
      <3> QED
        BY <2>1, <2>3, <3>1, <3>2, TurnMove, SameRecords, BallotsOf
    <2>5. CASE FailTask(n, t)
      <3>1. Commit(UpdateTask(t, TimedOutTask)) /\ Goto(n, Applying(FALSE))
        BY <2>5 DEF FailTask
      <3>2. MayCommit(UpdateTask(t, TimedOutTask)) /\ MayGo(n, Applying(FALSE))
        <4>1. TimedOutTask.status # "absent"
          BY DEF TimedOutTask
        <4> QED
          BY <2>2, <4>1, MayCommits, MayGoOn
      <3> QED
        BY <2>1, <2>3, <3>1, <3>2, TurnMove, SameRecords, BallotsOf
    <2>6. CASE FailTaskRefused(n, t)
      <3>1. UNCHANGED <<log, loop>>
        BY <2>6 DEF FailTaskRefused, raftVars
      <3> QED
        BY <2>1, <2>3, <3>1, TurnMove, SameRecords, BallotsOf
    <2> QED
      BY <1>3, <2>4, <2>5, <2>6
  <1> QED
    BY <1>1, <1>2, <1>3 DEF HandleTimeout, Fire

LEMMA CallTurn ==
    ASSUME TurnInv, Bare, NEW n \in Node, CallSucceeds(n) \/ CallFails(n)
    PROVE  Turn
  <1> USE DEF TurnInv
  <1> DEFINE t == loop[n].task
             s == task[n][t]
  <1>0. loop[n].at \in Busy => t \in Task /\ Submitted(t) /\ s \in TaskState
    BY TakenUp DEF TypeOK, FSMTypeOK
  <1>1. CASE Brainstorm(n)
    <2>1. /\ loop[n].at = "brainstorming" /\ Commit(SubmitAnswer(t, n)) /\ Goto(n, Idle)
          /\ UNCHANGED <<leader, applied, events, task, timers, timerCh, ballots>>
      BY <1>1 DEF Brainstorm, replicaVars, store, timerVars
    <2>2. MayCommit(SubmitAnswer(t, n))
      BY <1>0, <2>1, MayCommits DEF Busy
    <2> QED
      BY <2>1, <2>2, MayGoOn, TurnMove, SameTimers, SameRecords, BallotsOf
  <1>2. CASE Propose(n)
    <2> DEFINE f == FirstProposal(n)
    <2>1. /\ loop[n].at = "aggregating" /\ Commit(UpdateTask(t, f))
          /\ Goto(n, Applying(loop[n].drops)) /\ task' = [task EXCEPT ![n][t] = f]
          /\ UNCHANGED <<leader, applied, events, timers, timerCh, ballots>>
      BY <1>2 DEF Propose, Aggregated, timerVars
    <2>2. f.status = "proposal"
      BY DEF FirstProposal
    <2> HIDE DEF f
    <2>3. t \in Task /\ Submitted(t)
      BY <1>0, <2>1 DEF Busy, Writing
    <2>4. MayCommit(UpdateTask(t, f)) /\ Writes(UpdateTask(t, f), t)
      BY <2>2, <2>3, MayCommits
    <2>5. \A m \in Node, u \in Task : Rewritten(m, u)
      BY <2>1, <2>2, <2>3, <2>4, RecordsOf DEF Final
    <2> QED
      BY <2>1, <2>4, <2>5, MayGoOn, TurnMove, SameTimers, BallotsOf
  <1>3. CASE Revise(n)
    <2> DEFINE f == NextProposal(s, n)
               r == [s EXCEPT !.proposals = f.proposals]
    <2>1. /\ loop[n].at = "revising" /\ Commit(UpdateTask(t, f)) /\ Goto(n, Applying(FALSE))
          /\ task' = IF s.proposals = {} THEN task ELSE [task EXCEPT ![n][t] = r]
          /\ UNCHANGED <<leader, applied, events, timers, timerCh, ballots>>
      BY <1>3 DEF Revise, Revised, timerVars
    <2>2. t \in Task /\ Submitted(t) /\ s \in TaskState
      BY <1>0, <2>1 DEF Busy, Writing
    <2>3. f.status = "proposal" /\ r.status = s.status
      BY <2>2 DEF NextProposal, TaskState
    <2>4. s.proposals # {} => s.status # "absent"
      BY <2>2 DEF Bare, Absent
    <2> HIDE DEF f, r
    <2>5. MayCommit(UpdateTask(t, f)) /\ Writes(UpdateTask(t, f), t)
      BY <2>2, <2>3, MayCommits
    <2>6. \A m \in Node, u \in Task : Rewritten(m, u)
      <3>1. CASE s.proposals = {}
        BY <2>1, <3>1, SameRecords
      <3>2. CASE s.proposals # {}
        BY <2>1, <2>2, <2>3, <2>4, <2>5, <3>2, RecordsOf
      <3> QED
        BY <3>1, <3>2
    <2> QED
      BY <2>1, <2>5, <2>6, MayGoOn, TurnMove, SameTimers, BallotsOf
  <1>4. CASE ReviseFails(n)
    <2> DEFINE f == [s EXCEPT !.status = "failed"]
    <2>1. /\ loop[n].at = "revising" /\ Commit(UpdateTask(t, f))
          /\ Goto(n, Finalizing("failed", loop[n].voters))
          /\ UNCHANGED <<leader, applied, events, task, timers, timerCh, ballots>>
      BY <1>4 DEF ReviseFails, replicaVars, store, timerVars
    <2>2. Submitted(t) /\ s \in TaskState
      BY <1>0, <2>1 DEF Busy, Writing
    <2>3. f.status = "failed"
      BY <2>2 DEF TaskState
    <2> HIDE DEF f
    <2>4. MayCommit(UpdateTask(t, f))
      BY <2>2, <2>3, MayCommits
    <2> QED
      BY <2>1, <2>4, MayGoOn, TurnMove, SameTimers, SameRecords, BallotsOf
  <1>5. CASE ProposeRefused(n) \/ ReviseRefused(n)
    BY <1>5 DEF ProposeRefused, ReviseRefused, Aggregated, Revised, WritersLead, Writing
  <1>6. CASE BrainstormFails(n) \/ AggregateFails(n) \/ ReviseFailureRefused(n)
    <2>1. /\ UNCHANGED <<log, applied, events, task, timers, timerCh, ballots>> /\ Goto(n, Idle)
          /\ UNCHANGED leader \/ \E m : LeaderMovesTo(m)
      BY <1>6 DEF BrainstormFails, AggregateFails, ReviseFailureRefused, DropLeader, KeepsLeading,
                  raftVars, replicaVars, store, timerVars
    <2> QED
      BY <2>1, MayGoOn, TurnMove, SameTimers, SameRecords, BallotsOf
  <1> QED
    BY <1>1, <1>2, <1>3, <1>4, <1>5, <1>6 DEF CallSucceeds, CallFails

LEMMA FinishTurn ==
    ASSUME TurnInv, NEW n \in Node, FinishCall(n) \/ VoteOf(n)
    PROVE  Turn
  <1> USE DEF TurnInv
  <1>1. CASE ApplyReturns(n) \/ ApplyFails(n) \/ FinalizeFails(n) \/ CheckTransfer(n)
    <2>1. /\ UNCHANGED <<log, applied, events, task, timers, timerCh, ballots>> /\ Goto(n, Idle)
          /\ UNCHANGED leader \/ \E m : LeaderMovesTo(m)
      BY <1>1 DEF ApplyReturns, ApplyFails, FinalizeFails, CheckTransfer, DropLeader,
                  TransferLeadership, KeepsLeading, raftVars, replicaVars, store, timerVars
    <2> QED
      BY <2>1, MayGoOn, TurnMove, SameTimers, SameRecords, BallotsOf
  <1>2. ASSUME NEW a, NEW x, NEW due, Reward(n, a, x, due)
        PROVE  Turn
    <2>1. UNCHANGED log \/ \E b, y : Commit(UpdateReputation(b, y))
      BY <1>2 DEF Reward
    <2>2. \E s, vs, i, k : Goto(n, Rewarding(s, vs, i, k))
      BY <1>2 DEF Reward
    <2>3. UNCHANGED <<leader, applied, events, task, timers, timerCh, ballots>>
      BY <1>2 DEF Reward, replicaVars, store, timerVars
    <2> QED
      BY <2>1, <2>2, <2>3, MayGoOn, MayCommits, TurnMove, SameTimers, SameRecords, BallotsOf
  <1>3. CASE RewardLeader(n) \/ RewardVoter(n)
    BY <1>2, <1>3 DEF RewardLeader, RewardVoter
  <1>4. ASSUME NEW b \in BagToSet(ballots), b.agent = n,
               (\E ok \in BOOLEAN : CastVote(b, ok)) \/ LoseVote(b)
        PROVE  Turn
    <2>1. EndBallot(b) /\ UNCHANGED <<leader, applied, events, loop, task, timers, timerCh>>
      BY <1>4 DEF CastVote, LoseVote, raftVars, replicaVars, store, timerVars
    <2>2. b \in DOMAIN ballots /\ BallotsTurn
      BY <2>1, BallotsOf
    <2>3. Submitted(b.task)
      BY <1>4, <2>2, TakenUp
    <2>4. UNCHANGED log \/ \E v : v.task = b.task /\ Commit(SubmitVote(v))
      <3>1. ASSUME NEW ok, CastVote(b, ok)
            PROVE  \E v : v.task = b.task /\ Commit(SubmitVote(v))
        <4> DEFINE v == [task |-> b.task, round |-> b.round, agent |-> b.agent,
                         accepted |-> ok, text |-> b.text]
        <4>1. v.task = b.task /\ Commit(SubmitVote(v))
          BY <3>1 DEF CastVote
        <4> QED
          BY <4>1
      <3>2. CASE LoseVote(b)
        BY <3>2 DEF LoseVote, raftVars
      <3> QED
        BY <1>4, <3>1, <3>2
    <2>5. UNCHANGED log \/ \E c : Commit(c) /\ MayCommit(c)
      BY <2>3, <2>4, MayCommits
    <2> QED
      BY <2>1, <2>2, <2>5, TurnMove, SameTimers, SameRecords
  <1> QED
    BY <1>1, <1>3, <1>4 DEF FinishCall, VoteOf

LEMMA NextTurn ==
    ASSUME TurnInv, Bare, UNCHANGED term, [Next]_vars
    PROVE  Turn \/ \E n \in Node : Replicate(n)
  <1>0. \E n : n \in Node
    BY TallyAssumption
  <1>1. ASSUME NEW t \in Task, SubmitTask(t)
        PROVE  Turn
    <2>1. /\ Commit(AdmitTask(t))
          /\ UNCHANGED <<leader, applied, events, loop, task, timers, timerCh, ballots>>
      BY <1>1 DEF SubmitTask, replicaVars, store, engineVars, timerVars
    <2> QED
      BY <1>0, <2>1, MayCommits, TurnMove, SameTimers, SameRecords, BallotsOf DEF TurnInv
  <1>2. CASE UNCHANGED vars
    <2>1. UNCHANGED <<log, leader, applied, events, loop, task, timers, timerCh, ballots>>
      BY <1>2 DEF vars, raftVars, replicaVars, store, engineVars, timerVars
    <2> QED
      BY <1>0, <2>1, TurnMove, SameTimers, SameRecords, BallotsOf DEF TurnInv
  <1>3. ASSUME NEW n \in Node, Step(n)
        PROVE  Turn \/ Replicate(n)
    BY <1>3, EventTurn, TimerTurn, CallTurn, FinishTurn DEF Step
  <1> QED
    BY <1>1, <1>2, <1>3 DEF Next

(* What an invariant of restarts says of the agents' next step. *)
LEMMA RestoreTurns ==
    ASSUME RestoreInv
    PROVE  TurnInv /\ Bare
  <1>1. TurnInv
    BY DEF RestoreInv, TypesInv, RecoveryTypeOK, TurnInv
  <1>2. Bare
    BY DEF RestoreInv, RecordsFresh, Fresh, Bare
  <1> QED
    BY <1>1, <1>2

(* The properties speak of the log there is now. *)
LEMMA InLog ==
    /\ \A t : Submitted(t) <=> AdmittedIn(log, t, Len(log))
    /\ \A t : Over(t) <=> OverIn(log, t)
  BY DEF Submitted, AdmittedIn, Over, OverIn

(* The log grows, and what is appended is in order. *)
LEMMA TurnLog ==
    ASSUME TypeOK, TypeOK', InOrder(log), Turn
    PROVE  /\ log \in Seq(Command) /\ log' \in Seq(Command)
           /\ Len(log) <= Len(log')
           /\ \A i \in 1 .. Len(log) : log'[i] = log[i]
           /\ InOrder(log')
           /\ \A t \in Task : Submitted(t) => AdmittedIn(log', t, Len(log'))
           /\ \A t \in Task : OverIn(log, t) => OverIn(log', t)
  <1>0. log \in Seq(Command) /\ log' \in Seq(Command) /\ Len(log) \in Nat /\ Len(log') \in Nat
    BY DEF TypeOK, FSMTypeOK
  <1>1. CASE UNCHANGED log
    BY <1>0, <1>1, InLog
  <1>2. ASSUME NEW c, log' = Append(log, c), MayCommit(c)
        PROVE  /\ Len(log) <= Len(log')
               /\ \A i \in 1 .. Len(log) : log'[i] = log[i]
               /\ InOrder(log')
               /\ \A t \in Task : Submitted(t) => AdmittedIn(log', t, Len(log'))
               /\ \A t \in Task : OverIn(log, t) => OverIn(log', t)
    <2> DEFINE k == Len(log)
    <2>1. /\ Len(log') = k + 1 /\ log'[k + 1] = c
          /\ \A i \in 1 .. k : log'[i] = log[i]
      BY <1>0, <1>2
    <2>2. \A t : Submitted(t) => AdmittedIn(log', t, k + 1)
      BY <1>0, <2>1, InLog DEF AdmittedIn
    <2>3. \A t : OverIn(log, t) => OverIn(log', t)
      BY <1>0, <2>1 DEF OverIn
    <2>4. ASSUME NEW i \in 1 .. k + 1
          PROVE  /\ \A t \in Task : Tells(log'[i], t) => AdmittedIn(log', t, i)
                 /\ log'[i].type = "UpdateTask" => log'[i].state.status # "absent"
      <3>1. CASE i = k + 1
        BY <1>2, <2>1, <2>2, <3>1 DEF MayCommit
      <3>2. CASE i \in 1 .. k
        <4>1. \A j \in 1 .. i : log'[j] = log[j]
          BY <1>0, <2>1, <3>2
        <4>2. log'[i] = log[i]
          BY <2>1, <3>2
        <4> QED
          BY <3>2, <4>1, <4>2 DEF InOrder, AdmittedIn
      <3> QED
        BY <1>0, <3>1, <3>2
    <2>5. InOrder(log')
      BY <2>1, <2>4 DEF InOrder
    <2> QED
      BY <1>0, <2>1, <2>2, <2>3, <2>5
  <1> QED
    BY <1>0, <1>1, <1>2 DEF Turn

(* A turn while leadership stays where it is. *)
LEMMA TurnRestores ==
    ASSUME RestoreInv, TypesInv', Turn, UNCHANGED <<snapshot, term>>
    PROVE  RestoreInv'
  <1>0. /\ TypeOK /\ TypeOK' /\ InOrder(log) /\ term \in Nat
        /\ snapshot \in [Node -> Persisted]
        /\ \A n \in Node : /\ applied[n] \in Nat /\ applied[n] <= Len(log)
                           /\ snapshot[n].index \in Nat /\ snapshot[n].index <= applied[n]
    BY DEF RestoreInv, TypesInv, RecoveryTypeOK, TypeOK, FSMTypeOK, Persisted
  <1>1. /\ log \in Seq(Command) /\ log' \in Seq(Command)
        /\ Len(log) <= Len(log')
        /\ \A i \in 1 .. Len(log) : log'[i] = log[i]
        /\ InOrder(log')
        /\ \A t \in Task : Submitted(t) => AdmittedIn(log', t, Len(log'))
        /\ \A t \in Task : OverIn(log, t) => OverIn(log', t)
    BY <1>0, TurnLog
  <1>2. Len(log) \in Nat /\ Len(log') \in Nat
    BY <1>1
  <1>3. UNCHANGED <<applied, leader>>
    <2>1. ASSUME NEW m, LeaderMovesTo(m)
          PROVE  FALSE
      BY <1>0, <2>1 DEF LeaderMovesTo
    <2> QED
      BY <2>1 DEF Turn
  <1>4. OnlySubmitted'
    BY <1>1 DEF Turn, OnlySubmitted, Submitted, AdmittedIn
  <1>5. WritersLead'
    BY <1>3 DEF Turn, WritersLead, RestoreInv, IsLeader
  <1>6. ASSUME NEW n \in Node, NEW t \in Task
        PROVE  Fresh(log', task'[n][t], t, applied[n])
    <2>1. Fresh(log, task[n][t], t, applied[n])
      BY DEF RestoreInv, RecordsFresh
    <2>2. CASE task'[n][t] = task[n][t]
      BY <1>0, <1>1, <2>1, <2>2, FreshLonger
    <2>3. ASSUME NEW c, log' = Append(log, c), Writes(c, t),
                 task'[n][t].status # "absent", Submitted(t),
                 task'[n][t].status \in Final => task[n][t].status \in Final
          PROVE  Fresh(log', task'[n][t], t, applied[n])
      <3>1. applied[n] < Len(log') /\ Writes(log'[Len(log')], t)
        BY <1>0, <1>1, <1>2, <2>3
      <3>2. task'[n][t].status \in Final => OverIn(log', t)
        BY <1>1, <2>1, <2>3 DEF Fresh
      <3> QED
        BY <1>0, <1>1, <2>3, <3>1, <3>2, FreshWritten
    <2>4. Rewritten(n, t)
      BY DEF Turn
    <2> QED
      BY <2>2, <2>3, <2>4 DEF Rewritten
  <1>7. ASSUME NEW n \in Node, NEW t \in Task
        PROVE  Fresh(log', snapshot[n].task[t], t, snapshot[n].index)
    <2>1. Fresh(log, snapshot[n].task[t], t, snapshot[n].index)
      BY DEF RestoreInv, SnapshotsFresh
    <2>2. snapshot[n].index <= Len(log)
      BY <1>0, <1>2
    <2> QED
      BY <1>0, <1>1, <2>1, <2>2, FreshLonger
  <1>8. RecordsFresh' /\ SnapshotsFresh'
    BY <1>3, <1>6, <1>7 DEF RecordsFresh, SnapshotsFresh
  <1> QED
    BY <1>1, <1>4, <1>5, <1>8 DEF RestoreInv

(***************************************************************************)
(* What a replica does when it applies an entry: it writes the record the  *)
(* entry writes, unless the task is one to update and it lacks it, and its *)
(* engine hears of nothing but a task the entry is about.                  *)
(***************************************************************************)
Written(n) ==
    \A m \in Node, t \in Task :
        task'[m][t] =
            IF /\ m = n /\ Writes(NextCommand(n), t)
               /\ NextCommand(n).type = "AdmitTask" \/ task[n][t].status # "absent"
            THEN Says(NextCommand(n)) ELSE task[m][t]

Heard(n) ==
    \/ UNCHANGED events
    \/ \E x :
          /\ events' = [events EXCEPT ![n] = Append(@, x)]
          /\ x.task \in Task
          /\ Tells(NextCommand(n), x.task) \/ NextCommand(n) = AdmitTask(x.task)

(* Publish tells of a task of the entry, or drops the event. *)
LEMMA HeardBy ==
    ASSUME NEW n, NEW type, NEW t \in Task, Publish(n, type, t),
           Tells(NextCommand(n), t) \/ NextCommand(n) = AdmitTask(t)
    PROVE  Heard(n)
  <1> DEFINE x == [type |-> type, task |-> t]
  <1>1. x.task = t
    OBVIOUS
  <1>2. UNCHANGED events \/ events' = [events EXCEPT ![n] = Append(@, x)]
    BY DEF Publish
  <1> HIDE DEF x
  <1> QED
    BY <1>1, <1>2 DEF Heard

(* One record is overwritten with what the entry says. *)
LEMMA WrittenBy ==
    ASSUME TypeOK, NEW n \in Node, NEW u \in Task, NEW s, task' = [task EXCEPT ![n][u] = s],
           Says(NextCommand(n)) = s, \A t \in Task : Writes(NextCommand(n), t) <=> t = u,
           NextCommand(n).type = "AdmitTask" \/ task[n][u].status # "absent"
    PROVE  Written(n)
  <1>1. task \in [Node -> [Task -> TaskState]] /\ task[n] \in [Task -> TaskState]
    BY DEF TypeOK, FSMTypeOK
  <1>2. task' = [task EXCEPT ![n] = [task[n] EXCEPT ![u] = s]]
    OBVIOUS
  <1>3. \A m \in Node : task'[m] = IF m = n THEN [task[n] EXCEPT ![u] = s] ELSE task[m]
    BY <1>1, <1>2
  <1>4. \A m \in Node, t \in Task : task'[m][t] = IF m = n /\ t = u THEN s ELSE task[m][t]
    BY <1>1, <1>3
  <1> QED
    BY <1>4 DEF Written

(* Each kind of entry does just that. *)
LEMMA ReplicaTakes ==
    ASSUME TypeOK, NEW n \in Node, Replicate(n)
    PROVE  /\ UNCHANGED <<log, leader, loop, timers, timerCh, ballots>>
           /\ applied[n] < Len(log)
           /\ \A m \in Node : applied'[m] = IF m = n THEN applied[n] + 1 ELSE applied[m]
           /\ Heard(n) /\ Written(n)
  <1> DEFINE c == NextCommand(n)
  <1>1. /\ UNCHANGED <<log, leader, loop, timers, timerCh, ballots>>
        /\ applied[n] < Len(log)
        /\ applied' = [applied EXCEPT ![n] = @ + 1]
    BY DEF Replicate, ApplyCommand, ApplyAdmitTask, ApplySubmitAnswer, ApplyUpdateTask,
           ApplySubmitVote, ApplyUpdateReputation, Take, raftVars, engineVars, timerVars
  <1>2. \A m \in Node : applied'[m] = IF m = n THEN applied[n] + 1 ELSE applied[m]
    BY <1>1 DEF TypeOK, FSMTypeOK
  <1>3. c \in Command
    BY <1>1 DEF NextCommand, TypeOK, FSMTypeOK
  <1>4. CASE ApplyAdmitTask(n)
    <2>1. /\ c.type = "AdmitTask" /\ task' = [task EXCEPT ![n][c.task] = Admitted]
          /\ Publish(n, "TaskAdmitted", c.task)
      BY <1>4 DEF ApplyAdmitTask, Take
    <2>2. c.task \in Task /\ c = AdmitTask(c.task)
      BY <1>3, <2>1 DEF Command, AdmitTask
    <2>3. Says(c) = Admitted /\ \A t \in Task : Writes(c, t) <=> t = c.task
      BY <2>1 DEF Says, Writes
    <2> QED
      BY <1>1, <1>2, <2>1, <2>2, <2>3, HeardBy, WrittenBy
  <1>5. CASE ApplyUpdateTask(n)
    <2>1. /\ c.type = "UpdateTask"
          /\ IF task[n][c.task].status = "absent" THEN UNCHANGED <<task, events>>
             ELSE /\ task' = [task EXCEPT ![n][c.task] = c.state]
                  /\ Publish(n, "TaskUpdated", c.task)
      BY <1>5 DEF ApplyUpdateTask, Take
    <2>2. c.task \in Task /\ Tells(c, c.task)
      BY <1>3, <2>1 DEF Command, Tells
    <2>3. Says(c) = c.state /\ \A t \in Task : Writes(c, t) <=> t = c.task
      BY <2>1 DEF Says, Writes
    <2>4. CASE task[n][c.task].status = "absent"
      <3>1. Written(n)
        BY <2>1, <2>3, <2>4 DEF Written
      <3> QED
        BY <1>1, <1>2, <2>1, <2>4, <3>1 DEF Heard
    <2>5. CASE task[n][c.task].status # "absent"
      BY <1>1, <1>2, <2>1, <2>2, <2>3, <2>5, HeardBy, WrittenBy
    <2> QED
      BY <2>4, <2>5
  <1>6. CASE ApplySubmitAnswer(n) \/ ApplySubmitVote(n) \/ ApplyUpdateReputation(n)
    <2>1. UNCHANGED task /\ c.type \in {"SubmitAnswer", "SubmitVote", "UpdateReputation"}
      BY <1>6 DEF ApplySubmitAnswer, ApplySubmitVote, ApplyUpdateReputation, Take
    <2>2. Written(n)
      BY <2>1 DEF Written, Writes
    <2>3. CASE ApplySubmitAnswer(n)
      <3>1. c.type = "SubmitAnswer" /\ Publish(n, "AnswerSubmitted", c.task)
        BY <2>3 DEF ApplySubmitAnswer, Take
      <3>2. c.task \in Task /\ Tells(c, c.task)
        BY <1>3, <3>1 DEF Command, Tells
      <3> QED
        BY <1>1, <1>2, <2>2, <3>1, <3>2, HeardBy
    <2>4. CASE ApplySubmitVote(n)
      <3>1. c.type = "SubmitVote" /\ (UNCHANGED events \/ Publish(n, "VoteSubmitted", c.vote.task))
        BY <2>4 DEF ApplySubmitVote, Take
      <3>2. c.vote.task \in Task /\ Tells(c, c.vote.task)
        BY <1>3, <3>1 DEF Command, Tells, Vote
      <3>3. CASE UNCHANGED events
        BY <1>1, <1>2, <2>2, <3>3 DEF Heard
      <3> QED
        BY <1>1, <1>2, <2>2, <3>1, <3>2, <3>3, HeardBy
    <2>5. CASE ApplyUpdateReputation(n)
      BY <1>1, <1>2, <2>2, <2>5 DEF ApplyUpdateReputation, Heard
    <2> QED
      BY <1>6, <2>3, <2>4, <2>5
  <1> QED
    BY <1>4, <1>5, <1>6 DEF Replicate, ApplyCommand

(* A replica reads on. *)
LEMMA ReplicaRestores ==
    ASSUME RestoreInv, TypesInv', NEW n \in Node, Replicate(n), UNCHANGED snapshot
    PROVE  RestoreInv'
  <1> DEFINE k == applied[n]
             c == log[k + 1]
  <1>0. TypeOK /\ InOrder(log) /\ log \in Seq(Command) /\ k \in Nat /\ events \in [Node -> Seq(Event)]
    BY DEF RestoreInv, TypesInv, RecoveryTypeOK, TypeOK, FSMTypeOK
  <1>1. /\ UNCHANGED <<log, leader, loop, timers, timerCh, ballots>>
        /\ k < Len(log)
        /\ \A m \in Node : applied'[m] = IF m = n THEN k + 1 ELSE applied[m]
        /\ Heard(n) /\ Written(n)
    BY <1>0, ReplicaTakes
  <1>2. k + 1 \in 1 .. Len(log) /\ c = NextCommand(n)
    BY <1>0, <1>1 DEF NextCommand
  <1>3. InOrder(log)'
    BY <1>0, <1>1
  <1>4. WritersLead'
    BY <1>1 DEF RestoreInv, WritersLead, IsLeader
  <1>5. ASSUME NEW m \in Node, NEW t \in Task
        PROVE  Concerns(m, t)' => Submitted(t)
    <2>1. ASSUME NEW i \in 1 .. Len(events'[m]), events'[m][i].task = t
          PROVE  Submitted(t)
      <3>1. CASE \E j \in 1 .. Len(events[m]) : events[m][j].task = t
        BY <3>1 DEF RestoreInv, OnlySubmitted, Concerns
      <3>2. CASE ~\E j \in 1 .. Len(events[m]) : events[m][j].task = t
        <4>1. events'[m] # events[m]
          BY <2>1, <3>2
        <4>2. PICK x : /\ events' = [events EXCEPT ![n] = Append(@, x)]
                       /\ x.task \in Task
                       /\ Tells(c, x.task) \/ c = AdmitTask(x.task)
          BY <1>1, <1>2, <4>1 DEF Heard
        <4>3. events'[m] = Append(events[m], x)
          BY <1>0, <4>1, <4>2
        <4>4. events'[m][i] = x
          BY <1>0, <2>1, <3>2, <4>3
        <4>5. AdmittedIn(log, t, k + 1)
          <5>1. x.task = t
            BY <2>1, <4>4
          <5>2. Tells(c, t) => AdmittedIn(log, t, k + 1)
            BY <1>0, <1>2 DEF InOrder
          <5>3. k + 1 \in 1 .. k + 1
            BY <1>0
          <5>4. c = AdmitTask(t) => AdmittedIn(log, t, k + 1)
            BY <5>3 DEF AdmittedIn
          <5> QED
            BY <4>2, <5>1, <5>2, <5>4
        <4> QED
          BY <1>0, <1>1, <4>5 DEF AdmittedIn, Submitted
      <3> QED
        BY <3>1, <3>2
    <2>2. Concerns(m, t) => Submitted(t)
      BY DEF RestoreInv, OnlySubmitted
    <2> QED
      BY <1>1, <2>1, <2>2 DEF Concerns, Timed
  <1>6. OnlySubmitted'
    BY <1>1, <1>5 DEF OnlySubmitted, Submitted
  <1>7. ASSUME NEW m \in Node, NEW t \in Task
        PROVE  Fresh(log, task'[m][t], t, applied'[m])
    <2>1. Fresh(log, task[m][t], t, applied[m])
      BY DEF RestoreInv, RecordsFresh
    <2>2. CASE m = n
      <3>1. task'[n][t] = IF Writes(c, t) /\ (c.type = "AdmitTask" \/ task[n][t].status # "absent")
                          THEN Says(c) ELSE task[n][t]
        BY <1>1, <1>2 DEF Written
      <3> HIDE DEF k
      <3>2. Fresh(log, task[n][t], t, k)
        BY <2>1, <2>2 DEF k
      <3>3. Fresh(log, task'[n][t], t, k + 1)
        BY <1>0, <1>1, <3>1, <3>2, FreshApplied
      <3> QED
        BY <1>1, <2>2, <3>3
    <2>3. CASE m # n
      BY <1>1, <2>1, <2>3 DEF Written
    <2> QED
      BY <2>2, <2>3
  <1>8. RecordsFresh' /\ SnapshotsFresh'
    BY <1>1, <1>7 DEF RestoreInv, RecordsFresh, SnapshotsFresh
  <1> QED
    BY <1>3, <1>4, <1>6, <1>8 DEF RestoreInv

(* What is written to disk may be newer than the index it is stored with. *)
LEMMA SnapshotRestores ==
    ASSUME RestoreInv, TypesInv', NEW n \in Node, TakeSnapshot(n) \/ Persist(n)
    PROVE  RestoreInv'
  <1>0. /\ \A m \in Node : applied[m] \in Nat /\ applied[m] <= Len(log)
        /\ snapshot \in [Node -> Persisted] /\ encoding \in [Node -> SUBSET Taken]
        /\ EncodingOrdered /\ log \in Seq(Command)
    BY DEF RestoreInv, TypesInv, RecoveryTypeOK, TypeOK, FSMTypeOK
  <1>1. UNCHANGED <<log, leader, events, loop, task, applied, timers, timerCh, ballots>>
    BY DEF TakeSnapshot, Persist, vars, raftVars, replicaVars, store, engineVars, timerVars
  <1>2. OnlySubmitted' /\ WritersLead' /\ InOrder(log)' /\ RecordsFresh'
    BY <1>1 DEF RestoreInv, OnlySubmitted, Concerns, Timed, Submitted, WritersLead, IsLeader,
                RecordsFresh
  <1>3. ASSUME NEW m \in Node, NEW t \in Task
        PROVE  Fresh(log, snapshot'[m].task[t], t, snapshot'[m].index)
    <2>1. CASE snapshot'[m] = snapshot[m]
      BY <2>1 DEF RestoreInv, SnapshotsFresh
    <2>2. CASE snapshot'[m] # snapshot[m]
      <3>1. PICK s \in encoding[n] :
              snapshot' = [snapshot EXCEPT ![n] =
                              [index |-> s.index, rep |-> s.rep, task |-> task[n]]]
        BY <2>2 DEF TakeSnapshot, Persist
      <3>2. m = n /\ snapshot'[m].task = task[n] /\ snapshot'[m].index = s.index
        BY <1>0, <2>2, <3>1
      <3>3. s.index \in Nat /\ s.index <= applied[n]
        BY <1>0 DEF Taken, EncodingOrdered
      <3>4. Fresh(log, task[n][t], t, applied[n])
        BY DEF RestoreInv, RecordsFresh
      <3>5. Fresh(log, task[n][t], t, s.index)
        BY <1>0, <3>3, <3>4, FreshEarlier
      <3> QED
        BY <3>2, <3>5
    <2> QED
      BY <2>1, <2>2
  <1> QED
    BY <1>1, <1>2, <1>3 DEF RestoreInv, SnapshotsFresh

(***************************************************************************)
(* A restarted agent begins with what its snapshot says and with nothing   *)
(* to do.  If it led, nobody else was waiting to write a record.           *)
(***************************************************************************)
LEMMA RestartRestores ==
    ASSUME RestoreInv, TypesInv', NEW n \in Node, Restart(n)
    PROVE  RestoreInv'
  <1>0. TypesInv /\ TypeOK
    BY DEF RestoreInv, TypesInv, RecoveryTypeOK
  <1>1. /\ UNCHANGED <<log, snapshot>>
        /\ \A m \in Node :
             /\ applied'[m] = IF m = n THEN snapshot[n].index ELSE applied[m]
             /\ events'[m] = IF m = n THEN <<>> ELSE events[m]
             /\ loop'[m] = IF m = n THEN Idle ELSE loop[m]
    BY <1>0, RestartEffect DEF Restart
  <1>2. /\ \A m \in Node : timers'[m] = IF m = n THEN [t \in Task |-> NoTimer] ELSE timers[m]
        /\ \A m \in Node : timerCh'[m] = IF m = n THEN <<>> ELSE timerCh[m]
        /\ \A m \in Node : task'[m] = IF m = n THEN [t \in Task |-> Unfinished(snapshot[n].task[t])]
                                      ELSE task[m]
        /\ \A b \in DOMAIN ballots' : b \in DOMAIN ballots /\ b.agent # n
    BY <1>0 DEF Restart, Restore, NewEngine, TypeOK, FSMTypeOK, EngineTypeOK
  <1>3. loop'[n].at = "idle"
    BY <1>1 DEF Idle
  <1>4. ASSUME NEW m \in Node, NEW t \in Task, Concerns(m, t)'
        PROVE  Submitted(t)
    <2>1. CASE m # n
      <3>1. Concerns(m, t)
        BY <1>1, <1>2, <1>4, <2>1 DEF Concerns, Timed
      <3> QED
        BY <3>1 DEF RestoreInv, OnlySubmitted
    <2>2. CASE m = n
      <3>1. ~timers'[n][t].armed /\ ~(timers'[n][t].orphans > 0)
        BY <1>2 DEF NoTimer
      <3>2. 1 .. Len(timerCh'[n]) = {} /\ 1 .. Len(events'[n]) = {}
        BY <1>1, <1>2
      <3>3. ~Concerns(n, t)'
        BY <1>2, <1>3, <3>1, <3>2 DEF Concerns, Timed, Busy, Writing
      <3> QED
        BY <1>4, <2>2, <3>3
    <2> QED
      BY <2>1, <2>2
  <1>5. OnlySubmitted'
    BY <1>1, <1>4 DEF OnlySubmitted, Submitted
  <1>6. ASSUME NEW m \in Node, loop'[m].at \in Writing
        PROVE  leader' = m
    <2>1. m # n /\ loop'[m] = loop[m]
      BY <1>1, <1>3, <1>6 DEF Writing
    <2>2. leader = m
      BY <1>6, <2>1 DEF RestoreInv, WritersLead, IsLeader
    <2> QED
      BY <2>1, <2>2 DEF Restart, IsLeader, KeepsLeading
  <1>7. ASSUME NEW m \in Node, NEW t \in Task
        PROVE  Fresh(log, task'[m][t], t, applied'[m])
    <2>1. CASE m # n
      BY <1>1, <1>2, <2>1 DEF RestoreInv, RecordsFresh
    <2>2. CASE m = n
      <3>1. Fresh(log, snapshot[n].task[t], t, snapshot[n].index)
        BY DEF RestoreInv, SnapshotsFresh
      <3>2. Fresh(log, Unfinished(snapshot[n].task[t]), t, snapshot[n].index)
        BY <3>1, FreshUnfinished
      <3> QED
        BY <1>1, <1>2, <2>2, <3>2
    <2> QED
      BY <2>1, <2>2
  <1>8. WritersLead' /\ RecordsFresh' /\ SnapshotsFresh' /\ InOrder(log)'
    BY <1>1, <1>6, <1>7 DEF WritersLead, IsLeader, RestoreInv, RecordsFresh, SnapshotsFresh
  <1> QED
    BY <1>5, <1>8 DEF RestoreInv

LEMMA NextRestores ==
    RestoreInv /\ [RecoveryNext]_recoveryVars /\ [LeadershipMovesByRestart]_recoveryVars
        => RestoreInv'
  <1> SUFFICES ASSUME RestoreInv, [RecoveryNext]_recoveryVars,
                      [LeadershipMovesByRestart]_recoveryVars
               PROVE  RestoreInv'
    OBVIOUS
  <1>1. TypesInv' /\ TurnInv /\ Bare
    BY NextTypes, RestoreTurns DEF RestoreInv
  <1>2. ASSUME [Next]_vars, UNCHANGED diskVars
        PROVE  RestoreInv'
    <2>1. UNCHANGED snapshot /\ UNCHANGED term
      BY <1>2 DEF diskVars, LeadershipMovesByRestart, recoveryVars, vars, raftVars
    <2> QED
      BY <1>1, <1>2, <2>1, NextTurn, TurnRestores, ReplicaRestores
  <1> QED
    BY <1>1, <1>2, SnapshotRestores, RestartRestores DEF RecoveryNext, recoveryVars

LEMMA InitRestores == RecoveryInit => RestoreInv
  <1> SUFFICES ASSUME RecoveryInit
               PROVE  RestoreInv
    OBVIOUS
  <1>1. /\ log = <<>> /\ loop = [n \in Node |-> Idle] /\ events = [n \in Node |-> <<>>]
        /\ task = [n \in Node |-> [t \in Task |-> Absent]] /\ applied = [n \in Node |-> 0]
        /\ timers = [n \in Node |-> [t \in Task |-> NoTimer]]
        /\ timerCh = [n \in Node |-> <<>>] /\ DOMAIN ballots = {}
        /\ snapshot = [n \in Node |-> Empty]
    BY DEF RecoveryInit, Init, FSMInit, EmptyBag, SetToBag
  <1>2. \A t : Fresh(log, Absent, t, 0)
    BY <1>1 DEF Fresh, Absent, Final, AdmittedIn
  <1>3. RecordsFresh /\ SnapshotsFresh
    BY <1>1, <1>2 DEF RecordsFresh, SnapshotsFresh, Empty, NoTasks
  <1>4. InOrder(log) /\ WritersLead
    BY <1>1 DEF InOrder, WritersLead, Idle, Writing
  <1>5. OnlySubmitted
    BY <1>1 DEF OnlySubmitted, Concerns, Timed, NoTimer, Idle, Busy, Writing
  <1> QED
    BY <1>3, <1>4, <1>5, InitTypes DEF RestoreInv

(***************************************************************************)
(* As long as leadership moves with restarts only, two replicas that have  *)
(* read the whole log hold the same records, whenever and from whatever    *)
(* snapshot either was restored, except where one lacks a task that was    *)
(* over at some time.                                                      *)
(***************************************************************************)
THEOREM RestoredReplicasAgree ==
    RecoverySpec /\ [][LeadershipMovesByRestart]_recoveryVars => []RestoredAgreement
  <1>1. RestoreInv => RestoredAgreement
    <2> SUFFICES ASSUME RestoreInv, NEW n \in Node, NEW m \in Node, NEW t \in Task,
                        CaughtUp(n), CaughtUp(m)
                 PROVE  \/ task[n][t] = task[m][t]
                        \/ LostAsFinished(n, t) \/ LostAsFinished(m, t)
      BY DEF RestoredAgreement
    <2>1. log \in Seq(Command)
      BY DEF RestoreInv, TypesInv, RecoveryTypeOK, TypeOK, FSMTypeOK
    <2>2. Fresh(log, task[n][t], t, Len(log)) /\ Fresh(log, task[m][t], t, Len(log))
      BY DEF RestoreInv, RecordsFresh, CaughtUp
    <2> QED
      BY <2>1, <2>2, FreshAgree, InLog DEF LostAsFinished
  <1> QED
    BY <1>1, InitRestores, NextRestores, PTL DEF RecoverySpec
=============================================================================
