---------------------------- MODULE StartupProofs ----------------------------
(***************************************************************************)
(* What the run about startup shows for three agents, for a cluster of any *)
(* size and any number of retries.                                         *)
(***************************************************************************)
EXTENDS Startup, FiniteSetTheorems, TLAPS

(* Moving one agent to a state of the right type keeps the types.  *)
LEMMA GotoTyped ==
    ASSUME StartupTypeOK, NEW n \in Node, NEW at, NEW tries,
           [at |-> at, tries |-> tries] \in Process, Goto(n, at, tries)
    PROVE  process' \in [Node -> Process]
  BY DEF Goto, StartupTypeOK

(* A new agent waits, having looked for a leader no more than MaxWaits times. *)
LEMMA WaitForLeaderTyped ==
    ASSUME StartupAssumption, StartupTypeOK, NEW n \in Node, WaitForLeader(n)
    PROVE  StartupTypeOK'
<1>1. process[n] \in Process /\ process[n].at = "waiting"
  BY DEF StartupTypeOK, WaitForLeader, At
<1>2. Tries(n) \in 0 .. MaxWaits
  BY <1>1 DEF Process, Tries
<1>3. [at |-> "publishing", tries |-> 0] \in Process
  BY DEF StartupAssumption, Process
<1>4. ASSUME Tries(n) # MaxWaits
      PROVE  [at |-> "waiting", tries |-> Tries(n) + 1] \in Process
  BY <1>2, <1>4 DEF StartupAssumption, Process
<1>5. process' \in [Node -> Process]
  BY <1>3, <1>4, GotoTyped DEF WaitForLeader
<1> QED
  BY <1>5 DEF WaitForLeader, StartupTypeOK

(* The tries to publish stay below MaxPublish.  *)
LEMMA PublishTyped ==
    ASSUME StartupAssumption, StartupTypeOK, NEW n \in Node, PublishLocally(n) \/ PublishFails(n)
    PROVE  StartupTypeOK'
<1>1. process[n] \in Process /\ process[n].at = "publishing"
  BY DEF StartupTypeOK, PublishLocally, PublishFails, At
<1>2. Tries(n) \in 0 .. MaxPublish - 1
  BY <1>1 DEF Process, Tries
<1>3. [at |-> "serving", tries |-> 0] \in Process /\ [at |-> "crashed", tries |-> 0] \in Process
  BY DEF Process
<1>4. ASSUME Tries(n) + 1 < MaxPublish
      PROVE  [at |-> "publishing", tries |-> Tries(n) + 1] \in Process
  BY <1>2, <1>4 DEF StartupAssumption, Process
<1>5. process' \in [Node -> Process]
  BY <1>3, <1>4, GotoTyped DEF PublishLocally, PublishFails
<1> QED
  BY <1>5 DEF PublishLocally, PublishFails, StartupTypeOK

(* The state of starting agents keeps its type.  *)
THEOREM StartupTypeCorrect ==
    ASSUME StartupAssumption PROVE Spec => []StartupTypeOK
<1>1. Init => StartupTypeOK
  BY DEF StartupAssumption, Init, StartupTypeOK, Process
<1>2. StartupTypeOK /\ [Next]_vars => StartupTypeOK'
  <2> SUFFICES ASSUME StartupTypeOK, [Next]_vars PROVE StartupTypeOK'
    OBVIOUS
  <2>1. ASSUME NEW n \in Node, RunAgent(n) PROVE StartupTypeOK'
    BY <2>1, WaitForLeaderTyped, PublishTyped DEF RunAgent
  <2>2. ASSUME NEW n \in Node, Elect(n) PROVE StartupTypeOK'
    BY <2>2 DEF Elect, StartupTypeOK
  <2>3. ASSUME NEW n \in Node, HearLeader(n) PROVE StartupTypeOK'
    BY <2>3 DEF HearLeader, StartupTypeOK
  <2>4. CASE UNCHANGED vars
    BY <2>4 DEF vars, StartupTypeOK
  <2> QED
    BY <2>1, <2>2, <2>3, <2>4 DEF Next
<1> QED
  BY <1>1, <1>2, PTL DEF Spec

-----------------------------------------------------------------------------
(* Nobody serves yet, so no candidate has more than its own vote.  *)
Silent == leader = Nobody /\ \A n \in Node : At(n) # "serving"

(* One vote is no majority of two agents or more.  *)
LEMMA OneVoteIsNotEnough ==
    ASSUME StartupAssumption, Silent, Cardinality(Node) > 1, NEW n \in Node
    PROVE  ~Elect(n)
<1>1. {n} \cup {m \in Node : Serves(m)} = {n}
  BY DEF Silent, Serves
<1>2. Cardinality({n}) = 1
  BY FS_Singleton
<1>3. Cardinality(Node) \in Nat
  BY FS_CardinalityType DEF StartupAssumption
<1>4. ~(2 * 1 > Cardinality(Node))
  BY <1>3
<1> QED
  BY <1>1, <1>2, <1>4 DEF Elect

(***************************************************************************)
(* As runAgent and NewProvider are written, an agent of a new cluster of   *)
(* two or more never gets to serve the votes of its peers, and no leader   *)
(* is ever elected: the opposite of ElectsLeader, in every behaviour.      *)
(***************************************************************************)
THEOREM NoLeaderWithoutLogger ==
    ASSUME StartupAssumption, ~LoggerSet, Cardinality(Node) > 1
    PROVE  Spec => [](leader = Nobody)
<1>1. Init => Silent
  BY DEF Init, Silent, At
<1>2. StartupTypeOK /\ Silent /\ [Next]_vars => Silent'
  <2> SUFFICES ASSUME StartupTypeOK, Silent, [Next]_vars PROVE Silent'
    OBVIOUS
  <2>1. ASSUME NEW n \in Node, NEW at, NEW tries, at # "serving", Goto(n, at, tries), leader' = leader
        PROVE  Silent'
    BY <2>1 DEF Silent, Goto, At, StartupTypeOK
  <2>2. ASSUME NEW n \in Node, RunAgent(n) PROVE Silent'
    BY <2>1, <2>2 DEF RunAgent, WaitForLeader, PublishLocally, PublishFails
  <2>3. ASSUME NEW n \in Node, Elect(n) \/ HearLeader(n) PROVE FALSE
    BY <2>3, OneVoteIsNotEnough DEF HearLeader, Silent
  <2>4. CASE UNCHANGED vars
    BY <2>4 DEF vars, Silent, At
  <2> QED
    BY <2>2, <2>3, <2>4 DEF Next
<1>3. Silent => leader = Nobody
  BY DEF Silent
<1> QED
  BY <1>1, <1>2, <1>3, StartupTypeCorrect, PTL DEF Spec
=============================================================================
