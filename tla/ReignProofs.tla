----------------------------- MODULE ReignProofs -----------------------------
(***************************************************************************)
(* What one leader (MaxTerm = 0) promises, for any cluster and any number  *)
(* of tasks, rounds and timer expiries: Reigning is an invariant, and with *)
(* it FinalOverwrittenOnlyByTimeout, RoundsInOrder and QuiescentAgreement, *)
(* and the engines implement Deliberation.  Then two more invariants over  *)
(* Reigning: which text a round is about (ResultIsAcceptedText), and what  *)
(* will look at a live task (LiveTaskIsTimed).                             *)
(***************************************************************************)
EXTENDS Reign, DecisionProofs, FiniteSetTheorems

-----------------------------------------------------------------------------
(***************************************************************************)
(* About logs: what a proper next entry does to the life of a task in the  *)
(* log, and what the next entry a replica applies does to its record.      *)
(* Nothing in this part is about a state of the system.                    *)
(***************************************************************************)

(* A log with one entry more.  *)
LEMMA Appended ==
    ASSUME NEW L \in Seq(Command), NEW c \in Command
    PROVE  /\ Append(L, c) \in Seq(Command)
           /\ Len(L) \in Nat
           /\ Len(Append(L, c)) = Len(L) + 1
           /\ \A i \in 1 .. Len(L) : Append(L, c)[i] = L[i]
           /\ Append(L, c)[Len(L) + 1] = c
  OBVIOUS

(* Updates are indices of the log, and proposals are updates. *)
LEMMA IndicesTyped ==
    ASSUME NEW L \in Seq(Command), NEW t
    PROVE  /\ UpdatesIn(L, t) \subseteq 1 .. Len(L)
           /\ ProposalsIn(L, t) \subseteq UpdatesIn(L, t)
           /\ Len(L) \in Nat
           /\ \A i \in UpdatesIn(L, t) :
                 i \in Nat /\ 1 <= i /\ i <= Len(L)
  BY DEF UpdatesIn, ProposalsIn

(* The updates and proposals of a task after one entry more.  *)
LEMMA UpdatesAppended ==
    ASSUME NEW L \in Seq(Command), NEW c \in Command, NEW t
    PROVE  /\ UpdatesIn(Append(L, c), t) =
                IF c.type = "UpdateTask" /\ c.task = t
                THEN UpdatesIn(L, t) \cup {Len(L) + 1} ELSE UpdatesIn(L, t)
           /\ ProposalsIn(Append(L, c), t) =
                IF c.type = "UpdateTask" /\ c.task = t /\ c.state.status = "proposal"
                THEN ProposalsIn(L, t) \cup {Len(L) + 1} ELSE ProposalsIn(L, t)
  <1> DEFINE M == Append(L, c)
  <1>1. /\ Len(L) \in Nat /\ Len(M) = Len(L) + 1
        /\ \A i \in 1 .. Len(L) : M[i] = L[i]
        /\ M[Len(L) + 1] = c
    BY Appended
  <1>2. \A i : i \in 1 .. Len(M) <=> i \in 1 .. Len(L) \/ i = Len(L) + 1
    BY <1>1
  <1>3. ~(Len(L) + 1 \in 1 .. Len(L))
    BY <1>1
  <1> HIDE DEF M
  <1>4. UpdatesIn(M, t) = IF c.type = "UpdateTask" /\ c.task = t
                          THEN UpdatesIn(L, t) \cup {Len(L) + 1} ELSE UpdatesIn(L, t)
    BY <1>1, <1>2, <1>3 DEF UpdatesIn
  <1>5. \A i \in UpdatesIn(L, t) : M[i] = L[i]
    BY <1>1 DEF UpdatesIn
  <1>6. ~(Len(L) + 1 \in UpdatesIn(L, t))
    BY <1>3 DEF UpdatesIn
  <1>7. ProposalsIn(M, t) =
                IF c.type = "UpdateTask" /\ c.task = t /\ c.state.status = "proposal"
                THEN ProposalsIn(L, t) \cup {Len(L) + 1} ELSE ProposalsIn(L, t)
    BY <1>1, <1>4, <1>5, <1>6 DEF ProposalsIn
  <1> QED
    BY <1>4, <1>7 DEF M

(* Admissions after one entry more.  *)
LEMMA AdmittedAppended ==
    ASSUME NEW L \in Seq(Command), NEW c \in Command, NEW t
    PROVE  /\ \A k \in Nat : k <= Len(L) =>
                 (AdmittedBy(Append(L, c), t, k) <=> AdmittedBy(L, t, k))
           /\ AdmittedBy(Append(L, c), t, Len(Append(L, c))) <=>
                 AdmittedBy(L, t, Len(L)) \/ c = AdmitTask(t)
  <1> DEFINE M == Append(L, c)
  <1>1. /\ Len(L) \in Nat /\ Len(M) = Len(L) + 1
        /\ \A i \in 1 .. Len(L) : M[i] = L[i]
        /\ M[Len(L) + 1] = c
    BY Appended
  <1> HIDE DEF M
  <1>2. ASSUME NEW k \in Nat, k <= Len(L)
        PROVE  AdmittedBy(M, t, k) <=> AdmittedBy(L, t, k)
    BY <1>1, <1>2 DEF AdmittedBy
  <1>3. AdmittedBy(M, t, Len(M)) <=> AdmittedBy(L, t, Len(L)) \/ c = AdmitTask(t)
    BY <1>1 DEF AdmittedBy
  <1> QED
    BY <1>2, <1>3 DEF M

(* An admission stays in every longer prefix.  *)
LEMMA AdmittedMonotone ==
    ASSUME NEW L \in Seq(Command), NEW t, NEW k \in Nat, NEW m \in Nat, k <= m,
           AdmittedBy(L, t, k)
    PROVE  AdmittedBy(L, t, m)
  BY DEF AdmittedBy

(* What is current in a prefix of the log stays so when the log grows. *)
LEMMA CurrentAppended ==
    ASSUME NEW L \in Seq(Command), NEW c \in Command, NEW t, NEW s,
           NEW k \in Nat, k <= Len(L)
    PROVE  /\ \A i : LastBy(Append(L, c), t, i, k) <=> LastBy(L, t, i, k)
           /\ Current(L, s, t, k) => Current(Append(L, c), s, t, k)
  <1> DEFINE M == Append(L, c)
  <1>1. /\ Len(L) \in Nat /\ Len(M) = Len(L) + 1
        /\ \A i \in 1 .. Len(L) : M[i] = L[i]
        /\ AdmittedBy(M, t, k) <=> AdmittedBy(L, t, k)
        /\ ~(Len(L) + 1 <= k)
    BY Appended, AdmittedAppended
  <1>2. /\ UpdatesIn(M, t) \subseteq UpdatesIn(L, t) \cup {Len(L) + 1}
        /\ UpdatesIn(L, t) \subseteq UpdatesIn(M, t)
        /\ UpdatesIn(L, t) \subseteq 1 .. Len(L)
    BY UpdatesAppended, IndicesTyped
  <1> HIDE DEF M
  <1>3. \A i : LastBy(M, t, i, k) <=> LastBy(L, t, i, k)
    BY <1>1, <1>2 DEF LastBy
  <1>4. Current(L, s, t, k) => Current(M, s, t, k)
    BY <1>1, <1>2, <1>3 DEF Current
  <1> QED
    BY <1>3, <1>4 DEF M

-----------------------------------------------------------------------------
(***************************************************************************)
(* What a replica's record says.                                           *)
(***************************************************************************)

(* The fields of the records without a proposal. *)
LEMMA PlainRecords ==
    /\ Absent.status = "absent" /\ Admitted.status = "admitted"
    /\ TimedOutTask.status = "failed" /\ TimedOutTask.round = 0
  BY DEF Absent, Admitted, TimedOutTask

(* There is one last update in a prefix. *)
LEMMA LastIsUnique ==
    ASSUME NEW L \in Seq(Command), NEW t, NEW i, NEW j, NEW k,
           LastBy(L, t, i, k), LastBy(L, t, j, k)
    PROVE  i = j
  <1>1. i \in Nat /\ j \in Nat
    BY IndicesTyped DEF LastBy
  <1>2. i <= j /\ j <= i
    BY DEF LastBy
  <1> QED
    BY <1>1, <1>2

(* A prefix with an update of a task contains its admission. *)
LEMMA UpdatedIsAdmitted ==
    ASSUME NEW L \in Seq(Command), NEW t, AdmittedFirst(L, t), NEW k \in Nat,
           NEW i \in UpdatesIn(L, t), i <= k
    PROVE  AdmittedBy(L, t, k)
  <1>1. i \in Nat /\ AdmittedBy(L, t, i)
    BY IndicesTyped DEF AdmittedFirst
  <1> QED
    BY <1>1, AdmittedMonotone

(* Two replicas that applied the same prefix hold the same record. *)
LEMMA CurrentIsUnique ==
    ASSUME NEW L \in Seq(Command), NEW t, AdmittedFirst(L, t), NEW k \in Nat,
           NEW s1, NEW s2, Current(L, s1, t, k), Current(L, s2, t, k)
    PROVE  s1 = s2
  BY LastIsUnique, UpdatedIsAdmitted DEF Current, LastBy

(* What can be read off a record.  *)
LEMMA RecordTells ==
    ASSUME NEW L \in Seq(Command), NEW t, AdmittedFirst(L, t), NEW k \in Nat,
           NEW s, Current(L, s, t, k)
    PROVE  /\ s.status # "absent" <=> AdmittedBy(L, t, k)
           /\ s.status = "admitted" => \A j \in UpdatesIn(L, t) : ~(j <= k)
           /\ s.status = "proposal" =>
                \E i \in ProposalsIn(L, t) : LastBy(L, t, i, k) /\ s = L[i].state
  <1>1. CASE s = Absent \/ s = Admitted
    BY <1>1, PlainRecords, UpdatedIsAdmitted DEF Current, LastBy, AdmittedFirst, Final
  <1>2. ASSUME NEW i \in UpdatesIn(L, t), LastBy(L, t, i, k), s = L[i].state
        PROVE  /\ s.status # "absent" /\ s.status # "admitted" /\ AdmittedBy(L, t, k)
               /\ s.status = "proposal" => i \in ProposalsIn(L, t)
    BY <1>2, UpdatedIsAdmitted DEF LastBy, AdmittedFirst, Final, ProposalsIn
  <1> QED
    BY <1>1, <1>2 DEF Current

(* The next entry a replica applies.  *)
LEMMA CurrentNext ==
    ASSUME NEW L \in Seq(Command), NEW t, AdmittedFirst(L, t),
           NEW k \in Nat, k < Len(L), NEW s, Current(L, s, t, k)
    PROVE  /\ L[k + 1] = AdmitTask(t) => Current(L, Admitted, t, k + 1)
           /\ k + 1 \in UpdatesIn(L, t) =>
                s.status # "absent" /\ Current(L, L[k + 1].state, t, k + 1)
           /\ L[k + 1] # AdmitTask(t) /\ k + 1 \notin UpdatesIn(L, t) =>
                Current(L, s, t, k + 1)
  <1>0. /\ Len(L) \in Nat /\ k + 1 \in 1 .. Len(L)
        /\ \A i \in UpdatesIn(L, t) : i \in Nat /\ (i <= k + 1 <=> i <= k \/ i = k + 1)
    BY IndicesTyped
  <1>1. CASE L[k + 1] = AdmitTask(t)
    <2>1. AdmittedBy(L, t, k + 1)
      BY <1>0, <1>1 DEF AdmittedBy
    <2>2. ASSUME NEW j \in UpdatesIn(L, t), j <= k + 1
          PROVE  FALSE
      <3>1. AdmittedBy(L, t, j)
        BY DEF AdmittedFirst
      <3>2. PICK i \in 1 .. Len(L) : i <= j /\ L[i] = AdmitTask(t)
        BY <3>1 DEF AdmittedBy
      <3>3. i = k + 1
        BY <1>0, <1>1, <3>2 DEF AdmittedFirst
      <3>4. j = k + 1
        BY <1>0, <2>2, <3>2, <3>3
      <3> QED
        BY <1>1, <3>4 DEF UpdatesIn, AdmitTask
    <2>3. k + 1 \notin UpdatesIn(L, t)
      BY <1>0, <2>2
    <2> QED
      BY <1>1, <2>1, <2>2, <2>3 DEF Current
  <1>2. CASE k + 1 \in UpdatesIn(L, t)
    <2>1. L[k + 1] # AdmitTask(t)
      BY <1>2 DEF UpdatesIn, AdmitTask
    <2>2. LastBy(L, t, k + 1, k + 1)
      BY <1>0, <1>2 DEF LastBy
    <2>3. AdmittedBy(L, t, k)
      <3>1. PICK i \in 1 .. Len(L) : i <= k + 1 /\ L[i] = AdmitTask(t)
        BY <1>2 DEF AdmittedFirst, AdmittedBy
      <3>2. i <= k
        BY <1>0, <2>1, <3>1
      <3> QED
        BY <3>1, <3>2 DEF AdmittedBy
    <2> QED
      BY <1>2, <2>1, <2>2, <2>3, RecordTells DEF Current
  <1>3. CASE L[k + 1] # AdmitTask(t) /\ k + 1 \notin UpdatesIn(L, t)
    <2>1. AdmittedBy(L, t, k + 1) <=> AdmittedBy(L, t, k)
      BY <1>0, <1>3 DEF AdmittedBy
    <2>2. \A i \in UpdatesIn(L, t) : i <= k + 1 <=> i <= k
      BY <1>0, <1>3
    <2>3. \A i : LastBy(L, t, i, k) => LastBy(L, t, i, k + 1)
      BY <2>2 DEF LastBy
    <2> QED
      BY <1>3, <2>1, <2>2, <2>3 DEF Current
  <1> QED
    BY <1>1, <1>2, <1>3

-----------------------------------------------------------------------------
(***************************************************************************)
(* A proper next entry continues the life of every task.                   *)
(***************************************************************************)

(* While the last update of a task is a proposal, none was final. *)
LEMMA OpenTask ==
    ASSUME NEW L \in Seq(Command), NEW t, FinalStays(L, t),
           NEW p \in ProposalsIn(L, t), LastBy(L, t, p, Len(L)),
           NEW i \in UpdatesIn(L, t)
    PROVE  i <= p /\ L[i].state.status \notin Final
  <1>1. i <= p /\ i \in Nat /\ p \in Nat /\ p \in UpdatesIn(L, t)
    BY IndicesTyped DEF LastBy
  <1>2. L[p].state.status = "proposal"
    BY DEF ProposalsIn
  <1>3. i < p /\ L[i].state.status \in Final => L[p].state.status = "failed"
    BY <1>1, PlainRecords DEF FinalStays
  <1> QED
    BY <1>1, <1>2, <1>3 DEF Final

(* What the command of an update says. *)
LEMMA UpdateFields ==
    ASSUME NEW t, NEW s
    PROVE  /\ UpdateTask(t, s).type = "UpdateTask" /\ UpdateTask(t, s).task = t
           /\ UpdateTask(t, s).state = s
           /\ \A u : UpdateTask(t, s) # AdmitTask(u)
  <1>1. \A u : AdmitTask(u).type = "AdmitTask"
    BY DEF AdmitTask
  <1> QED
    BY <1>1 DEF UpdateTask

(* An update of one task that may come next. *)
LEMMA UpdateMayFollow ==
    ASSUME NEW L \in Seq(Command), NEW c \in Command, MayFollow(L, c),
           c.type = "UpdateTask"
    PROVE  c.state \in TaskState /\ MayUpdate(L, c.task, c.state)
  <1>1. \A t : AdmitTask(t).type # "UpdateTask"
    BY DEF AdmitTask
  <1>2. PICK t \in Task, s \in TaskState : c = UpdateTask(t, s) /\ MayUpdate(L, t, s)
    BY <1>1 DEF MayFollow
  <1> QED
    BY <1>2, UpdateFields

LEMMA AdmittedFirstKept ==
    ASSUME NEW L \in Seq(Command), NEW c \in Command, NEW t,
           AdmittedFirst(L, t), MayFollow(L, c)
    PROVE  AdmittedFirst(Append(L, c), t)
  <1> DEFINE M == Append(L, c)
  <1>1. /\ Len(L) \in Nat /\ Len(M) = Len(L) + 1
        /\ \A i \in 1 .. Len(L) : M[i] = L[i]
        /\ M[Len(L) + 1] = c
    BY Appended
  <1>2. /\ \A k \in Nat : k <= Len(L) => (AdmittedBy(M, t, k) <=> AdmittedBy(L, t, k))
        /\ AdmittedBy(L, t, Len(L)) => AdmittedBy(M, t, Len(M))
    BY AdmittedAppended
  <1>3. UpdatesIn(M, t) = IF c.type = "UpdateTask" /\ c.task = t
                          THEN UpdatesIn(L, t) \cup {Len(L) + 1} ELSE UpdatesIn(L, t)
    BY UpdatesAppended
  <1>4. c = AdmitTask(t) => ~AdmittedBy(L, t, Len(L))
    <2>1. AdmitTask(t).type = "AdmitTask" /\ AdmitTask(t).task = t
      BY DEF AdmitTask
    <2>2. \A u : AdmitTask(u).task = u
      BY DEF AdmitTask
    <2> QED
      BY <2>1, <2>2, UpdateFields DEF MayFollow
  <1> HIDE DEF M
  <1>5. ASSUME NEW i \in 1 .. Len(M), NEW j \in 1 .. Len(M),
               M[i] = AdmitTask(t), M[j] = AdmitTask(t)
        PROVE  i = j
    <2>1. CASE i \in 1 .. Len(L) /\ j \in 1 .. Len(L)
      BY <1>1, <1>5, <2>1 DEF AdmittedFirst
    <2>2. CASE c = AdmitTask(t)
      <3>1. \A k \in 1 .. Len(L) : M[k] # AdmitTask(t)
        BY <1>1, <1>4, <2>2 DEF AdmittedBy
      <3> QED
        BY <1>1, <1>5, <3>1
    <2> QED
      BY <1>1, <1>5, <2>1, <2>2
  <1>6. ASSUME NEW i \in UpdatesIn(M, t)
        PROVE  AdmittedBy(M, t, i) /\ M[i].state.status \in Final \cup {"proposal"}
    <2>1. CASE i \in UpdatesIn(L, t)
      <3>1. i \in 1 .. Len(L) /\ i \in Nat /\ i <= Len(L)
        BY <1>1, <2>1 DEF UpdatesIn
      <3> QED
        BY <1>1, <1>2, <2>1, <3>1 DEF AdmittedFirst
    <2>2. CASE i \notin UpdatesIn(L, t)
      <3>1. c.type = "UpdateTask" /\ c.task = t /\ i = Len(M) /\ M[i] = c
        BY <1>1, <1>3, <1>6, <2>2
      <3>2. MayUpdate(L, t, c.state)
        BY <3>1, UpdateMayFollow
      <3> QED
        BY <1>2, <3>1, <3>2, PlainRecords DEF MayUpdate, NextRound, Verdicts, Final
    <2> QED
      BY <2>1, <2>2
  <1> QED
    BY <1>5, <1>6 DEF AdmittedFirst, M

LEMMA FinalStaysKept ==
    ASSUME NEW L \in Seq(Command), NEW c \in Command, NEW t,
           FinalStays(L, t), MayFollow(L, c)
    PROVE  FinalStays(Append(L, c), t)
  <1> DEFINE M == Append(L, c)
  <1>1. /\ Len(L) \in Nat /\ Len(M) = Len(L) + 1
        /\ \A i \in UpdatesIn(L, t) : M[i] = L[i]
        /\ M[Len(L) + 1] = c
    BY Appended DEF UpdatesIn
  <1>2. UpdatesIn(M, t) = IF c.type = "UpdateTask" /\ c.task = t
                          THEN UpdatesIn(L, t) \cup {Len(L) + 1} ELSE UpdatesIn(L, t)
    BY UpdatesAppended
  <1>3. \A i \in UpdatesIn(L, t) : i \in Nat /\ i <= Len(L)
    BY IndicesTyped
  <1>4. ASSUME c.type = "UpdateTask", c.task = t, NEW i \in UpdatesIn(L, t),
               L[i].state.status \in Final
        PROVE  c.state = TimedOutTask
    <2>1. MayUpdate(L, t, c.state)
      BY <1>4, UpdateMayFollow
    <2>2. ~ \E p \in ProposalsIn(L, t) : LastBy(L, t, p, Len(L))
      BY <1>4, OpenTask
    <2> QED
      BY <1>4, <2>1, <2>2 DEF MayUpdate, NextRound, Verdicts
  <1> HIDE DEF M
  <1>5. ASSUME NEW i \in UpdatesIn(M, t), NEW j \in UpdatesIn(M, t), i < j,
               M[i].state.status \in Final
        PROVE  M[j].state = TimedOutTask
    <2>1. i \in UpdatesIn(L, t)
      BY <1>1, <1>2, <1>3, <1>5
    <2>2. CASE j \in UpdatesIn(L, t)
      BY <1>1, <1>5, <2>1, <2>2 DEF FinalStays
    <2>3. CASE j \notin UpdatesIn(L, t)
      BY <1>1, <1>2, <1>4, <1>5, <2>1, <2>3
    <2> QED
      BY <2>2, <2>3
  <1> QED
    BY <1>5 DEF FinalStays, M

(* Rounds fit the number of proposals so far, which is finite. *)
LEMMA UptoFinite ==
    ASSUME NEW L \in Seq(Command), NEW t, NEW k
    PROVE  IsFiniteSet(Upto(L, t, k))
  <1>1. IsFiniteSet(1 .. Len(L))
    BY FS_Interval
  <1>2. Upto(L, t, k) \subseteq 1 .. Len(L)
    BY IndicesTyped DEF Upto
  <1> QED
    BY <1>1, <1>2, FS_Subset

LEMMA NumberedKept ==
    ASSUME NEW L \in Seq(Command), NEW c \in Command, NEW t,
           Numbered(L, t), MayFollow(L, c)
    PROVE  Numbered(Append(L, c), t)
  <1> DEFINE M == Append(L, c)
             q == Len(L) + 1
             new == c.type = "UpdateTask" /\ c.task = t /\ c.state.status = "proposal"
  <1>1. /\ Len(L) \in Nat
        /\ \A i \in ProposalsIn(L, t) : M[i] = L[i]
        /\ M[q] = c
    BY Appended, IndicesTyped
  <1>2. ProposalsIn(M, t) = IF new THEN ProposalsIn(L, t) \cup {q} ELSE ProposalsIn(L, t)
    BY UpdatesAppended
  <1>3. \A i \in ProposalsIn(L, t) : i \in Nat /\ i <= Len(L)
    BY IndicesTyped
  <1>4. \A i \in ProposalsIn(L, t) : Upto(M, t, i) = Upto(L, t, i)
    BY <1>1, <1>2, <1>3 DEF Upto
  <1>5. ASSUME new
        PROVE  /\ c.state.round \in 1 .. MaxRounds
               /\ c.state.round = Cardinality(Upto(M, t, q))
               /\ \A i \in ProposalsIn(L, t) : L[i].state.round < c.state.round
    <2>1. NextRound(L, t, c.state)
      <3>1. MayUpdate(L, t, c.state)
        BY <1>5, UpdateMayFollow
      <3> QED
        BY <1>5, <3>1, PlainRecords DEF MayUpdate, Verdicts
    <2>2. CASE UpdatesIn(L, t) = {} /\ c.state.round = 1
      <3>1. ProposalsIn(L, t) = {}
        BY <2>2 DEF ProposalsIn
      <3>2. Upto(M, t, q) = {} \cup {q}
        BY <1>1, <1>2, <1>5, <3>1 DEF Upto
      <3>3. Cardinality(Upto(M, t, q)) = 1
        BY <3>2, FS_Singleton
      <3>4. 1 \in 1 .. MaxRounds
        BY TallyAssumption
      <3> QED
        BY <2>2, <3>1, <3>3, <3>4
    <2>3. ASSUME NEW p \in ProposalsIn(L, t), LastBy(L, t, p, Len(L)),
                 c.state.round = L[p].state.round + 1, c.state.round <= MaxRounds
          PROVE  /\ c.state.round \in 1 .. MaxRounds
                 /\ c.state.round = Cardinality(Upto(M, t, q))
                 /\ \A i \in ProposalsIn(L, t) : L[i].state.round < c.state.round
      <3>1. \A i \in ProposalsIn(L, t) : i <= p
        BY <1>3, IndicesTyped, <2>3 DEF LastBy
      <3>2. /\ L[p].state.round \in 1 .. MaxRounds
            /\ L[p].state.round = Cardinality(Upto(L, t, p))
        BY DEF Numbered
      <3>3. \A i \in ProposalsIn(L, t) :
               L[i].state.round \in 1 .. MaxRounds /\ L[i].state.round <= L[p].state.round
        <4> SUFFICES ASSUME NEW i \in ProposalsIn(L, t)
                     PROVE  /\ L[i].state.round \in 1 .. MaxRounds
                            /\ L[i].state.round <= L[p].state.round
          OBVIOUS
        <4>1. L[i].state.round \in 1 .. MaxRounds
          BY DEF Numbered
        <4>2. i < p => L[i].state.round < L[p].state.round
          BY DEF Numbered
        <4>3. i < p \/ i = p
          BY <1>3, <3>1
        <4> QED
          BY <3>2, <4>1, <4>2, <4>3, TallyAssumption
      <3>4. Upto(M, t, q) = Upto(L, t, p) \cup {q}
        BY <1>1, <1>2, <1>3, <1>5, <3>1 DEF Upto
      <3>5. q \notin Upto(L, t, p)
        BY <1>1, <1>3 DEF Upto
      <3>6. Cardinality(Upto(M, t, q)) = Cardinality(Upto(L, t, p)) + 1
        BY <3>4, <3>5, UptoFinite, FS_AddElement
      <3>7. c.state.round \in 1 .. MaxRounds
        BY <2>3, <3>2, TallyAssumption
      <3>8. \A i \in ProposalsIn(L, t) : L[i].state.round < c.state.round
        BY <2>3, <3>2, <3>3, TallyAssumption
      <3> QED
        BY <2>3, <3>2, <3>6, <3>7, <3>8
    <2> QED
      BY <2>1, <2>2, <2>3 DEF NextRound
  <1>6. \A i \in ProposalsIn(L, t) : i < q
    BY <1>1, <1>3
  <1> HIDE DEF M, q, new
  <1>7. ASSUME NEW i \in ProposalsIn(M, t)
        PROVE  /\ M[i].state.round \in 1 .. MaxRounds
               /\ M[i].state.round = Cardinality(Upto(M, t, i))
    <2>1. CASE i \in ProposalsIn(L, t)
      BY <1>1, <1>4, <2>1 DEF Numbered
    <2>2. CASE i \notin ProposalsIn(L, t)
      BY <1>1, <1>2, <1>5, <2>2
    <2> QED
      BY <2>1, <2>2
  <1>8. ASSUME NEW i \in ProposalsIn(M, t), NEW j \in ProposalsIn(M, t), i < j
        PROVE  M[i].state.round < M[j].state.round
    <2>1. CASE i \in ProposalsIn(L, t) /\ j \in ProposalsIn(L, t)
      BY <1>1, <1>8, <2>1 DEF Numbered
    <2>2. CASE i \in ProposalsIn(L, t) /\ j \notin ProposalsIn(L, t)
      BY <1>1, <1>2, <1>5, <2>2
    <2>3. CASE i \notin ProposalsIn(L, t)
      <3>1. i = q /\ q \in Nat
        BY <1>1, <1>2, <2>3 DEF q
      <3>2. j \in Nat /\ (j = q \/ j < q)
        BY <1>2, <1>3, <1>6, <3>1
      <3>3. ~(i < j)
        BY <3>1, <3>2
      <3> QED
        BY <1>8, <3>3
    <2> QED
      BY <2>1, <2>2, <2>3
  <1> QED
    BY <1>7, <1>8 DEF Numbered, M

LEMMA VotesKnownKept ==
    ASSUME NEW L \in Seq(Command), NEW c \in Command, VotesKnown(L), MayFollow(L, c)
    PROVE  VotesKnown(Append(L, c))
  <1> DEFINE M == Append(L, c)
  <1>1. /\ Len(L) \in Nat /\ Len(M) = Len(L) + 1
        /\ \A i \in 1 .. Len(L) : M[i] = L[i]
        /\ M[Len(L) + 1] = c
    BY Appended
  <1>2. \A t : ProposalsIn(L, t) \subseteq ProposalsIn(M, t)
    BY UpdatesAppended
  <1>3. \A t : \A j \in ProposalsIn(L, t) : j \in 1 .. Len(L) /\ j \in Nat /\ j <= Len(L)
    BY IndicesTyped
  <1> HIDE DEF M
  <1>4. ASSUME NEW i \in 1 .. Len(M), M[i].type = "SubmitVote"
        PROVE  \E j \in ProposalsIn(M, M[i].vote.task) :
                  j < i /\ M[j].state.round = M[i].vote.round
    <2>1. CASE i \in 1 .. Len(L)
      <3>1. M[i] = L[i]
        BY <1>1, <2>1
      <3>2. PICK j \in ProposalsIn(L, L[i].vote.task) :
               j < i /\ L[j].state.round = L[i].vote.round
        BY <1>4, <2>1, <3>1 DEF VotesKnown
      <3> QED
        BY <1>1, <1>2, <1>3, <3>1, <3>2
    <2>2. CASE i \notin 1 .. Len(L)
      <3>1. i = Len(L) + 1 /\ M[i] = c
        BY <1>1, <1>4, <2>2
      <3>2. \A t, s : AdmitTask(t).type # "SubmitVote" /\ UpdateTask(t, s).type # "SubmitVote"
        BY DEF AdmitTask, UpdateTask
      <3>3. PICK j \in ProposalsIn(L, c.vote.task) : L[j].state.round = c.vote.round
        BY <1>4, <3>1, <3>2 DEF MayFollow
      <3>4. j < i
        BY <1>1, <1>3, <3>1, <3>3
      <3> QED
        BY <1>1, <1>2, <1>3, <3>1, <3>3, <3>4
    <2> QED
      BY <2>1, <2>2
  <1> QED
    BY <1>4 DEF VotesKnown, M

LEMMA HistoryKept ==
    ASSUME NEW L \in Seq(Command), NEW c \in Command, History(L), MayFollow(L, c)
    PROVE  History(Append(L, c))
  <1>1. ASSUME NEW t \in Task
        PROVE  HistoryOf(Append(L, c), t)
    <2>1. AdmittedFirst(L, t) /\ FinalStays(L, t) /\ Numbered(L, t)
      BY DEF History, HistoryOf
    <2> QED
      BY <2>1, AdmittedFirstKept, FinalStaysKept, NumberedKept DEF HistoryOf
  <1>2. VotesKnown(Append(L, c))
    BY VotesKnownKept DEF History
  <1> QED
    BY <1>1, <1>2 DEF History

(* The engine goroutine of n waits for no entry it has not applied. *)
Settled(n) == Waits(n) => loop[n].index <= applied[n]

LogGrows == log' = log \/ \E c \in Command : log' = Append(log, c)

-----------------------------------------------------------------------------
(***************************************************************************)
(* What stays true when the log grows or a replica catches up.             *)
(***************************************************************************)

(* The numbers a state has. *)
LEMMA Numbers ==
    ASSUME TypeOK
    PROVE  /\ log \in Seq(Command) /\ Len(log) \in Nat /\ leader \in Node
           /\ \A n \in Node : applied[n] \in Nat /\ applied[n] <= Len(log)
           /\ \A n \in Node, t \in Task : task[n][t] \in TaskState
           /\ \A n \in Node : loop[n] \in LoopState
  BY DEF TypeOK, FSMTypeOK, EngineTypeOK

(* Admissions, events and rounds known in the log are known ever after. *)
LEMMA KnownAppended ==
    ASSUME NEW L \in Seq(Command), NEW c \in Command, NEW t
    PROVE  /\ AdmittedBy(L, t, Len(L)) => AdmittedBy(Append(L, c), t, Len(Append(L, c)))
           /\ \A r : RoundExists(L, t, r) => RoundExists(Append(L, c), t, r)
  <1> DEFINE M == Append(L, c)
  <1>1. ProposalsIn(L, t) \subseteq ProposalsIn(M, t)
    BY UpdatesAppended
  <1>2. \A j \in ProposalsIn(L, t) : M[j] = L[j]
    BY Appended, IndicesTyped
  <1>3. AdmittedBy(L, t, Len(L)) => AdmittedBy(M, t, Len(M))
    BY AdmittedAppended
  <1> HIDE DEF M
  <1>4. \A r : RoundExists(L, t, r) => RoundExists(M, t, r)
    BY <1>1, <1>2 DEF RoundExists
  <1> QED
    BY <1>3, <1>4 DEF M

LEMMA EventFitsLater ==
    ASSUME NEW L \in Seq(Command), NEW c \in Command, NEW k \in Nat, NEW m \in Nat,
           k <= m, NEW e, EventFits(L, k, e)
    PROVE  EventFits(L, m, e) /\ EventFits(Append(L, c), k, e)
  <1> DEFINE M == Append(L, c)
  <1>1. ProposalsIn(L, e.task) \subseteq ProposalsIn(M, e.task)
    BY UpdatesAppended
  <1>2. AdmittedBy(L, e.task, Len(L)) => AdmittedBy(M, e.task, Len(M))
    BY KnownAppended
  <1> HIDE DEF M
  <1>3. EventFits(M, k, e)
    BY <1>1, <1>2 DEF EventFits
  <1>4. \A j \in ProposalsIn(L, e.task) : j <= k => j <= m
    BY IndicesTyped
  <1>5. EventFits(L, m, e)
    BY <1>4 DEF EventFits
  <1> QED
    BY <1>3, <1>5 DEF M

(* A goroutine's place fits a log with an entry more that is no update. *)
LEMMA PlaceAppended ==
    ASSUME NEW L \in Seq(Command), NEW c \in Command, c.type # "UpdateTask",
           NEW k \in Nat, k <= Len(L), NEW leads, NEW place, PlaceFits(L, k, leads, place)
    PROVE  PlaceFits(Append(L, c), k, leads, place)
  <1> DEFINE M == Append(L, c)
             t == place.task
  <1>1. /\ UpdatesIn(M, t) = UpdatesIn(L, t)
        /\ ProposalsIn(M, t) = ProposalsIn(L, t)
        /\ AdmittedBy(M, t, k) <=> AdmittedBy(L, t, k)
    BY UpdatesAppended, AdmittedAppended
  <1>2. \A j \in ProposalsIn(L, t) : M[j] = L[j]
    BY Appended, IndicesTyped
  <1>3. Len(M) = Len(L) + 1 /\ \A j \in UpdatesIn(L, t) : j <= Len(L) + 1 /\ j <= Len(L)
    BY Appended, IndicesTyped
  <1> HIDE DEF M
  <1>4. \A i : LastBy(L, t, i, Len(L)) => LastBy(M, t, i, Len(M))
    BY <1>1, <1>3 DEF LastBy
  <1>5. PlaceFits(M, k, leads, place)
    BY <1>1, <1>2, <1>4 DEF PlaceFits
  <1> QED
    BY <1>5 DEF M

LEMMA PlaceApplied ==
    ASSUME NEW L \in Seq(Command), NEW k \in Nat, NEW m \in Nat, k <= m,
           NEW leads, NEW place, PlaceFits(L, k, leads, place)
    PROVE  PlaceFits(L, m, leads, place)
  BY AdmittedMonotone DEF PlaceFits

-----------------------------------------------------------------------------
(***************************************************************************)
(* Steps that update no task.                                              *)
(***************************************************************************)
Unwritten ==
    \/ log' = log
    \/ \E c \in Command :
          c.type # "UpdateTask" /\ MayFollow(log, c) /\ log' = Append(log, c)

(* What such a step does to the log. *)
LEMMA UnwrittenKept ==
    ASSUME TypeOK, History(log), Unwritten
    PROVE  /\ log' \in Seq(Command) /\ Len(log) <= Len(log') /\ History(log')
           /\ \A t : UpdatesIn(log', t) = UpdatesIn(log, t)
           /\ \A t : \A k \in Nat : k <= Len(log) =>
                 (AdmittedBy(log', t, k) <=> AdmittedBy(log, t, k))
           /\ \A t, s : \A k \in Nat : k <= Len(log) =>
                 (Current(log, s, t, k) => Current(log', s, t, k))
           /\ \A leads, place : \A k \in Nat : k <= Len(log) =>
                 (PlaceFits(log, k, leads, place) => PlaceFits(log', k, leads, place))
  <1>0. log \in Seq(Command) /\ Len(log) \in Nat
    BY Numbers
  <1>1. CASE log' = log
    BY <1>0, <1>1
  <1>2. ASSUME NEW c \in Command, c.type # "UpdateTask", MayFollow(log, c),
               log' = Append(log, c)
        PROVE  /\ log' \in Seq(Command) /\ Len(log) <= Len(log') /\ History(log')
               /\ \A t : UpdatesIn(log', t) = UpdatesIn(log, t)
               /\ \A t : \A k \in Nat : k <= Len(log) =>
                     (AdmittedBy(log', t, k) <=> AdmittedBy(log, t, k))
               /\ \A t, s : \A k \in Nat : k <= Len(log) =>
                     (Current(log, s, t, k) => Current(log', s, t, k))
               /\ \A leads, place : \A k \in Nat : k <= Len(log) =>
                     (PlaceFits(log, k, leads, place) => PlaceFits(log', k, leads, place))
    <2>1. log' \in Seq(Command) /\ Len(log) <= Len(log') /\ History(log')
      BY <1>0, <1>2, Appended, HistoryKept
    <2>2. \A t : UpdatesIn(log', t) = UpdatesIn(log, t)
      BY <1>0, <1>2, UpdatesAppended
    <2>3. \A t : \A k \in Nat : k <= Len(log) =>
             (AdmittedBy(log', t, k) <=> AdmittedBy(log, t, k))
      BY <1>0, <1>2, AdmittedAppended
    <2>4. \A t, s : \A k \in Nat : k <= Len(log) =>
             (Current(log, s, t, k) => Current(log', s, t, k))
      BY <1>0, <1>2, CurrentAppended
    <2>5. \A leads, place : \A k \in Nat : k <= Len(log) =>
             (PlaceFits(log, k, leads, place) => PlaceFits(log', k, leads, place))
      BY <1>0, <1>2, PlaceAppended
    <2> QED
      BY <2>1, <2>2, <2>3, <2>4, <2>5
  <1> QED
    BY <1>1, <1>2 DEF Unwritten

(* A goroutine may move on when it waits for nothing that can still come. *)
Moves(n, place) ==
    /\ Goto(n, place)
    /\ Settled(n)
    /\ PlaceFits(log, applied[n], n = leader, place)

LEMMA QuietCore ==
    ASSUME TypeOK, Core, Unwritten, UNCHANGED <<leader, term, applied, task>>,
           \/ UNCHANGED loop
           \/ \E n \in Node : \E place : Moves(n, place)
    PROVE  Core'
  <1>1. /\ term' = 0 /\ leader' = leader /\ leader \in Node
        /\ \A n \in Node : applied'[n] = applied[n] /\ task'[n] = task[n]
        /\ \A n \in Node : applied[n] \in Nat /\ applied[n] <= Len(log)
        /\ loop \in [Node -> LoopState]
    BY DEF TypeOK, FSMTypeOK, EngineTypeOK, Core
  <1>2. /\ History(log')
        /\ \A t : UpdatesIn(log', t) = UpdatesIn(log, t)
        /\ \A n \in Node : \A t : AdmittedBy(log', t, applied[n]) <=> AdmittedBy(log, t, applied[n])
        /\ \A n \in Node : \A t, s :
              Current(log, s, t, applied[n]) => Current(log', s, t, applied[n])
        /\ \A n \in Node : \A leads, place :
              PlaceFits(log, applied[n], leads, place) => PlaceFits(log', applied[n], leads, place)
    BY <1>1, UnwrittenKept DEF Core
  <1>3. \A m \in Node :
           \/ loop'[m] = loop[m]
           \/ Settled(m) /\ PlaceFits(log, applied[m], m = leader, loop'[m])
    BY <1>1 DEF Moves, Goto
  <1>4. Synced'
    <2> SUFFICES ASSUME NEW t \in Task, NEW i \in UpdatesIn(log, t)
                 PROVE  i <= applied[leader] \/ (Waits(leader)' /\ loop'[leader].index = i)
      BY <1>1, <1>2 DEF Synced, Waits
    <2>1. i <= applied[leader] \/ (Waits(leader) /\ loop[leader].index = i)
      BY DEF Core, Synced
    <2> QED
      BY <1>1, <1>3, <2>1 DEF Waits, Settled
  <1>5. ASSUME NEW n \in Node
        PROVE  PlaceOK(n)'
    <2>1. PlaceFits(log, applied[n], n = leader, loop'[n])
      BY <1>3 DEF Core, PlaceOK
    <2>2. PlaceFits(log', applied[n], n = leader, loop'[n])
      BY <1>2, <2>1
    <2> QED
      BY <1>1, <2>2 DEF PlaceOK
  <1>6. ASSUME NEW n \in Node, NEW t \in Task
        PROVE  RecordOK(n, t)'
    <2>1. CASE Current(log, task[n][t], t, applied[n])
      BY <1>1, <1>2, <2>1 DEF RecordOK
    <2>2. CASE Ahead(n, t)
      <3>1. loop'[n] = loop[n]
        BY <1>3, <2>2 DEF Ahead, Settled
      <3>2. Ahead(n, t)'
        BY <1>1, <1>2, <2>2, <3>1 DEF Ahead, Waits
      <3> QED
        BY <3>2 DEF RecordOK
    <2> QED
      BY <2>1, <2>2 DEF Core, RecordOK
  <1> QED
    BY <1>1, <1>2, <1>4, <1>5, <1>6 DEF Core

-----------------------------------------------------------------------------
(***************************************************************************)
(* The leader updates a task.                                              *)
(***************************************************************************)
Writes(n, t, s, place) ==
    /\ n = leader /\ ~Waits(n)
    /\ MayUpdate(log, t, s)
    /\ log' = Append(log, UpdateTask(t, s))
    /\ Goto(n, place)
    /\ place.at \in {"applying", "finalizing"}
    /\ place.index = Len(log) + 1 /\ place.term = 0
    /\ UNCHANGED <<leader, term, applied>>

(* Its own record of the task may run ahead of Raft.  *)
RunsAhead(n, t) ==
    \E w \in TaskState :
        /\ task' = [task EXCEPT ![n][t] = w]
        /\ w.status # "absent" /\ AdmittedBy(log, t, applied[n])

LEMMA UpdateCore ==
    ASSUME TypeOK, Core, NEW n \in Node, NEW t \in Task, NEW s \in TaskState, NEW place,
           Writes(n, t, s, place),
           UNCHANGED task \/ RunsAhead(n, t)
    PROVE  Core'
  <1> DEFINE c == UpdateTask(t, s)
             q == Len(log) + 1
  <1>1. /\ term' = 0 /\ leader' = leader /\ leader = n
        /\ \A m \in Node : applied'[m] = applied[m]
        /\ \A m \in Node : applied[m] \in Nat /\ applied[m] <= Len(log)
        /\ log \in Seq(Command) /\ Len(log) \in Nat /\ c \in Command
    BY Numbers, CommandsTyped DEF Core, Writes
  <1>2. MayFollow(log, c) /\ log' = Append(log, c) /\ c.type = "UpdateTask" /\ c.task = t
    BY UpdateFields DEF MayFollow, Writes
  <1>3. History(log') /\ Len(log') = q
    BY <1>1, <1>2, HistoryKept, Appended DEF Core
  <1>4. /\ \A u : UpdatesIn(log', u) =
                    IF u = t THEN UpdatesIn(log, u) \cup {q} ELSE UpdatesIn(log, u)
        /\ \A m \in Node : \A u : AdmittedBy(log', u, applied[m]) <=> AdmittedBy(log, u, applied[m])
        /\ \A m \in Node : \A u, w :
              Current(log, w, u, applied[m]) => Current(log', w, u, applied[m])
    <2>1. \A u : UpdatesIn(log', u) =
                    IF u = t THEN UpdatesIn(log, u) \cup {q} ELSE UpdatesIn(log, u)
      BY <1>1, <1>2, UpdatesAppended
    <2>2. \A m \in Node : \A u : AdmittedBy(log', u, applied[m]) <=> AdmittedBy(log, u, applied[m])
      BY <1>1, <1>2, AdmittedAppended
    <2>3. \A m \in Node : \A u, w :
              Current(log, w, u, applied[m]) => Current(log', w, u, applied[m])
      BY <1>1, <1>2, CurrentAppended
    <2> QED
      BY <2>1, <2>2, <2>3
  <1>5. /\ loop'[n] = place
        /\ \A m \in Node : m # n => loop'[m] = loop[m]
    BY DEF Writes, Goto, TypeOK, EngineTypeOK
  <1>6. /\ Waits(n)' /\ loop'[n].index = q
        /\ \A u \in Task : \A i \in UpdatesIn(log, u) : i <= applied[n]
        /\ \A m \in Node, u \in Task : Current(log, task[m][u], u, applied[m])
    <2>1. place.at \in {"applying", "finalizing"} /\ place.index = q /\ ~Waits(leader)
      BY <1>1 DEF Writes
    <2>2. Waits(n)' /\ loop'[n].index = q
      BY <1>5, <2>1 DEF Waits
    <2>3. \A m \in Node, u \in Task : ~Ahead(m, u)
      BY <2>1 DEF Ahead
    <2> QED
      BY <1>1, <2>1, <2>2, <2>3 DEF Core, Synced, RecordOK
  <1> HIDE DEF c, q
  <1>7. Synced'
    BY <1>1, <1>4, <1>6 DEF Synced
  <1>8. ASSUME NEW m \in Node
        PROVE  PlaceOK(m)'
    <2>1. CASE m = n
      <3>1. place.at \in {"applying", "finalizing"} /\ place.term = 0
        BY DEF Writes
      <3> QED
        BY <1>1, <1>5, <2>1, <3>1 DEF PlaceOK, PlaceFits
    <2>2. CASE m # n
      <3>1. loop'[m] = loop[m] /\ loop[m].at \in {"idle", "brainstorming"}
        BY <1>1, <1>5, <2>2 DEF Core, PlaceOK, PlaceFits
      <3> QED
        BY <1>1, <2>2, <3>1 DEF PlaceOK, PlaceFits
    <2> QED
      BY <2>1, <2>2
  <1>9. ASSUME NEW m \in Node, NEW u \in Task
        PROVE  RecordOK(m, u)'
    <2>1. CASE task'[m][u] = task[m][u]
      <3>1. Current(log', task[m][u], u, applied[m])
        BY <1>4, <1>6
      <3> QED
        BY <1>1, <2>1, <3>1 DEF RecordOK
    <2>2. CASE task'[m][u] # task[m][u]
      <3>1. m = n /\ u = t /\ task'[n][t].status # "absent" /\ AdmittedBy(log, t, applied[n])
        <4>1. PICK w \in TaskState :
                 /\ task' = [task EXCEPT ![n][t] = w]
                 /\ w.status # "absent" /\ AdmittedBy(log, t, applied[n])
          BY <2>2 DEF RunsAhead
        <4>2. task \in [Node -> [Task -> TaskState]]
          BY DEF TypeOK, FSMTypeOK
        <4>3. task'[m][u] = IF m = n /\ u = t THEN w ELSE task[m][u]
          BY <4>1, <4>2
        <4> QED
          BY <2>2, <4>1, <4>3
      <3>2. q \in UpdatesIn(log', t) /\ ~(q <= applied[n])
        BY <1>1, <1>4 DEF q
      <3>3. Ahead(n, t)'
        BY <1>1, <1>4, <1>6, <3>1, <3>2 DEF Ahead
      <3> QED
        BY <3>1, <3>3 DEF RecordOK
    <2> QED
      BY <2>1, <2>2
  <1> QED
    BY <1>1, <1>3, <1>7, <1>8, <1>9 DEF Core

-----------------------------------------------------------------------------
(***************************************************************************)
(* A replica applies the next command.                                     *)
(***************************************************************************)

(* What applying a command does to the records of a replica. *)
TakesNext(n) ==
    /\ applied[n] < Len(log)
    /\ applied' = [applied EXCEPT ![n] = @ + 1]
    /\ UNCHANGED <<log, leader, term, loop, timers, timerCh, ballots>>
    /\ \A m \in Node, t \in Task :
          task'[m][t] =
             IF m # n THEN task[m][t]
             ELSE IF NextCommand(n) = AdmitTask(t) THEN Admitted
             ELSE IF applied[n] + 1 \in UpdatesIn(log, t) /\ task[n][t].status # "absent"
             THEN NextCommand(n).state ELSE task[n][t]

LEMMA ReplicateTakes ==
    ASSUME TypeOK, NEW n \in Node, Replicate(n)
    PROVE  TakesNext(n)
  <1> DEFINE c == NextCommand(n)
             k == applied[n] + 1
  <1>1. /\ applied[n] < Len(log) /\ applied' = [applied EXCEPT ![n] = @ + 1]
        /\ UNCHANGED <<log, leader, term, loop, timers, timerCh, ballots>>
    BY DEF Replicate, ApplyCommand, ApplyAdmitTask, ApplySubmitAnswer, ApplyUpdateTask,
           ApplySubmitVote, ApplyUpdateReputation, Take, raftVars, engineVars, timerVars
  <1>2. k \in 1 .. Len(log) /\ c = log[k] /\ c \in Command
    <2>1. k \in 1 .. Len(log)
      BY <1>1, Numbers
    <2> QED
      BY <2>1, Numbers DEF NextCommand
  <1>3. \A t : k \in UpdatesIn(log, t) <=> c.type = "UpdateTask" /\ c.task = t
    BY <1>2 DEF UpdatesIn
  <1>4. \A t : AdmitTask(t).type = "AdmitTask" /\ AdmitTask(t).task = t
    BY DEF AdmitTask
  <1>5. task \in [Node -> [Task -> TaskState]]
    BY DEF TypeOK, FSMTypeOK
  <1> HIDE DEF c, k
  <1> SUFFICES ASSUME NEW m \in Node, NEW t \in Task
               PROVE  task'[m][t] =
                         IF m # n THEN task[m][t]
                         ELSE IF c = AdmitTask(t) THEN Admitted
                         ELSE IF k \in UpdatesIn(log, t) /\ task[n][t].status # "absent"
                         THEN c.state ELSE task[n][t]
    BY <1>1 DEF TakesNext, c, k
  <1>6. CASE ApplyAdmitTask(n)
    <2>1. c.type = "AdmitTask" /\ task' = [task EXCEPT ![n][c.task] = Admitted]
      BY <1>6 DEF ApplyAdmitTask, Take, c
    <2>2. c.task \in Task /\ c = AdmitTask(c.task)
      BY <1>2, <2>1 DEF Command, AdmitTask
    <2>3. task'[m][t] = IF m = n /\ t = c.task THEN Admitted ELSE task[m][t]
      BY <1>5, <2>1, <2>2
    <2>4. c = AdmitTask(t) <=> t = c.task
      BY <1>4, <2>2
    <2> QED
      BY <1>3, <2>1, <2>3, <2>4
  <1>7. CASE ApplyUpdateTask(n)
    <2>1. /\ c.type = "UpdateTask"
          /\ task' = IF task[n][c.task].status = "absent" THEN task
                     ELSE [task EXCEPT ![n][c.task] = c.state]
      BY <1>7 DEF ApplyUpdateTask, Take, c
    <2>2. c.task \in Task
      BY <1>2, <2>1, CommandFields
    <2>3. task'[m][t] = IF m = n /\ t = c.task /\ task[n][t].status # "absent"
                        THEN c.state ELSE task[m][t]
      <3>1. CASE task[n][c.task].status = "absent"
        BY <2>1, <3>1
      <3>2. CASE task[n][c.task].status # "absent"
        <4>1. task' = [task EXCEPT ![n][c.task] = c.state]
          BY <2>1, <3>2
        <4> QED
          BY <1>5, <2>2, <3>2, <4>1
      <3> QED
        BY <3>1, <3>2
    <2>4. c # AdmitTask(t) /\ (k \in UpdatesIn(log, t) <=> t = c.task)
      BY <1>3, <1>4, <2>1
    <2> QED
      BY <2>3, <2>4
  <1>8. CASE ApplySubmitAnswer(n) \/ ApplySubmitVote(n) \/ ApplyUpdateReputation(n)
    <2>1. task' = task /\ c.type \notin {"AdmitTask", "UpdateTask"}
      BY <1>8 DEF ApplySubmitAnswer, ApplySubmitVote, ApplyUpdateReputation, Take, c
    <2> QED
      BY <1>3, <1>4, <2>1
  <1> QED
    BY <1>6, <1>7, <1>8 DEF Replicate, ApplyCommand

LEMMA ReplicateCore ==
    ASSUME TypeOK, Core, NEW n \in Node, TakesNext(n)
    PROVE  Core'
  <1> DEFINE k == applied[n]
             c == NextCommand(n)
  <1>1. /\ log' = log /\ leader' = leader /\ term' = term /\ loop' = loop /\ leader \in Node
        /\ log \in Seq(Command) /\ Len(log) \in Nat
        /\ k \in Nat /\ k < Len(log) /\ c = log[k + 1]
        /\ \A m \in Node : applied[m] \in Nat
        /\ applied'[n] = k + 1 /\ \A m \in Node : m # n => applied'[m] = applied[m]
    BY Numbers DEF TakesNext, NextCommand, TypeOK, FSMTypeOK
  <1>2. \A t \in Task : AdmittedFirst(log, t)
    BY DEF Core, History, HistoryOf
  <1> HIDE DEF k, c
  <1>3. \A m \in Node : applied'[m] \in Nat /\ applied[m] <= applied'[m]
    BY <1>1 DEF k
  <1>4. Synced'
    <2> SUFFICES ASSUME NEW t \in Task, NEW i \in UpdatesIn(log, t)
                 PROVE  i <= applied'[leader] \/ (Waits(leader) /\ loop[leader].index = i)
      BY <1>1 DEF Synced, Waits
    <2>1. i <= applied[leader] \/ (Waits(leader) /\ loop[leader].index = i)
      BY DEF Core, Synced
    <2>2. i \in Nat
      BY <1>1, IndicesTyped
    <2> QED
      BY <1>1, <1>3, <2>1, <2>2
  <1>5. ASSUME NEW m \in Node
        PROVE  PlaceOK(m)'
    <2>1. PlaceFits(log, applied[m], m = leader, loop[m])
      BY DEF Core, PlaceOK
    <2>2. PlaceFits(log, applied'[m], m = leader, loop[m])
      BY <1>1, <1>3, <2>1, PlaceApplied
    <2> QED
      BY <1>1, <2>2 DEF PlaceOK
  <1>6. ASSUME NEW m \in Node, NEW t \in Task, m # n
        PROVE  RecordOK(m, t)'
    <2>1. RecordOK(m, t) /\ task'[m][t] = task[m][t] /\ applied'[m] = applied[m]
      BY <1>1, <1>6 DEF Core, TakesNext
    <2> QED
      BY <1>1, <2>1 DEF RecordOK, Ahead, Waits
  <1>7. ASSUME NEW t \in Task
        PROVE  RecordOK(n, t)'
    <2> DEFINE s == task[n][t]
    <2>1. task'[n][t] = IF c = AdmitTask(t) THEN Admitted
                        ELSE IF k + 1 \in UpdatesIn(log, t) /\ s.status # "absent"
                        THEN c.state ELSE s
      BY DEF TakesNext, c, k
    <2>2. c = AdmitTask(t) => k + 1 \notin UpdatesIn(log, t)
      <3>1. k + 1 \in UpdatesIn(log, t) => c.type = "UpdateTask"
        BY <1>1 DEF UpdatesIn
      <3>2. AdmitTask(t).type = "AdmitTask"
        BY DEF AdmitTask
      <3> QED
        BY <3>1, <3>2
    <2>3. CASE Current(log, s, t, k)
      <3>1. /\ c = AdmitTask(t) => Current(log, Admitted, t, k + 1)
            /\ k + 1 \in UpdatesIn(log, t) =>
                 s.status # "absent" /\ Current(log, c.state, t, k + 1)
            /\ c # AdmitTask(t) /\ k + 1 \notin UpdatesIn(log, t) => Current(log, s, t, k + 1)
        BY <1>1, <1>2, <2>3, CurrentNext
      <3>2. Current(log, task'[n][t], t, k + 1)
        BY <2>1, <2>2, <3>1
      <3> QED
        BY <1>1, <3>2 DEF RecordOK
    <2>4. CASE Ahead(n, t)
      <3>1. /\ n = leader /\ Waits(n) /\ loop[n].index \in UpdatesIn(log, t)
            /\ ~(loop[n].index <= k) /\ s.status # "absent" /\ AdmittedBy(log, t, k)
        BY <2>4 DEF Ahead, k
      <3>2. c # AdmitTask(t)
        <4>1. PICK i \in 1 .. Len(log) : i <= k /\ log[i] = AdmitTask(t)
          BY <3>1 DEF AdmittedBy
        <4>2. k + 1 \in 1 .. Len(log) /\ i # k + 1
          BY <1>1, <4>1
        <4> QED
          BY <1>1, <1>2, <4>1, <4>2 DEF AdmittedFirst
      <3>3. loop[n].index \in Nat /\ AdmittedBy(log, t, k + 1)
        BY <1>1, <3>1, IndicesTyped, AdmittedMonotone
      <3>4. CASE k + 1 \in UpdatesIn(log, t)
        <4>1. LastBy(log, t, k + 1, k + 1)
          BY <1>1, <3>4 DEF LastBy
        <4>2. Current(log, c.state, t, k + 1)
          BY <1>1, <3>4, <4>1 DEF Current
        <4>3. task'[n][t] = c.state
          BY <2>1, <3>1, <3>2, <3>4
        <4> QED
          BY <1>1, <4>2, <4>3 DEF RecordOK
      <3>5. CASE k + 1 \notin UpdatesIn(log, t)
        <4>1. task'[n][t] = s
          BY <2>1, <3>2, <3>5
        <4>2. ~(loop[n].index <= k + 1)
          BY <1>1, <3>1, <3>3, <3>5
        <4>3. Ahead(n, t)'
          BY <1>1, <3>1, <3>3, <4>1, <4>2 DEF Ahead, Waits
        <4> QED
          BY <4>3 DEF RecordOK
      <3> QED
        BY <3>4, <3>5
    <2> QED
      BY <2>3, <2>4 DEF Core, RecordOK, k
  <1>8. term' = 0 /\ History(log')
    BY <1>1 DEF Core
  <1> QED
    BY <1>4, <1>5, <1>6, <1>7, <1>8 DEF Core

-----------------------------------------------------------------------------
(***************************************************************************)
(* Events, timers and ballots keep referring to what is in the log.        *)
(***************************************************************************)

(* What is known stays known. *)
LEMMA KnownKept ==
    ASSUME TypeOK, LogGrows
    PROVE  /\ \A t : Known(t) => Known(t)'
           /\ \A t, r : RoundExists(log, t, r) => RoundExists(log', t, r)
           /\ \A k \in Nat : \A e : EventFits(log, k, e) => EventFits(log', k, e)
  <1>0. log \in Seq(Command)
    BY Numbers
  <1>1. CASE log' = log
    BY <1>1 DEF Known
  <1>2. ASSUME NEW c \in Command, log' = Append(log, c)
        PROVE  /\ \A t : Known(t) => Known(t)'
               /\ \A t, r : RoundExists(log, t, r) => RoundExists(log', t, r)
               /\ \A k \in Nat : \A e : EventFits(log, k, e) => EventFits(log', k, e)
    <2>1. \A t : Known(t) => Known(t)'
      BY <1>0, <1>2, KnownAppended DEF Known
    <2>2. \A t, r : RoundExists(log, t, r) => RoundExists(log', t, r)
      BY <1>0, <1>2, KnownAppended
    <2>3. \A k \in Nat : \A e : EventFits(log, k, e) => EventFits(log', k, e)
      BY <1>0, <1>2, EventFitsLater
    <2> QED
      BY <2>1, <2>2, <2>3
  <1> QED
    BY <1>1, <1>2 DEF LogGrows

LEMMA EventsKept ==
    ASSUME TypeOK, EventsKnown, LogGrows, UNCHANGED applied,
           \/ UNCHANGED events
           \/ \E n \in Node : \E type : Handle(n, type)
    PROVE  EventsKnown'
  <1>1. ASSUME NEW m \in Node, NEW i \in 1 .. Len(events'[m])
        PROVE  EventFits(log', applied[m], events'[m][i])
    <2>1. \E j \in 1 .. Len(events[m]) : events'[m][i] = events[m][j]
      <3>1. CASE events'[m] = events[m]
        BY <1>1, <3>1
      <3>2. CASE events'[m] = Tail(events[m]) /\ events[m] # <<>>
        <4>1. events[m] \in Seq(Event)
          BY DEF TypeOK, FSMTypeOK
        <4>2. i + 1 \in 1 .. Len(events[m]) /\ events'[m][i] = events[m][i + 1]
          BY <1>1, <3>2, <4>1
        <4> QED
          BY <4>2
      <3>3. events'[m] = events[m] \/ (events'[m] = Tail(events[m]) /\ events[m] # <<>>)
        BY DEF Handle, TypeOK, FSMTypeOK
      <3> QED
        BY <3>1, <3>2, <3>3
    <2>2. EventFits(log, applied[m], events'[m][i])
      BY <2>1 DEF EventsKnown
    <2> QED
      BY <2>2, KnownKept, Numbers
  <1> QED
    BY <1>1 DEF EventsKnown

(* The event a replica publishes is about the command it applied. *)
LEMMA EventsReplicated ==
    ASSUME TypeOK, Core, EventsKnown, NEW n \in Node, Replicate(n)
    PROVE  EventsKnown'
  <1> DEFINE k == applied[n]
             c == NextCommand(n)
  <1>1. /\ log' = log /\ log \in Seq(Command) /\ Len(log) \in Nat
        /\ k \in Nat /\ k + 1 \in 1 .. Len(log) /\ c = log[k + 1] /\ c \in Command
        /\ \A m \in Node : applied[m] \in Nat
        /\ applied' = [applied EXCEPT ![n] = k + 1]
    BY ReplicateTakes, Numbers DEF TakesNext, NextCommand
  <1>2. \A m \in Node : /\ applied'[m] \in Nat /\ applied[m] <= applied'[m]
                        /\ applied'[n] = k + 1
    BY <1>1 DEF TypeOK, FSMTypeOK
  <1> HIDE DEF k, c
  <1>3. \A m \in Node : \A e : EventFits(log, applied[m], e) => EventFits(log, applied'[m], e)
    BY <1>1, <1>2, EventFitsLater
  <1>4. \/ UNCHANGED events
        \/ \E e : /\ events' = [events EXCEPT ![n] = Append(@, e)]
                  /\ EventFits(log, k + 1, e)
    <2>1. CASE ApplyAdmitTask(n)
      <3> DEFINE e == [type |-> "TaskAdmitted", task |-> c.task]
      <3>1. c.type = "AdmitTask" /\ Publish(n, "TaskAdmitted", c.task)
        BY <2>1 DEF ApplyAdmitTask, Take, c
      <3>2. c = AdmitTask(c.task)
        BY <1>1, <3>1 DEF Command, AdmitTask
      <3>3. AdmittedBy(log, c.task, Len(log))
        BY <1>1, <3>2 DEF AdmittedBy
      <3>4. EventFits(log, k + 1, e)
        BY <3>3 DEF EventFits
      <3> QED
        BY <3>1, <3>4 DEF Publish
    <2>2. CASE ApplySubmitAnswer(n)
      <3> DEFINE e == [type |-> "AnswerSubmitted", task |-> c.task]
      <3>1. EventFits(log, k + 1, e)
        BY DEF EventFits
      <3> QED
        BY <2>2, <3>1 DEF ApplySubmitAnswer, Publish, c
    <2>3. CASE ApplyUpdateTask(n)
      <3> DEFINE e == [type |-> "TaskUpdated", task |-> c.task]
      <3>1. EventFits(log, k + 1, e)
        BY DEF EventFits
      <3> QED
        BY <2>3, <3>1 DEF ApplyUpdateTask, Publish, c
    <2>4. CASE ApplySubmitVote(n)
      <3> DEFINE e == [type |-> "VoteSubmitted", task |-> c.vote.task]
      <3>1. c.type = "SubmitVote" /\ (UNCHANGED events \/ Publish(n, "VoteSubmitted", c.vote.task))
        BY <2>4 DEF ApplySubmitVote, Take, c
      <3>2. PICK j \in ProposalsIn(log, c.vote.task) : j < k + 1
        BY <1>1, <3>1 DEF Core, History, VotesKnown
      <3>3. j <= k + 1
        BY <1>1, <3>2, IndicesTyped
      <3>4. EventFits(log, k + 1, e)
        BY <3>2, <3>3 DEF EventFits
      <3> QED
        BY <3>1, <3>4 DEF Publish
    <2>5. CASE ApplyUpdateReputation(n)
      BY <2>5 DEF ApplyUpdateReputation
    <2> QED
      BY <2>1, <2>2, <2>3, <2>4, <2>5 DEF Replicate, ApplyCommand
  <1>5. ASSUME NEW m \in Node, NEW i \in 1 .. Len(events'[m])
        PROVE  EventFits(log, applied'[m], events'[m][i])
    <2>1. events[m] \in Seq(Event) /\ events \in [Node -> Seq(Event)]
      BY DEF TypeOK, FSMTypeOK
    <2>2. CASE i \in 1 .. Len(events[m]) /\ events'[m][i] = events[m][i]
      BY <1>3, <2>2 DEF EventsKnown
    <2>3. ASSUME NEW e, events' = [events EXCEPT ![n] = Append(@, e)],
                 EventFits(log, k + 1, e)
          PROVE  \/ i \in 1 .. Len(events[m]) /\ events'[m][i] = events[m][i]
                 \/ m = n /\ events'[m][i] = e
      BY <1>5, <2>1, <2>3
    <2> QED
      BY <1>2, <1>4, <1>5, <2>2, <2>3
  <1> QED
    BY <1>1, <1>5 DEF EventsKnown

(* Timers are written for tasks that were admitted. *)
TimerWritten ==
    \/ UNCHANGED timers
    \/ \E n \in Node, t \in Task : \E r :
          /\ timers' = [timers EXCEPT ![n][t] = r]
          /\ r.armed \/ r.orphans > 0 => Known(t)

FiredMoved ==
    \/ UNCHANGED timerCh
    \/ \E n \in Node : \E t : timerCh' = [timerCh EXCEPT ![n] = Append(@, t)] /\ Known(t)
    \/ \E n \in Node, t \in Task : Expire(n, t)

LEMMA TimersKept ==
    ASSUME TypeOK, TimersKnown, LogGrows, TimerWritten, FiredMoved
    PROVE  TimersKnown'
  <1>1. \A t : Known(t) => Known(t)'
    BY KnownKept
  <1>2. ASSUME NEW n \in Node, NEW t \in Task, timers'[n][t].armed \/ timers'[n][t].orphans > 0
        PROVE  Known(t)
    <2>1. timers \in [Node -> [Task -> Timer]]
      BY DEF TypeOK, EngineTypeOK
    <2>2. CASE UNCHANGED timers
      BY <1>2, <2>2 DEF TimersKnown
    <2>3. ASSUME NEW m \in Node, NEW u \in Task, NEW r,
                 timers' = [timers EXCEPT ![m][u] = r],
                 r.armed \/ r.orphans > 0 => Known(u)
          PROVE  Known(t)
      <3>1. timers'[n][t] = IF n = m /\ t = u THEN r ELSE timers[n][t]
        BY <2>1, <2>3
      <3> QED
        BY <1>2, <2>3, <3>1 DEF TimersKnown
    <2> QED
      BY <2>2, <2>3 DEF TimerWritten
  <1>3. ASSUME NEW n \in Node, NEW i \in 1 .. Len(timerCh'[n])
        PROVE  Known(timerCh'[n][i])
    <2>1. timerCh \in [Node -> Seq(Task)] /\ timerCh[n] \in Seq(Task)
      BY DEF TypeOK, EngineTypeOK
    <2>2. \A j \in 1 .. Len(timerCh[n]) : Known(timerCh[n][j])
      BY DEF TimersKnown
    <2>3. CASE timerCh'[n] = timerCh[n]
      BY <1>3, <2>2, <2>3
    <2>4. ASSUME NEW m \in Node, NEW t, timerCh' = [timerCh EXCEPT ![m] = Append(@, t)],
                 Known(t)
          PROVE  Known(timerCh'[n][i])
      <3>1. \/ i \in 1 .. Len(timerCh[n]) /\ timerCh'[n][i] = timerCh[n][i]
            \/ timerCh'[n][i] = t
        BY <1>3, <2>1, <2>4
      <3> QED
        BY <2>2, <2>4, <3>1
    <2>5. CASE timerCh'[n] = Tail(timerCh[n]) /\ timerCh[n] # <<>>
      <3>1. i + 1 \in 1 .. Len(timerCh[n]) /\ timerCh'[n][i] = timerCh[n][i + 1]
        BY <1>3, <2>1, <2>5
      <3> QED
        BY <2>2, <3>1
    <2> QED
      BY <2>1, <2>3, <2>4, <2>5 DEF FiredMoved, Expire
  <1> QED
    BY <1>1, <1>2, <1>3 DEF TimersKnown

(* Ballots are opened for rounds there are. *)
LEMMA BallotsKept ==
    ASSUME TypeOK, BallotsKnown, LogGrows,
           \/ UNCHANGED ballots
           \/ \E b : EndBallot(b)
           \/ \E b : /\ ballots' = ballots (+) SetToBag({b})
                     /\ RoundExists(log, b.task, b.round)
    PROVE  BallotsKnown'
  <1>1. \A b \in DOMAIN ballots' : RoundExists(log, b.task, b.round)
    <2>1. CASE UNCHANGED ballots
      BY <2>1 DEF BallotsKnown
    <2>2. ASSUME NEW b, EndBallot(b)
          PROVE  DOMAIN ballots' \subseteq DOMAIN ballots
      BY <2>2 DEF EndBallot, (-), SetToBag, BagToSet
    <2>3. ASSUME NEW b, ballots' = ballots (+) SetToBag({b}),
                 RoundExists(log, b.task, b.round)
          PROVE  DOMAIN ballots' \subseteq DOMAIN ballots \cup {b}
      BY <2>3 DEF (+), SetToBag, BagToSet
    <2> QED
      BY <2>1, <2>2, <2>3 DEF BallotsKnown
  <1> QED
    BY <1>1, KnownKept DEF BallotsKnown

-----------------------------------------------------------------------------
(***************************************************************************)
(* The two kinds of steps of an engine, and what its leader sees.          *)
(***************************************************************************)
EventTaken == UNCHANGED events \/ \E n \in Node : \E type : Handle(n, type)
BallotMoved ==
    \/ UNCHANGED ballots
    \/ \E b : EndBallot(b)
    \/ \E b : ballots' = ballots (+) SetToBag({b}) /\ RoundExists(log, b.task, b.round)

Around == EventTaken /\ TimerWritten /\ FiredMoved /\ BallotMoved

Still == UNCHANGED loop \/ \E n \in Node : \E place : Moves(n, place)

LEMMA QuietReign ==
    ASSUME TypeOK, Reigning, Unwritten, Still, Around,
           UNCHANGED <<leader, term, applied, task>>
    PROVE  Reigning'
  <1>1. LogGrows
    BY DEF LogGrows, Unwritten
  <1>2. Core'
    BY QuietCore DEF Reigning, Still
  <1>3. EventsKnown'
    BY <1>1, EventsKept DEF Reigning, Around, EventTaken
  <1>4. TimersKnown'
    BY <1>1, TimersKept DEF Reigning, Around
  <1>5. BallotsKnown'
    BY <1>1, BallotsKept DEF Reigning, Around, BallotMoved
  <1> QED
    BY <1>2, <1>3, <1>4, <1>5 DEF Reigning

LEMMA UpdateReign ==
    ASSUME TypeOK, Reigning, NEW n \in Node, NEW t \in Task, NEW s \in TaskState, NEW place,
           Writes(n, t, s, place), UNCHANGED task \/ RunsAhead(n, t), Around
    PROVE  Reigning'
  <1>1. LogGrows /\ UNCHANGED applied
    BY CommandsTyped DEF LogGrows, Writes
  <1>2. Core'
    BY UpdateCore DEF Reigning
  <1>3. EventsKnown'
    BY <1>1, EventsKept DEF Reigning, Around, EventTaken
  <1>4. TimersKnown'
    BY <1>1, TimersKept DEF Reigning, Around
  <1>5. BallotsKnown'
    BY <1>1, BallotsKept DEF Reigning, Around, BallotMoved
  <1> QED
    BY <1>2, <1>3, <1>4, <1>5 DEF Reigning

(* With MaxTerm = 0 nothing takes leadership away. *)
LEMMA LeaderStays ==
    ASSUME TypeOK, MaxTerm = 0, NEW n
    PROVE  /\ ~LeaderMovesTo(n)
           /\ DropLeader(n) \/ TransferLeadership(n) \/ KeepsLeading => UNCHANGED <<leader, term>>
  <1>1. \A m : ~LeaderMovesTo(m)
    BY DEF LeaderMovesTo, TypeOK, FSMTypeOK
  <1> QED
    BY <1>1 DEF DropLeader, TransferLeadership, KeepsLeading

LEMMA FallbackNotRefused ==
    ASSUME TypeOK, MaxTerm = 0, NEW n
    PROVE  ~FinalizeFallbackRefused(n)
  BY LeaderStays DEF FinalizeFallbackRefused

(* The places that any engine may go to. *)
LEMMA PlacesFit ==
    ASSUME NEW L, NEW k, NEW leads
    PROVE  /\ PlaceFits(L, k, leads, Idle)
           /\ \A t : PlaceFits(L, k, leads, Brainstorming(t))
  BY DEF PlaceFits, Idle, Brainstorming

(* Whoever works on a task is the leader and waits for nothing. *)
LEMMA WorkerLeads ==
    ASSUME TypeOK, Core, NEW n \in Node
    PROVE  /\ loop[n].at \notin {"idle", "brainstorming"} => n = leader
           /\ loop[n].at \in {"idle", "brainstorming", "aggregating", "revising", "rewarding"} =>
                ~Waits(n) /\ Settled(n)
           /\ loop[n] = Idle => loop[n].at = "idle"
  BY DEF Core, PlaceOK, PlaceFits, Waits, Settled, Idle

(* A replica only holds tasks that were admitted. *)
LEMMA HeldIsAdmitted ==
    ASSUME TypeOK, Core, NEW n \in Node, NEW t \in Task, task[n][t].status # "absent"
    PROVE  AdmittedBy(log, t, applied[n]) /\ Known(t)
  <1>1. RecordOK(n, t) /\ AdmittedFirst(log, t)
    BY DEF Core, History, HistoryOf
  <1>2. AdmittedBy(log, t, applied[n])
    BY <1>1, Numbers, RecordTells DEF RecordOK, Ahead
  <1> QED
    BY <1>2, Numbers, AdmittedMonotone DEF Known

(* What a leader that waits for nothing reads in its record is the truth. *)
LEMMA LeaderSees ==
    ASSUME TypeOK, Core, NEW n \in Node, n = leader, ~Waits(n), NEW t \in Task
    PROVE  /\ \A i \in UpdatesIn(log, t) : i <= applied[n]
           /\ task[n][t].status = "admitted" => UpdatesIn(log, t) = {}
           /\ task[n][t].status = "proposal" =>
                \E i \in ProposalsIn(log, t) :
                   /\ LastBy(log, t, i, Len(log)) /\ task[n][t] = log[i].state
                   /\ task[n][t].round \in 1 .. MaxRounds
  <1> DEFINE s == task[n][t]
             k == applied[n]
  <1>1. \A i \in UpdatesIn(log, t) : i <= k
    BY DEF Core, Synced
  <1>2. Current(log, s, t, k) /\ AdmittedFirst(log, t) /\ Numbered(log, t)
    BY DEF Core, RecordOK, Ahead, History, HistoryOf
  <1>3. log \in Seq(Command) /\ k \in Nat
    BY Numbers
  <1>4. s.status = "admitted" => UpdatesIn(log, t) = {}
    BY <1>1, <1>2, <1>3, RecordTells
  <1>5. ASSUME s.status = "proposal"
        PROVE  \E i \in ProposalsIn(log, t) :
                   /\ LastBy(log, t, i, Len(log)) /\ s = log[i].state
                   /\ s.round \in 1 .. MaxRounds
    <2>1. PICK i \in ProposalsIn(log, t) : LastBy(log, t, i, k) /\ s = log[i].state
      BY <1>2, <1>3, <1>5, RecordTells
    <2>2. LastBy(log, t, i, Len(log))
      BY <1>1, <1>3, <2>1, IndicesTyped DEF LastBy
    <2>3. s.round \in 1 .. MaxRounds
      BY <1>2, <2>1 DEF Numbered
    <2> QED
      BY <2>1, <2>2, <2>3
  <1> QED
    BY <1>1, <1>4, <1>5

(* The event the goroutine takes is about something in the log.  *)
LEMMA TakenFits ==
    ASSUME TypeOK, EventsKnown, NEW n \in Node, NEW type, Handle(n, type)
    PROVE  /\ Subject(n) \in Task
           /\ type = "TaskAdmitted" => Known(Subject(n))
           /\ type = "VoteSubmitted" =>
                \E j \in ProposalsIn(log, Subject(n)) : j <= applied[n]
  <1>1. events[n] \in Seq(Event) /\ events[n] # <<>> /\ Head(events[n]).type = type
    BY DEF Handle, TypeOK, FSMTypeOK
  <1>2. 1 \in 1 .. Len(events[n]) /\ Head(events[n]) = events[n][1]
    BY <1>1
  <1>3. EventFits(log, applied[n], Head(events[n]))
    BY <1>2 DEF EventsKnown
  <1> QED
    BY <1>1, <1>3, HandleTyped DEF EventFits, Subject, Known

(* So is the timer. *)
LEMMA ExpiredIsKnown ==
    ASSUME TypeOK, TimersKnown, NEW n \in Node, NEW t \in Task, Expire(n, t)
    PROVE  Known(t)
  <1>1. timerCh[n] \in Seq(Task) /\ timerCh[n] # <<>> /\ t = Head(timerCh[n])
    BY DEF Expire, TypeOK, EngineTypeOK
  <1>2. 1 \in 1 .. Len(timerCh[n]) /\ t = timerCh[n][1]
    BY <1>1
  <1> QED
    BY <1>2 DEF TimersKnown

-----------------------------------------------------------------------------
(***************************************************************************)
(* One lemma per group of actions.                                         *)
(***************************************************************************)

(* Nothing but the log changes, and not by an update. *)
LEMMA SubmitReign ==
    ASSUME TypeOK, Reigning, NEW t \in Task, SubmitTask(t)
    PROVE  Reigning'
  <1>1. AdmitTask(t) \in Command /\ AdmitTask(t).type # "UpdateTask"
    BY DEF AdmitTask, Command
  <1>2. ~AdmittedBy(log, t, Len(log))
    BY DEF SubmitTask, Submitted, AdmittedBy
  <1>3. Unwritten
    BY <1>1, <1>2 DEF Unwritten, MayFollow, SubmitTask, Commit
  <1>4. Still /\ Around /\ UNCHANGED <<leader, term, applied, task>>
    BY DEF SubmitTask, Still, Around, EventTaken, TimerWritten, FiredMoved, BallotMoved,
           replicaVars, store, engineVars, timerVars
  <1> QED
    BY <1>3, <1>4, QuietReign

(* The answers and reputations that may be written at any moment. *)
LEMMA PlainCommit ==
    ASSUME NEW c \in Command, Commit(c), c.type \in {"SubmitAnswer", "UpdateReputation"}
    PROVE  Unwritten
  BY DEF Unwritten, MayFollow, Commit

LEMMA BrainstormReign ==
    ASSUME TypeOK, Reigning, NEW n \in Node,
           HandleTaskAdmitted(n) \/ Brainstorm(n) \/ BrainstormFails(n)
    PROVE  Reigning'
  <1>1. CASE HandleTaskAdmitted(n)
    <2>1. Handle(n, "TaskAdmitted") /\ Subject(n) \in Task /\ Known(Subject(n))
      BY <1>1, TakenFits DEF HandleTaskAdmitted, Reigning
    <2>2. Moves(n, Brainstorming(Subject(n)))
      BY <1>1, <2>1, WorkerLeads, PlacesFit DEF HandleTaskAdmitted, Handle, Moves, Reigning
    <2>3. TimerWritten
      BY <1>1, <2>1 DEF HandleTaskAdmitted, TimerWritten, StartTimer
    <2>4. /\ Still /\ Around /\ Unwritten /\ UNCHANGED <<leader, term, applied, task>>
      BY <1>1, <2>1, <2>2, <2>3 DEF HandleTaskAdmitted, Still, Around, EventTaken, FiredMoved,
         BallotMoved, Unwritten, raftVars, store
    <2> QED
      BY <2>4, QuietReign
  <1>2. CASE Brainstorm(n) \/ BrainstormFails(n)
    <2>1. loop[n].at = "brainstorming" /\ loop[n].task \in Task
      BY <1>2, Numbers, LoopFields DEF Brainstorm, BrainstormFails
    <2>2. Moves(n, Idle)
      BY <1>2, <2>1, WorkerLeads, PlacesFit DEF Brainstorm, BrainstormFails, Moves, Reigning
    <2>3. Unwritten
      <3>1. /\ SubmitAnswer(loop[n].task, n) \in Command
            /\ SubmitAnswer(loop[n].task, n).type = "SubmitAnswer"
        BY <2>1 DEF SubmitAnswer, Command
      <3> QED
        BY <1>2, <3>1, PlainCommit DEF Brainstorm, BrainstormFails, Unwritten, raftVars
    <2>4. Still /\ Around /\ UNCHANGED <<leader, term, applied, task>>
      BY <1>2, <2>2 DEF Brainstorm, BrainstormFails, Still, Around, EventTaken, TimerWritten,
         FiredMoved, BallotMoved, raftVars, replicaVars, store, timerVars
    <2> QED
      BY <2>3, <2>4, QuietReign
  <1> QED
    BY <1>1, <1>2

(* A place where a proposal is being made for an admitted task.  *)
LEMMA AggregatingFits ==
    ASSUME TypeOK, Core, NEW n \in Node, n = leader, ~Waits(n), NEW t \in Task,
           task[n][t].status = "admitted", NEW drops
    PROVE  PlaceFits(log, applied[n], n = leader, Aggregating(t, drops)) /\ Known(t)
  <1>1. UpdatesIn(log, t) = {}
    BY LeaderSees
  <1>2. AdmittedBy(log, t, applied[n]) /\ Known(t)
    BY HeldIsAdmitted
  <1>3. Aggregating(t, drops).at = "aggregating" /\ Aggregating(t, drops).task = t
    BY DEF Aggregating
  <1> QED
    BY <1>1, <1>2, <1>3 DEF PlaceFits

LEMMA AnswerReign ==
    ASSUME TypeOK, MaxTerm = 0, Reigning, NEW n \in Node,
           IgnoreAnswer(n) \/ LateAnswer(n) \/ AwaitAnswers(n) \/ StartProposal(n)
    PROVE  Reigning'
  <1>1. CASE IgnoreAnswer(n) \/ LateAnswer(n) \/ AwaitAnswers(n)
    <2>1. UNCHANGED <<leader, term>>
      BY <1>1, LeaderStays DEF IgnoreAnswer, LateAnswer, AwaitAnswers, raftVars
    <2>2. Unwritten /\ Still /\ Around /\ UNCHANGED <<applied, task>>
      BY <1>1 DEF IgnoreAnswer, LateAnswer, AwaitAnswers, Unwritten, Still, Around, EventTaken,
         TimerWritten, FiredMoved, BallotMoved, raftVars, store, engineVars, timerVars
    <2> QED
      BY <2>1, <2>2, QuietReign
  <1>2. CASE StartProposal(n)
    <2> DEFINE t == Subject(n)
    <2>1. /\ Handle(n, "AnswerSubmitted") /\ t \in Task /\ n = leader
          /\ ~Waits(n) /\ Settled(n) /\ task[n][t].status = "admitted"
      BY <1>2, TakenFits, WorkerLeads DEF StartProposal, Handle, IsLeader, Live, Reigning
    <2>2. Moves(n, Aggregating(t, TRUE)) /\ Known(t)
      BY <1>2, <2>1, AggregatingFits DEF StartProposal, Moves, Reigning
    <2>3. TimerWritten
      BY <1>2, <2>1, <2>2 DEF StartProposal, TimerWritten, StartTimer
    <2>4. Unwritten /\ Still /\ Around /\ UNCHANGED <<leader, term, applied, task>>
      BY <1>2, <2>1, <2>2, <2>3 DEF StartProposal, Unwritten, Still, Around, EventTaken,
         FiredMoved, BallotMoved, raftVars, store
    <2> QED
      BY <2>4, QuietReign
  <1> QED
    BY <1>1, <1>2

(* Where the leader waits for the update it proposes. *)
LEMMA WaitingPlaces ==
    ASSUME Core, NEW d, NEW status, NEW voters
    PROVE  /\ Applying(d).at = "applying" /\ Applying(d).index = Len(log) + 1
           /\ Applying(d).term = 0
           /\ Finalizing(status, voters).at = "finalizing"
           /\ Finalizing(status, voters).index = Len(log) + 1
           /\ Finalizing(status, voters).term = 0
  BY DEF Core, Applying, Finalizing

LEMMA ProposeReign ==
    ASSUME TypeOK, MaxTerm = 0, Reigning, NEW n \in Node,
           Propose(n) \/ ProposeRefused(n) \/ AggregateFails(n)
    PROVE  Reigning'
  <1> DEFINE t == loop[n].task
  <1>1. loop[n].at = "aggregating" /\ t \in Task /\ n = leader /\ ~Waits(n) /\ Settled(n)
    <2>1. loop[n].at = "aggregating"
      BY DEF Propose, ProposeRefused, Aggregated, AggregateFails
    <2> QED
      BY <2>1, Numbers, LoopFields, WorkerLeads DEF Reigning
  <1>2. AdmittedBy(log, t, applied[n]) /\ UpdatesIn(log, t) = {} /\ Known(t)
    <2>1. AdmittedBy(log, t, applied[n]) /\ UpdatesIn(log, t) = {}
      BY <1>1 DEF Reigning, Core, PlaceOK, PlaceFits
    <2> QED
      BY <2>1, Numbers, AdmittedMonotone DEF Known
  <1>3. CASE Propose(n)
    <2> DEFINE s == FirstProposal(n)
    <2>1. s \in TaskState /\ s.status = "proposal" /\ s.round = 1
      BY DEF FirstProposal, TaskState, Status, Text
    <2>2. MayUpdate(log, t, s)
      BY <1>2, <2>1 DEF MayUpdate, NextRound, Known
    <2>3. Writes(n, t, s, Applying(loop[n].drops))
      BY <1>1, <1>3, <2>2, WaitingPlaces DEF Propose, Aggregated, Writes, Commit, Reigning
    <2>4. RunsAhead(n, t)
      BY <1>2, <1>3, <2>1 DEF Propose, Aggregated, RunsAhead
    <2>5. Around
      BY <1>3 DEF Propose, Aggregated, Around, EventTaken, TimerWritten, FiredMoved,
         BallotMoved, timerVars
    <2> QED
      BY <1>1, <2>1, <2>3, <2>4, <2>5, UpdateReign
  <1>4. CASE ProposeRefused(n)
    BY <1>1, <1>4 DEF ProposeRefused, IsLeader
  <1>5. CASE AggregateFails(n)
    <2>1. Moves(n, Idle)
      BY <1>1, <1>5, PlacesFit DEF AggregateFails, Moves
    <2>2. UNCHANGED <<leader, term>>
      BY <1>5, LeaderStays DEF AggregateFails
    <2>3. Unwritten /\ Still /\ Around /\ UNCHANGED <<applied, task>>
      BY <1>5, <2>1 DEF AggregateFails, Unwritten, Still, Around, EventTaken, TimerWritten,
         FiredMoved, BallotMoved, replicaVars, store, timerVars
    <2> QED
      BY <2>2, <2>3, QuietReign
  <1> QED
    BY <1>3, <1>4, <1>5

(* Raft.Apply never fails under one leader, it returns. *)
LEMMA CallReign ==
    ASSUME TypeOK, Reigning, NEW n \in Node,
           ApplyReturns(n) \/ ApplyFails(n) \/ FinalizeFails(n)
    PROVE  Reigning'
  <1>1. /\ loop[n].at \in {"applying", "finalizing"}
        /\ loop[n].index \in Nat /\ applied[n] \in Nat
    BY Numbers, LoopFields DEF ApplyReturns, ApplyFails, FinalizeFails
  <1>2. ~LeadershipLost(n)
    BY <1>1 DEF LeadershipLost, Reigning, Core, PlaceOK, PlaceFits
  <1>3. ApplyReturns(n)
    BY <1>2 DEF ApplyFails, FinalizeFails
  <1>4. Settled(n)
    BY <1>1, <1>3 DEF ApplyReturns, AppliedHere, Settled
  <1>5. Moves(n, Idle)
    BY <1>3, <1>4, PlacesFit DEF ApplyReturns, Moves
  <1>6. Unwritten /\ Still /\ Around /\ UNCHANGED <<leader, term, applied, task>>
    BY <1>3, <1>5 DEF ApplyReturns, Unwritten, Still, Around, EventTaken, TimerWritten,
       FiredMoved, BallotMoved, raftVars, replicaVars, store, timerVars
  <1> QED
    BY <1>6, QuietReign

(* The votes the leader counts are about the newest proposal in the log.  *)
LEMMA CountedIsProposal ==
    ASSUME TypeOK, Reigning, NEW n \in Node, CountVotes(n)
    PROVE  /\ n = leader /\ ~Waits(n) /\ Settled(n)
           /\ Subject(n) \in Task /\ Known(Subject(n))
           /\ AdmittedBy(log, Subject(n), applied[n])
           /\ Live(n) \in TaskState /\ Live(n).status = "proposal"
           /\ \E i \in ProposalsIn(log, Subject(n)) :
                 /\ LastBy(log, Subject(n), i, Len(log)) /\ Live(n) = log[i].state
                 /\ Live(n).round \in 1 .. MaxRounds
  <1> DEFINE t == Subject(n)
  <1>1. /\ Handle(n, "VoteSubmitted") /\ n = leader
        /\ Live(n).status \notin Final \cup {"absent"}
    BY DEF CountVotes, Decidable, IsLeader
  <1>2. ~Waits(n) /\ Settled(n)
    BY <1>1, WorkerLeads DEF Handle, Reigning
  <1>3. t \in Task /\ ProposalsIn(log, t) # {}
    BY <1>1, TakenFits DEF Reigning
  <1>4. Live(n) = task[n][t] /\ Live(n) \in TaskState
    BY <1>3, Numbers DEF Live
  <1>5. Live(n).status # "admitted"
    BY <1>1, <1>2, <1>3, <1>4, LeaderSees DEF Reigning, ProposalsIn
  <1>6. Live(n).status = "proposal"
    BY <1>1, <1>4, <1>5 DEF TaskState, Status, Final
  <1>7. AdmittedBy(log, t, applied[n]) /\ Known(t)
    BY <1>3, <1>4, <1>6, HeldIsAdmitted DEF Reigning
  <1> QED
    BY <1>1, <1>2, <1>3, <1>4, <1>6, <1>7, LeaderSees DEF Reigning

LEMMA VoteReign ==
    ASSUME TypeOK, Reigning, NEW n \in Node,
           IgnoreVote(n) \/ AwaitVotes(n) \/ StartRevision(n)
    PROVE  Reigning'
  <1>1. CASE IgnoreVote(n) \/ AwaitVotes(n)
    <2>1. Unwritten /\ Still /\ Around /\ UNCHANGED <<leader, term, applied, task>>
      BY <1>1 DEF IgnoreVote, AwaitVotes, CountVotes, Unwritten, Still, Around, EventTaken,
         TimerWritten, FiredMoved, BallotMoved, raftVars, store, engineVars, timerVars
    <2> QED
      BY <2>1, QuietReign
  <1>2. CASE StartRevision(n)
    <2> DEFINE t == Subject(n)
               place == Revising(t, LiveVoters(n))
    <2>1. CountVotes(n)
      BY <1>2 DEF StartRevision
    <2>2. PICK i \in ProposalsIn(log, t) :
             LastBy(log, t, i, Len(log)) /\ Live(n) = log[i].state
      BY <2>1, CountedIsProposal
    <2>3. Live(n).round < MaxRounds
      BY <1>2 DEF StartRevision, LiveVerdict, Verdict, AfterRejection, AfterSplit
    <2>4. n = leader /\ place.at = "revising" /\ place.task = t
      BY <2>1, CountedIsProposal DEF Revising
    <2>5. PlaceFits(log, applied[n], n = leader, place)
      BY <2>2, <2>3, <2>4 DEF PlaceFits
    <2>6. Moves(n, place)
      BY <1>2, <2>1, <2>5, CountedIsProposal DEF StartRevision, Moves
    <2>7. Unwritten /\ Still /\ Around /\ UNCHANGED <<leader, term, applied, task>>
      BY <1>2, <2>6 DEF StartRevision, CountVotes, Unwritten, Still, Around, EventTaken,
         TimerWritten, FiredMoved, BallotMoved, raftVars, store, timerVars
    <2> QED
      BY <2>7, QuietReign
  <1> QED
    BY <1>1, <1>2

(* What a revising leader reads in its record. *)
LEMMA RevisedIsProposal ==
    ASSUME TypeOK, Reigning, NEW n \in Node, loop[n].at = "revising"
    PROVE  /\ n = leader /\ ~Waits(n) /\ Settled(n) /\ loop[n].task \in Task
           /\ Known(loop[n].task) /\ AdmittedBy(log, loop[n].task, applied[n])
           /\ task[n][loop[n].task] \in TaskState
           /\ task[n][loop[n].task].status = "proposal"
           /\ \E i \in ProposalsIn(log, loop[n].task) :
                 /\ LastBy(log, loop[n].task, i, Len(log))
                 /\ task[n][loop[n].task] = log[i].state /\ log[i].state.round < MaxRounds
  <1> DEFINE t == loop[n].task
             s == task[n][t]
             k == applied[n]
  <1>1. n = leader /\ ~Waits(n) /\ Settled(n) /\ t \in Task
    BY Numbers, LoopFields, WorkerLeads DEF Reigning
  <1>2. PICK i \in ProposalsIn(log, t) :
           LastBy(log, t, i, Len(log)) /\ log[i].state.round < MaxRounds
    BY DEF Reigning, Core, PlaceOK, PlaceFits
  <1>3. AdmittedFirst(log, t) /\ Current(log, s, t, k)
    BY <1>1 DEF Reigning, Core, History, HistoryOf, RecordOK, Ahead
  <1>4. log \in Seq(Command) /\ k \in Nat /\ Len(log) \in Nat /\ k <= Len(log) /\ s \in TaskState
    BY <1>1, Numbers
  <1>5. i \in UpdatesIn(log, t) /\ i <= k /\ log[i].state.status = "proposal"
    BY <1>1, <1>2, LeaderSees DEF Reigning, ProposalsIn
  <1>6. LastBy(log, t, i, k)
    BY <1>2, <1>4, <1>5, IndicesTyped DEF LastBy
  <1>7. Current(log, log[i].state, t, k)
    BY <1>5, <1>6 DEF Current
  <1>8. s = log[i].state
    BY <1>3, <1>4, <1>7, CurrentIsUnique
  <1>9. AdmittedBy(log, t, k) /\ Known(t)
    BY <1>1, <1>5, <1>8, HeldIsAdmitted DEF Reigning
  <1> QED
    BY <1>1, <1>2, <1>4, <1>5, <1>8, <1>9

LEMMA ReviseReign ==
    ASSUME TypeOK, Reigning, NEW n \in Node, Revise(n) \/ ReviseRefused(n)
    PROVE  Reigning'
  <1> DEFINE t == loop[n].task
             s == task[n][t]
             next == NextProposal(s, n)
  <1>1. /\ loop[n].at = "revising" /\ Revised(n)
        /\ n = leader /\ ~Waits(n) /\ t \in Task /\ s \in TaskState
        /\ AdmittedBy(log, t, applied[n]) /\ Known(t) /\ s.status = "proposal"
    <2>1. loop[n].at = "revising" /\ Revised(n)
      BY DEF Revise, ReviseRefused, Revised
    <2> QED
      BY <2>1, RevisedIsProposal
  <1>2. Revise(n)
    BY <1>1 DEF ReviseRefused, IsLeader
  <1>3. next \in TaskState /\ next.status = "proposal" /\ next.round = s.round + 1
    BY <1>1, RecordsTyped DEF NextProposal
  <1>4. MayUpdate(log, t, next)
    <2>1. PICK i \in ProposalsIn(log, t) :
             /\ LastBy(log, t, i, Len(log)) /\ s = log[i].state
             /\ log[i].state.round < MaxRounds
      BY <1>1, RevisedIsProposal
    <2>2. s.round + 1 <= MaxRounds
      <3>1. s.round \in Nat
        BY <1>1 DEF TaskState
      <3> QED
        BY <2>1, <3>1, TallyAssumption
    <2>3. NextRound(log, t, next)
      BY <1>3, <2>1, <2>2 DEF NextRound
    <2> QED
      BY <1>1, <2>3 DEF MayUpdate, Known
  <1>5. Writes(n, t, next, Applying(FALSE))
    BY <1>1, <1>2, <1>4, WaitingPlaces DEF Revise, Revised, Writes, Commit, Reigning
  <1>6. UNCHANGED task \/ RunsAhead(n, t)
    <2> DEFINE w == [s EXCEPT !.proposals = next.proposals]
    <2>1. w \in TaskState /\ w.status = s.status
      BY <1>1, <1>3 DEF TaskState
    <2>2. UNCHANGED task \/ task' = [task EXCEPT ![n][t] = w]
      BY <1>1 DEF Revised
    <2> QED
      BY <1>1, <2>1, <2>2 DEF RunsAhead
  <1>7. Around
    BY <1>1, <1>2 DEF Revised, Around, EventTaken, TimerWritten, FiredMoved, BallotMoved,
       timerVars
  <1> QED
    BY <1>1, <1>3, <1>5, <1>6, <1>7, UpdateReign

LEMMA RevisionFailureReign ==
    ASSUME TypeOK, Reigning, NEW n \in Node, ReviseFails(n) \/ ReviseFailureRefused(n)
    PROVE  Reigning'
  <1> DEFINE t == loop[n].task
             s == [task[n][t] EXCEPT !.status = "failed"]
  <1>1. /\ loop[n].at = "revising"
        /\ n = leader /\ ~Waits(n) /\ t \in Task /\ Known(t) /\ task[n][t] \in TaskState
    <2>1. loop[n].at = "revising"
      BY DEF ReviseFails, ReviseFailureRefused
    <2> QED
      BY <2>1, RevisedIsProposal
  <1>2. ReviseFails(n)
    BY <1>1 DEF ReviseFailureRefused, IsLeader
  <1>3. s \in TaskState /\ s.status = "failed"
    BY <1>1, RecordsTyped DEF Final, TaskState
  <1>4. MayUpdate(log, t, s)
    BY <1>1, <1>3, RevisedIsProposal DEF MayUpdate, Verdicts, Known
  <1>5. Writes(n, t, s, Finalizing("failed", loop[n].voters))
    BY <1>1, <1>2, <1>4, WaitingPlaces
    DEF ReviseFails, Writes, Commit, Reigning, replicaVars, store
  <1>6. Around /\ UNCHANGED task
    BY <1>2 DEF ReviseFails, Around, EventTaken, TimerWritten, FiredMoved, BallotMoved,
       timerVars, replicaVars, store
  <1> QED
    BY <1>1, <1>3, <1>5, <1>6, UpdateReign

LEMMA FinalizeReign ==
    ASSUME TypeOK, Reigning, NEW n \in Node, Finalize(n) \/ FinalizeFallback(n)
    PROVE  Reigning'
  <1> DEFINE t == Subject(n)
             s == Live(n)
             r == BestRound(votes[n], t, s.round)
  <1>1. /\ CountVotes(n) /\ n = leader /\ ~Waits(n) /\ t \in Task /\ Known(t)
        /\ AdmittedBy(log, t, applied[n])
        /\ s \in TaskState /\ s.status = "proposal"
    BY CountedIsProposal DEF Finalize, FinalizeFallback
  <1>2. PICK i \in ProposalsIn(log, t) :
           LastBy(log, t, i, Len(log)) /\ s = log[i].state /\ s.round \in 1 .. MaxRounds
    BY <1>1, CountedIsProposal
  <1>3. s.round \in Nat \ {0}
    BY <1>2, TallyAssumption
  <1>4. ASSUME NEW status \in Final, NEW w \in TaskState, Settle(n, status, w),
               w.round \in 1 .. s.round, UNCHANGED task \/ RunsAhead(n, t)
        PROVE  Reigning'
    <2> DEFINE u == [w EXCEPT !.status = status]
    <2>1. u \in TaskState /\ u.status = status /\ u.round = w.round
      BY <1>4, RecordsTyped DEF TaskState
    <2>2. MayUpdate(log, t, u)
      BY <1>1, <1>2, <1>4, <2>1 DEF MayUpdate, Verdicts, Final, Known
    <2>3. Writes(n, t, u, Finalizing(status, LiveVoters(n)))
      BY <1>1, <1>4, <2>2, WaitingPlaces DEF Settle, Writes, Commit, Reigning
    <2>4. Around
      BY <1>1, <1>4 DEF Settle, CountVotes, Around, EventTaken, TimerWritten, FiredMoved,
         BallotMoved, timerVars
    <2> QED
      BY <1>1, <1>4, <2>1, <2>3, <2>4, UpdateReign
  <1>5. CASE Finalize(n)
    <2>1. Settle(n, LiveVerdict(n), s) /\ LiveVerdict(n) \in Final /\ UNCHANGED task
      BY <1>5 DEF Finalize
    <2>2. s.round \in 1 .. s.round
      BY <1>3
    <2> QED
      BY <1>1, <1>4, <2>1, <2>2
  <1>6. CASE FinalizeFallback(n)
    <2> DEFINE w == FallBackTo(s, r)
    <2>1. r \in 1 .. s.round
      <3>1. Agents(votes[n])
        BY ReplicaVotesCount
      <3>2. Candidates(votes[n], t, s.round) # {}
        BY <1>3, <1>6, <3>1, DoneVerdictHasQuorum DEF FinalizeFallback, LiveVerdict
      <3> QED
        BY <1>3, <3>1, <3>2, BestRoundExists
    <2>2. w \in TaskState /\ w.round = r /\ w.status = "proposal"
      <3>1. r \in Nat
        BY <1>3, <2>1
      <3> QED
        BY <1>1, <3>1, RecordsTyped DEF FallBackTo, TaskState
    <2>3. Settle(n, "done", w) /\ task' = [task EXCEPT ![n][t] = w]
      BY <1>6 DEF FinalizeFallback
    <2>4. RunsAhead(n, t)
      BY <1>1, <2>2, <2>3 DEF RunsAhead
    <2> HIDE DEF w, r
    <2> QED
      BY <1>4, <2>1, <2>2, <2>3, <2>4 DEF Final
  <1> QED
    BY <1>5, <1>6

(* A ballot is opened for a round that is in the log. *)
LEMMA UpdatedReign ==
    ASSUME TypeOK, Reigning, NEW n \in Node, CompleteTask(n) \/ OpenBallot(n)
    PROVE  Reigning'
  <1> DEFINE t == Subject(n)
  <1>1. /\ Handle(n, "TaskUpdated") /\ t \in Task /\ ~Waits(n)
        /\ Live(n) = task[n][t] /\ task[n][t].status # "absent"
    <2>1. Handle(n, "TaskUpdated") /\ Live(n) = task[n][t] /\ task[n][t].status # "absent"
      BY DEF CompleteTask, OpenBallot, Live, Final
    <2> QED
      BY <2>1, TakenFits, WorkerLeads DEF Handle, Reigning
  <1>2. CASE CompleteTask(n)
    <2>1. Known(t)
      BY <1>1, HeldIsAdmitted DEF Reigning
    <2>2. TimerWritten
      BY <1>1, <1>2, <2>1 DEF CompleteTask, StopTimer, TimerWritten
    <2>3. Unwritten /\ Still /\ Around /\ UNCHANGED <<leader, term, applied, task>>
      BY <1>1, <1>2, <2>2 DEF CompleteTask, Unwritten, Still, Around, EventTaken, FiredMoved,
         BallotMoved, raftVars, store
    <2> QED
      BY <2>3, QuietReign
  <1>3. CASE OpenBallot(n)
    <2> DEFINE b == [agent |-> n, task |-> t, round |-> Live(n).round, text |-> Live(n).result]
    <2>1. RoundExists(log, t, Live(n).round)
      <3>1. Current(log, task[n][t], t, applied[n]) /\ AdmittedFirst(log, t)
        BY <1>1 DEF Reigning, Core, RecordOK, Ahead, History, HistoryOf
      <3>2. Live(n).status = "proposal"
        BY <1>3 DEF OpenBallot
      <3> QED
        BY <1>1, <3>1, <3>2, Numbers, RecordTells DEF RoundExists
    <2>2. ballots' = ballots (+) SetToBag({b}) /\ b.task = t /\ b.round = Live(n).round
      BY <1>3 DEF OpenBallot
    <2> HIDE DEF b
    <2>3. BallotMoved
      BY <2>1, <2>2 DEF BallotMoved
    <2>4. Unwritten /\ Still /\ Around /\ UNCHANGED <<leader, term, applied, task>>
      BY <1>1, <1>3, <2>3 DEF OpenBallot, Unwritten, Still, Around, EventTaken, FiredMoved,
         TimerWritten, raftVars, store, timerVars
    <2> QED
      BY <2>4, QuietReign
  <1> QED
    BY <1>2, <1>3

LEMMA BallotReign ==
    ASSUME TypeOK, Reigning, NEW n \in Node, VoteOf(n)
    PROVE  Reigning'
  <1>1. PICK b \in BagToSet(ballots) : (\E ok \in BOOLEAN : CastVote(b, ok)) \/ LoseVote(b)
    BY DEF VoteOf
  <1>2. /\ EndBallot(b) /\ b \in Ballot /\ RoundExists(log, b.task, b.round)
    <2>1. EndBallot(b)
      BY <1>1 DEF CastVote, LoseVote
    <2>2. b \in DOMAIN ballots
      BY DEF BagToSet
    <2> QED
      BY <2>1, <2>2, BallotBag DEF Reigning, BallotsKnown
  <1>3. Unwritten
    <2>1. ASSUME NEW ok \in BOOLEAN, CastVote(b, ok)
          PROVE  Unwritten
      <3> DEFINE v == [task |-> b.task, round |-> b.round, agent |-> b.agent,
                       accepted |-> ok, text |-> b.text]
                 c == SubmitVote(v)
      <3>1. /\ v \in Vote /\ v.task = b.task /\ v.round = b.round
            /\ b.task \in Task /\ b.agent \in Node
        BY <1>2 DEF Vote, Ballot
      <3>2. c \in Command /\ c.type = "SubmitVote" /\ c.vote = v
        BY <3>1, CommandsTyped DEF SubmitVote
      <3>3. log' = Append(log, c)
        BY <2>1 DEF CastVote, Commit
      <3> HIDE DEF v, c
      <3>4. MayFollow(log, c)
        BY <1>2, <3>1, <3>2 DEF MayFollow, RoundExists
      <3> QED
        BY <3>2, <3>3, <3>4 DEF Unwritten
    <2>2. CASE LoseVote(b)
      BY <2>2 DEF LoseVote, Unwritten, raftVars
    <2> QED
      BY <1>1, <2>1, <2>2
  <1>4. Still /\ Around /\ UNCHANGED <<leader, term, applied, task>>
    BY <1>1, <1>2 DEF CastVote, LoseVote, Still, Around, EventTaken, FiredMoved,
       BallotMoved, TimerWritten, raftVars, replicaVars, store, timerVars
  <1> QED
    BY <1>3, <1>4, QuietReign

LEMMA RewardReign ==
    ASSUME TypeOK, MaxTerm = 0, Reigning, NEW n \in Node,
           RewardLeader(n) \/ RewardVoter(n) \/ CheckTransfer(n)
    PROVE  Reigning'
  <1>1. /\ loop[n].at \in {"finalizing", "rewarding"} /\ n = leader /\ Settled(n)
        /\ loop[n].term = 0
    <2>1. loop[n].at \in {"finalizing", "rewarding"}
      BY DEF RewardLeader, RewardVoter, CheckTransfer
    <2>2. n = leader /\ loop[n].term = 0
      BY <2>1 DEF Reigning, Core, PlaceOK, PlaceFits
    <2>3. Settled(n)
      <3>1. loop[n].index \in Nat /\ applied[n] \in Nat
        BY <2>1, Numbers, LoopFields
      <3>2. loop[n].at = "finalizing" => loop[n].index <= applied[n]
        BY <3>1 DEF RewardLeader, RewardVoter, CheckTransfer, AppliedHere
      <3> QED
        BY <2>1, <3>2 DEF Settled, Waits
    <2> QED
      BY <2>1, <2>2, <2>3
  <1>2. ASSUME NEW a \in Node, NEW x \in 0 .. FullReputation, NEW due, Reward(n, a, x, due)
        PROVE  Reigning'
    <2> DEFINE place == Rewarding(loop[n].status, due, Len(log) + 1, term)
    <2>1. Goto(n, place) /\ Commit(UpdateReputation(a, x))
      BY <1>1, <1>2 DEF Reward, IsLeader
    <2>2. UpdateReputation(a, x) \in Command /\ UpdateReputation(a, x).type = "UpdateReputation"
      BY DEF UpdateReputation, Command
    <2>3. place.at = "rewarding" /\ place.term = 0
      BY DEF Rewarding, Reigning, Core
    <2>4. Moves(n, place)
      BY <1>1, <2>1, <2>3 DEF Moves, PlaceFits
    <2>5. Unwritten
      BY <2>1, <2>2, PlainCommit
    <2>6. Still /\ Around /\ UNCHANGED <<leader, term, applied, task>>
      BY <1>2, <2>4 DEF Reward, Still, Around, EventTaken, FiredMoved, BallotMoved,
         TimerWritten, replicaVars, store, timerVars
    <2> QED
      BY <2>5, <2>6, QuietReign
  <1>3. \A a \in Node : Reputation(n, a) \in Int
    <2> SUFFICES ASSUME NEW a \in Node
                 PROVE  Reputation(n, a) \in Int
      OBVIOUS
    <2>1. rep[n][a] \in 0 .. FullReputation \cup {Unset}
      BY DEF TypeOK, FSMTypeOK
    <2> QED
      BY <2>1 DEF Reputation, FullReputation, Unset
  <1>4. CASE RewardLeader(n)
    <2>1. LeaderReward(loop[n].status, Reputation(n, n)) \in 0 .. FullReputation
      BY <1>3, ClampRange DEF LeaderReward
    <2> QED
      BY <1>2, <1>4, <2>1 DEF RewardLeader
  <1>5. CASE RewardVoter(n)
    <2>1. PICK b \in loop[n].voters :
             Reward(n, b[1], VoterReward(loop[n].status, b[2], Reputation(n, b[1])),
                    loop[n].voters \ {b})
      BY <1>5 DEF RewardVoter
    <2>2. b[1] \in Node
      BY <1>1, Numbers, LoopFields
    <2>3. VoterReward(loop[n].status, b[2], Reputation(n, b[1])) \in 0 .. FullReputation
      BY <1>3, <2>2, ClampRange DEF VoterReward
    <2> QED
      BY <1>2, <2>1, <2>2, <2>3
  <1>6. CASE CheckTransfer(n)
    <2>1. UNCHANGED <<leader, term>>
      BY <1>6, LeaderStays DEF CheckTransfer
    <2>2. Moves(n, Idle)
      BY <1>1, <1>6, PlacesFit DEF CheckTransfer, Moves
    <2>3. Unwritten /\ Still /\ Around /\ UNCHANGED <<applied, task>>
      BY <1>6, <2>2 DEF CheckTransfer, Unwritten, Still, Around, EventTaken, FiredMoved,
         BallotMoved, TimerWritten, replicaVars, store, timerVars
    <2> QED
      BY <2>1, <2>3, QuietReign
  <1> QED
    BY <1>4, <1>5, <1>6

LEMMA FireReign ==
    ASSUME TypeOK, Reigning, NEW n \in Node, NEW t \in Task,
           TimerFires(n, t) \/ OrphanFires(n, t)
    PROVE  Reigning'
  <1>1. Known(t)
    BY DEF TimerFires, OrphanFires, Reigning, TimersKnown
  <1>2. TimerWritten /\ FiredMoved
    BY <1>1 DEF TimerFires, OrphanFires, StopTimer, TimerWritten, FiredMoved
  <1>3. Unwritten /\ Still /\ Around /\ UNCHANGED <<leader, term, applied, task>>
    BY <1>2 DEF TimerFires, OrphanFires, Unwritten, Still, Around, EventTaken, BallotMoved,
       raftVars, replicaVars, store
  <1> QED
    BY <1>3, QuietReign

LEMMA TimeoutReign ==
    ASSUME TypeOK, Reigning, NEW n \in Node, NEW t \in Task,
           ForceProposal(n, t) \/ FailTask(n, t) \/ FailTaskRefused(n, t)
    PROVE  Reigning'
  <1>1. Expire(n, t) /\ Known(t) /\ ~Waits(n) /\ Settled(n)
    <2>1. Expire(n, t)
      BY DEF ForceProposal, FailTask, FailTaskRefused
    <2> QED
      BY <2>1, ExpiredIsKnown, WorkerLeads DEF Expire, Reigning
  <1>2. FiredMoved
    BY <1>1 DEF FiredMoved
  <1>3. TimerWritten
    <2>1. \E r : timers' = [timers EXCEPT ![n][t] = r]
      BY DEF ForceProposal, FailTask, FailTaskRefused
    <2> QED
      BY <1>1, <2>1 DEF TimerWritten
  <1>4. Around
    BY <1>2, <1>3 DEF Around, EventTaken, BallotMoved, ForceProposal, FailTask,
       FailTaskRefused, replicaVars
  <1>5. CASE ForceProposal(n, t)
    <2>1. n = leader /\ task[n][t].status = "admitted"
      BY <1>5 DEF ForceProposal, CanForce, IsLeader
    <2>2. Moves(n, Aggregating(t, FALSE))
      BY <1>1, <1>5, <2>1, AggregatingFits DEF ForceProposal, Moves, Reigning
    <2>3. Unwritten /\ Still /\ UNCHANGED <<leader, term, applied, task>>
      BY <1>5, <2>2 DEF ForceProposal, Unwritten, Still, raftVars, replicaVars, store
    <2> QED
      BY <1>4, <2>3, QuietReign
  <1>6. CASE FailTask(n, t)
    <2>1. n = leader
      BY <1>6 DEF FailTask, IsLeader
    <2>2. TimedOutTask \in TaskState
      BY DEF TimedOutTask, TaskState, Status, Text
    <2>3. MayUpdate(log, t, TimedOutTask)
      BY <1>1 DEF MayUpdate, Known
    <2>4. Writes(n, t, TimedOutTask, Applying(FALSE))
      BY <1>1, <1>6, <2>1, <2>3, WaitingPlaces
      DEF FailTask, Writes, Commit, Reigning, replicaVars, store
    <2>5. UNCHANGED task
      BY <1>6 DEF FailTask, replicaVars, store
    <2> QED
      BY <1>4, <2>2, <2>4, <2>5, UpdateReign
  <1>7. CASE FailTaskRefused(n, t)
    <2>1. Unwritten /\ Still /\ UNCHANGED <<leader, term, applied, task>>
      BY <1>7 DEF FailTaskRefused, Unwritten, Still, raftVars, replicaVars, store
    <2> QED
      BY <1>4, <2>1, QuietReign
  <1> QED
    BY <1>5, <1>6, <1>7

LEMMA ReplicateReign ==
    ASSUME TypeOK, Reigning, NEW n \in Node, Replicate(n)
    PROVE  Reigning'
  <1>1. TakesNext(n)
    BY ReplicateTakes
  <1>2. Core'
    BY <1>1, ReplicateCore DEF Reigning
  <1>3. EventsKnown'
    BY EventsReplicated DEF Reigning
  <1>4. TimersKnown' /\ BallotsKnown'
    BY <1>1 DEF TakesNext, Reigning, TimersKnown, BallotsKnown, Known
  <1> QED
    BY <1>2, <1>3, <1>4 DEF Reigning

-----------------------------------------------------------------------------
(***************************************************************************)
(* The invariant.                                                          *)
(***************************************************************************)
LEMMA InitReign == Init => Reigning
  <1> SUFFICES ASSUME Init
               PROVE  Reigning
    OBVIOUS
  <1>1. /\ log = <<>> /\ Len(log) = 0 /\ term = 0
        /\ \A n \in Node : /\ applied[n] = 0 /\ loop[n] = Idle
                           /\ events[n] = <<>> /\ timerCh[n] = <<>>
                           /\ \A t \in Task : task[n][t] = Absent /\ timers[n][t] = NoTimer
        /\ DOMAIN ballots = {}
    BY DEF Init, FSMInit, EmptyBag, SetToBag
  <1>2. \A t : UpdatesIn(log, t) = {} /\ ProposalsIn(log, t) = {}
    BY <1>1 DEF UpdatesIn, ProposalsIn
  <1>3. \A t, k : ~AdmittedBy(log, t, k)
    BY <1>1 DEF AdmittedBy
  <1>4. History(log)
    BY <1>1, <1>2 DEF History, HistoryOf, VotesKnown, AdmittedFirst, FinalStays, Numbered
  <1>5. Synced
    BY <1>2 DEF Synced
  <1>6. \A n \in Node : PlaceOK(n)
    BY <1>1, PlacesFit DEF PlaceOK
  <1>7. \A n \in Node, t \in Task : RecordOK(n, t)
    BY <1>1, <1>3 DEF RecordOK, Current
  <1>8. EventsKnown /\ TimersKnown /\ BallotsKnown
    BY <1>1 DEF EventsKnown, TimersKnown, BallotsKnown, NoTimer
  <1> QED
    BY <1>1, <1>4, <1>5, <1>6, <1>7, <1>8 DEF Reigning, Core

LEMMA StepReign ==
    ASSUME TypeOK, MaxTerm = 0, Reigning, NEW n \in Node, Step(n)
    PROVE  Reigning'
  <1>1. CASE Replicate(n)
    BY <1>1, ReplicateReign
  <1>2. CASE HandleEvent(n)
    BY <1>2, BrainstormReign, AnswerReign, UpdatedReign, VoteReign, FinalizeReign,
       FallbackNotRefused
    DEF HandleEvent
  <1>3. CASE HandleTimeout(n)
    BY <1>3, TimeoutReign DEF HandleTimeout
  <1>4. CASE CallSucceeds(n)
    BY <1>4, BrainstormReign, ProposeReign, ReviseReign DEF CallSucceeds
  <1>5. CASE CallFails(n)
    BY <1>5, BrainstormReign, ProposeReign, RevisionFailureReign DEF CallFails
  <1>6. CASE FinishCall(n)
    BY <1>6, CallReign, RewardReign DEF FinishCall
  <1>7. CASE Fire(n)
    BY <1>7, FireReign DEF Fire
  <1>8. CASE VoteOf(n)
    BY <1>8, BallotReign
  <1>9. CASE Elect(n)
    BY <1>9, LeaderStays DEF Elect
  <1> QED
    BY <1>1, <1>2, <1>3, <1>4, <1>5, <1>6, <1>7, <1>8, <1>9 DEF Step

LEMMA NextReign ==
    ASSUME TypeOK, MaxTerm = 0, Reigning, [Next]_vars
    PROVE  Reigning'
  <1>1. ASSUME NEW t \in Task, SubmitTask(t)
        PROVE  Reigning'
    BY <1>1, SubmitReign
  <1>2. ASSUME NEW n \in Node, Step(n)
        PROVE  Reigning'
    BY <1>2, StepReign
  <1>3. CASE UNCHANGED vars
    <2>1. Unwritten /\ Still /\ Around /\ UNCHANGED <<leader, term, applied, task>>
      BY <1>3 DEF vars, raftVars, replicaVars, store, engineVars, timerVars, Unwritten, Still,
         Around, EventTaken, TimerWritten, FiredMoved, BallotMoved
    <2> QED
      BY <2>1, QuietReign
  <1> QED
    BY <1>1, <1>2, <1>3 DEF Next

(***************************************************************************)
(* Under one leader every record of every replica is what the log says of  *)
(* its task, except the leader's own one between the moment it writes an   *)
(* update and the moment it applies it (engine.go 314-317, 512, 567-568);  *)
(* and the log tells the proper life of every task.                        *)
(***************************************************************************)
THEOREM ReignInvariant ==
    ASSUME MaxTerm = 0
    PROVE  Spec => []Reigning
  <1>1. TypeOK /\ Reigning /\ [Next]_vars => Reigning'
    BY NextReign
  <1> QED
    BY <1>1, InitReign, TypeCorrect, PTL DEF Spec

-----------------------------------------------------------------------------
(***************************************************************************)
(* What follows from it.                                                   *)
(***************************************************************************)

(* The sets the properties speak of. *)
LEMMA SameSets ==
    ASSUME NEW t
    PROVE  /\ Updates(t) = UpdatesIn(log, t) /\ Proposals(t) = ProposalsIn(log, t)
           /\ Finals(t) = {i \in UpdatesIn(log, t) : log[i].state.status \in Final}
           /\ Submitted(t) <=> Known(t)
  <1>1. Updates(t) = UpdatesIn(log, t)
    BY DEF Updates, Entries, UpdatesIn
  <1>2. Submitted(t) <=> Known(t)
    BY DEF Submitted, Known, AdmittedBy
  <1> QED
    BY <1>1, <1>2 DEF Proposals, ProposalsIn, Finals

(***************************************************************************)
(* Once a task is done or failed only handleTaskTimeout writes it again:   *)
(* late votes, late answers and late LLM results never do.                 *)
(***************************************************************************)
THEOREM FinalsStay ==
    ASSUME MaxTerm = 0
    PROVE  Spec => []FinalOverwrittenOnlyByTimeout
  <1>1. Reigning => FinalOverwrittenOnlyByTimeout
    BY SameSets DEF Reigning, Core, History, HistoryOf, FinalStays,
       FinalOverwrittenOnlyByTimeout, Expiries
  <1> QED
    BY <1>1, ReignInvariant, PTL

(***************************************************************************)
(* The proposals of a task are numbered 1, 2, 3, ... up to MaxRounds: no   *)
(* verdict is acted on twice, no round is skipped (runFinalizeTask).       *)
(***************************************************************************)
THEOREM RoundsAlwaysInOrder ==
    ASSUME MaxTerm = 0
    PROVE  Spec => []RoundsInOrder
  <1>1. Reigning => RoundsInOrder
    <2> SUFFICES ASSUME Reigning, NEW t \in Task, NEW i \in Proposals(t)
                 PROVE  /\ log[i].state.round = Cardinality({j \in Proposals(t) : j <= i})
                        /\ log[i].state.round <= MaxRounds
      BY DEF RoundsInOrder
    <2>1. Numbered(log, t) /\ Proposals(t) = ProposalsIn(log, t)
      BY SameSets DEF Reigning, Core, History, HistoryOf
    <2>2. /\ log[i].state.round \in 1 .. MaxRounds
          /\ log[i].state.round = Cardinality(Upto(log, t, i))
      BY <2>1 DEF Numbered
    <2>3. log[i].state.round <= MaxRounds
      BY <2>2, TallyAssumption
    <2> QED
      BY <2>1, <2>2, <2>3 DEF Upto
  <1> QED
    BY <1>1, ReignInvariant, PTL

(***************************************************************************)
(* Replicas that have applied the whole log hold the same tasks: what the  *)
(* leader wrote into its records ahead of Raft has been overwritten.       *)
(***************************************************************************)
THEOREM QuiescentReplicasAgree ==
    ASSUME MaxTerm = 0
    PROVE  Spec => []QuiescentAgreement
  <1>1. TypeOK /\ Reigning => QuiescentAgreement
    <2> SUFFICES ASSUME TypeOK, Reigning, NEW n \in Node, NEW m \in Node,
                        CaughtUp(n), CaughtUp(m)
                 PROVE  task[n] = task[m]
      BY DEF QuiescentAgreement
    <2>1. log \in Seq(Command) /\ Len(log) \in Nat
      BY Numbers
    <2>2. ASSUME NEW k \in Node, CaughtUp(k), NEW t \in Task
          PROVE  Current(log, task[k][t], t, Len(log))
      <3>1. \A i \in UpdatesIn(log, t) : i <= applied[k]
        BY <2>1, <2>2, IndicesTyped DEF CaughtUp
      <3> QED
        BY <2>2, <3>1 DEF Reigning, Core, RecordOK, Ahead, CaughtUp
    <2>3. ASSUME NEW t \in Task
          PROVE  task[n][t] = task[m][t]
      <3>1. AdmittedFirst(log, t)
        BY DEF Reigning, Core, History, HistoryOf
      <3> QED
        BY <2>1, <2>2, <3>1, CurrentIsUnique
    <2> QED
      BY <2>3 DEF TypeOK, FSMTypeOK
  <1> QED
    BY <1>1, ReignInvariant, TypeCorrect, PTL

-----------------------------------------------------------------------------
(***************************************************************************)
(* The engines implement Deliberation.  First the life of a task as a log  *)
(* tells it.                                                               *)
(***************************************************************************)
PhaseIn(L, t) ==
    IF ~AdmittedBy(L, t, Len(L)) THEN "new"
    ELSE IF UpdatesIn(L, t) = {} THEN "admitted"
    ELSE L[Newest(UpdatesIn(L, t))].state.status

RoundsIn(L, t) ==
    IF ProposalsIn(L, t) = {} THEN 0 ELSE L[Newest(ProposalsIn(L, t))].state.round

DecidedIn(L, t) ==
    IF PhaseIn(L, t) = "done" THEN L[Newest(UpdatesIn(L, t))].state.round ELSE 0

(* The newest of some entries of a log. *)
LEMMA NewestIs ==
    ASSUME NEW m \in Nat, NEW S \in SUBSET (1 .. m), S # {}
    PROVE  /\ Newest(S) \in S /\ \A j \in S : j <= Newest(S)
           /\ \A i \in S : (\A j \in S : j <= i) => Newest(S) = i
  <1>1. \A j \in S : j \in Nat /\ m - j \in Nat
    OBVIOUS
  <1>2. {m - j : j \in S} \in SUBSET Nat /\ {m - j : j \in S} # {}
    BY <1>1
  <1>3. PICK x \in {m - j : j \in S} : \A y \in {m - j : j \in S} : x <= y
    BY <1>2, Smallest
  <1>4. PICK i \in S : x = m - i
    BY <1>3
  <1>5. ASSUME NEW j \in S
        PROVE  j <= i
    <2>1. m - i <= m - j
      BY <1>3, <1>4
    <2> QED
      BY <1>1, <2>1
  <1>6. Newest(S) \in S /\ \A j \in S : j <= Newest(S)
    BY <1>5 DEF Newest
  <1>7. ASSUME NEW k \in S, \A j \in S : j <= k
        PROVE  Newest(S) = k
    <2>1. k <= Newest(S) /\ Newest(S) <= k
      BY <1>6, <1>7
    <2>2. k \in Nat /\ Newest(S) \in Nat
      BY <1>1, <1>6
    <2> QED
      BY <2>1, <2>2
  <1> QED
    BY <1>6, <1>7

(* The number of the newest proposal is the number of proposals. *)
LEMMA RoundsCounted ==
    ASSUME NEW L \in Seq(Command), NEW t, Numbered(L, t)
    PROVE  /\ IsFiniteSet(ProposalsIn(L, t))
           /\ RoundsIn(L, t) = Cardinality(ProposalsIn(L, t))
           /\ RoundsIn(L, t) \in 0 .. MaxRounds
           /\ RoundsIn(L, t) = 0 <=> ProposalsIn(L, t) = {}
           /\ \A j \in ProposalsIn(L, t) : L[j].state.round \in 1 .. RoundsIn(L, t)
  <1> DEFINE P == ProposalsIn(L, t)
             n == Newest(P)
  <1>1. P \subseteq 1 .. Len(L) /\ Len(L) \in Nat
    BY IndicesTyped
  <1>2. IsFiniteSet(P)
    <2>1. IsFiniteSet(1 .. Len(L))
      BY <1>1, FS_Interval
    <2> QED
      BY <1>1, <2>1, FS_Subset
  <1>3. CASE P = {}
    BY <1>2, <1>3, FS_EmptySet, TallyAssumption DEF RoundsIn
  <1>4. CASE P # {}
    <2>1. n \in P /\ \A j \in P : j <= n
      BY <1>1, <1>4, NewestIs
    <2>2. /\ L[n].state.round \in 1 .. MaxRounds
          /\ L[n].state.round = Cardinality(Upto(L, t, n))
          /\ RoundsIn(L, t) = L[n].state.round
      BY <1>4, <2>1 DEF Numbered, RoundsIn
    <2>3. Upto(L, t, n) = P
      BY <2>1 DEF Upto
    <2>4. ASSUME NEW j \in P
          PROVE  L[j].state.round \in 1 .. L[n].state.round
      <3>1. L[j].state.round \in 1 .. MaxRounds
        BY DEF Numbered
      <3>2. j = n \/ j < n
        BY <1>1, <2>1
      <3>3. j < n => L[j].state.round < L[n].state.round
        BY <2>1 DEF Numbered
      <3> QED
        BY <2>2, <3>1, <3>2, <3>3, TallyAssumption
    <2>5. L[n].state.round \in 0 .. MaxRounds /\ L[n].state.round # 0
      BY <2>2, TallyAssumption
    <2> HIDE DEF n
    <2> QED
      BY <1>2, <1>4, <2>2, <2>3, <2>4, <2>5
  <1> QED
    BY <1>3, <1>4

(* Where a task stands that has updates. *)
LEMMA PhaseOfUpdated ==
    ASSUME NEW L \in Seq(Command), NEW t, AdmittedFirst(L, t), FinalStays(L, t)
    PROVE  /\ \A i \in UpdatesIn(L, t) : LastBy(L, t, i, Len(L)) =>
                 PhaseIn(L, t) = L[i].state.status /\ Newest(UpdatesIn(L, t)) = i
           /\ UpdatesIn(L, t) # {} =>
                 AdmittedBy(L, t, Len(L)) /\ PhaseIn(L, t) \in Final \cup {"proposal"}
           /\ PhaseIn(L, t) = "new" <=> ~AdmittedBy(L, t, Len(L))
           /\ PhaseIn(L, t) \in {"new", "admitted"} => UpdatesIn(L, t) = {}
  <1> DEFINE U == UpdatesIn(L, t)
  <1>1. U \subseteq 1 .. Len(L) /\ Len(L) \in Nat
    BY IndicesTyped
  <1>2. U # {} => AdmittedBy(L, t, Len(L))
    BY <1>1, UpdatedIsAdmitted
  <1>3. ASSUME NEW i \in U, LastBy(L, t, i, Len(L))
        PROVE  Newest(U) = i
    <2>1. \A j \in U : j <= i
      BY <1>1, <1>3 DEF LastBy
    <2> QED
      BY <1>1, <2>1, NewestIs
  <1>4. U # {} => Newest(U) \in U
    BY <1>1, NewestIs
  <1>5. U # {} => L[Newest(U)].state.status \in Final \cup {"proposal"}
    BY <1>4 DEF AdmittedFirst
  <1> HIDE DEF U
  <1>6. \A i \in U : i \in UpdatesIn(L, t) /\ U = UpdatesIn(L, t)
    BY DEF U
  <1> QED
    BY <1>2, <1>3, <1>5, <1>6 DEF PhaseIn, U, Final

(* An entry that is not about a task leaves its life as it was. *)
LEMMA OtherLife ==
    ASSUME NEW L \in Seq(Command), NEW c \in Command, NEW t,
           c # AdmitTask(t), ~(c.type = "UpdateTask" /\ c.task = t)
    PROVE  /\ PhaseIn(Append(L, c), t) = PhaseIn(L, t)
           /\ RoundsIn(Append(L, c), t) = RoundsIn(L, t)
           /\ DecidedIn(Append(L, c), t) = DecidedIn(L, t)
  <1> DEFINE M == Append(L, c)
  <1>1. /\ UpdatesIn(M, t) = UpdatesIn(L, t) /\ ProposalsIn(M, t) = ProposalsIn(L, t)
        /\ AdmittedBy(M, t, Len(M)) <=> AdmittedBy(L, t, Len(L))
    BY UpdatesAppended, AdmittedAppended
  <1>2. /\ UpdatesIn(L, t) \subseteq 1 .. Len(L) /\ ProposalsIn(L, t) \subseteq 1 .. Len(L)
        /\ Len(L) \in Nat
    BY IndicesTyped
  <1>0. \A i \in 1 .. Len(L) : M[i] = L[i]
    BY Appended
  <1> HIDE DEF M
  <1>3. UpdatesIn(L, t) # {} => M[Newest(UpdatesIn(L, t))] = L[Newest(UpdatesIn(L, t))]
    <2>1. UpdatesIn(L, t) # {} => Newest(UpdatesIn(L, t)) \in UpdatesIn(L, t)
      BY <1>2, NewestIs
    <2> QED
      BY <1>0, <1>2, <2>1
  <1>4. ProposalsIn(L, t) # {} => M[Newest(ProposalsIn(L, t))] = L[Newest(ProposalsIn(L, t))]
    <2>1. ProposalsIn(L, t) # {} => Newest(ProposalsIn(L, t)) \in ProposalsIn(L, t)
      BY <1>2, NewestIs
    <2> QED
      BY <1>0, <1>2, <2>1
  <1>5. PhaseIn(M, t) = PhaseIn(L, t) /\ RoundsIn(M, t) = RoundsIn(L, t)
    BY <1>1, <1>3, <1>4 DEF PhaseIn, RoundsIn
  <1>6. DecidedIn(M, t) = DecidedIn(L, t)
    <2>1. PhaseIn(L, t) = "done" => UpdatesIn(L, t) # {}
      BY DEF PhaseIn
    <2> QED
      BY <1>1, <1>3, <1>5, <2>1 DEF DecidedIn
  <1> QED
    BY <1>5, <1>6 DEF M

(* A task is admitted once. *)
LEMMA AdmissionLife ==
    ASSUME NEW L \in Seq(Command), NEW t, AdmitTask(t) \in Command,
           AdmittedFirst(L, t), AdmittedFirst(Append(L, AdmitTask(t)), t)
    PROVE  /\ PhaseIn(L, t) = "new" /\ PhaseIn(Append(L, AdmitTask(t)), t) = "admitted"
           /\ RoundsIn(Append(L, AdmitTask(t)), t) = RoundsIn(L, t)
           /\ DecidedIn(Append(L, AdmitTask(t)), t) = DecidedIn(L, t)
  <1> DEFINE c == AdmitTask(t)
             M == Append(L, c)
  <1>0. c \in Command /\ c.type = "AdmitTask" /\ AdmittedFirst(M, t)
    BY DEF AdmitTask
  <1> HIDE DEF c
  <1>1. /\ UpdatesIn(M, t) = UpdatesIn(L, t) /\ ProposalsIn(M, t) = ProposalsIn(L, t)
        /\ AdmittedBy(M, t, Len(M))
    BY <1>0, UpdatesAppended, AdmittedAppended DEF c
  <1>2. /\ Len(M) = Len(L) + 1 /\ Len(L) \in Nat /\ M[Len(L) + 1] = c
        /\ \A i \in 1 .. Len(L) : M[i] = L[i]
    BY <1>0, Appended
  <1>3. ~AdmittedBy(L, t, Len(L))
    <2>1. ASSUME NEW i \in 1 .. Len(L), L[i] = c
          PROVE  FALSE
      <3>1. /\ i \in 1 .. Len(M) /\ Len(M) \in 1 .. Len(M) /\ i # Len(M)
            /\ M[i] = c /\ M[Len(M)] = c
        BY <1>2, <2>1
      <3> QED
        BY <1>0, <3>1 DEF AdmittedFirst, c
    <2> QED
      BY <2>1 DEF AdmittedBy, c
  <1>4. UpdatesIn(L, t) = {} /\ ProposalsIn(L, t) = {}
    <2>1. UpdatesIn(L, t) = {}
      BY <1>2, <1>3, UpdatedIsAdmitted, IndicesTyped
    <2> QED
      BY <2>1 DEF ProposalsIn
  <1> HIDE DEF M
  <1>5. /\ PhaseIn(L, t) = "new" /\ PhaseIn(M, t) = "admitted"
        /\ RoundsIn(M, t) = RoundsIn(L, t)
    BY <1>1, <1>3, <1>4 DEF PhaseIn, RoundsIn
  <1>6. DecidedIn(M, t) = DecidedIn(L, t)
    BY <1>5 DEF DecidedIn
  <1> QED
    BY <1>5, <1>6 DEF M, c

(* An update moves its task on, and only an open task is not failed.  *)
LEMMA UpdateLife ==
    ASSUME NEW L \in Seq(Command), NEW c \in Command, c.type = "UpdateTask", NEW t, c.task = t,
           HistoryOf(L, t), HistoryOf(Append(L, c), t)
    PROVE  /\ PhaseIn(L, t) # "new" /\ PhaseIn(Append(L, c), t) = c.state.status
           /\ c.state.status \in Final \cup {"proposal"}
           /\ c.state.status \in {"done", "proposal"} =>
                 PhaseIn(L, t) = IF RoundsIn(L, t) = 0 THEN "admitted" ELSE "proposal"
           /\ RoundsIn(Append(L, c), t) =
                 RoundsIn(L, t) + IF c.state.status = "proposal" THEN 1 ELSE 0
           /\ RoundsIn(L, t) \in 0 .. MaxRounds
           /\ c.state.status = "proposal" => RoundsIn(L, t) < MaxRounds
           /\ DecidedIn(Append(L, c), t) =
                 IF c.state.status = "done" THEN c.state.round ELSE 0
  <1> DEFINE M == Append(L, c)
             q == Len(L) + 1
  <1>1. /\ Len(M) = q /\ Len(L) \in Nat /\ M[q] = c /\ M \in Seq(Command)
        /\ \A i \in 1 .. Len(L) : M[i] = L[i]
    BY Appended
  <1>2. /\ AdmittedFirst(L, t) /\ FinalStays(L, t) /\ Numbered(L, t)
        /\ AdmittedFirst(M, t) /\ FinalStays(M, t) /\ Numbered(M, t)
    BY DEF HistoryOf
  <1>3. /\ UpdatesIn(M, t) = UpdatesIn(L, t) \cup {q}
        /\ ProposalsIn(M, t) = IF c.state.status = "proposal" THEN ProposalsIn(L, t) \cup {q}
                               ELSE ProposalsIn(L, t)
        /\ AdmittedBy(M, t, Len(M)) <=> AdmittedBy(L, t, Len(L))
    <2>1. c # AdmitTask(t)
      BY DEF AdmitTask
    <2> QED
      BY <2>1, UpdatesAppended, AdmittedAppended
  <1>4. \A i \in UpdatesIn(L, t) : i \in Nat /\ i < q /\ M[i] = L[i] /\ i \in UpdatesIn(M, t)
    BY <1>1, <1>3, IndicesTyped
  <1>5. q \in UpdatesIn(M, t) /\ LastBy(M, t, q, Len(M))
    BY <1>1, <1>3, <1>4 DEF LastBy
  <1> HIDE DEF M, q
  <1>6. /\ PhaseIn(M, t) = c.state.status /\ Newest(UpdatesIn(M, t)) = q
        /\ AdmittedBy(M, t, Len(M)) /\ c.state.status \in Final \cup {"proposal"}
    BY <1>1, <1>2, <1>5, PhaseOfUpdated
  <1>7. PhaseIn(L, t) # "new"
    BY <1>2, <1>3, <1>6, PhaseOfUpdated
  <1>8. DecidedIn(M, t) = IF c.state.status = "done" THEN c.state.round ELSE 0
    BY <1>1, <1>6 DEF DecidedIn
  <1>9. ASSUME c.state.status \in {"done", "proposal"}
        PROVE  PhaseIn(L, t) = IF RoundsIn(L, t) = 0 THEN "admitted" ELSE "proposal"
    <2>1. ASSUME NEW i \in UpdatesIn(L, t)
          PROVE  L[i].state.status = "proposal"
      <3>1. L[i].state.status \in Final => c.state = TimedOutTask
        BY <1>1, <1>2, <1>4, <1>5 DEF FinalStays
      <3> QED
        BY <1>2, <1>9, <3>1, PlainRecords DEF AdmittedFirst
    <2>2. UpdatesIn(L, t) = ProposalsIn(L, t)
      BY <2>1 DEF ProposalsIn
    <2>3. CASE UpdatesIn(L, t) = {}
      BY <1>2, <1>7, <2>2, <2>3, PhaseOfUpdated DEF PhaseIn, RoundsIn
    <2>4. CASE UpdatesIn(L, t) # {}
      <3>1. Newest(UpdatesIn(L, t)) \in UpdatesIn(L, t)
        BY <1>1, <2>4, IndicesTyped, NewestIs
      <3>2. PhaseIn(L, t) = "proposal"
        BY <1>2, <2>1, <2>4, <3>1, PhaseOfUpdated DEF PhaseIn
      <3> QED
        BY <1>2, <2>2, <2>4, <3>2, RoundsCounted
    <2> QED
      BY <2>3, <2>4
  <1>10. /\ RoundsIn(L, t) = Cardinality(ProposalsIn(L, t))
         /\ RoundsIn(M, t) = Cardinality(ProposalsIn(M, t))
         /\ RoundsIn(L, t) \in 0 .. MaxRounds /\ RoundsIn(M, t) \in 0 .. MaxRounds
         /\ IsFiniteSet(ProposalsIn(L, t))
    BY <1>1, <1>2, RoundsCounted
  <1>11. CASE c.state.status = "proposal"
    <2>1. q \notin ProposalsIn(L, t)
      BY <1>1, IndicesTyped DEF q
    <2>2. Cardinality(ProposalsIn(M, t)) = Cardinality(ProposalsIn(L, t)) + 1
      <3>1. ProposalsIn(M, t) = ProposalsIn(L, t) \cup {q}
        BY <1>3, <1>11
      <3>2. IsFiniteSet(ProposalsIn(L, t))
        BY <1>10
      <3> QED
        BY <2>1, <3>1, <3>2, FS_AddElement
    <2>3. RoundsIn(M, t) = RoundsIn(L, t) + 1
      BY <1>10, <2>2
    <2>4. RoundsIn(L, t) < MaxRounds
      BY <1>10, <2>3, TallyAssumption
    <2> QED
      BY <1>6, <1>7, <1>8, <1>9, <1>10, <1>11, <2>3, <2>4 DEF M
  <1>12. CASE c.state.status # "proposal"
    <2>1. RoundsIn(M, t) = RoundsIn(L, t) + 0
      BY <1>3, <1>10, <1>12
    <2> QED
      BY <1>6, <1>7, <1>8, <1>9, <1>10, <1>12, <2>1 DEF M
  <1> QED
    BY <1>11, <1>12

-----------------------------------------------------------------------------
(***************************************************************************)
(* Then the steps.                                                         *)
(***************************************************************************)

(* The abstract state is read off the log. *)
ReadsLog ==
    \A t : /\ PhaseOf(t) = PhaseIn(log, t)
           /\ RoundsOf(t) = RoundsIn(log, t)
           /\ DecidedFor(t) = DecidedIn(log, t)

LEMMA ReadOff == ReadsLog
  <1>1. \A t : PhaseOf(t) = PhaseIn(log, t) /\ RoundsOf(t) = RoundsIn(log, t)
    BY SameSets DEF PhaseOf, PhaseIn, RoundsOf, RoundsIn, Known
  <1>2. \A t : DecidedFor(t) = DecidedIn(log, t)
    BY <1>1, SameSets DEF DecidedFor, DecidedIn
  <1> QED
    BY <1>1, <1>2 DEF ReadsLog

LEMMA ReadOffNext == ReadsLog'
  BY ReadOff, PTL

(* The votes that stand in a log with one entry more. *)
StandingGrows ==
    \A k \in Nat : k < Len(log) =>
        /\ log[k + 1].type # "SubmitVote" => StandingVotes(k + 1) = StandingVotes(k)
        /\ log[k + 1].type = "SubmitVote" =>
             \/ StandingVotes(k + 1) = StandingVotes(k)
             \/ StandingVotes(k + 1) = StandingVotes(k) \cup {log[k + 1].vote}

LEMMA StandingStep == TypeOK => StandingGrows
  BY StandingNext DEF StandingGrows

LEMMA StandingStepNext == TypeOK' => StandingGrows'
  BY StandingStep, PTL

LEMMA StandingAppended ==
    ASSUME TypeOK, TypeOK', NEW c \in Command, log' = Append(log, c)
    PROVE  \/ StandingVotes(Len(log))' = StandingVotes(Len(log))
           \/ /\ c.type = "SubmitVote"
              /\ StandingVotes(Len(log))' = StandingVotes(Len(log)) \cup {c.vote}
  <1>0. PICK k \in Nat : k = Len(log)
    BY Numbers
  <1>1. k < Len(log') /\ Len(log') = k + 1 /\ log'[k + 1] = c
    BY <1>0, Numbers, Appended
  <1>2. StandingVotes(k)' = StandingVotes(k)
    BY <1>0, StandingStable
  <1>3. \/ StandingVotes(k + 1)' = StandingVotes(k)'
        \/ /\ c.type = "SubmitVote"
           /\ StandingVotes(k + 1)' = StandingVotes(k)' \cup {c.vote}
    BY <1>1, StandingStepNext DEF StandingGrows
  <1>4. StandingVotes(Len(log))' = StandingVotes(k + 1)'
    BY <1>1 DEF StandingVotes
  <1>5. StandingVotes(Len(log)) = StandingVotes(k)
    BY <1>0
  <1> QED
    BY <1>2, <1>3, <1>4, <1>5

(* What the log tells of the votes of a task after one entry more. *)
LEMMA AcceptsAppended ==
    ASSUME TypeOK, TypeOK', NEW c \in Command, log' = Append(log, c), NEW t
    PROVE  \/ AcceptsOf(t)' = AcceptsOf(t)
           \/ /\ c.type = "SubmitVote" /\ c.vote.task = t
              /\ AcceptsOf(t)' = AcceptsOf(t) \cup {<<c.vote.round, c.vote.agent>>}
  <1> DEFINE S == StandingVotes(Len(log))
             Of(V) == {<<v.round, v.agent>> : v \in {w \in V : w.task = t /\ w.accepted}}
  <1>1. AcceptsOf(t) = Of(S)
    BY DEF AcceptsOf
  <1>2. AcceptsOf(t)' = Of(StandingVotes(Len(log))')
    BY DEF AcceptsOf
  <1>3. \/ StandingVotes(Len(log))' = S
        \/ c.type = "SubmitVote" /\ StandingVotes(Len(log))' = S \cup {c.vote}
    BY StandingAppended
  <1> HIDE DEF S
  <1>4. Of(S \cup {c.vote}) =
           IF c.vote.task = t /\ c.vote.accepted
           THEN Of(S) \cup {<<c.vote.round, c.vote.agent>>} ELSE Of(S)
    OBVIOUS
  <1> HIDE DEF Of
  <1> QED
    BY <1>1, <1>2, <1>3, <1>4

(* A majority that accepts a round is a majority of what the log tells.  *)
LEMMA AcceptsCounted ==
    ASSUME TypeOK, NEW t, NEW r,
           Accepted(StandingVotes(Len(log)), t, r) >= Quorum
    PROVE  /\ 2 * Cardinality({a \in Node : <<r, a>> \in AcceptsOf(t)}) > Cardinality(Node)
           /\ \E v \in StandingVotes(Len(log)) : v.task = t /\ v.round = r
  <1> DEFINE S == StandingVotes(Len(log))
  <1>1. Agents(S)
    BY StandingTyped, Numbers
  <1>2. {a \in Node : <<r, a>> \in AcceptsOf(t)} = Acceptors(S, t, r)
    BY <1>1 DEF Agents, AcceptsOf, Acceptors, InRound
  <1>3. Accepted(S, t, r) \in Nat /\ ServerCount \in Nat /\ Quorum \in Nat
    BY <1>1, CountsTyped, QuorumIsMajority
  <1>4. 2 * Accepted(S, t, r) > ServerCount
    BY <1>3, QuorumIsMajority
  <1>5. Acceptors(S, t, r) # {}
    <2>1. Accepted(S, t, r) # 0
      BY <1>3, <1>4, QuorumIsMajority
    <2> QED
      BY <2>1, FS_EmptySet DEF Accepted
  <1> QED
    BY <1>2, <1>4, <1>5 DEF Accepted, ServerCount, Acceptors, InRound

(* A vote is for a round the task had. *)
LEMMA VotedRoundExists ==
    ASSUME TypeOK, Core, NEW v \in StandingVotes(Len(log))
    PROVE  RoundExists(log, v.task, v.round)
  <1>1. PICK i \in 1 .. Len(log) : log[i].type = "SubmitVote" /\ v = log[i].vote
    BY DEF StandingVotes, Entries
  <1> QED
    BY <1>1 DEF Core, History, VotesKnown, RoundExists

-----------------------------------------------------------------------------
(***************************************************************************)
(* Every step of the engines is a step of Deliberation or changes nothing  *)
(* it speaks of.                                                           *)
(***************************************************************************)

(* Nothing the log tells of t changes. *)
LifeKept(t) ==
    /\ PhaseOf(t)' = PhaseOf(t) /\ RoundsOf(t)' = RoundsOf(t)
    /\ DecidedFor(t)' = DecidedFor(t)

LEMMA LifeOfOthers ==
    ASSUME TypeOK, NEW c \in Command, log' = Append(log, c), NEW t,
           c # AdmitTask(t), ~(c.type = "UpdateTask" /\ c.task = t)
    PROVE  LifeKept(t)
  BY Numbers, OtherLife, ReadOff, ReadOffNext DEF ReadsLog, LifeKept

LEMMA AdmitImplements ==
    ASSUME TypeOK, TypeOK', Core, Core', NEW t \in Task, log' = Append(log, AdmitTask(t))
    PROVE  Promise!Admit(t)
  <1> DEFINE c == AdmitTask(t)
  <1>1. c \in Command /\ c.type = "AdmitTask" /\ \A u : c = AdmitTask(u) => u = t
    BY DEF AdmitTask, Command
  <1>2. \A u \in Task : AcceptsOf(u)' = AcceptsOf(u)
    BY <1>1, AcceptsAppended
  <1>3. \A u \in Task : u # t => LifeKept(u)
    BY <1>1, LifeOfOthers
  <1>4. AdmittedFirst(log, t) /\ AdmittedFirst(log', t)
    BY DEF Core, History, HistoryOf
  <1>5. /\ PhaseOf(t) = "new" /\ PhaseOf(t)' = "admitted"
        /\ RoundsOf(t)' = RoundsOf(t) /\ DecidedFor(t)' = DecidedFor(t)
    BY <1>1, <1>4, Numbers, AdmissionLife, ReadOff, ReadOffNext DEF ReadsLog
  <1>6. /\ \A u \in Task : RoundsOf(u)' = RoundsOf(u) /\ DecidedFor(u)' = DecidedFor(u)
        /\ \A u \in Task : u # t => PhaseOf(u)' = PhaseOf(u)
    BY <1>3, <1>5 DEF LifeKept
  <1> HIDE DEF c
  <1>7. Promise!Move(t, {"new"}, "admitted")
    BY <1>5, <1>6 DEF Promise!Move
  <1> QED
    BY <1>2, <1>6, <1>7 DEF Promise!Admit

LEMMA UpdateImplements ==
    ASSUME TypeOK, TypeOK', Core, Core', DoneHasQuorum',
           NEW c \in Command, c.type = "UpdateTask", log' = Append(log, c)
    PROVE  Promise!Next \/ UNCHANGED Promise!vars
  <1> DEFINE t == c.task
             s == c.state
  <1>1. t \in Task /\ c.type # "SubmitVote" /\ \A u : c # AdmitTask(u)
    BY CommandFields DEF AdmitTask
  <1>2. \A u \in Task : AcceptsOf(u)' = AcceptsOf(u)
    BY <1>1, AcceptsAppended
  <1>3. \A u \in Task : u # t => LifeKept(u)
    BY <1>1, LifeOfOthers
  <1>4. HistoryOf(log, t) /\ HistoryOf(log', t)
    BY <1>1 DEF Core, History
  <1>5. /\ PhaseOf(t) # "new" /\ PhaseOf(t)' = s.status
        /\ s.status \in Final \cup {"proposal"}
        /\ s.status \in {"done", "proposal"} =>
              PhaseOf(t) = IF RoundsOf(t) = 0 THEN "admitted" ELSE "proposal"
        /\ RoundsOf(t)' = RoundsOf(t) + IF s.status = "proposal" THEN 1 ELSE 0
        /\ RoundsOf(t) \in 0 .. MaxRounds
        /\ s.status = "proposal" => RoundsOf(t) < MaxRounds
        /\ DecidedFor(t)' = IF s.status = "done" THEN s.round ELSE 0
    BY <1>1, <1>4, Numbers, UpdateLife, ReadOff, ReadOffNext DEF ReadsLog
  <1>6. \A u \in Task : u # t => /\ PhaseOf(u)' = PhaseOf(u) /\ RoundsOf(u)' = RoundsOf(u)
                                /\ DecidedFor(u)' = DecidedFor(u)
    BY <1>3 DEF LifeKept
  <1>7. PhaseOf(t) # "done" => DecidedFor(t) = 0
    BY DEF DecidedFor
  <1>8. PhaseOf(t) \in {"admitted", "proposal", "done", "failed"}
    <2>1. PhaseIn(log, t) \in {"new", "admitted"} \cup Final \cup {"proposal"}
      BY <1>4, Numbers, PhaseOfUpdated DEF HistoryOf, PhaseIn
    <2> QED
      BY <1>5, <2>1, ReadOff DEF ReadsLog, Final
  <1>9. s.status # "proposal" => RoundsOf(t)' = RoundsOf(t)
    BY <1>5, TallyAssumption
  <1>10. CASE s.status = "proposal"
    <2>1. Promise!Move(t, IF RoundsOf(t) = 0 THEN {"admitted"} ELSE {"proposal"}, "proposal")
      BY <1>1, <1>5, <1>6, <1>10 DEF Promise!Move
    <2>2. \A u \in Task : DecidedFor(u)' = DecidedFor(u)
      BY <1>5, <1>6, <1>7, <1>10
    <2>3. Promise!Propose(t)
      BY <1>1, <1>2, <1>5, <1>6, <1>10, <2>1, <2>2 DEF Promise!Propose
    <2> QED
      BY <1>1, <2>3 DEF Promise!Next
  <1>11. CASE s.status = "done"
    <2> DEFINE r == s.round
    <2>1. ASSUME NEW i \in Entries("UpdateTask")', log'[i].state.status = "done"
          PROVE  Accepted(StandingVotes(i - 1), log'[i].task, log'[i].state.round) >= Quorum
      <3>1. i \in 1 .. Len(log')
        BY DEF Entries
      <3>2. i - 1 \in Nat /\ i - 1 <= Len(log)
        BY <3>1, Numbers, Appended
      <3>3. StandingVotes(i - 1)' = StandingVotes(i - 1)
        BY <3>2, StandingStable
      <3>4. Accepted(StandingVotes(i - 1)', log'[i].task, log'[i].state.round) >= Quorum
        BY <2>1 DEF DoneHasQuorum, Accepted, Acceptors, InRound
      <3> QED
        BY <3>3, <3>4
    <2>2. PICK q \in Entries("UpdateTask")' : log'[q] = c /\ q - 1 = Len(log)
      <3>1. Len(log) \in Nat /\ Len(log) + 1 \in 1 .. Len(log') /\ log'[Len(log) + 1] = c
        BY Numbers, Appended
      <3>2. Len(log) + 1 \in Entries("UpdateTask")'
        BY <3>1 DEF Entries
      <3> QED
        BY <3>1, <3>2
    <2>3. Accepted(StandingVotes(Len(log)), t, r) >= Quorum
      <3>1. Accepted(StandingVotes(q - 1), log'[q].task, log'[q].state.round) >= Quorum
        BY <1>11, <2>1, <2>2
      <3> QED
        BY <2>2, <3>1
    <2>4. /\ 2 * Cardinality({a \in Node : <<r, a>> \in AcceptsOf(t)}) > Cardinality(Node)
          /\ RoundExists(log, t, r)
      <3> HIDE DEF t, r
      <3>1. /\ 2 * Cardinality({a \in Node : <<r, a>> \in AcceptsOf(t)}) > Cardinality(Node)
            /\ \E v \in StandingVotes(Len(log)) : v.task = t /\ v.round = r
        BY <2>3, AcceptsCounted
      <3>2. PICK v \in StandingVotes(Len(log)) : v.task = t /\ v.round = r
        BY <3>1
      <3>3. RoundExists(log, v.task, v.round)
        BY VotedRoundExists
      <3> QED
        BY <3>1, <3>2, <3>3
    <2>5. r \in 1 .. RoundsOf(t) /\ RoundsOf(t) # 0
      BY <1>4, <2>4, Numbers, RoundsCounted, ReadOff DEF HistoryOf, RoundExists, ReadsLog
    <2>6. Promise!Move(t, {"proposal"}, "done")
      BY <1>1, <1>5, <1>6, <1>11, <2>5 DEF Promise!Move
    <2>7. Promise!AcceptedBy(t, r) = {a \in Node : <<r, a>> \in AcceptsOf(t)}
      BY <1>1 DEF Promise!AcceptedBy
    <2>8. \A u \in Task : RoundsOf(u)' = RoundsOf(u)
      BY <1>6, <1>9, <1>11
    <2>9. \A u \in Task : DecidedFor(u)' = IF u = t THEN r ELSE DecidedFor(u)
      BY <1>5, <1>6, <1>11
    <2>10. 2 * Cardinality(Promise!AcceptedBy(t, r)) > Cardinality(Node)
      BY <2>4, <2>7
    <2> HIDE DEF t, r
    <2>11. Promise!Accept(t, r)
      <3>1. [u \in Task |-> DecidedFor(u)]' = [[u \in Task |-> DecidedFor(u)] EXCEPT ![t] = r]
        BY <1>1, <2>9
      <3>2. [u \in Task |-> RoundsOf(u)]' = [u \in Task |-> RoundsOf(u)]
        BY <2>8
      <3>3. [u \in Task |-> AcceptsOf(u)]' = [u \in Task |-> AcceptsOf(u)]
        BY <1>2
      <3>4. 2 * Promise!Cardinality(Promise!AcceptedBy(t, r)) > Promise!Cardinality(Node)
        <4>1. \A S : Promise!Cardinality(S) = Cardinality(S)
          BY Zenon DEF Promise!Cardinality, Cardinality
        <4> QED
          BY <2>10, <4>1
      <3> QED
        BY <2>6, <3>1, <3>2, <3>3, <3>4 DEF Promise!Accept
    <2> QED
      BY <1>1, <2>5, <2>11 DEF Promise!Next
  <1>12. CASE s.status = "failed"
    <2>1. \A u \in Task : RoundsOf(u)' = RoundsOf(u)
      BY <1>6, <1>9, <1>12
    <2>2. CASE PhaseOf(t) \in {"admitted", "proposal"}
      <3>1. Promise!Move(t, {"admitted", "proposal"}, "failed")
        BY <1>1, <1>5, <1>6, <1>12, <2>2 DEF Promise!Move
      <3>2. \A u \in Task : DecidedFor(u)' = DecidedFor(u)
        BY <1>5, <1>6, <1>7, <1>12, <2>2
      <3>3. Promise!GiveUp(t)
        BY <1>2, <2>1, <3>1, <3>2 DEF Promise!GiveUp
      <3> QED
        BY <1>1, <3>3 DEF Promise!Next
    <2>3. CASE PhaseOf(t) = "done"
      <3>1. Promise!Move(t, {"done"}, "failed")
        BY <1>1, <1>5, <1>6, <1>12, <2>3 DEF Promise!Move
      <3>2. Promise!TimeOutDone(t)
        BY <1>1, <1>2, <1>5, <1>6, <1>12, <2>1, <3>1 DEF Promise!TimeOutDone
      <3> QED
        BY <1>1, <3>2 DEF Promise!Next
    <2>4. CASE PhaseOf(t) = "failed"
      <3>1. \A u \in Task : PhaseOf(u)' = PhaseOf(u) /\ DecidedFor(u)' = DecidedFor(u)
        BY <1>5, <1>6, <1>7, <1>12, <2>4
      <3> QED
        BY <1>2, <2>1, <3>1 DEF Promise!vars
    <2> QED
      BY <1>8, <2>2, <2>3, <2>4
  <1> QED
    BY <1>5, <1>10, <1>11, <1>12 DEF Final

LEMMA OtherImplements ==
    ASSUME TypeOK, TypeOK', Core, Core',
           NEW c \in Command, c.type \notin {"AdmitTask", "UpdateTask"}, log' = Append(log, c)
    PROVE  Promise!Next \/ UNCHANGED Promise!vars
  <1>1. \A u : c # AdmitTask(u)
    BY DEF AdmitTask
  <1>2. \A u \in Task : /\ PhaseOf(u)' = PhaseOf(u) /\ RoundsOf(u)' = RoundsOf(u)
                        /\ DecidedFor(u)' = DecidedFor(u)
    BY <1>1, LifeOfOthers DEF LifeKept
  <1>3. CASE \A u \in Task : AcceptsOf(u)' = AcceptsOf(u)
    BY <1>2, <1>3 DEF Promise!vars
  <1>4. CASE ~ \A u \in Task : AcceptsOf(u)' = AcceptsOf(u)
    <2> DEFINE t == c.vote.task
               r == c.vote.round
               a == c.vote.agent
    <2>1. /\ c.type = "SubmitVote" /\ t \in Task
          /\ AcceptsOf(t)' = AcceptsOf(t) \cup {<<r, a>>}
          /\ \A u \in Task : u # t => AcceptsOf(u)' = AcceptsOf(u)
      BY <1>4, AcceptsAppended
    <2>2. a \in Node /\ r \in Nat
      BY <2>1, CommandFields DEF Vote
    <2>3. RoundExists(log, t, r)
      <3> DEFINE q == Len(log) + 1
      <3>1. q \in 1 .. Len(log') /\ log'[q] = c /\ Len(log) \in Nat
        BY Numbers, Appended
      <3> HIDE DEF q
      <3>2. PICK j \in ProposalsIn(log', t) : j < q /\ log'[j].state.round = r
        BY <2>1, <3>1 DEF Core, History, VotesKnown
      <3>3. j \in ProposalsIn(log, t) /\ log'[j] = log[j]
        BY <2>1, <3>2, Numbers, UpdatesAppended, Appended, IndicesTyped
      <3> QED
        BY <3>2, <3>3 DEF RoundExists
    <2>4. r \in 1 .. RoundsOf(t)
      BY <2>1, <2>3, Numbers, RoundsCounted, ReadOff
      DEF Core, History, HistoryOf, RoundExists, ReadsLog
    <2>5. Promise!Vote(t, r, a)
      BY <1>2, <2>1 DEF Promise!Vote
    <2> QED
      BY <2>1, <2>2, <2>4, <2>5 DEF Promise!Next
  <1> QED
    BY <1>3, <1>4

(* Nothing of Deliberation changes when the log does not. *)
LEMMA QuietImplements ==
    ASSUME UNCHANGED log
    PROVE  UNCHANGED Promise!vars
  <1>1. \A t : PhaseOf(t)' = PhaseOf(t) /\ RoundsOf(t)' = RoundsOf(t)
               /\ DecidedFor(t)' = DecidedFor(t)
    BY ReadOff, ReadOffNext DEF ReadsLog
  <1>2. \A t : AcceptsOf(t)' = AcceptsOf(t)
    BY DEF AcceptsOf, StandingVotes, FirstVote, Entries
  <1> QED
    BY <1>1, <1>2 DEF Promise!vars

(* Whatever happens, the log at most gets one command more. *)
LEMMA LogOnlyGrows ==
    ASSUME TypeOK, TypeOK', [Next]_vars
    PROVE  LogGrows
  <1>1. ASSUME NEW c, log' = Append(log, c)
        PROVE  c \in Command
    <2>1. log' \in Seq(Command) /\ log \in Seq(Command)
      BY DEF TypeOK, FSMTypeOK
    <2>2. Len(log) + 1 \in 1 .. Len(log') /\ log'[Len(log) + 1] = c
      BY <1>1, <2>1
    <2> QED
      BY <2>1, <2>2
  <1>2. UNCHANGED log \/ \E c : log' = Append(log, c)
    <2>1. ASSUME NEW n \in Node, Replicate(n)
          PROVE  UNCHANGED log
      BY <2>1, ReplicateTakes DEF TakesNext
    <2> QED
      BY <2>1, NextLogStep DEF LogStep
  <1> QED
    BY <1>1, <1>2 DEF LogGrows

LEMMA StepImplements ==
    ASSUME TypeOK, TypeOK', Core, Core', DoneHasQuorum', [Next]_vars
    PROVE  [Promise!Next]_(Promise!vars)
  <1>1. CASE UNCHANGED log
    BY <1>1, QuietImplements
  <1>2. ASSUME NEW c \in Command, log' = Append(log, c)
        PROVE  Promise!Next \/ UNCHANGED Promise!vars
    <2>1. CASE c.type = "AdmitTask"
      <3>1. c.task \in Task /\ c = AdmitTask(c.task)
        BY <2>1 DEF Command, AdmitTask
      <3>2. Promise!Admit(c.task)
        BY <1>2, <3>1, AdmitImplements
      <3> QED
        BY <3>1, <3>2 DEF Promise!Next
    <2>2. CASE c.type = "UpdateTask"
      BY <1>2, <2>2, UpdateImplements
    <2>3. CASE c.type \notin {"AdmitTask", "UpdateTask"}
      BY <1>2, <2>3, OtherImplements
    <2> QED
      BY <2>1, <2>2, <2>3
  <1> QED
    BY <1>1, <1>2, LogOnlyGrows DEF LogGrows

LEMMA InitImplements == Init => Promise!Init
  <1> SUFFICES ASSUME Init
               PROVE  Promise!Init
    OBVIOUS
  <1>1. log = <<>> /\ Len(log) = 0
    BY DEF Init, FSMInit
  <1>2. \A t : UpdatesIn(log, t) = {} /\ ProposalsIn(log, t) = {} /\ ~AdmittedBy(log, t, Len(log))
    BY <1>1 DEF UpdatesIn, ProposalsIn, AdmittedBy
  <1>3. \A t : PhaseOf(t) = "new" /\ RoundsOf(t) = 0 /\ DecidedFor(t) = 0
    BY <1>2, ReadOff DEF ReadsLog, PhaseIn, RoundsIn, DecidedIn
  <1>4. \A t : AcceptsOf(t) = {}
    BY <1>1 DEF AcceptsOf, StandingVotes, Entries
  <1> QED
    BY <1>3, <1>4 DEF Promise!Init

(***************************************************************************)
(* Under one leader (MaxTerm = 0) the engines implement Deliberation, for  *)
(* any cluster, any tasks, any rounds and any replication lag: whatever    *)
(* the replicas, event channels, timers and goroutines do, the log tells   *)
(* of each task a life that the abstract specification allows.             *)
(***************************************************************************)
THEOREM EngineImplementsDeliberation ==
    ASSUME MaxTerm = 0
    PROVE  Spec => ImplementsDeliberation
  <1>1. Init => Promise!Init
    BY InitImplements
  <1>2. /\ TypeOK /\ Reigning /\ DoneHasQuorum
        /\ TypeOK' /\ Reigning' /\ DoneHasQuorum'
        /\ [Next]_vars
        => [Promise!Next]_(Promise!vars)
    BY StepImplements DEF Reigning
  <1> QED
    BY <1>1, <1>2, TypeCorrect, ReignInvariant, DoneAlwaysHasQuorum, PTL
    DEF Spec, ImplementsDeliberation, Promise!Spec

-----------------------------------------------------------------------------
(***************************************************************************)
(* The text of a decision.  Under one leader the text of round r of a task *)
(* is <<leader, r>>, wherever it shows up: in the proposals, in the map    *)
(* of earlier proposals they carry, in ballots and votes, in results.      *)
(***************************************************************************)
AtRound(s, q) == {p \in s.proposals : p[1] = q}

Signed(a, s) ==
    /\ s.result = <<a, s.round>>
    /\ \A q \in 1 .. s.round : AtRound(s, q) = {<<q, <<a, q>> >>}

EntrySigned(a, c) ==
    /\ c.type = "UpdateTask" =>
         /\ c.state.status = "proposal" => Signed(a, c.state)
         /\ c.state.status = "done" => c.state.result = <<a, c.state.round>>
    /\ c.type = "SubmitVote" => c.vote.text = <<a, c.vote.round>>

LogSigned == \A i \in 1 .. Len(log) : EntrySigned(leader, log[i])
BallotsSigned == \A b \in DOMAIN ballots : b.text = <<leader, b.round>>

TextInv == LogSigned /\ BallotsSigned

(* What a proposal in the log carries. *)
LEMMA ProposalSigned ==
    ASSUME LogSigned, NEW t, NEW i \in ProposalsIn(log, t)
    PROVE  Signed(leader, log[i].state)
  BY DEF LogSigned, EntrySigned, ProposalsIn, UpdatesIn

(* What a step may add to what is signed.  *)
SignedStep ==
    /\ UNCHANGED leader
    /\ \/ UNCHANGED log
       \/ \E c \in Command : log' = Append(log, c) /\ EntrySigned(leader, c)
    /\ \/ UNCHANGED ballots
       \/ \E b : EndBallot(b)
       \/ \E b : ballots' = ballots (+) SetToBag({b}) /\ b.text = <<leader, b.round>>

LEMMA SignedKept ==
    ASSUME TypeOK, TextInv, SignedStep
    PROVE  TextInv'
  <1>1. leader' = leader /\ log \in Seq(Command)
    BY Numbers DEF SignedStep
  <1>2. LogSigned'
    <2>1. CASE UNCHANGED log
      BY <1>1, <2>1 DEF TextInv, LogSigned
    <2>2. ASSUME NEW c \in Command, log' = Append(log, c), EntrySigned(leader, c)
          PROVE  LogSigned'
      <3>1. ASSUME NEW i \in 1 .. Len(log')
            PROVE  EntrySigned(leader, log'[i])
        <4>1. (i \in 1 .. Len(log) /\ log'[i] = log[i]) \/ log'[i] = c
          BY <1>1, <2>2, Appended
        <4> QED
          BY <2>2, <4>1 DEF TextInv, LogSigned
      <3> QED
        BY <1>1, <3>1 DEF LogSigned
    <2> QED
      BY <2>1, <2>2 DEF SignedStep
  <1>3. BallotsSigned'
    <2>1. CASE UNCHANGED ballots
      BY <1>1, <2>1 DEF TextInv, BallotsSigned
    <2>2. ASSUME NEW b, EndBallot(b)
          PROVE  DOMAIN ballots' \subseteq DOMAIN ballots
      BY <2>2 DEF EndBallot, (-), SetToBag, BagToSet
    <2>3. ASSUME NEW b, ballots' = ballots (+) SetToBag({b})
          PROVE  DOMAIN ballots' \subseteq DOMAIN ballots \cup {b}
      BY <2>3 DEF (+), SetToBag, BagToSet
    <2> QED
      BY <1>1, <2>1, <2>2, <2>3 DEF SignedStep, TextInv, BallotsSigned
  <1> QED
    BY <1>2, <1>3 DEF TextInv

(* An update of a task, and the log it makes. *)
LEMMA UpdateSigned ==
    ASSUME TypeOK, TextInv, NEW t \in Task, NEW s \in TaskState,
           Commit(UpdateTask(t, s)), UNCHANGED <<leader, ballots>>,
           s.status = "proposal" => Signed(leader, s),
           s.status = "done" => s.result = <<leader, s.round>>
    PROVE  TextInv'
  <1>1. UpdateTask(t, s) \in Command
    BY Numbers, CommandsTyped
  <1>2. EntrySigned(leader, UpdateTask(t, s))
    BY DEF EntrySigned, UpdateTask
  <1>3. SignedStep
    BY <1>1, <1>2 DEF SignedStep, Commit
  <1> QED
    BY <1>3, SignedKept

(* The round a proposal adds leaves the earlier ones as they were. *)
LEMMA NextIsSigned ==
    ASSUME NEW n \in Node, NEW s \in TaskState, Signed(n, s)
    PROVE  Signed(n, NextProposal(s, n))
  <1> DEFINE r == s.round + 1
             w == NextProposal(s, n)
  <1>1. /\ s.round \in Nat /\ w.result = <<n, r>> /\ w.round = r
        /\ w.proposals = WithProposal(s.proposals, r, <<n, r>>)
    BY DEF NextProposal, TaskState
  <1>2. ASSUME NEW q \in 1 .. r
        PROVE  AtRound(w, q) = {<<q, <<n, q>> >>}
    <2>1. CASE q = r
      BY <1>1, <2>1 DEF AtRound, WithProposal
    <2>2. CASE q # r
      <3>1. q \in 1 .. s.round
        BY <1>1, <2>2
      <3>2. AtRound(w, q) = AtRound(s, q)
        BY <1>1, <2>2 DEF AtRound, WithProposal
      <3> QED
        BY <3>1, <3>2 DEF Signed
    <2> QED
      BY <2>1, <2>2
  <1> QED
    BY <1>1, <1>2 DEF Signed

LEMMA ProposeSigned ==
    ASSUME TypeOK, Reigning, TextInv, NEW n \in Node, Propose(n)
    PROVE  TextInv'
  <1> DEFINE s == FirstProposal(n)
  <1>1. loop[n].task \in Task /\ n = leader
    BY Numbers, LoopFields DEF Propose, Aggregated, IsLeader
  <1>2. s \in TaskState /\ s.status = "proposal"
    BY DEF FirstProposal, TaskState, Status, Text
  <1>3. Signed(leader, s)
    BY <1>1 DEF Signed, AtRound, FirstProposal
  <1>4. Commit(UpdateTask(loop[n].task, s)) /\ UNCHANGED <<leader, ballots>>
    BY DEF Propose, Aggregated
  <1> HIDE DEF s
  <1> QED
    BY <1>1, <1>2, <1>3, <1>4, UpdateSigned

LEMMA ReviseSigned ==
    ASSUME TypeOK, Reigning, TextInv, NEW n \in Node, Revise(n)
    PROVE  TextInv'
  <1> DEFINE t == loop[n].task
             s == task[n][t]
  <1>1. /\ loop[n].at = "revising" /\ UNCHANGED <<leader, ballots>>
        /\ Commit(UpdateTask(t, NextProposal(s, n)))
    BY DEF Revise, Revised
  <1>2. n = leader /\ t \in Task /\ s \in TaskState /\ Signed(leader, s)
    BY <1>1, RevisedIsProposal, ProposalSigned DEF TextInv
  <1>3. NextProposal(s, n) \in TaskState /\ NextProposal(s, n).status = "proposal"
    BY <1>2, RecordsTyped DEF NextProposal
  <1>4. Signed(leader, NextProposal(s, n))
    BY <1>2, NextIsSigned
  <1> HIDE DEF s
  <1> QED
    BY <1>1, <1>2, <1>3, <1>4, UpdateSigned

LEMMA FailureSigned ==
    ASSUME TypeOK, Reigning, TextInv, NEW n \in Node,
           ReviseFails(n) \/ \E t \in Task : FailTask(n, t)
    PROVE  TextInv'
  <1>1. CASE ReviseFails(n)
    <2> DEFINE t == loop[n].task
               s == [task[n][t] EXCEPT !.status = "failed"]
    <2>1. loop[n].at = "revising" /\ Commit(UpdateTask(t, s)) /\ UNCHANGED <<leader, ballots>>
      BY <1>1 DEF ReviseFails
    <2>2. t \in Task /\ task[n][t] \in TaskState
      BY <2>1, RevisedIsProposal
    <2>3. s \in TaskState /\ s.status = "failed"
      BY <2>2, RecordsTyped DEF Final, TaskState
    <2> HIDE DEF s
    <2> QED
      BY <2>1, <2>2, <2>3, UpdateSigned
  <1>2. ASSUME NEW t \in Task, FailTask(n, t)
        PROVE  TextInv'
    <2>1. Commit(UpdateTask(t, TimedOutTask)) /\ UNCHANGED <<leader, ballots>>
      BY <1>2 DEF FailTask
    <2>2. TimedOutTask \in TaskState /\ TimedOutTask.status = "failed"
      BY DEF TimedOutTask, TaskState, Status, Text
    <2> QED
      BY <2>1, <2>2, UpdateSigned
  <1> QED
    BY <1>1, <1>2

(* Whatever round the verdict is about, its text goes with it. *)
LEMMA FinalizeSigned ==
    ASSUME TypeOK, Reigning, TextInv, NEW n \in Node, Finalize(n) \/ FinalizeFallback(n)
    PROVE  TextInv'
  <1> DEFINE t == Subject(n)
             s == Live(n)
             r == BestRound(votes[n], t, s.round)
  <1>1. /\ n = leader /\ t \in Task /\ s \in TaskState /\ s.status = "proposal"
        /\ s.round \in Nat \ {0} /\ Signed(leader, s)
    <2>1. CountVotes(n)
      BY DEF Finalize, FinalizeFallback
    <2> QED
      BY <2>1, CountedIsProposal, ProposalSigned, TallyAssumption DEF TextInv
  <1>2. ASSUME NEW status \in Final, NEW w \in TaskState, Settle(n, status, w),
               UNCHANGED ballots, w.result = <<leader, w.round>>
        PROVE  TextInv'
    <2> DEFINE u == [w EXCEPT !.status = status]
    <2>1. /\ u \in TaskState /\ u.status = status /\ u.status # "proposal"
          /\ u.round = w.round /\ u.result = w.result
      BY <1>1, RecordsTyped DEF TaskState, Final
    <2>2. Commit(UpdateTask(t, u)) /\ UNCHANGED leader
      BY <1>2 DEF Settle
    <2> HIDE DEF u
    <2> QED
      BY <1>1, <1>2, <2>1, <2>2, UpdateSigned
  <1>3. CASE Finalize(n)
    BY <1>1, <1>2, <1>3 DEF Finalize, Settle, Signed
  <1>4. CASE FinalizeFallback(n)
    <2> DEFINE w == FallBackTo(s, r)
    <2>1. r \in 1 .. s.round
      <3>1. Agents(votes[n])
        BY ReplicaVotesCount
      <3>2. Candidates(votes[n], t, s.round) # {}
        BY <1>1, <1>4, <3>1, DoneVerdictHasQuorum DEF FinalizeFallback, LiveVerdict
      <3> QED
        BY <1>1, <3>1, <3>2, BestRoundExists
    <2>2. ProposalOf(s, r) = <<leader, r>>
      <3>1. {p \in s.proposals : p[1] = r} = {<<r, <<leader, r>> >>}
        BY <1>1, <2>1 DEF Signed, AtRound
      <3>2. \E p \in s.proposals : p[1] = r
        BY <3>1
      <3>3. (CHOOSE p \in s.proposals : p[1] = r) = <<r, <<leader, r>> >>
        BY <3>1, <3>2
      <3>4. ProposalOf(s, r) = (CHOOSE p \in s.proposals : p[1] = r)[2]
        BY <3>2 DEF ProposalOf
      <3>5. <<r, <<leader, r>> >>[2] = <<leader, r>>
        OBVIOUS
      <3> QED
        BY <3>3, <3>4, <3>5
    <2>3. w \in TaskState /\ w.round = r /\ w.result = <<leader, r>>
      <3>1. r \in Nat
        BY <1>1, <2>1
      <3> QED
        BY <1>1, <2>2, <3>1, RecordsTyped DEF FallBackTo, TaskState
    <2>4. Settle(n, "done", w) /\ UNCHANGED ballots
      BY <1>4 DEF FinalizeFallback, Settle, CountVotes
    <2> HIDE DEF w, r
    <2> QED
      BY <1>2, <2>3, <2>4 DEF Final
  <1> QED
    BY <1>3, <1>4

(* A ballot is opened on the text of its round, and its vote carries it. *)
LEMMA OpenSigned ==
    ASSUME TypeOK, Reigning, TextInv, NEW n \in Node, OpenBallot(n)
    PROVE  TextInv'
  <1> DEFINE t == Subject(n)
             b == [agent |-> n, task |-> t, round |-> Live(n).round, text |-> Live(n).result]
  <1>1. /\ Handle(n, "TaskUpdated") /\ Live(n).status = "proposal"
        /\ ballots' = ballots (+) SetToBag({b}) /\ UNCHANGED <<leader, log>>
    BY DEF OpenBallot, raftVars
  <1>2. t \in Task /\ ~Waits(n) /\ Live(n) = task[n][t]
    BY <1>1, TakenFits, WorkerLeads DEF Handle, Reigning, Live
  <1>3. Current(log, task[n][t], t, applied[n]) /\ AdmittedFirst(log, t)
    BY <1>2 DEF Reigning, Core, RecordOK, Ahead, History, HistoryOf
  <1>4. \E i \in ProposalsIn(log, t) : Live(n) = log[i].state
    BY <1>1, <1>2, <1>3, Numbers, RecordTells
  <1>5. Signed(leader, Live(n))
    BY <1>4, ProposalSigned DEF TextInv
  <1>6. b.text = <<leader, b.round>>
    BY <1>5 DEF Signed
  <1> HIDE DEF b
  <1>7. SignedStep
    BY <1>1, <1>6 DEF SignedStep
  <1> QED
    BY <1>7, SignedKept

LEMMA VoteSigned ==
    ASSUME TypeOK, TextInv, NEW n \in Node, VoteOf(n)
    PROVE  TextInv'
  <1>1. PICK b \in BagToSet(ballots) : (\E ok \in BOOLEAN : CastVote(b, ok)) \/ LoseVote(b)
    BY DEF VoteOf
  <1>2. EndBallot(b) /\ b \in Ballot /\ b.text = <<leader, b.round>>
    <2>1. EndBallot(b)
      BY <1>1 DEF CastVote, LoseVote
    <2> QED
      BY <2>1, BallotBag DEF TextInv, BallotsSigned, BagToSet
  <1>3. ASSUME NEW ok \in BOOLEAN, CastVote(b, ok)
        PROVE  SignedStep
    <2> DEFINE v == [task |-> b.task, round |-> b.round, agent |-> b.agent,
                     accepted |-> ok, text |-> b.text]
    <2>1. /\ v \in Vote /\ b.task \in Task /\ b.agent \in Node
          /\ v.text = <<leader, v.round>>
      BY <1>2 DEF Vote, Ballot
    <2>2. log' = Append(log, SubmitVote(v)) /\ UNCHANGED leader
      BY <1>3 DEF CastVote, Commit
    <2> HIDE DEF v
    <2>3. SubmitVote(v) \in Command
      BY <2>1, CommandsTyped
    <2>4. EntrySigned(leader, SubmitVote(v))
      BY <2>1 DEF EntrySigned, SubmitVote
    <2> QED
      BY <1>2, <2>2, <2>3, <2>4 DEF SignedStep
  <1>4. ASSUME LoseVote(b)
        PROVE  SignedStep
    BY <1>2, <1>4 DEF LoseVote, SignedStep, raftVars
  <1>5. SignedStep
    BY <1>1, <1>3, <1>4
  <1> QED
    BY <1>5, SignedKept

(* The steps that write no text.  *)
Textless ==
    /\ UNCHANGED <<leader, ballots>>
    /\ \/ UNCHANGED log
       \/ \E c \in Command :
             Commit(c) /\ c.type \in {"AdmitTask", "SubmitAnswer", "UpdateReputation"}

LEMMA TextlessKept ==
    ASSUME TypeOK, TextInv, Textless
    PROVE  TextInv'
  <1>1. CASE UNCHANGED log
    BY <1>1, SignedKept DEF SignedStep, Textless
  <1>2. ASSUME NEW c \in Command, Commit(c),
               c.type \in {"AdmitTask", "SubmitAnswer", "UpdateReputation"}
        PROVE  TextInv'
    <2>1. EntrySigned(leader, c)
      BY <1>2 DEF EntrySigned
    <2> QED
      BY <1>2, <2>1, SignedKept DEF SignedStep, Textless, Commit
  <1> QED
    BY <1>1, <1>2 DEF Textless

LEMMA HandledTextless ==
    ASSUME TypeOK, MaxTerm = 0, NEW n \in Node,
           \/ HandleTaskAdmitted(n) \/ CompleteTask(n)
           \/ IgnoreAnswer(n) \/ LateAnswer(n) \/ AwaitAnswers(n) \/ StartProposal(n)
           \/ IgnoreVote(n) \/ AwaitVotes(n) \/ StartRevision(n)
           \/ \E t \in Task : ForceProposal(n, t) \/ FailTaskRefused(n, t)
    PROVE  Textless
  <1>1. LateAnswer(n) => UNCHANGED leader
    BY LeaderStays DEF LateAnswer
  <1> QED
    BY <1>1 DEF HandleTaskAdmitted, CompleteTask, IgnoreAnswer, LateAnswer, AwaitAnswers,
       StartProposal, IgnoreVote, AwaitVotes, StartRevision, ForceProposal, FailTaskRefused,
       Textless, raftVars, engineVars, CountVotes

LEMMA CalledTextless ==
    ASSUME TypeOK, MaxTerm = 0, NEW n \in Node,
           \/ Brainstorm(n) \/ BrainstormFails(n) \/ ProposeRefused(n) \/ ReviseRefused(n)
           \/ AggregateFails(n) \/ ReviseFailureRefused(n)
           \/ ApplyReturns(n) \/ ApplyFails(n) \/ FinalizeFails(n) \/ CheckTransfer(n)
    PROVE  Textless
  <1>1. AggregateFails(n) \/ ApplyFails(n) \/ CheckTransfer(n) => UNCHANGED leader
    BY LeaderStays DEF AggregateFails, ApplyFails, CheckTransfer
  <1>2. CASE Brainstorm(n)
    <2> DEFINE c == SubmitAnswer(loop[n].task, n)
    <2>1. loop[n].task \in Task
      BY <1>2, Numbers, LoopFields DEF Brainstorm
    <2>2. c \in Command /\ c.type = "SubmitAnswer"
      BY <2>1, CommandsTyped DEF SubmitAnswer
    <2> HIDE DEF c
    <2> QED
      BY <1>2, <2>2 DEF Brainstorm, Textless, c
  <1> QED
    BY <1>1, <1>2 DEF BrainstormFails, ProposeRefused, ReviseRefused, Aggregated, Revised,
       AggregateFails, ReviseFailureRefused, ApplyReturns, ApplyFails, FinalizeFails,
       CheckTransfer, Textless, raftVars

LEMMA RewardTextless ==
    ASSUME TypeOK, NEW n \in Node, RewardLeader(n) \/ RewardVoter(n)
    PROVE  Textless
  <1>1. loop[n] \in LoopState /\ loop[n].at \in {"finalizing", "rewarding"}
    BY Numbers DEF RewardLeader, RewardVoter
  <1>2. ASSUME NEW a \in Node, NEW x \in 0 .. FullReputation, NEW due, Reward(n, a, x, due)
        PROVE  Textless
    <2>1. UpdateReputation(a, x) \in Command /\ UpdateReputation(a, x).type = "UpdateReputation"
      BY DEF UpdateReputation, Command
    <2> QED
      BY <1>2, <2>1 DEF Reward, Textless
  <1>3. \A a \in Node : Reputation(n, a) \in Int
    <2> SUFFICES ASSUME NEW a \in Node
                 PROVE  Reputation(n, a) \in Int
      OBVIOUS
    <2>1. rep[n][a] \in 0 .. FullReputation \cup {Unset}
      BY DEF TypeOK, FSMTypeOK
    <2> QED
      BY <2>1 DEF Reputation, FullReputation, Unset
  <1>4. CASE RewardLeader(n)
    <2>1. LeaderReward(loop[n].status, Reputation(n, n)) \in 0 .. FullReputation
      BY <1>3, ClampRange DEF LeaderReward
    <2> QED
      BY <1>2, <1>4, <2>1 DEF RewardLeader
  <1>5. CASE RewardVoter(n)
    <2>1. PICK b \in loop[n].voters :
             Reward(n, b[1], VoterReward(loop[n].status, b[2], Reputation(n, b[1])),
                    loop[n].voters \ {b})
      BY <1>5 DEF RewardVoter
    <2>2. b[1] \in Node
      BY <1>1, LoopFields
    <2>3. VoterReward(loop[n].status, b[2], Reputation(n, b[1])) \in 0 .. FullReputation
      BY <1>3, <2>2, ClampRange DEF VoterReward
    <2> QED
      BY <1>2, <2>1, <2>2, <2>3
  <1> QED
    BY <1>4, <1>5

LEMMA StepSigned ==
    ASSUME TypeOK, MaxTerm = 0, Reigning, TextInv, NEW n \in Node, Step(n)
    PROVE  TextInv'
  <1>1. CASE Textless
    BY <1>1, TextlessKept
  <1>2. CASE Replicate(n)
    BY <1>2, ReplicateTakes, TextlessKept DEF TakesNext, Textless
  <1>3. CASE HandleEvent(n)
    BY <1>1, <1>3, HandledTextless, OpenSigned, FinalizeSigned, FallbackNotRefused
    DEF HandleEvent
  <1>4. CASE HandleTimeout(n)
    BY <1>1, <1>4, HandledTextless, FailureSigned DEF HandleTimeout
  <1>5. CASE CallSucceeds(n)
    BY <1>1, <1>5, CalledTextless, ProposeSigned, ReviseSigned DEF CallSucceeds
  <1>6. CASE CallFails(n)
    BY <1>1, <1>6, CalledTextless, FailureSigned DEF CallFails
  <1>7. CASE FinishCall(n)
    BY <1>1, <1>7, CalledTextless, RewardTextless DEF FinishCall
  <1>8. CASE Fire(n)
    BY <1>1, <1>8 DEF Fire, TimerFires, OrphanFires, Textless, raftVars
  <1>9. CASE VoteOf(n)
    BY <1>9, VoteSigned
  <1>10. CASE Elect(n)
    BY <1>10, LeaderStays DEF Elect
  <1> QED
    BY <1>2, <1>3, <1>4, <1>5, <1>6, <1>7, <1>8, <1>9, <1>10 DEF Step

LEMMA NextSigned ==
    ASSUME TypeOK, MaxTerm = 0, Reigning, TextInv, [Next]_vars
    PROVE  TextInv'
  <1>1. ASSUME NEW t \in Task, SubmitTask(t)
        PROVE  TextInv'
    <2>1. AdmitTask(t) \in Command /\ AdmitTask(t).type = "AdmitTask"
      BY DEF AdmitTask, Command
    <2> QED
      BY <1>1, <2>1, TextlessKept DEF SubmitTask, Textless, engineVars
  <1>2. ASSUME NEW n \in Node, Step(n)
        PROVE  TextInv'
    BY <1>2, StepSigned
  <1>3. CASE UNCHANGED vars
    BY <1>3, TextlessKept DEF vars, raftVars, engineVars, Textless
  <1> QED
    BY <1>1, <1>2, <1>3 DEF Next

(* The texts of the votes that stand are those of their rounds. *)
LEMMA StandingSigned ==
    ASSUME TextInv, NEW k, NEW v \in StandingVotes(k)
    PROVE  v.text = <<leader, v.round>>
  <1>1. PICK i \in 1 .. Len(log) : log[i].type = "SubmitVote" /\ v = log[i].vote
    BY DEF StandingVotes, Entries
  <1> QED
    BY <1>1 DEF TextInv, LogSigned, EntrySigned

(***************************************************************************)
(* Under one leader the result of a done task is a text that a majority of *)
(* the cluster accepted before the task was declared done, also when       *)
(* runFinalizeTask went back to an earlier round (engine.go 567-568).      *)
(***************************************************************************)
THEOREM ResultAlwaysAcceptedText ==
    ASSUME MaxTerm = 0
    PROVE  Spec => []ResultIsAcceptedText
  <1>1. Init => TextInv
    BY DEF Init, FSMInit, TextInv, LogSigned, BallotsSigned, EmptyBag, SetToBag
  <1>2. TypeOK /\ Reigning /\ TextInv /\ [Next]_vars => TextInv'
    BY NextSigned
  <1>3. TypeOK /\ DoneHasQuorum /\ TextInv => ResultIsAcceptedText
    <2> SUFFICES ASSUME TypeOK, DoneHasQuorum, TextInv, NEW t \in Task, NEW i \in Finals(t),
                        log[i].state.status = "done"
                 PROVE  Cardinality(Endorsers(t, log[i].state.result, i - 1)) >= Quorum
      BY DEF ResultIsAcceptedText
    <2> DEFINE S == StandingVotes(i - 1)
               s == log[i].state
    <2>1. /\ i \in 1 .. Len(log) /\ i \in Entries("UpdateTask")
          /\ log[i].task = t /\ log[i].type = "UpdateTask"
      BY DEF Finals, Updates, Entries
    <2>2. s.result = <<leader, s.round>>
      BY <2>1 DEF TextInv, LogSigned, EntrySigned
    <2>3. Accepted(S, t, s.round) >= Quorum
      BY <2>1 DEF DoneHasQuorum
    <2>4. Agents(S)
      <3>1. i - 1 \in Nat
        BY <2>1, Numbers
      <3> QED
        BY <3>1, StandingTyped
    <2>5. Acceptors(S, t, s.round) \subseteq Endorsers(t, s.result, i - 1)
      BY <2>2, StandingSigned DEF Acceptors, InRound, Endorsers
    <2>6. Endorsers(t, s.result, i - 1) \subseteq Node
      BY <2>4 DEF Agents, Endorsers
    <2> QED
      <3> DEFINE E == Endorsers(t, s.result, i - 1)
      <3>1. /\ IsFiniteSet(E) /\ Cardinality(E) \in Nat
            /\ Cardinality(Acceptors(S, t, s.round)) <= Cardinality(E)
        BY <2>5, <2>6, TallyAssumption, FS_Subset, FS_CardinalityType
      <3>2. Accepted(S, t, s.round) \in Nat /\ Quorum \in Nat
        BY <2>4, CountsTyped, QuorumIsMajority
      <3> HIDE DEF E
      <3> QED
        BY <2>3, <3>1, <3>2 DEF Accepted, E
  <1> QED
    BY <1>1, <1>2, <1>3, ReignInvariant, TypeCorrect, DoneAlwaysHasQuorum, PTL DEF Spec

-----------------------------------------------------------------------------
(***************************************************************************)
(* No task is abandoned.  Until the log has a final status for a task, the *)
(* leader has a timer for it, or will start one: the TaskAdmitted event    *)
(* waits in its channel, or its replica has not applied the admission yet. *)
(***************************************************************************)
Undecided(t) == Known(t) /\ \A i \in UpdatesIn(log, t) : log[i].state.status \notin Final

Pending(n, t) ==
    \E i \in 1 .. Len(events[n]) : events[n][i] = [type |-> "TaskAdmitted", task |-> t]

Unheard(n, t) == ~AdmittedBy(log, t, applied[n])

Watched ==
    \A t \in Task : Undecided(t) =>
        Timed(leader, t) \/ Pending(leader, t) \/ Unheard(leader, t)

(***************************************************************************)
(* The channel of the leader has room for what its replica publishes: the  *)
(* event a full channel drops may be the one that starts a task's timer.   *)
(***************************************************************************)
LeaderHasRoom == Len(events[leader]) < EventCap

(* The admission of a task is decided on by the log alone. *)
LEMMA UndecidedBefore ==
    ASSUME TypeOK, LogGrows, NEW t
    PROVE  /\ Undecided(t)' /\ Known(t) => Undecided(t)
           /\ Known(t)' /\ ~Known(t) => ~AdmittedBy(log', t, Len(log))
           /\ \A k \in Nat : k <= Len(log) => (AdmittedBy(log', t, k) <=> AdmittedBy(log, t, k))
  <1>0. log \in Seq(Command) /\ Len(log) \in Nat
    BY Numbers
  <1>1. CASE log' = log
    BY <1>1 DEF Undecided, Known
  <1>2. ASSUME NEW c \in Command, log' = Append(log, c)
        PROVE  /\ UpdatesIn(log, t) \subseteq UpdatesIn(log', t)
               /\ \A i \in UpdatesIn(log, t) : log'[i] = log[i]
               /\ \A k \in Nat : k <= Len(log) =>
                     (AdmittedBy(log', t, k) <=> AdmittedBy(log, t, k))
    <2>1. UpdatesIn(log, t) \subseteq UpdatesIn(log', t)
      BY <1>0, <1>2, UpdatesAppended
    <2>2. \A i \in UpdatesIn(log, t) : log'[i] = log[i]
      BY <1>0, <1>2, Appended, IndicesTyped
    <2>3. \A k \in Nat : k <= Len(log) => (AdmittedBy(log', t, k) <=> AdmittedBy(log, t, k))
      BY <1>0, <1>2, AdmittedAppended
    <2> QED
      BY <2>1, <2>2, <2>3
  <1> QED
    BY <1>0, <1>1, <1>2 DEF LogGrows, Undecided, Known

(***************************************************************************)
(* What an engine may do to what watches over the tasks: the tasks that    *)
(* are still undecided afterwards keep what they had, or get a timer.      *)
(***************************************************************************)
StaysWatched(t) ==
    Undecided(t) /\ Undecided(t)' /\ (Timed(leader, t) \/ Pending(leader, t)) =>
        Timed(leader, t)' \/ Pending(leader, t)'

LEMMA WatchedKept ==
    ASSUME TypeOK, Watched, LogGrows, UNCHANGED <<leader, applied>>,
           \A t \in Task : StaysWatched(t)
    PROVE  Watched'
  <1> SUFFICES ASSUME NEW t \in Task, Undecided(t)'
               PROVE  (Timed(leader, t) \/ Pending(leader, t) \/ Unheard(leader, t))'
    BY DEF Watched
  <1>1. /\ applied[leader] \in Nat /\ applied[leader] <= Len(log)
        /\ applied'[leader'] = applied[leader] /\ Len(log) \in Nat /\ leader' = leader
    BY Numbers
  <1>2. CASE ~Known(t)
    <2>1. ~AdmittedBy(log', t, Len(log))
      BY <1>2, UndecidedBefore DEF Undecided
    <2>2. ~AdmittedBy(log', t, applied[leader])
      BY <1>1, <2>1 DEF AdmittedBy
    <2> QED
      BY <1>1, <2>2 DEF Unheard
  <1>3. CASE Known(t)
    <2>1. Undecided(t)
      BY <1>3, UndecidedBefore
    <2>2. Unheard(leader, t) => Unheard(leader, t)'
      BY <1>1, UndecidedBefore DEF Unheard
    <2> QED
      BY <2>1, <2>2 DEF Watched, StaysWatched
  <1> QED
    BY <1>2, <1>3

(* Taking an event leaves the admissions that wait behind it. *)
LEMMA PendingKept ==
    ASSUME TypeOK, NEW n \in Node, NEW type, Handle(n, type), NEW m \in Node, NEW t,
           Pending(m, t)
    PROVE  Pending(m, t)' \/ (m = n /\ type = "TaskAdmitted" /\ t = Subject(n))
  <1> DEFINE e == [type |-> "TaskAdmitted", task |-> t]
  <1>1. /\ events \in [Node -> Seq(Event)] /\ events[n] \in Seq(Event) /\ events[n] # <<>>
        /\ Head(events[n]).type = type /\ events' = [events EXCEPT ![n] = Tail(@)]
    BY DEF Handle, TypeOK, FSMTypeOK
  <1>2. PICK i \in 1 .. Len(events[m]) : events[m][i] = e
    BY DEF Pending
  <1>3. CASE m # n
    BY <1>1, <1>2, <1>3 DEF Pending
  <1>4. CASE m = n /\ i = 1
    <2>1. Head(events[n]) = e
      BY <1>1, <1>2, <1>4
    <2> QED
      BY <1>1, <1>4, <2>1 DEF Subject
  <1>5. CASE m = n /\ i # 1
    <2>1. /\ events'[n] = Tail(events[n])
          /\ i - 1 \in 1 .. Len(Tail(events[n])) /\ Tail(events[n])[i - 1] = events[n][i]
      BY <1>1, <1>2, <1>5
    <2> QED
      BY <1>2, <1>5, <2>1 DEF Pending
  <1> QED
    BY <1>3, <1>4, <1>5

(* A timer that expired and was handled leaves the others that wait.  *)
LEMMA FiredKept ==
    ASSUME TypeOK, NEW n \in Node, NEW t, Expire(n, t), NEW m \in Node,
           NEW i \in 1 .. Len(timerCh[m]), timerCh[m][i] # t
    PROVE  \E j \in 1 .. Len(timerCh'[m]) : timerCh'[m][j] = timerCh[m][i]
  <1>1. /\ timerCh \in [Node -> Seq(Task)] /\ timerCh[n] \in Seq(Task) /\ timerCh[n] # <<>>
        /\ t = Head(timerCh[n]) /\ timerCh' = [timerCh EXCEPT ![n] = Tail(@)]
    BY DEF Expire, TypeOK, EngineTypeOK
  <1>2. CASE m # n
    BY <1>1, <1>2
  <1>3. CASE m = n
    <2>1. i # 1
      BY <1>1, <1>3
    <2>2. /\ timerCh'[n] = Tail(timerCh[n])
          /\ i - 1 \in 1 .. Len(Tail(timerCh[n])) /\ Tail(timerCh[n])[i - 1] = timerCh[n][i]
      BY <1>1, <1>3, <2>1
    <2> QED
      BY <1>3, <2>2
  <1> QED
    BY <1>2, <1>3

(* What the steps do that have nothing to do with timers. *)
Aside ==
    /\ UNCHANGED <<leader, timers, timerCh>>
    /\ \/ UNCHANGED events
       \/ \E n \in Node : \E type : Handle(n, type) /\ type # "TaskAdmitted"

LEMMA AsideKept ==
    ASSUME TypeOK, Watched, LogGrows, UNCHANGED applied, Aside
    PROVE  Watched'
  <1>1. leader' = leader /\ leader \in Node
    BY Numbers DEF Aside
  <1>2. ASSUME NEW t
        PROVE  StaysWatched(t)
    <2>1. Timed(leader, t) => Timed(leader, t)'
      BY <1>1 DEF Timed, Aside
    <2>2. Pending(leader, t) => Pending(leader, t)'
      <3>1. CASE UNCHANGED events
        BY <1>1, <3>1 DEF Pending
      <3>2. ASSUME NEW n \in Node, NEW type, Handle(n, type), type # "TaskAdmitted"
            PROVE  Pending(leader, t) => Pending(leader, t)'
        <4>1. ASSUME Pending(leader, t)
              PROVE  \E i \in 1 .. Len(events'[leader]) :
                        events'[leader][i] = [type |-> "TaskAdmitted", task |-> t]
          BY <1>1, <3>2, <4>1, PendingKept DEF Pending
        <4> QED
          BY <1>1, <4>1 DEF Pending
      <3> QED
        BY <3>1, <3>2 DEF Aside
    <2> QED
      BY <2>1, <2>2 DEF StaysWatched
  <1> QED
    BY <1>1, <1>2, WatchedKept

(* A timer is started for the task the leader works on.  *)
LEMMA StartedKept ==
    ASSUME TypeOK, Watched, NEW n \in Node, NEW type, Handle(n, type),
           UNCHANGED <<leader, applied, log, timerCh>>,
           \/ n = leader /\ StartTimer(n, Subject(n))
           \/ n # leader /\ UNCHANGED timers
    PROVE  Watched'
  <1>1. leader' = leader /\ leader \in Node /\ timers \in [Node -> [Task -> Timer]]
    BY Numbers DEF TypeOK, EngineTypeOK
  <1>2. Subject(n) \in Task
    BY HandleTyped DEF Subject
  <1>3. ASSUME NEW t \in Task
        PROVE  StaysWatched(t)
    <2>1. CASE n = leader /\ t = Subject(n)
      <3>1. timers'[n][t].armed
        BY <1>1, <1>2, <2>1 DEF StartTimer, Armed
      <3> QED
        BY <1>1, <2>1, <3>1 DEF Timed, StaysWatched
    <2>2. CASE ~(n = leader /\ t = Subject(n))
      <3>1. timers'[leader][t] = timers[leader][t]
        BY <1>1, <1>2, <2>2 DEF StartTimer
      <3>2. Timed(leader, t) => Timed(leader, t)'
        BY <1>1, <3>1 DEF Timed
      <3>3. ASSUME Pending(leader, t)
            PROVE  \E i \in 1 .. Len(events'[leader]) :
                      events'[leader][i] = [type |-> "TaskAdmitted", task |-> t]
        BY <1>1, <2>2, <3>3, PendingKept DEF Pending
      <3>4. Pending(leader, t) => Pending(leader, t)'
        BY <1>1, <3>3 DEF Pending
      <3> QED
        BY <3>2, <3>4 DEF StaysWatched
    <2> QED
      BY <2>1, <2>2
  <1>4. LogGrows
    BY DEF LogGrows
  <1> QED
    BY <1>3, <1>4, WatchedKept

(* The timer of a task is only stopped once the log has its final status. *)
LEMMA CompleteWatched ==
    ASSUME TypeOK, Reigning, Watched, NEW n \in Node, CompleteTask(n)
    PROVE  Watched'
  <1> DEFINE u == Subject(n)
  <1>1. /\ Handle(n, "TaskUpdated") /\ task[n][u].status \in Final /\ StopTimer(n, u)
        /\ UNCHANGED <<leader, applied, log, timerCh>>
    BY DEF CompleteTask, Live, raftVars, store
  <1>2. leader' = leader /\ leader \in Node /\ timers \in [Node -> [Task -> Timer]] /\ u \in Task
    BY <1>1, Numbers, TakenFits DEF TypeOK, EngineTypeOK, Reigning
  <1>3. ~Undecided(u)
    <2>1. ~Waits(n)
      BY <1>1, WorkerLeads DEF Handle, Reigning
    <2>2. Current(log, task[n][u], u, applied[n])
      BY <1>2, <2>1 DEF Reigning, Core, RecordOK, Ahead
    <2>3. \E i \in UpdatesIn(log, u) : task[n][u] = log[i].state
      BY <1>1, <2>2, PlainRecords DEF Current, Final
    <2> QED
      BY <1>1, <2>3 DEF Undecided
  <1>4. ASSUME NEW t \in Task
        PROVE  StaysWatched(t)
    <2>1. CASE t = u
      BY <1>3, <2>1 DEF StaysWatched
    <2>2. CASE t # u
      <3>1. timers'[leader][t] = timers[leader][t]
        BY <1>1, <1>2, <2>2 DEF StopTimer
      <3>2. Timed(leader, t) => Timed(leader, t)'
        BY <1>1, <1>2, <3>1 DEF Timed
      <3>3. ASSUME Pending(leader, t)
            PROVE  \E i \in 1 .. Len(events'[leader]) :
                      events'[leader][i] = [type |-> "TaskAdmitted", task |-> t]
        BY <1>1, <1>2, <3>3, PendingKept DEF Pending
      <3>4. Pending(leader, t) => Pending(leader, t)'
        BY <1>2, <3>3 DEF Pending
      <3> QED
        BY <3>2, <3>4 DEF StaysWatched
    <2> QED
      BY <2>1, <2>2
  <1>5. LogGrows
    BY <1>1 DEF LogGrows
  <1> QED
    BY <1>1, <1>4, <1>5, WatchedKept

(* A timer that fires waits in the channel of the goroutine. *)
LEMMA FireWatched ==
    ASSUME TypeOK, Watched, NEW n \in Node, NEW u \in Task,
           TimerFires(n, u) \/ OrphanFires(n, u)
    PROVE  Watched'
  <1>1. /\ UNCHANGED <<leader, applied, log, events>>
        /\ timerCh' = [timerCh EXCEPT ![n] = Append(@, u)]
        /\ \A m \in Node, t \in Task : m # n \/ t # u => timers'[m][t] = timers[m][t]
    <2>1. timers \in [Node -> [Task -> Timer]]
      BY DEF TypeOK, EngineTypeOK
    <2>2. \E r : timers' = [timers EXCEPT ![n][u] = r]
      BY DEF TimerFires, OrphanFires, StopTimer
    <2>3. \A m \in Node, t \in Task : m # n \/ t # u => timers'[m][t] = timers[m][t]
      BY <2>1, <2>2
    <2> QED
      BY <2>3 DEF TimerFires, OrphanFires, raftVars, replicaVars, store
  <1>2. leader' = leader /\ leader \in Node /\ timerCh \in [Node -> Seq(Task)]
    BY <1>1, Numbers DEF TypeOK, EngineTypeOK
  <1>3. ASSUME NEW t \in Task
        PROVE  StaysWatched(t)
    <2>1. Timed(leader, t) => Timed(leader, t)'
      <3>1. timerCh[leader] \in Seq(Task) /\ Len(timerCh[leader]) \in Nat
        BY <1>2
      <3>2. CASE leader = n /\ t = u
        <4>1. timerCh'[leader] = Append(timerCh[leader], t)
          BY <1>1, <1>2, <3>2
        <4>2. /\ Len(timerCh[leader]) + 1 \in 1 .. Len(timerCh'[leader])
              /\ timerCh'[leader][Len(timerCh[leader]) + 1] = t
          BY <3>1, <4>1
        <4> QED
          BY <1>2, <4>2 DEF Timed
      <3>3. CASE leader # n \/ t # u
        <4>1. timers'[leader][t] = timers[leader][t]
          BY <1>1, <1>2, <3>3
        <4>2. \A i \in 1 .. Len(timerCh[leader]) :
                 i \in 1 .. Len(timerCh'[leader]) /\ timerCh'[leader][i] = timerCh[leader][i]
          BY <1>1, <1>2, <3>1
        <4> QED
          BY <1>2, <4>1, <4>2 DEF Timed
      <3> QED
        BY <3>2, <3>3
    <2>2. Pending(leader, t) => Pending(leader, t)'
      BY <1>1, <1>2 DEF Pending
    <2> QED
      BY <2>1, <2>2 DEF StaysWatched
  <1>4. LogGrows
    BY <1>1 DEF LogGrows
  <1> QED
    BY <1>1, <1>3, <1>4, WatchedKept

(***************************************************************************)
(* A timeout that is handled fails the task, or starts the timer of the    *)
(* vote; on a node that does not lead it concerns nobody.                  *)
(***************************************************************************)
LEMMA TimeoutWatched ==
    ASSUME TypeOK, Reigning, Watched, NEW n \in Node, NEW u \in Task,
           ForceProposal(n, u) \/ FailTask(n, u) \/ FailTaskRefused(n, u)
    PROVE  Watched'
  <1>1. /\ UNCHANGED <<leader, applied, events>> /\ Expire(n, u)
        /\ \A m \in Node, t \in Task : m # n \/ t # u => timers'[m][t] = timers[m][t]
    <2>1. timers \in [Node -> [Task -> Timer]]
      BY DEF TypeOK, EngineTypeOK
    <2> QED
      BY <2>1 DEF ForceProposal, FailTask, FailTaskRefused, raftVars, replicaVars, store
  <1>2. leader' = leader /\ leader \in Node /\ timerCh \in [Node -> Seq(Task)]
        /\ timers \in [Node -> [Task -> Timer]]
    BY <1>1, Numbers DEF TypeOK, EngineTypeOK
  <1>3. LogGrows
    <2>1. TimedOutTask \in TaskState
      BY DEF TimedOutTask, TaskState, Status, Text
    <2>2. UpdateTask(u, TimedOutTask) \in Command
      BY <1>2, <2>1, CommandsTyped
    <2> QED
      BY <2>2 DEF ForceProposal, FailTask, FailTaskRefused, LogGrows, Commit, raftVars
  <1>4. ASSUME NEW t \in Task, ~(n = leader /\ t = u)
        PROVE  StaysWatched(t)
    <2>1. timers'[leader][t] = timers[leader][t]
      BY <1>1, <1>2, <1>4
    <2>2. ASSUME NEW i \in 1 .. Len(timerCh[leader]), timerCh[leader][i] = t
          PROVE  \E j \in 1 .. Len(timerCh'[leader]) : timerCh'[leader][j] = t
      <3>1. ASSUME t # u
            PROVE  \E j \in 1 .. Len(timerCh'[leader]) : timerCh'[leader][j] = t
        <4>1. timerCh[leader][i] # u /\ Expire(n, u) /\ leader \in Node
          BY <1>1, <1>2, <2>2, <3>1
        <4>2. \E j \in 1 .. Len(timerCh'[leader]) : timerCh'[leader][j] = timerCh[leader][i]
          BY <4>1, FiredKept
        <4> QED
          BY <2>2, <4>2
      <3>2. CASE n # leader
        BY <1>1, <1>2, <2>2, <3>2 DEF Expire
      <3> QED
        BY <1>4, <3>1, <3>2
    <2>3. Timed(leader, t) => Timed(leader, t)'
      BY <1>2, <2>1, <2>2 DEF Timed
    <2>4. Pending(leader, t) => Pending(leader, t)'
      BY <1>1, <1>2 DEF Pending
    <2> QED
      BY <2>3, <2>4 DEF StaysWatched
  <1>5. ASSUME n = leader
        PROVE  StaysWatched(u)
    <2>1. CASE ForceProposal(n, u)
      <3>1. timers'[n][u].armed
        BY <1>2, <2>1 DEF ForceProposal, Armed
      <3> QED
        BY <1>2, <1>5, <3>1 DEF StaysWatched, Timed
    <2>2. CASE FailTask(n, u)
      <3>1. log' = Append(log, UpdateTask(u, TimedOutTask))
        BY <2>2 DEF FailTask, Commit
      <3>2. /\ Len(log) + 1 \in 1 .. Len(log')
            /\ log'[Len(log) + 1] = UpdateTask(u, TimedOutTask)
        BY <3>1, Numbers
      <3>3. Len(log) + 1 \in UpdatesIn(log', u)
        BY <3>2, UpdateFields DEF UpdatesIn
      <3>4. \E i \in UpdatesIn(log', u) : log'[i].state.status \in Final
        BY <3>2, <3>3, UpdateFields, PlainRecords DEF Final
      <3> QED
        BY <3>4 DEF Undecided, StaysWatched
    <2> QED
      BY <1>5, <2>1, <2>2 DEF FailTaskRefused, IsLeader
  <1> QED
    BY <1>1, <1>3, <1>4, <1>5, WatchedKept

(* What a replica publishes comes behind the admissions that wait. *)
LEMMA PublishedKept ==
    ASSUME TypeOK, NEW n \in Node, Replicate(n), NEW m \in Node, NEW t, Pending(m, t)
    PROVE  Pending(m, t)'
  <1>1. events \in [Node -> Seq(Event)] /\ events[m] \in Seq(Event)
    BY DEF TypeOK, FSMTypeOK
  <1>2. UNCHANGED events \/ \E e : events' = [events EXCEPT ![n] = Append(@, e)]
    BY DEF Replicate, ApplyCommand, ApplyAdmitTask, ApplySubmitAnswer, ApplyUpdateTask,
       ApplySubmitVote, ApplyUpdateReputation, Publish
  <1>3. events'[m] = events[m] \/ \E e : events'[m] = Append(events[m], e)
    BY <1>1, <1>2
  <1>4. \A i \in 1 .. Len(events[m]) :
           i \in 1 .. Len(events'[m]) /\ events'[m][i] = events[m][i]
    BY <1>1, <1>3
  <1> QED
    BY <1>4 DEF Pending

(* The leader's replica hands the admission it applies to the engine. *)
LEMMA ReplicateWatched ==
    ASSUME TypeOK, Watched, LeaderHasRoom, NEW n \in Node, Replicate(n)
    PROVE  Watched'
  <1>1. /\ TakesNext(n) /\ leader' = leader /\ leader \in Node /\ log \in Seq(Command)
        /\ applied \in [Node -> Nat] /\ applied' = [applied EXCEPT ![n] = @ + 1]
        /\ UNCHANGED <<log, timers, timerCh>>
    BY ReplicateTakes, Numbers DEF TakesNext, TypeOK, FSMTypeOK
  <1>2. ASSUME NEW t \in Task, Undecided(t)'
        PROVE  Timed(leader, t)' \/ Pending(leader, t)' \/ Unheard(leader, t)'
    <2>1. Timed(leader, t) \/ Pending(leader, t) \/ Unheard(leader, t)
      BY <1>1, <1>2 DEF Undecided, Known, Watched
    <2>2. Timed(leader, t) => Timed(leader, t)'
      BY <1>1 DEF Timed
    <2>3. Pending(leader, t) => Pending(leader, t)'
      <3>1. ASSUME Pending(leader, t)
            PROVE  \E i \in 1 .. Len(events'[leader]) :
                      events'[leader][i] = [type |-> "TaskAdmitted", task |-> t]
        BY <1>1, <3>1, PublishedKept DEF Pending
      <3> QED
        BY <1>1, <3>1 DEF Pending
    <2>4. Unheard(leader, t) => Unheard(leader, t)' \/ Pending(leader, t)'
      <3>1. CASE n # leader
        BY <1>1, <3>1 DEF Unheard
      <3>2. ASSUME n = leader, ~AdmittedBy(log, t, applied[n]), AdmittedBy(log, t, applied[n] + 1)
            PROVE  \E i \in 1 .. Len(events'[n]) :
                      events'[n][i] = [type |-> "TaskAdmitted", task |-> t]
        <4> DEFINE e == [type |-> "TaskAdmitted", task |-> t]
        <4>1. PICK i \in 1 .. Len(log) : i <= applied[n] + 1 /\ log[i] = AdmitTask(t)
          BY <3>2 DEF AdmittedBy
        <4>2. ~(i <= applied[n])
          BY <3>2, <4>1 DEF AdmittedBy
        <4>3. NextCommand(n) = AdmitTask(t)
          BY <1>1, <4>1, <4>2 DEF NextCommand
        <4>4. NextCommand(n).type = "AdmitTask" /\ NextCommand(n).task = t
          BY <4>3 DEF AdmitTask
        <4>5. ApplyAdmitTask(n)
          BY <4>4 DEF Replicate, ApplyCommand, ApplySubmitAnswer, ApplyUpdateTask,
             ApplySubmitVote, ApplyUpdateReputation, Take
        <4>6. events' = [events EXCEPT ![n] = Append(@, e)]
          BY <3>2, <4>4, <4>5 DEF ApplyAdmitTask, Publish, LeaderHasRoom
        <4>7. events \in [Node -> Seq(Event)] /\ events[n] \in Seq(Event)
          BY DEF TypeOK, FSMTypeOK
        <4>8. events'[n] = Append(events[n], e)
          BY <4>6, <4>7
        <4>9. /\ Len(events[n]) + 1 \in 1 .. Len(events'[n])
              /\ events'[n][Len(events[n]) + 1] = e
          BY <4>7, <4>8
        <4> QED
          BY <4>9
      <3>3. CASE n = leader
        <4>1. applied'[leader] = applied[n] + 1
          BY <1>1, <3>3
        <4> QED
          BY <1>1, <3>2, <3>3, <4>1 DEF Unheard, Pending
      <3> QED
        BY <3>1, <3>3
    <2> QED
      BY <2>1, <2>2, <2>3, <2>4
  <1> QED
    BY <1>2 DEF Watched

(* The steps of the engines that have nothing to do with timers.  *)
LEMMA HandledAside ==
    ASSUME TypeOK, MaxTerm = 0, NEW n \in Node,
           \/ IgnoreAnswer(n) \/ LateAnswer(n) \/ AwaitAnswers(n) \/ OpenBallot(n)
           \/ IgnoreVote(n) \/ AwaitVotes(n) \/ StartRevision(n)
           \/ Finalize(n) \/ FinalizeFallback(n)
    PROVE  Aside
  <1>1. UNCHANGED leader
    BY LeaderStays DEF IgnoreAnswer, LateAnswer, AwaitAnswers, OpenBallot, IgnoreVote,
       AwaitVotes, StartRevision, Finalize, FinalizeFallback, Settle, raftVars
  <1>2. UNCHANGED <<timers, timerCh>>
    BY DEF IgnoreAnswer, LateAnswer, AwaitAnswers, OpenBallot, IgnoreVote,
       AwaitVotes, StartRevision, Finalize, FinalizeFallback, Settle, engineVars, timerVars
  <1>3. \E type : Handle(n, type) /\ type # "TaskAdmitted"
    <2>1. \/ Handle(n, "AnswerSubmitted") \/ Handle(n, "TaskUpdated")
          \/ Handle(n, "VoteSubmitted")
      BY DEF IgnoreAnswer, LateAnswer, AwaitAnswers, OpenBallot, IgnoreVote,
         AwaitVotes, StartRevision, Finalize, FinalizeFallback, CountVotes
    <2> QED
      BY <2>1
  <1> QED
    BY <1>1, <1>2, <1>3 DEF Aside

LEMMA CalledAside ==
    ASSUME TypeOK, MaxTerm = 0, NEW n \in Node,
           CallSucceeds(n) \/ CallFails(n) \/ FinishCall(n) \/ VoteOf(n)
    PROVE  Aside
  <1>1. CASE CallSucceeds(n)
    BY <1>1 DEF CallSucceeds, Brainstorm, Propose, ProposeRefused, Aggregated, Revise,
       ReviseRefused, Revised, Aside, replicaVars, timerVars
  <1>2. CASE CallFails(n)
    BY <1>2, LeaderStays DEF CallFails, BrainstormFails, AggregateFails, ReviseFails,
       ReviseFailureRefused, Aside, raftVars, replicaVars, timerVars
  <1>3. CASE FinishCall(n)
    BY <1>3, LeaderStays DEF FinishCall, ApplyReturns, ApplyFails, FinalizeFails, RewardLeader,
       RewardVoter, Reward, CheckTransfer, Aside, raftVars, replicaVars, timerVars
  <1>4. CASE VoteOf(n)
    BY <1>4 DEF VoteOf, CastVote, LoseVote, Aside, raftVars, replicaVars, timerVars
  <1> QED
    BY <1>1, <1>2, <1>3, <1>4

LEMMA StepWatched ==
    ASSUME TypeOK, MaxTerm = 0, Reigning, Watched, LeaderHasRoom,
           LogGrows, UNCHANGED applied, NEW n \in Node, Step(n)
    PROVE  Watched'
  <1>1. CASE Aside
    BY <1>1, AsideKept
  <1>2. CASE Replicate(n)
    BY <1>2, ReplicateWatched
  <1>3. CASE HandleTaskAdmitted(n) \/ StartProposal(n)
    <2>1. \E type : Handle(n, type)
      BY <1>3 DEF HandleTaskAdmitted, StartProposal
    <2>2. /\ UNCHANGED <<leader, log, timerCh>>
          /\ \/ n = leader /\ StartTimer(n, Subject(n))
             \/ n # leader /\ UNCHANGED timers
      BY <1>3 DEF HandleTaskAdmitted, StartProposal, IsLeader, raftVars
    <2> QED
      BY <2>1, <2>2, StartedKept
  <1>4. CASE HandleEvent(n)
    BY <1>1, <1>3, <1>4, HandledAside, CompleteWatched, FallbackNotRefused
    DEF HandleEvent
  <1>5. CASE HandleTimeout(n)
    BY <1>5, TimeoutWatched DEF HandleTimeout
  <1>6. CASE CallSucceeds(n) \/ CallFails(n) \/ FinishCall(n) \/ VoteOf(n)
    BY <1>1, <1>6, CalledAside
  <1>7. CASE Fire(n)
    BY <1>7, FireWatched DEF Fire
  <1>8. CASE Elect(n)
    BY <1>8, LeaderStays DEF Elect
  <1> QED
    BY <1>2, <1>4, <1>5, <1>6, <1>7, <1>8 DEF Step

LEMMA NextWatched ==
    ASSUME TypeOK, TypeOK', MaxTerm = 0, Reigning, Watched, LeaderHasRoom, [Next]_vars
    PROVE  Watched'
  <1>1. CASE \E n \in Node : Replicate(n)
    BY <1>1, ReplicateWatched
  <1>2. CASE LogStep
    <2>1. LogGrows /\ UNCHANGED applied
      <3>1. LogGrows
        BY LogOnlyGrows
      <3> QED
        BY <1>2, <3>1 DEF LogStep
    <2>2. CASE Aside
      BY <2>1, <2>2, AsideKept
    <2>3. ASSUME NEW t \in Task, SubmitTask(t)
          PROVE  Aside
      BY <2>3 DEF SubmitTask, Aside, replicaVars, engineVars, timerVars
    <2>4. ASSUME NEW n \in Node, Step(n)
          PROVE  Watched'
      BY <2>1, <2>4, StepWatched
    <2>5. CASE UNCHANGED vars
      <3>1. Aside
        BY <2>5 DEF vars, raftVars, replicaVars, engineVars, timerVars, Aside
      <3> QED
        BY <2>2, <3>1
    <2> QED
      BY <2>2, <2>3, <2>4, <2>5 DEF Next
  <1> QED
    BY <1>1, <1>2, NextLogStep

LEMMA InitWatched == Init => Watched
  <1> SUFFICES ASSUME Init
               PROVE  Watched
    OBVIOUS
  <1>1. log = <<>> /\ Len(log) = 0
    BY DEF Init, FSMInit
  <1>2. \A t : ~Known(t)
    BY <1>1 DEF Known, AdmittedBy
  <1> QED
    BY <1>2 DEF Watched, Undecided

(* An idle leader with nothing to handle has a timer for what is open.  *)
LEMMA WatchedIsTimed ==
    ASSUME TypeOK, Reigning, Watched
    PROVE  LiveTaskIsTimed
  <1> SUFFICES ASSUME NEW n \in Node, NEW t \in Task, n = leader, loop[n] = Idle,
                      task[n][t].status \in {"admitted", "proposal"}, events[n] = <<>>
               PROVE  Timed(n, t)
    BY DEF LiveTaskIsTimed, IsLeader
  <1>1. ~Waits(n) /\ AdmittedBy(log, t, applied[n]) /\ Known(t)
    BY WorkerLeads, HeldIsAdmitted DEF Reigning
  <1>2. \A i \in UpdatesIn(log, t) : log[i].state.status \notin Final
    <2>1. CASE task[n][t].status = "admitted"
      BY <1>1, <2>1, LeaderSees DEF Reigning
    <2>2. CASE task[n][t].status = "proposal"
      <3>1. PICK p \in ProposalsIn(log, t) : LastBy(log, t, p, Len(log))
        BY <1>1, <2>2, LeaderSees DEF Reigning
      <3>2. FinalStays(log, t) /\ log \in Seq(Command)
        BY Numbers DEF Reigning, Core, History, HistoryOf
      <3> QED
        BY <3>1, <3>2, OpenTask
    <2> QED
      BY <2>1, <2>2
  <1>3. ~Pending(n, t) /\ ~Unheard(n, t)
    BY <1>1 DEF Pending, Unheard
  <1> QED
    BY <1>1, <1>2, <1>3 DEF Watched, Undecided

(***************************************************************************)
(* Under one leader whose event channel never fills, a task the leader has *)
(* taken up and not finished always has a timer that runs or has fired:    *)
(* no order of events, timeouts and failing calls loses the last one       *)
(* (startTimer, stopTimer and the delete in handleTaskTimeout).            *)
(***************************************************************************)
THEOREM LiveTaskAlwaysTimed ==
    ASSUME MaxTerm = 0
    PROVE  Spec /\ []LeaderHasRoom => []LiveTaskIsTimed
  <1>1. TypeOK /\ TypeOK' /\ Reigning /\ Watched /\ LeaderHasRoom /\ [Next]_vars => Watched'
    BY NextWatched
  <1>2. TypeOK /\ Reigning /\ Watched => LiveTaskIsTimed
    BY WatchedIsTimed
  <1> QED
    BY <1>1, <1>2, InitWatched, ReignInvariant, TypeCorrect, PTL DEF Spec
=============================================================================
