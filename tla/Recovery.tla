------------------------------ MODULE Recovery ------------------------------
(***************************************************************************)
(* Agents that crash and come back (NewAgentNode on an old data directory).*)
(* Raft keeps the log and the newest snapshot; everything else an agent    *)
(* knew is gone: its replica is restored from the snapshot, if there is    *)
(* one, and applies the rest of the log again, which hands every event to  *)
(* an engine that does not know it has handled them before.                *)
(*                                                                         *)
(* A snapshot is taken in two steps.  Snapshot copies the reputations but  *)
(* only the reference to the map of tasks, which Persist encodes later:    *)
(* what is written may be newer than the index Raft stores with it, and    *)
(* may hold what the engine wrote ahead of Raft.                           *)
(***************************************************************************)
EXTENDS EngineProperties, Functions

CONSTANTS SnapshotThreshold, \* entries between snapshots (DefaultConfig of Raft)
          MaxRestarts,       \* bound: restarts of all agents together
          MaxSnapshots       \* bound: snapshots taken by all agents together

ASSUME RecoveryAssumption ==
    SnapshotThreshold \in Nat \ {0} /\ MaxRestarts \in Nat /\ MaxSnapshots \in Nat

VARIABLES snapshot,  \* snapshot[n]: what NewRaft of n will find on disk
          encoding,  \* encoding[n]: the snapshots n has taken and not persisted
          taken,     \* bound: how many snapshots were taken
          starts,    \* starts[n]: how many times n was restarted
          base       \* base[n]: the entry after which n began to apply

diskVars == <<snapshot, encoding, taken, starts, base>>
recoveryVars == <<vars, diskVars>>

(* Without a snapshot the replica starts empty (NewSyncMapFSM). *)
NoTasks == [t \in Task |-> Absent]
Empty == [index |-> 0, rep |-> [a \in Node |-> Unset], task |-> NoTasks]

Taken == [index : Nat, rep : [Node -> 0 .. FullReputation \cup {Unset}]]
Persisted ==
    [index : Nat, rep : [Node -> 0 .. FullReputation \cup {Unset}], task : [Task -> TaskState]]

(* Type correctness; a snapshot never covers more than was applied. *)
RecoveryTypeOK ==
    /\ TypeOK
    /\ snapshot \in [Node -> Persisted]
    /\ encoding \in [Node -> SUBSET Taken]
    /\ taken \in Nat
    /\ starts \in [Node -> Nat]
    /\ base \in [Node -> Nat]
    /\ \A n \in Node : base[n] <= snapshot[n].index /\ snapshot[n].index <= applied[n]

RecoveryInit ==
    /\ Init
    /\ snapshot = [n \in Node |-> Empty]
    /\ encoding = [n \in Node |-> {}]
    /\ taken = 0
    /\ starts = [n \in Node |-> 0]
    /\ base = [n \in Node |-> 0]

Restarts == FoldFunction(+, 0, starts)

(***************************************************************************)
(* SyncMapFSM.Snapshot runs between two entries, Persist in a goroutine of *)
(* its own.  Raft asks for one snapshot at a time.  A snapshot that no     *)
(* restart within the bound can read is not taken.                         *)
(***************************************************************************)
TakeSnapshot(n) ==
    /\ taken < MaxSnapshots /\ Restarts < MaxRestarts
    /\ encoding[n] = {}
    /\ applied[n] >= snapshot[n].index + SnapshotThreshold
    /\ encoding' = [encoding EXCEPT ![n] = {[index |-> applied[n], rep |-> rep[n]]}]
    /\ taken' = taken + 1
    /\ UNCHANGED <<vars, snapshot, starts, base>>

Persist(n) ==
    /\ \E s \in encoding[n] :
          snapshot' = [snapshot EXCEPT ![n] =
                          [index |-> s.index, rep |-> s.rep, task |-> task[n]]]
    /\ encoding' = [encoding EXCEPT ![n] = {}]
    /\ UNCHANGED <<vars, taken, starts, base>>

(***************************************************************************)
(* Restore keeps the unfinished tasks, and no answers and votes.           *)
(***************************************************************************)
(* Variant: only tasks without a proposal are taken for unfinished. *)
OnlyAdmitted(s) == IF s.status = "admitted" THEN s ELSE Absent

Unfinished(s) == IF s.status \in Final THEN Absent ELSE s

Restore(n, s) ==
    /\ applied' = [applied EXCEPT ![n] = s.index]
    /\ rep' = [rep EXCEPT ![n] = s.rep]
    /\ task' = [task EXCEPT ![n] = [t \in Task |-> Unfinished(s.task[t])]]
    /\ answers' = [answers EXCEPT ![n] = [t \in Task |-> 0]]
    /\ votes' = [votes EXCEPT ![n] = {}]

(* NewEngine: the goroutine, its timers and its channels are new. *)
NewEngine(n) ==
    /\ loop' = [loop EXCEPT ![n] = Idle]
    /\ timers' = [timers EXCEPT ![n] = [t \in Task |-> NoTimer]]
    /\ timerCh' = [timerCh EXCEPT ![n] = <<>>]
    /\ events' = [events EXCEPT ![n] = <<>>]
    /\ ballots' = [b \in {x \in DOMAIN ballots : x.agent # n} |-> ballots[b]]
    /\ UNCHANGED fires

(***************************************************************************)
(* A crash and the next start are one step: while it is down an agent does *)
(* what a slow one does, nothing.  If it led, somebody is elected, perhaps *)
(* the same agent.                                                         *)
(***************************************************************************)
Restart(n) ==
    /\ Restarts < MaxRestarts
    /\ starts' = [starts EXCEPT ![n] = @ + 1]
    /\ IF IsLeader(n) THEN \E m \in Node : LeaderMovesTo(m) ELSE KeepsLeading
    /\ Restore(n, snapshot[n])
    /\ base' = [base EXCEPT ![n] = snapshot[n].index]
    /\ NewEngine(n)
    /\ encoding' = [encoding EXCEPT ![n] = {}]
    /\ UNCHANGED <<log, snapshot, taken>>

RecoveryNext ==
    \/ Next /\ UNCHANGED diskVars
    \/ \E n \in Node : TakeSnapshot(n) \/ Persist(n) \/ Restart(n)

RecoverySpec == RecoveryInit /\ [][RecoveryNext]_recoveryVars

-----------------------------------------------------------------------------
(***************************************************************************)
(* A decision still has a majority behind it: that many agents have, at    *)
(* some time, accepted the round that was declared done.  (Which votes     *)
(* stand is no longer the same for everybody: a leader that lost its votes *)
(* with a restart counts the second vote of an agent as its first.)        *)
(***************************************************************************)
EverAccepted(t, r, k) ==
    {a \in Node : \E i \in Entries("SubmitVote") :
        /\ i <= k
        /\ log[i].vote.task = t /\ log[i].vote.round = r
        /\ log[i].vote.agent = a /\ log[i].vote.accepted}

DoneHasAcceptors ==
    \A i \in Entries("UpdateTask") :
        log[i].state.status = "done" =>
            Cardinality(EverAccepted(log[i].task, log[i].state.round, i - 1)) >= Quorum

(***************************************************************************)
(* What a replica counts is what the entries it applied since its last     *)
(* start say: no vote survives a restart, and none is counted twice.       *)
(***************************************************************************)
Since(n) == {i \in Entries("SubmitVote") : base[n] < i /\ i <= applied[n]}

VotesSinceStart ==
    \A n \in Node :
        votes[n] = {log[i].vote : i \in {j \in Since(n) :
                       \A k \in Since(n) : k < j => ~SameBallot(log[k].vote, log[j].vote)}}

(***************************************************************************)
(* A restarted replica that has caught up holds what its peers hold, or    *)
(* lacks a task that was over at some time: a snapshot that is newer than  *)
(* its index never shows an open task as it once was, nor loses one that   *)
(* was never decided.  (A task that was over may be open again: a leader   *)
(* that restarts replays its answers and proposes it anew.)                *)
(***************************************************************************)
Over(t) ==
    \E i \in 1 .. Len(log) :
        /\ log[i].type = "UpdateTask"
        /\ log[i].task = t /\ log[i].state.status \in Final

LostAsFinished(n, t) == task[n][t] = Absent /\ Over(t)

RestoredAgreement ==
    \A n, m \in Node, t \in Task :
        CaughtUp(n) /\ CaughtUp(m) =>
            \/ task[n][t] = task[m][t]
            \/ LostAsFinished(n, t) \/ LostAsFinished(m, t)

(***************************************************************************)
(* It holds as long as leadership moves by restarts only: a deposed leader *)
(* that stays up keeps what Raft refused, and may persist it.              *)
(***************************************************************************)
LeadershipMovesByRestart == term' # term => starts' # starts

(***************************************************************************)
(* An agent answers a task at most once each time it starts, so the count  *)
(* of answers that opens the proposal phase exceeds the number of agents   *)
(* behind it by no more than the restarts there were.                      *)
(***************************************************************************)
OneAnswerPerStart ==
    \A n \in Node, t \in Task :
        Cardinality({i \in Entries("SubmitAnswer") : log[i] = SubmitAnswer(t, n)})
            <= 1 + starts[n]
=============================================================================
