----------------------------- MODULE SyncMapFSM -----------------------------
(***************************************************************************)
(* The replicated state machine every agent runs (internal/raft/fsm).      *)
(* Raft itself is the library hashicorp/raft: it is modelled by what the   *)
(* engine relies on, one committed log that every replica applies in       *)
(* order at its own pace, and one leader at a time.  Each replica keeps    *)
(* its own copy of the tasks, answers, votes and reputations, and hands    *)
(* what it applied to its engine through a bounded channel that drops the  *)
(* event when it is full.                                                  *)
(***************************************************************************)
EXTENDS Tally, Sequences

CONSTANTS Task,      \* the tasks clients may submit
          EventCap,  \* capacity of EventCh (100 in NewSyncMapFSM)
          MaxTerm,   \* bound: leadership changes explored
          MaxLag     \* bound: how many commands a replica may be behind

ASSUME FSMAssumption ==
    /\ EventCap \in Nat
    /\ MaxTerm \in Nat
    /\ MaxLag \in Nat \ {0}

VARIABLES log,      \* the committed commands
          applied,  \* applied[n]: how many of them replica n has applied
          leader,   \* the node whose Raft state is Leader
          term,     \* how many times leadership has changed
          task,     \* task[n][t]: replica n's copy of task t
          answers,  \* answers[n][t]: length of TaskAnswers[t] at n
          votes,    \* votes[n]: the entries of TaskVotes at n
          rep,      \* rep[n][a]: Reputations[a] at n, or Unset
          events    \* events[n]: EventCh of replica n

raftVars == <<log, leader, term>>
store == <<applied, task, answers, votes, rep>>
replicaVars == <<store, events>>

(***************************************************************************)
(* A proposal is named by the leader that wrote it and the round it was    *)
(* written for.  The other results a task can carry: none yet, and the     *)
(* message of handleTaskTimeout.                                           *)
(***************************************************************************)
NoText == <<>>
TimedOut == <<"Phase timeout exceeded">>
Text == (Node \X Nat) \cup {NoText, TimedOut}

Status == {"absent", "admitted", "proposal", "done", "failed"}
Final == {"done", "failed"}
TaskState == [status : Status, round : Nat, result : Text,
              proposals : SUBSET (Nat \X Text)]
Vote == [task : Task, round : Nat, agent : Node, accepted : BOOLEAN, text : Text]

Absent == [status |-> "absent", round |-> 0, result |-> NoText, proposals |-> {}]
Admitted == [status |-> "admitted", round |-> 0, result |-> NoText, proposals |-> {}]

Unset == -1
Reputation(n, a) == IF rep[n][a] = Unset THEN FullReputation ELSE rep[n][a]

(***************************************************************************)
(* The commands of the log (LogCommand).                                   *)
(***************************************************************************)
AdmitTask(t) == [type |-> "AdmitTask", task |-> t]
SubmitAnswer(t, a) == [type |-> "SubmitAnswer", task |-> t, agent |-> a]
UpdateTask(t, s) == [type |-> "UpdateTask", task |-> t, state |-> s]
SubmitVote(v) == [type |-> "SubmitVote", vote |-> v]
UpdateReputation(a, x) == [type |-> "UpdateReputation", agent |-> a, value |-> x]

Command ==
    [type : {"AdmitTask"}, task : Task]
        \cup [type : {"SubmitAnswer"}, task : Task, agent : Node]
        \cup [type : {"UpdateTask"}, task : Task, state : TaskState]
        \cup [type : {"SubmitVote"}, vote : Vote]
        \cup [type : {"UpdateReputation"}, agent : Node, value : 0 .. FullReputation]

EventType == {"TaskAdmitted", "AnswerSubmitted", "TaskUpdated", "VoteSubmitted"}
Event == [type : EventType, task : Task]

FSMTypeOK ==
    /\ log \in Seq(Command)
    /\ leader \in Node
    /\ term \in Nat
    /\ applied \in [Node -> Nat]
    /\ \A n \in Node : applied[n] <= Len(log)
    /\ task \in [Node -> [Task -> TaskState]]
    /\ answers \in [Node -> [Task -> Nat]]
    /\ votes \in [Node -> SUBSET Vote]
    /\ rep \in [Node -> [Node -> 0 .. FullReputation \cup {Unset}]]
    /\ events \in [Node -> Seq(Event)]

FSMInit ==
    /\ log = <<>>
    /\ leader \in Node
    /\ term = 0
    /\ applied = [n \in Node |-> 0]
    /\ task = [n \in Node |-> [t \in Task |-> Absent]]
    /\ answers = [n \in Node |-> [t \in Task |-> 0]]
    /\ votes = [n \in Node |-> {}]
    /\ rep = [n \in Node |-> [a \in Node |-> Unset]]
    /\ events = [n \in Node |-> <<>>]

(***************************************************************************)
(* SyncMapFSM.Apply, one action per command type.  The event channel is    *)
(* written in a select with a default: a full channel drops the event.     *)
(***************************************************************************)
NextCommand(n) == log[applied[n] + 1]

Take(n, type) ==
    /\ applied[n] < Len(log)
    /\ NextCommand(n).type = type
    /\ applied' = [applied EXCEPT ![n] = @ + 1]

Publish(n, type, t) ==
    events' = IF Len(events[n]) < EventCap
              THEN [events EXCEPT ![n] = Append(@, [type |-> type, task |-> t])]
              ELSE events

ApplyAdmitTask(n) ==
    /\ Take(n, "AdmitTask")
    /\ task' = [task EXCEPT ![n][NextCommand(n).task] = Admitted]
    /\ Publish(n, "TaskAdmitted", NextCommand(n).task)
    /\ UNCHANGED <<raftVars, answers, votes, rep>>

ApplySubmitAnswer(n) ==
    /\ Take(n, "SubmitAnswer")
    /\ answers' = [answers EXCEPT ![n][NextCommand(n).task] = @ + 1]
    /\ Publish(n, "AnswerSubmitted", NextCommand(n).task)
    /\ UNCHANGED <<raftVars, task, votes, rep>>

ApplyUpdateTask(n) ==
    /\ Take(n, "UpdateTask")
    /\ LET t == NextCommand(n).task
       IN  IF task[n][t].status = "absent"
           THEN UNCHANGED <<task, events>>
           ELSE /\ task' = [task EXCEPT ![n][t] = NextCommand(n).state]
                /\ Publish(n, "TaskUpdated", t)
    /\ UNCHANGED <<raftVars, answers, votes, rep>>

(***************************************************************************)
(* The first vote of an agent in a round stands; a later one is ignored,   *)
(* and then there is no event either.                                      *)
(***************************************************************************)
SameBallot(v, w) == v.task = w.task /\ v.round = w.round /\ v.agent = w.agent

(* Variant: the last vote of an agent in a round overwrites the first. *)
ApplySubmitVoteOverwrites(n) ==
    /\ Take(n, "SubmitVote")
    /\ LET v == NextCommand(n).vote
       IN  /\ votes' = [votes EXCEPT ![n] = {w \in @ : ~SameBallot(v, w)} \cup {v}]
           /\ Publish(n, "VoteSubmitted", v.task)
    /\ UNCHANGED <<raftVars, task, answers, rep>>

ApplySubmitVote(n) ==
    /\ Take(n, "SubmitVote")
    /\ LET v == NextCommand(n).vote
       IN  IF \E w \in votes[n] : SameBallot(v, w)
           THEN UNCHANGED <<votes, events>>
           ELSE /\ votes' = [votes EXCEPT ![n] = @ \cup {v}]
                /\ Publish(n, "VoteSubmitted", v.task)
    /\ UNCHANGED <<raftVars, task, answers, rep>>

ApplyUpdateReputation(n) ==
    /\ Take(n, "UpdateReputation")
    /\ rep' = [rep EXCEPT ![n][NextCommand(n).agent] = NextCommand(n).value]
    /\ UNCHANGED <<raftVars, task, answers, votes, events>>

ApplyCommand(n) ==
    \/ ApplyAdmitTask(n)
    \/ ApplySubmitAnswer(n)
    \/ ApplyUpdateTask(n)
    \/ ApplySubmitVote(n)
    \/ ApplyUpdateReputation(n)

(***************************************************************************)
(* What Raft does for the callers of this package.                         *)
(***************************************************************************)
Commit(cmd) ==
    /\ \A n \in Node : Len(log) - applied[n] < MaxLag
    /\ log' = Append(log, cmd)

LeaderMovesTo(m) ==
    /\ term < MaxTerm
    /\ leader' = m
    /\ term' = term + 1
=============================================================================
