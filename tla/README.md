# Verification of Gravity AI

TLA+ models of the consensus engine of Gravity AI, the runs in which TLC
checks them, and theorems about them that TLAPS has checked for every cluster
size, target, replication lag and number of tasks and requests.  Paths and lines
below refer to the source tree (`src/`); `PROJECT.json` maps every definition
to the lines it models.

Parse with `tlasany M.tla`, check with `tlc -workers 2 -config X.cfg M`, prove
with `tlapm M.tla`.

## 1. The system

A cluster of agents answers a task together.  Every agent runs a Raft node, a
replicated state machine fed by Raft, and an engine fed by the state machine.

| Component | State it keeps | Operations |
|---|---|---|
| Replicated state machine, `raft/fsm` | tasks, answers, votes, reputations, metadata, key versions, subscribers, the bounded channel `EventCh` | `Apply` of six commands, getters, `Snapshot`, `Restore`, `Subscribe` |
| Raft node, `raft/node.go` | hashicorp/raft: log, term, leader | `Apply`, election, transfer |
| Cluster state, `state/state.go` | none of its own | `IsLeader`, `GetServerCount`, `DropLeader`, `TransferLeadership`, `WaitForEvent` |
| Engine, `engine/engine.go` | `timers`, `timerCh`, where its goroutine is, running vote goroutines | event handlers, timeout handler, phases |
| Vote counting, in `runFinalizeTask` | none | verdict of a round, fallback round, rewards |
| Tasks manager, `engine/tasks-manager` | listeners per task | `RegisterTask`, `NotifyTaskCompletion` |
| gRPC service and client, `grpc` | connections | submit a task, an answer, a vote; forward to the leader |
| HTTP API, `http` | none | submit and wait, status |
| Reputation-filtering transport, `raft/transport.go` | none | filter of `RequestVote` |
| Metadata provider, agent command | process start | publish metadata, wiring |
| LLM clients, `llm` | none | `Generate`, `Aggregate`, `Validate`, `Revise` |

### How they interact

1. `SubmitTask` reaches the leader through gRPC and becomes an `AdmitTask`
   entry of the Raft log.
2. Each replica applies the entry and pushes an event to its `EventCh`; when
   the channel is full the event is **dropped** (`syncMapFSM.go`, `select` with
   `default`).
3. Each engine takes one event at a time.  On `TaskAdmitted` it asks its LLM
   and sends an answer; the leader starts a timer.
4. On `AnswerSubmitted` the leader, once it has all answers, aggregates them,
   **writes the proposal into its replica's own record**, and then asks Raft.
5. On `TaskUpdated` each engine reads the record **as it is now** and starts a
   goroutine that validates it and sends a vote.
6. On `VoteSubmitted` the leader counts.  The verdict is done, failed, another
   round (`Revise`), or a return to an earlier round (fallback).  A final
   verdict is followed by one reputation update per voter and perhaps a
   transfer of leadership.
7. A timer that expires sends the task to `timerCh`; the engine handles it
   between two events.  A completed task stops its timer.

### What is hard

* The engine blocks in LLM and Raft calls while everything else moves: what
  was read before such a call is stale after it.
* Records are shared by pointer: engine, vote goroutines and state machine see
  each other's writes, committed or not.
* Raft may move leadership at any moment, between any two of these steps.
* Events, votes and answers can be lost, and agents may vote twice.
* Timers fire while the task is being decided, and `timers` loses entries.

`PROJECT.json` lists these as hazards, each at its line, with the properties
that watch it.

### What makes each component correct

* *State machine*: replicas that applied the same prefix agree on votes and on
  tasks; the first vote of an agent in a round stands.
* *Vote counting*: done only with a majority of accepts, in each branch.
* *Engine*: a proposal rests on a majority of answers, rounds are proposed in
  order and at most `MaxRounds` of them, the result is the text that was
  accepted, a finished task stays as it is, each decision is rewarded once, and
  each task ends.
* *Subscriptions*: no update falls between two calls of `WaitForEvent`, no
  channel is closed twice, a blocked request can be woken.
* *Submission*: one call admits one task, every call returns, whatever the
  servers believe about the leader.
* *Tasks manager and HTTP API*: a client that waits gets an answer, and a
  listener is used once.
* *Snapshot and restore*: a restarted replica agrees with its peers, and
  decisions still have a majority behind them.
* *Startup*: a new cluster elects a leader.

## 2. The modules

| Module | Models | Extends |
|---|---|---|
| `Tally` | the arithmetic of `runFinalizeTask`: quorum, target, verdict, fallback round, rewards; no state | |
| `SyncMapFSM` | `SyncMapFSM.Apply` on every replica, the event channel, and Raft as its callers see it | `Tally` |
| `Engine` | all of `engine.go`, with cluster state, gRPC and LLM calls as the engine uses them | `SyncMapFSM` |
| `EngineProperties` | what the engine promises, stated over the log | `Engine` |
| `Deliberation` | the abstract life of a task: rounds, accepts, one verdict, and the timeout that may undo it | |
| `Refinement` | `Engine` implements `Deliberation` under one leader | `EngineProperties` |
| `Reign` | the inductive invariant of one leader's reign | `Refinement` |
| `Recovery` | crash and restart of agents, `Snapshot`, `Persist`, `Restore`, the replay of the log | `EngineProperties` |
| `MCEngine`, `MCTermination`, `MCElections`, `MCRecovery` | instances for TLC | `Reign`, `EngineProperties`, `Recovery` |
| `Requests` | HTTP requests of one agent, `Subscribe`, `notifySubscribers`, `WaitForEvent`, and what `Restore` does to them | |
| `RequestsProperties` | what a waiting client may rely on | `Requests` |
| `Submission` | the gRPC path of a submission, hop by hop, and the tasks manager; implements the submission of `Requests` | `RequestsProperties` |
| `Startup` | `runAgent` and `RegisterMetadata` on a new cluster | |
| `EngineProofs`, `DecisionProofs`, `LedgerProofs` | theorems about tallies and types, decisions and votes, answers and rewards, by TLAPS | `Engine`; `EngineProofs`; `DecisionProofs` |
| `ReignProofs` | theorems about one leader's reign and the refinement, by TLAPS | `Reign`, `DecisionProofs` |
| `RecoveryProofs` | theorems about crashes and restarts, by TLAPS | `Recovery`, `LedgerProofs` |
| `RequestsProofs`, `SubmissionProofs` | theorems about requests and their submission, by TLAPS | `RequestsProperties`; `Submission` |
| `StartupProofs` | theorems about startup, by TLAPS | `Startup` |

How they compose: `Engine` contains the replicas, the engines and the
environment in one state; `Recovery` adds disks to it and lets an agent start
again in the middle of any behaviour of `Engine`.  `Submission` adds servers and
elections around one agent's requests.  The two halves meet in the log:
`Requests` takes for granted what `Engine` may commit about a task, and
`Engine` takes an admission as one step, which `Submission` shows it to be.

Properties are read off the committed log, which is the history all replicas
share: an invariant about the log is a statement about every order of entries
that can ever be written.

### State and actions against the code

* `log` is the committed Raft log.  A node may call `Raft.Apply` only while it
  leads.  The entry is committed at once, in its place in the log, and
  `applied[n]` tells how far replica `n` has come.  The call returns when the
  caller's own replica has applied the entry (`AppliedHere`), or fails if
  leadership changed meanwhile (`LeadershipLost`) although the entry is
  committed: the outcome that is hardest for the caller.
* `task`, `answers`, `votes`, `rep` are per replica.  `task[n][t]` is the
  record behind the pointer: actions of the engine write it directly where the
  code does (`runProposalPhase`, the fallback, the `Proposals` map a revision
  shares with it).  `answers` keeps the length of the list, all the engine reads.
* A text is named by its author and its round; the LLM can return anything and
  nothing depends on its content.  A vote remembers the text its agent
  validated (history only; no action reads it).
* `loop[n]` is the program counter of the engine goroutine.  A handler without
  a blocking call is one action; one with such calls is one action per stretch
  between them, with the locals it keeps (`voters`, whether an error makes it
  resign) in `loop[n]`.
* A write ahead of Raft is two actions where the order matters: one that writes and
  appends the entry, and one in which leadership is lost between the test of
  `IsLeader` and `Raft.Apply`, so that the record keeps what no entry has
  (`ProposeRefused`, `ReviseRefused`, `FinalizeFallbackRefused`, `FailTaskRefused`,
  `ReviseFailureRefused`).  A refused `Finalize` has written nothing before the call,
  and is an election followed by a vote that a follower ignores.
* `ballots` is the bag of running `runVotePhase` goroutines, each with the copy
  of the task it was given.  `CastVote` covers validation and delivery,
  directly or through the leader; `LoseVote` every failure on the way.
* `timers[n][t]` tells whether `e.timers` has an entry for the task, and how
  many running timers lost theirs (`handleTaskTimeout` deletes the entry
  without stopping its timer).
* `Elect` moves leadership to any node, its present holder included (a new
  term).  Errors in handlers that reach the deferred function resign
  leadership; the error of the `VoteSubmitted` case does not, since `task, err :=`
  shadows the outer variable (`engine.go` 142).

In `Requests`:

* There is one replica, the agent's own.  Of the cluster a request sees only the
  log: `Admit` and `Update` are the environment and append what engines may
  commit, in any order; `Apply` is `SyncMapFSM.Apply` for the two commands about
  tasks, with `incrementVersion` and `notifySubscribers`, in one step under the mutex.
* A subscription channel has one place and is closed after it was used.  `chans[r]`
  holds every channel request `r` was given, `subscribers[r]` the numbers of
  those still in the map.  A channel given with data at once is never in it.
* An entry carries a pointer, so `waitForTask` sees the record as it is when it
  receives.  `records[g]` are the records made after `g - 1` restores: an entry
  names the generation, and a record dropped by `Restore` keeps its last value.
* `request[r]` is where the handler is and the last version it saw.
  `SubmitReturns` follows the commit, `SubmitFails` may come before or after it
  (the caller gives up, the command is committed all the same).  After a failure
  or a cancellation `submitTask` returns nil and its callers dereference it;
  gin's recovery ends the request there.
* `InstallSnapshot(i)` installs a snapshot another replica took after entry `i`.  Its
  tasks were encoded later, one after the other (see `Recovery`), so each has the
  status of entry `i` or of any later one.  `Restore` drops finished tasks and puts
  the rest in new records; subscribers stay and are told nothing.  All versions are lost, because `Snapshot` has no JSON tag for
  `KeyVersions` and `SnapshotData` reads `key_versions`.

In `Deliberation` and `Refinement`:

* The abstract state is what an observer of the log knows of a task: its phase,
  its newest round, who accepted which round, and the round that was decided.
  The refinement mapping reads it off `log`: the newest update gives the phase,
  the standing votes give the accepts.  Replicas, events, timers and goroutines
  have no counterpart.
* `TimeOutDone` is the step a reader would not expect: `handleTaskTimeout`
  may turn a done task into a failed one (finding `stale_timer`).  Everything
  else that is final stays.

In `Recovery`:

* `snapshot[n]` is what `NewRaft` finds on disk, `encoding[n]` a snapshot that was
  taken and is not written yet.  `Snapshot` copies the reputations but only the
  reference to `Tasks`, so `Persist` writes the tasks as they are then: later than
  the index, and with what the engine wrote ahead of Raft.
* `Restart(n)` is a crash and the next start in one step.  Replica, engine, timers,
  events and running ballots are lost; the replica is restored from the snapshot
  (finished tasks dropped, answers and votes empty) and applies the entries after
  it again, which hands every event to the new engine.  `base[n]` remembers where
  it began and `starts[n]` how often; both serve the properties only.
* Log entries are never lost: Raft keeps them on disk before it commits them.

In `Submission`:

* `frames[r]` are the handlers serving the call, from the agent's own server on:
  each either passed it on and waits, or processes it.  `believed[s]` is
  `LeaderWithID` on server `s`.  A server that knows no leader falls through to its
  own Raft, which refuses the command (`getLeaderConn` fails and `forward` is
  false), as does one that believes it leads and does not.
* A commit, its application and the reply are three steps; the connection may
  break at each hop and the client may give up while the call goes on.
* `listeners[s][r]` is the listener registered on server `s` and how often its channel
  was used.  The engine of `s` calls `NotifyTaskCompletion` after any update that ends
  the task, so it may come before `RegisterTask` (the listener then stays for
  ever; nobody awaits it) and again after a timeout.

In `Startup`:

* An agent waits (at most `MaxWaits` times) for a leader, tries at most
  `MaxPublish` times to publish, and only then serves.  A vote needs a server that
  serves.  `LoggerSet` is `FALSE` for the code as it is; with a logger, the agents
  would elect a leader after all waits are used up.

Definitions marked *Variant* are faulty forms of the definition after them; they
are used to see that a property can fail.

### Abstractions and their effect

* One variable holds the leader, so a deposed leader knows at once.  In the
  code it learns when `Raft.Apply` fails or its state changes; an entry it
  appended and that is never committed has the effect of a refused call, which
  is modelled.
* The 5 s enqueue timeout of `Raft.Apply` on a node that still leads is not
  modelled as a failure of its own.
* `timerCh` has no bound here (100 in the code); senders block there, which
  delays the expiry.
* The callback of a timer deletes its entry and sends in one step.
* Applying an entry and publishing its event is one step, as `Apply` is called
  by one Raft goroutine.
* Confidence scores are left out: no decision reads them.
* Membership is fixed, as in the code, which adds no server after bootstrap.
* In `Requests` every request has a task of its own, as `SubmitTask` draws a new
  identifier for each.  `Update` may change a task again after its end, because
  the engine can (`stale_timer`).  Event channels and answers play no part.

## 3. Runs

Every run names its bounds in its `.cfg`.  `MaxTerm` bounds the changes of
leadership, `MaxLag` how far replicas may trail the log, `MaxFires` the timer
expiries, `MaxRestarts` and `MaxSnapshots` crashes and snapshots.  Only
`elections` and `recovery` bound the log (`MaxLog`, by `BoundedLog`): with one
task it is finite by itself, but too long there.

| Run | Instance | Shows |
|---|---|---|
| `two_agents` | 2 agents, target 3 (the default), 2 rounds, lag 2, 1 expiry | under one leader: types, numbering and bound of rounds, the result is a text a majority accepted, final tasks are rewritten only by timeouts, live tasks have a timer, replicas at rest agree, the invariant the proofs rest on (`Reigning`), and the log is a life of tasks as `Deliberation` has it |
| `three_agents` | 3 agents, majority decides, channel of size 1, lag 2, 1 round | decisions by the target rest on majorities; votes that come after the decision, or whose events are lost, change nothing |
| `elections` | 2 agents, target 3 (out of reach), channel of size 1, 2 rounds, one change of leader, 1 expiry, lag 1, 9 entries and the next one | through elections, dropped events and a timeout: each replica counts the first votes of the log, split votes and fallbacks rest on majorities, proposals on a quorum of answers, each decision is rewarded once |
| `termination` | 2 agents, one leader, expiries without bound | every task ends on every replica and stays ended |
| `requests` | 1 request, 2 servers, one election, 3 updates of its task, 1 snapshot | one call admits one task and returns, hops beyond the usual one need elections, listeners are used once, submission implements `Requests`; channels in the map are open and empty, a blocked request can be woken and has missed nothing, the loop never repeats a version, a done task is answered |
| `recovery` | 2 agents, one restart of either, one snapshot, one change of leader by the restart, 9 entries | a done round was accepted by a majority; a replica counts the votes since its start; restarted replicas agree with their peers or lack what was over at some time; one answer per start |

Six runs end in a counterexample; each is a finding in `PROJECT.json`:

| Run | Violated | Why |
|---|---|---|
| `stale_timer` | `TimeoutSparesDoneTasks` | `handleTaskTimeout` fails a task without looking whether it is done: a timer that expired while the task was being finalized turns Done into Failed |
| `extra_round` | `RoundsBounded` | the limit is tested before `Revise`, the round incremented after it, on a record a new leader may have advanced |
| `other_text` | `ResultIsAcceptedText` | a proposal Raft refused stays in the author's record; the author votes for it and the vote counts for the other text of that round |
| `handover` | `Terminates` | only the node that leads when it handles `TaskAdmitted` starts a timer; after a change of leader none may exist |
| `restored` | `DoneIsAlwaysAnswered` | a snapshot that contains the end of a task drops the task and wakes nobody |
| `startup` | `ElectsLeader` | `runAgent` waits for a leader before it serves the votes of its peers, and panics on a logger that was never set |

**Why these bounds suffice.**  Two agents already have a majority of two, split
votes, a leader and a follower, and lag; with three a majority is not everyone,
so votes and answers come late.  Two rounds contain a revision, a last round
and a fallback to an earlier one.  One change of leadership produces the deposed
leader in every position of its handlers, and an election that returns the
leader to itself.  One expiry meets every point of a task; the liveness run has
no limit on them.  A lag of two lets a replica miss a vote and the decision that
followed it.  The three branches that accept are divided: `three_agents` decides by the
target, which one round is enough for; in `two_agents` and `elections` the target of 3 is
out of reach, so the split vote of the last round and the fallback decide.  A channel of one place stands for one of a hundred that is full:
what matters is that any event may be the one dropped.  What exceeds these
bounds is the business of the theorems, which have none.  `three_agents`
keeps one round, `termination` and `elections` a lag of one, and `elections` a one-place
channel (where longer ones behave like one whose events are not dropped, which
`two_agents` has) because of their size.  Nine entries contain an admission, two answers and two
rounds with their votes.  `BoundedLog` stops TLC from going on after a tenth, but the
invariants are evaluated there too, so the decision by split vote or fallback, which is
the tenth, is checked in every order of what led to it.  The failure that a
failed revision of the first round commits leaves room for its rewards, and for a second
decision by another leader or a timeout; the rewards that follow a tenth entry are left to the theorem
`AlwaysRewardedOnce`.  In `recovery` nine entries contain one round, a snapshot after five
and what follows; there leadership moves only
by restarts (`LeadershipMovesByRestart`): the deposed leader that stays up is
the subject of `elections` and of `other_text`, and would make `RestoredAgreement`
false for the reason given there.  What needs a second restart (a finished task that
is proposed anew, see the end of this file) is the business of the theorems;
`RestoredAgreement` and the invariant of its proof also held in TLC with two restarts,
along the behaviours that lead there.

One request is enough in `requests`: two share nothing but the order of the log
and the point of the snapshot, and every property is about one of them.  Three
updates and the admission fill a channel, find the request between two
subscriptions, and still change the task after its end; one snapshot may come at
any of these points, and it leaves channels of before it in the map.  Two
servers and one election have the call arrive at a deposed leader, at a server that
knows no leader, and at the new one; `HopsNeedElections` and `AdmittedOnce`
also held with three servers and three elections.

Symmetry under permutations of the agents is used in the safety runs: no node
has a role until one leads, and `BestRound`'s `CHOOSE` picks a number.  It is not
used in the runs with a liveness property.  `ImplementsDeliberation`, checked with
symmetry in `two_agents`, is a safety property that treats all agents alike.

`CHECK_DEADLOCK FALSE` stands in every run because the system really stops: all
tasks are decided, or all agents crashed, and, when a bound is spent, nothing may happen any more.  What
deadlock checking would find in a task that is not decided is stated instead as
`LiveTaskIsTimed` and `Terminates`; for requests, which end, as `CallsReturn` and `DoneIsAnswered`.

**Fairness.**  `Terminates` assumes that (1) some process that has work goes on
(Go schedules runnable goroutines, blocked calls return with a result or an
error, running timers expire); (2) Raft goes on applying entries; (3) if the
engine asks for an aggregate for ever, one call succeeds in the end.  Weak fairness of the
disjunction in (1) says nothing about who goes first, and no vote, answer or
revision is assumed to succeed.  (3) is needed because the timeout path with a
quorum of answers calls `Aggregate` again and again (`engine.go` 190-201).
Since that failure gives up neither the task nor the timer, nothing else in the code ends the repetition.

`CallsReturn` and `DoneIsAnswered` assume weak fairness of `Apply`, of each
request's handler and of the servers' handlers that serve its call: goroutines of
their own.  No connection is assumed to break, no client to give up, no server
to learn of the leader, no task to be updated and no snapshot to come.

`ElectsLeader` is refuted although every agent runs on and Raft elects a leader
whenever it can (weak fairness of `RunAgent` and `Elect`).

## 4. Proofs

Assumptions (each evaluated by TLC too): `Node` is finite and not empty;
`TargetConsensus` is a natural number, `MaxRounds` a positive one; `EventCap`,
`MaxTerm` natural, `MaxLag` positive, `MaxFires` natural or unbounded;
`MaxUpdates` and `MaxRestores` natural (no proof needs that, and `Request` may be any set).

* `EngineProofs`, first part: the arithmetic.  A quorum is a majority, counts are
  bounded by the cluster, more votes never mean fewer accepts.  `DoneVerdictHasQuorum`: each branch of
  the decision chain that accepts has a majority of accepts; the branch for
  split votes of the last round does not test the quorum, and the proof shows
  that it follows from every server having voted.  `BestRoundExists`: the
  fallback's choice exists whenever the code makes it, found without induction
  as the largest value of a measure that ranks rounds by accepts, then by number.
* `EngineProofs`, second part.  `TypeCorrect`: the type invariant is inductive; one lemma per
  handler.  It contains that stored reputations stay within 0..100.
* `DecisionProofs`.  `DoneAlwaysHasQuorum` (safety of decisions) and
  `VotesAlwaysApplied` (what a replica counts is a function of the prefix it has
  applied, so replicas agree on it).

The inductive invariant is `IInv == TypeOK /\ VotesApplied /\ DoneHasQuorum`.
`DoneHasQuorum` speaks of the log, but the leader decides from the votes on its
own replica, so alone it is not inductive.  `VotesApplied` closes the gap: a
replica's votes are exactly the standing votes of the prefix it applied, so a
majority the leader counted is in the log before the entry that declares the
task done.  The proof shows that each step other than `Replicate` leaves replicas
alone and appends at most one entry, which, if it says *done*, is backed by
some replica's votes (`LogStep`), and that appending disturbs neither the standing
votes of earlier prefixes nor their counts.

* `LedgerProofs`, through any elections.  `AlwaysRewardedOnce` and
  `ProposalAlwaysHasQuorumAnswers` compare the sizes of two parts of the log, while
  goroutines hold what is not in the log yet; so both keep an account.

For rewards it is `Solvent`: the updates an agent got, and the goroutines that owe it
one (`Debtors`), are together no more than the decisions.  A decision puts at most
one goroutine in debt, a reward ends one debt of one goroutine (`DutyStep`); for that no agent
may stand twice among the `voters` of a goroutine, which holds because a replica has one
vote per ballot.  For answers the account is `Bill`: the answers of an agent in the log, and one more as
long as its `TaskAdmitted` event is to come, is unread, or is being answered, are together at
most one (`AnsweredOnce`), since a task is admitted once and a replica applies no entry twice.
So the answers a replica counts are never more than the agents that answered, and every
record, ballot, vote and place of an engine that follows a first proposal rests on a
majority of them (`AgentsRooted`, `LogRooted`), in whichever term it was reached.

* `RecoveryProofs`, for any number of crashes and snapshots, with elections.
  `RecoveryTypeCorrect` needs that the snapshots being encoded are in the order in which
  they were taken.  `VotesAlwaysSinceStart` follows from `WindowVotes`: the votes of a replica are the
  first of each ballot in the window of the log from its restart's base to what it has applied.
  So a leader counts real accepts, though not always those that other replicas
  count, and `DoneAlwaysHasAcceptors` is what remains of `DoneAlwaysHasQuorum`.
  `AlwaysOneAnswerPerStart` is the account of answers again, in which a restart, which
  replays the log's events to an engine that knows nothing, is worth one answer more.
  `RestoredReplicasAgree` assumes `[][LeadershipMovesByRestart]`, as its run does.

Its invariant (`RestoreInv`) does not follow what a leader may decide, as `Reigning` does, for a
restarted leader decides from what it forgot.  It says of each record only that it is *fresh* for the
prefix its replica has applied (`Fresh`): it is what the newest entry of that prefix
writes, or an entry that is to come will write it, or it is missing, because it was
not admitted in that prefix or was over at some time.  So a snapshot that is newer than
its index is fresh for its index too (`FreshEarlier`), what `Restore` drops was over
(`FreshUnfinished`), and each entry that is applied again makes a record fresh for one entry
more (`FreshApplied`), whatever it was before.  What the engine writes ahead of Raft is fresh because the
same action appends the entry (`FreshWritten`), and this is where leadership matters: who comes back from
an LLM call to write a record still leads (`WritersLead`), or the call was lost in the crash that
ended its term, and no write is refused, since a refusal is a change of leader without a restart.  Nobody is busy with a task that is not in the log (`OnlySubmitted`), and
the log itself is in order (`InOrder`): no entry about a task precedes its admission.
Two replicas that have read everything and are both fresh hold the same (`FreshAgree`).

* `ReignProofs`, for one leader (`MaxTerm = 0`), any cluster, any tasks and rounds,
  any lag and any number of expiries: `FinalsStay`, `RoundsAlwaysInOrder`,
  `QuiescentReplicasAgree`, `EngineImplementsDeliberation` (the refinement),
  `ResultAlwaysAcceptedText` and `LiveTaskAlwaysTimed`.

None of these is inductive, because a step is decided from the leader's records, from
the event it took, and from a place in a handler that was reached many steps
ago, while the properties speak of the log.  `Reigning` ties them together.  Its
part about the log (`History`) says that each task is admitted once, its rounds are
numbered, and after a final update there are only timeouts.  Its part about
agents says that every record is what the applied prefix says (`Current`), or the
leader's own one, which runs ahead of Raft while it waits for that very entry
(`Ahead`); that the leader has applied every update but that one (`Synced`); that
only the leader is in a handler that writes, and what such a place takes for
granted still holds (`PlaceFits`); and that events, timers and ballots are about
tasks and rounds that exist.  The first part of the module shows what a proper next entry
(`MayFollow`) does to the log alone, the second that each handler appends
only such entries, one lemma per place, and that nothing else moves the tasks.

The refinement needs one thing more: that a *done* update names a round with a
majority of accepts, which is `DoneAlwaysHasQuorum`.  With `History` and it, each
entry appended to the log is exactly one step of `Deliberation`, or none.

`ResultAlwaysAcceptedText` needs which text a round is about (`TextInv`): under one leader each
round of a task has one proposal, written by the leader, so that every vote, every ballot and
every result carries that text, a result the fallback returned to included.  After a change of
leader this is false (run `other_text`).

`LiveTaskAlwaysTimed` is about an idle engine with nothing to read, so it is strengthened to every moment
(`Watched`): a task that is open in the log has a timer on the leader, or its
`TaskAdmitted` event is still unread there, or its admission is not applied yet.  An
expired timer is no loss, because `timerCh` holds the task until the handler either ends it
or starts another timer.  The theorem assumes `[]LeaderHasRoom`, that the leader's channel never
fills: the code drops events from a full channel of 100, and a dropped `TaskAdmitted` starts no timer.

* `RequestsProofs`.  `SubscribersAlwaysOpen`, `BlockedAlwaysRegistered`,
  `BlockedAlwaysUpToDate`, `VersionsAlwaysIncrease` and the type invariant, for any
  number of requests, updates and snapshots.  The invariant is a conjunction of
  one `Good(r)` per request, and `Frame` says that a request is not concerned by
  the steps of another.  `Good` adds what the properties depend on: an entry
  that was not received yet is newer than what its request has seen
  (`UnreadIsNews`), no request has seen more than there is, and a task without a
  record has no version; the last is what makes it safe that `Subscribe`
  registers, instead of answering, when the record is missing.

* `SubmissionProofs`.  `SubmissionImplementsRequests`: every step of the servers is
  a step of `Requests` or leaves it unchanged, for any servers, beliefs, elections
  and requests.  With it the theorems of `RequestsProofs` hold for requests whose
  calls go hop by hop (`ServedRequestsMissNothing`).  `AlwaysAdmittedOnce` and
  `ListenersAlwaysSentOnce` need what the calls look like: a chain of hops of which
  only the last one works, all others wait or have replied (`SubmissionTypeOK`).
  The refinement needs `AlwaysAdmittedOnce`, because `Admit` is enabled only for a
  task that is not in the log.  `HopsAlwaysNeedElections` gives each server a term its
  belief may be from (`Ages`, found step by step, for the state does not hold it): a server
  that follows another one's lead has the older belief of the two, so a call climbs
  through the terms as it is passed on, and ends with the present one (`Climbs`).
* `StartupProofs`.  `NoLeaderWithoutLogger`: in a new cluster of two or more agents
  no leader is ever elected, whatever the retry limits.  No agent ever serves,
  because each crashes after its first try, and one vote is no majority.

Only model-checked: `Terminates`, `CallsReturn` and `DoneIsAnswered` (fairness and
`ENABLED` are out of the prover's reach).  Every invariant and action property of the
passing runs is a theorem; `FinalsStay`, the others of `ReignProofs` and
`RestoredReplicasAgree` hold under the restriction on leadership that their runs have too.

## 5. Not modelled, and the plan

Not modelled because there is no shared state or decision in them: prompts and
HTTP of the LLM clients, formatting of the HTTP API, configuration, logging,
generated code, flags and the command-line clients.

The reputation-filtering transport is not modelled because no program constructs
it.  `TaskFuture.Await` is not, because nobody calls it.

What is left, in this order:

1. `Reigning` for a sequence of reigns, to say what of the order of rounds survives a
   change of leader (`RoundsInOrder` does not, as it stands).
2. Two tasks at once: the reputations of one finalizer overwritten by another
   (`engine.go` 705), head-of-line blocking in the engine's goroutine.

Disagreements met on the way that have no run of their own:

* `README.md` 74 says "If a quorum of agents accept, the task is marked `done`".
  With the default `TargetConsensus` of 3 a cluster of three needs all of its
  accepts; a quorum of two is used when everyone has voted (`engine.go` 464-474).
* The comment in `Subscribe` (`syncMapFSM.go` 137-139) says that version 0 always
  registers.  The code answers at once when there is a version.  The code is right: the
  variant `HasNewsAfterFirst` does what the comment says and loses updates.
* `syncMapFSM_test.go` 125 notes that a second vote "should overwrite", while the
  code, and the test's own assertion, keep the first.
* `README.md` 57-60: leadership goes to "any peer with strictly higher
  reputation".  `checkForLeadershipTransfer` (`engine.go` 744-756) looks at stored
  reputations only, and a peer nothing was stored for has the full 100: a leader
  that was punished does not hand over to it.
* `README.md` 49-52 describes a vote filter.  `ReputationTransport` is constructed
  nowhere, and looks up a candidate by its address although reputations are stored
  by identifier.
* `handlers.go` 94 answers "task timed out or cancelled", but `waitForTask` (113)
  returns for done tasks only; a client of a failed task waits until it gives up.
* A restarted agent answers a task again when it replays the log
  (`OneAnswerPerStart`), and `HasAnswers` counts answers, not agents
  (`engine.go` 283): after restarts, fewer agents than a majority may stand behind
  a proposal, which `ProposalHasQuorumAnswers` excludes without them.
* An agent that restarts and is elected before it has applied its log again applies it
  through a new engine while it leads (`node.go` 59).  It then has the answers of a task whose end it
  has not applied yet, and proposes the task anew (`engine.go` 283): a finished task is
  open again in the log.  A replica restored from a snapshot that dropped the task ignores
  this, since `Apply` updates only tasks it has (`syncMapFSM.go` 292).  So `RestoredAgreement` speaks of tasks that were
  over *at some time*.
* `RewardedOnce` counts decisions, and a failure committed by a new leader for a
  task that timed out while it was revised looks exactly like the timeout.
