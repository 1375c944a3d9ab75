------------------------------ MODULE Requests ------------------------------
(***************************************************************************)
(* The HTTP requests of one agent (internal/http/handlers.go) that submit  *)
(* a task and wait for its answer through the subscriptions of the agent's *)
(* replica (SyncMapFSM.Subscribe).  Every request submits a task of its    *)
(* own, named after it here.  The engines of the cluster are the           *)
(* environment: they commit updates of admitted tasks in any order.        *)
(***************************************************************************)
EXTENDS Integers, FiniteSets, Sequences

CONSTANTS Request,
          MaxUpdates,   \* bound: updates committed per task
          MaxRestores   \* bound: snapshots this replica installs

ASSUME RequestsAssumption == MaxUpdates \in Nat /\ MaxRestores \in Nat

VARIABLES log,          \* the committed commands about tasks
          applied,      \* how many of them this replica has applied
          records,      \* records[g]: the task records made since restore g - 1
          version,      \* KeyVersions of the task keys, 0 if there is none
          subscribers,  \* Subscribers: which channels of a request are in it
          chans,        \* every channel a request was given by Subscribe
          request       \* where the handler of a request is, and what it saw

replicaVars == <<log, applied, records, version>>
vars == <<replicaVars, subscribers, chans, request>>

Phase == {"submitting", "refused", "subscribing", "waiting", "answered", "cancelled"}
Active == {"admitted", "proposal"}
Ended == {"done", "failed"}
Command == [task : Request, status : Active \cup Ended]

(* A record is reached through a pointer, so an entry names the record.  *)
Open == [entries |-> <<>>, closed |-> FALSE]
Holding(e) == [entries |-> <<e>>, closed |-> TRUE]

Entry == [version : Nat, record : Nat \ {0}]
ChannelState == [entries : Seq(Entry), closed : BOOLEAN]
Channels == Seq(ChannelState)

(* Type correctness; the handler waits on the last channel it was given. *)
TypeOK ==
    /\ log \in Seq(Command)
    /\ applied \in 0 .. Len(log)
    /\ records \in Seq([Request -> Active \cup Ended \cup {"absent"}])
    /\ records # <<>>
    /\ version \in [Request -> Nat]
    /\ chans \in [Request -> Channels]
    /\ subscribers \in [Request -> SUBSET Nat]
    /\ \A r \in Request : subscribers[r] \subseteq DOMAIN chans[r]
    /\ request \in [Request -> [at : Phase, seen : Nat]]
    /\ \A r \in Request : request[r].at = "waiting" => chans[r] # <<>>

Init ==
    /\ log = <<>>
    /\ applied = 0
    /\ records = <<[r \in Request |-> "absent"]>>
    /\ version = [r \in Request |-> 0]
    /\ subscribers = [r \in Request |-> {}]
    /\ chans = [r \in Request |-> <<>>]
    /\ request = [r \in Request |-> [at |-> "submitting", seen |-> 0]]

Generation == Len(records)
Stored(r) == records[Generation][r]
Goto(r, at, seen) == request' = [request EXCEPT ![r] = [at |-> at, seen |-> seen]]

(***************************************************************************)
(* Submission, through the agent's own gRPC server and the leader's.  The  *)
(* command may be committed although the caller has given up.              *)
(***************************************************************************)
Commands(r) == {i \in 1 .. Len(log) : log[i].task = r}

Admit(r) ==
    /\ Commands(r) = {}
    /\ log' = Append(log, [task |-> r, status |-> "admitted"])
    /\ UNCHANGED <<applied, records, version, subscribers, chans, request>>

SubmitReturns(r) ==
    /\ request[r].at = "submitting"
    /\ Commands(r) # {}
    /\ Goto(r, "subscribing", 0)
    /\ UNCHANGED <<replicaVars, subscribers, chans>>

SubmitFails(r) ==
    /\ request[r].at = "submitting"
    /\ Goto(r, "refused", 0)
    /\ UNCHANGED <<replicaVars, subscribers, chans>>

(* The engine of the leader moves the task on, back, or to its end.  *)
Update(r, s) ==
    /\ Cardinality(Commands(r)) \in 1 .. MaxUpdates
    /\ log' = Append(log, [task |-> r, status |-> s])
    /\ UNCHANGED <<applied, records, version, subscribers, chans, request>>

(***************************************************************************)
(* SyncMapFSM.Apply of AdmitTask and UpdateTask, with incrementVersion and *)
(* notifySubscribers, under the mutex.  Every subscribed channel gets the  *)
(* entry unless it is full, is closed, and is forgotten.                   *)
(***************************************************************************)
Send(c, e) == IF c.entries = <<>> THEN Holding(e) ELSE [c EXCEPT !.closed = TRUE]

NotifyAll(r, e) ==
    chans' = [chans EXCEPT ![r] =
                 [k \in DOMAIN @ |-> IF k \in subscribers[r] THEN Send(@[k], e) ELSE @[k]]]

(* Variant: the subscribers of the key are kept. *)
NotifySubscribersKept(r, e) == NotifyAll(r, e) /\ UNCHANGED subscribers

NotifySubscribers(r, e) ==
    /\ NotifyAll(r, e)
    /\ subscribers' = [subscribers EXCEPT ![r] = {}]

Store(r, s) ==
    /\ records' = [records EXCEPT ![Generation][r] = s]
    /\ version' = [version EXCEPT ![r] = @ + 1]
    /\ NotifySubscribers(r, [version |-> version[r] + 1, record |-> Generation])

Apply ==
    /\ applied < Len(log)
    /\ applied' = applied + 1
    /\ LET c == log[applied + 1]
       IN  IF c.status # "admitted" /\ Stored(c.task) = "absent"
           THEN UNCHANGED <<records, version, subscribers, chans>>
           ELSE Store(c.task, c.status)
    /\ UNCHANGED <<log, request>>

(***************************************************************************)
(* Subscribe and WaitForEvent.                                             *)
(***************************************************************************)
(* Variant: as the comment in Subscribe has it, not for version 0. *)
HasNewsAfterFirst(r) ==
    request[r].seen > 0 /\ version[r] > request[r].seen /\ Stored(r) # "absent"

(* Variant: a version the caller has seen is news again. *)
HasNewsAgain(r) == version[r] >= request[r].seen /\ version[r] > 0 /\ Stored(r) # "absent"

HasNews(r) == version[r] > request[r].seen /\ Stored(r) # "absent"

Register(r, k) == subscribers' = [subscribers EXCEPT ![r] = @ \cup {k}]

GiveChannel(r, c) == chans' = [chans EXCEPT ![r] = Append(@, c)]

Subscribe(r) ==
    /\ request[r].at = "subscribing"
    /\ IF HasNews(r)
       THEN /\ GiveChannel(r, Holding([version |-> version[r], record |-> Generation]))
            /\ UNCHANGED subscribers
       ELSE /\ GiveChannel(r, Open)
            /\ Register(r, Len(chans[r]) + 1)
    /\ Goto(r, "waiting", request[r].seen)
    /\ UNCHANGED replicaVars

(***************************************************************************)
(* waitForTask looks at the record as it is when the entry is received,    *)
(* returns a task that is done, and asks for the next version otherwise.   *)
(***************************************************************************)
Channel(r) == chans[r][Len(chans[r])]
Blocked(r) == request[r].at = "waiting" /\ Channel(r).entries = <<>>
Taken(r) == chans' = [chans EXCEPT ![r][Len(chans[r])].entries = <<>>]

Receive(r) ==
    /\ request[r].at = "waiting"
    /\ ~Blocked(r)
    /\ LET e == Head(Channel(r).entries)
       IN  IF records[e.record][r] = "done"
           THEN Goto(r, "answered", e.version)
           ELSE Goto(r, "subscribing", e.version)
    /\ Taken(r)
    /\ UNCHANGED <<replicaVars, subscribers>>

(* The client gives up.  Its channel stays among the subscribers.  *)
Cancel(r) ==
    /\ request[r].at = "waiting"
    /\ Goto(r, "cancelled", request[r].seen)
    /\ UNCHANGED <<replicaVars, subscribers, chans>>

(***************************************************************************)
(* A replica that is far behind installs a snapshot that another one took  *)
(* after entry i.  Snapshot hands out the live map of tasks, which Persist *)
(* encodes later, one task after the other: read[r] is the entry the other *)
(* replica had come to when the task of r was encoded.                     *)
(* Restore keeps the unfinished tasks, in new records, and tells nobody.   *)
(* KeyVersions are lost: Snapshot writes them as "KeyVersions" and         *)
(* SnapshotData reads "key_versions".                                      *)
(***************************************************************************)
StatusAt(r, i) ==
    LET cs == {j \in Commands(r) : j <= i}
    IN  IF cs = {} THEN "absent"
        ELSE log[CHOOSE j \in cs : \A k \in cs : k <= j].status

Restored(s) == IF s \in Active THEN s ELSE "absent"

(* Variant: the subscribers are cleared like the rest of the state. *)
RestoreClearsSubscribers(i, read) ==
    /\ Generation <= MaxRestores
    /\ applied' = i
    /\ records' = Append(records, [r \in Request |-> Restored(StatusAt(r, read[r]))])
    /\ version' = [r \in Request |-> 0]
    /\ subscribers' = [r \in Request |-> {}]
    /\ UNCHANGED <<log, chans, request>>

Restore(i, read) ==
    /\ Generation <= MaxRestores
    /\ applied' = i
    /\ records' = Append(records, [r \in Request |-> Restored(StatusAt(r, read[r]))])
    /\ version' = [r \in Request |-> 0]
    /\ UNCHANGED <<log, subscribers, chans, request>>

InstallSnapshot(i) == \E read \in [Request -> i .. Len(log)] : Restore(i, read)

Handler(r) == SubmitReturns(r) \/ Subscribe(r) \/ Receive(r)

Next ==
    \/ \E r \in Request :
          \/ Admit(r) \/ \E s \in Ended \cup {"proposal"} : Update(r, s)
          \/ Handler(r) \/ SubmitFails(r) \/ Cancel(r)
    \/ Apply
    \/ \E i \in applied + 1 .. Len(log) : InstallSnapshot(i)

(* Goroutines of handlers are scheduled, and the replica catches up.  *)
Fairness == WF_vars(Apply) /\ \A r \in Request : WF_vars(Handler(r))

Spec == Init /\ [][Next]_vars
FairSpec == Spec /\ Fairness
=============================================================================
