----------------------------- MODULE Submission -----------------------------
(***************************************************************************)
(* How a request's task gets into the log (internal/grpc): the agent calls *)
(* its own gRPC server; a server that is not the leader passes the call on *)
(* to the server it takes for the leader and relays the reply; the others  *)
(* hand the command to Raft and register a listener for the task.  Answers,*)
(* votes and metadata take the same path, without the listener.            *)
(*                                                                         *)
(* Everything else about the requests is in Requests, whose submission     *)
(* this refines: there, the command is committed, and the caller told or   *)
(* not, in one step each.                                                  *)
(***************************************************************************)
EXTENDS RequestsProperties

CONSTANTS Server,     \* the gRPC servers, one per agent
          Home,       \* the server of the agent that has the requests
          Nobody,     \* no leader
          MaxTerm     \* bound: elections explored

ASSUME SubmissionAssumption ==
    /\ Home \in Server
    /\ Nobody \notin Server
    /\ MaxTerm \in Nat

VARIABLES term,       \* the term of the newest leader
          leader,     \* the node whose entries are committed
          believed,   \* believed[s]: LeaderWithID on s; itself in state Leader
          frames,     \* frames[r]: the handlers that serve the call, one per hop
          listeners   \* listeners[s][r]: what s registered for the task

raftVars == <<term, leader, believed>>
submissionVars == <<raftVars, frames, listeners>>
allVars == <<vars, submissionVars>>

Stage == {"received", "waiting", "applying", "committed", "accepted", "refused"}
Hop == [server : Server, at : Stage]
Replied == {"accepted", "refused"}

Listener == [registered : BOOLEAN, sent : Nat]
NoListener == [registered |-> FALSE, sent |-> 0]

(***************************************************************************)
(* Type correctness of the calls and of what the servers believe.  A       *)
(* server that has passed a call on waits for the reply or has answered,   *)
(* and only such a server waits.                                           *)
(***************************************************************************)
SubmissionTypeOK ==
    /\ term \in 0 .. MaxTerm
    /\ leader \in Server
    /\ believed \in [Server -> Server \cup {Nobody}]
    /\ frames \in [Request -> Seq(Hop)]
    /\ listeners \in [Server -> [Request -> Listener]]
    /\ \A r \in Request :
          /\ frames[r] # <<>>
          /\ \A i \in DOMAIN frames[r] :
                IF i < Len(frames[r])
                THEN frames[r][i].at \in Replied \cup {"waiting"}
                ELSE frames[r][i].at # "waiting"

Received(s) == [server |-> s, at |-> "received"]

SubmissionInit ==
    /\ Init
    /\ term = 0
    /\ leader \in Server
    /\ believed \in [Server -> {leader, Nobody}]
    /\ believed[leader] = leader
    /\ frames = [r \in Request |-> <<Received(Home)>>]
    /\ listeners = [s \in Server |-> [r \in Request |-> NoListener]]

Hops(r) == DOMAIN frames[r]
At(r, i) == frames[r][i].at
ServerAt(r, i) == frames[r][i].server
Move(r, i, at) == frames' = [frames EXCEPT ![r][i].at = at]

(***************************************************************************)
(* forwardToLeader.  A server in state Leader processes the call; so does  *)
(* one that knows no leader, though Raft will refuse it there.             *)
(***************************************************************************)
(* Variant: whoever is believed to lead gets the call, be it this server. *)
ForwardUnlessLeaderless(r, i) ==
    LET s == ServerAt(r, i)
    IN  /\ At(r, i) = "received"
        /\ believed[s] # Nobody
        /\ frames' = [frames EXCEPT ![r] =
               Append([@ EXCEPT ![i].at = "waiting"], Received(believed[s]))]
        /\ UNCHANGED <<vars, raftVars, listeners>>

Forward(r, i) ==
    LET s == ServerAt(r, i)
    IN  /\ At(r, i) = "received"
        /\ believed[s] \notin {s, Nobody}
        /\ frames' = [frames EXCEPT ![r] =
               Append([@ EXCEPT ![i].at = "waiting"], Received(believed[s]))]
        /\ UNCHANGED <<vars, raftVars, listeners>>

Process(r, i) ==
    /\ At(r, i) = "received"
    /\ believed[ServerAt(r, i)] \in {ServerAt(r, i), Nobody}
    /\ Move(r, i, "applying")
    /\ UNCHANGED <<vars, raftVars, listeners>>

(* Variant: only a success is relayed. *)
RelaySuccess(r, i) ==
    /\ At(r, i) = "waiting"
    /\ At(r, i + 1) = "accepted"
    /\ Move(r, i, "accepted")
    /\ UNCHANGED <<vars, raftVars, listeners>>

Relay(r, i) ==
    /\ At(r, i) = "waiting"
    /\ At(r, i + 1) \in Replied
    /\ Move(r, i, At(r, i + 1))
    /\ UNCHANGED <<vars, raftVars, listeners>>

(* Variant: a server that could not forward the call serves it itself. *)
FallThrough(r, i) ==
    /\ At(r, i) = "waiting"
    /\ Move(r, i, "applying")
    /\ UNCHANGED <<vars, raftVars, listeners>>

(***************************************************************************)
(* The connection breaks, or the call is cancelled: the server answers     *)
(* with the error, whatever becomes of the call further on.                *)
(***************************************************************************)
ForwardFails(r, i) ==
    /\ At(r, i) = "waiting"
    /\ Move(r, i, "refused")
    /\ UNCHANGED <<vars, raftVars, listeners>>

(***************************************************************************)
(* AgentService.SubmitTask.  Raft.Apply fails if the node does not lead,   *)
(* or no longer leads when the entry is applied; the entry may be          *)
(* committed all the same.                                                 *)
(***************************************************************************)
CommitTask(r, i) ==
    /\ At(r, i) = "applying"
    /\ ServerAt(r, i) = leader
    /\ log' = Append(log, [task |-> r, status |-> "admitted"])
    /\ Move(r, i, "committed")
    /\ UNCHANGED <<applied, records, version, subscribers, chans, request>>
    /\ UNCHANGED <<raftVars, listeners>>

ApplyFails(r, i) ==
    /\ At(r, i) \in {"applying", "committed"}
    /\ ServerAt(r, i) # leader
    /\ Move(r, i, "refused")
    /\ UNCHANGED <<vars, raftVars, listeners>>

AppliedAt(s, r) == s = Home => \E k \in Commands(r) : k <= applied

RegisterTask(r, i) ==
    /\ At(r, i) = "committed"
    /\ AppliedAt(ServerAt(r, i), r)
    /\ listeners' = [listeners EXCEPT ![ServerAt(r, i)][r].registered = TRUE]
    /\ Move(r, i, "accepted")
    /\ UNCHANGED <<vars, raftVars>>

(***************************************************************************)
(* NotifyTaskCompletion, by the engine of s, for each update that ends the *)
(* task.  The channel has one place and is closed once used.               *)
(***************************************************************************)
EndedAt(s, r) ==
    \E k \in Commands(r) : log[k].status \in Ended /\ (s = Home => k <= applied)

(* Variant: the listener is not deleted. *)
NotifyKeepsListener(s, r) ==
    /\ EndedAt(s, r)
    /\ listeners[s][r].registered
    /\ listeners' = [listeners EXCEPT ![s][r].sent = @ + 1]
    /\ UNCHANGED <<vars, raftVars, frames>>

NotifyTaskCompletion(s, r) ==
    /\ EndedAt(s, r)
    /\ listeners[s][r].registered
    /\ listeners' = [listeners EXCEPT ![s][r] = [registered |-> FALSE, sent |-> @.sent + 1]]
    /\ UNCHANGED <<vars, raftVars, frames>>

(***************************************************************************)
(* The caller, with the reply of its own server, or without one when the   *)
(* client has given up.                                                    *)
(***************************************************************************)
CallReturns(r) ==
    /\ At(r, 1) = "accepted"
    /\ SubmitReturns(r)
    /\ UNCHANGED submissionVars

CallFails(r) ==
    /\ At(r, 1) = "refused"
    /\ SubmitFails(r)
    /\ UNCHANGED submissionVars

GivesUp(r) == SubmitFails(r) /\ UNCHANGED submissionVars

(***************************************************************************)
(* Elections.  A node that leaves the state Leader, or hears nothing from  *)
(* its leader, knows none; afterwards it learns of the newest.  A deposed  *)
(* leader takes itself for the leader until it notices.                    *)
(***************************************************************************)
Elect(s) ==
    /\ term < MaxTerm
    /\ term' = term + 1
    /\ leader' = s
    /\ believed' = [believed EXCEPT ![s] = s]
    /\ UNCHANGED <<vars, frames, listeners>>

Learn(s) ==
    /\ s # leader
    /\ believed' = [believed EXCEPT ![s] = IF @ = Nobody THEN leader ELSE Nobody]
    /\ UNCHANGED <<vars, term, leader, frames, listeners>>

(***************************************************************************)
(* The rest of Requests, as it is.                                         *)
(***************************************************************************)
Elsewhere ==
    /\ \/ \E r \in Request :
             \/ \E s \in Ended \cup {"proposal"} : Update(r, s)
             \/ Subscribe(r) \/ Receive(r) \/ Cancel(r)
       \/ Apply
       \/ \E i \in applied + 1 .. Len(log) : InstallSnapshot(i)
    /\ UNCHANGED submissionVars

Serve(r, i) ==
    \/ Forward(r, i) \/ Process(r, i) \/ Relay(r, i)
    \/ CommitTask(r, i) \/ ApplyFails(r, i) \/ RegisterTask(r, i)

SubmissionNext ==
    \/ \E r \in Request :
          \/ \E i \in Hops(r) : Serve(r, i) \/ ForwardFails(r, i)
          \/ CallReturns(r) \/ CallFails(r) \/ GivesUp(r)
          \/ \E s \in Server : NotifyTaskCompletion(s, r)
    \/ \E s \in Server : Elect(s) \/ Learn(s)
    \/ Elsewhere

HandlerOf(r) ==
    \/ CallReturns(r) \/ CallFails(r)
    \/ (Subscribe(r) \/ Receive(r)) /\ UNCHANGED submissionVars

(* Goroutines of servers and requests are scheduled, and the replica catches up. *)
SubmissionFairness ==
    /\ WF_allVars(Apply /\ UNCHANGED submissionVars)
    /\ \A r \in Request : WF_allVars(HandlerOf(r))
    /\ \A r \in Request : WF_allVars(\E i \in Hops(r) : Serve(r, i))

SubmissionSpec == SubmissionInit /\ [][SubmissionNext]_allVars
FairSubmissionSpec == SubmissionSpec /\ SubmissionFairness

-----------------------------------------------------------------------------
(***************************************************************************)
(* A call admits its task at most once, however often it is passed on,     *)
(* whatever connections break and whoever leads when it arrives.           *)
(***************************************************************************)
Admissions(r) == {i \in Commands(r) : log[i].status = "admitted"}

AdmittedOnce == \A r \in Request : Cardinality(Admissions(r)) <= 1

(***************************************************************************)
(* Servers do not pass a call round in circles: with stale beliefs, a hop  *)
(* more than the usual one needs another election.                         *)
(***************************************************************************)
HopsNeedElections == \A r \in Request : Len(frames[r]) <= term + 2

(***************************************************************************)
(* A listener's channel is written once and then closed, although a task   *)
(* may end twice (a timeout after the decision): a second send would panic *)
(* in the goroutine of the engine.                                         *)
(***************************************************************************)
ListenersSentOnce == \A s \in Server, r \in Request : listeners[s][r].sent <= 1

(***************************************************************************)
(* Every call returns to the handler that made it, whatever the servers    *)
(* believed and wherever leadership went.                                  *)
(***************************************************************************)
CallsReturn == \A r \in Request : [](request[r].at = "submitting" => <>(request[r].at # "submitting"))

(***************************************************************************)
(* What requests may rely on does not depend on how submission works.      *)
(***************************************************************************)
ImplementsRequests == Spec
=============================================================================
