------------------------------- MODULE Startup -------------------------------
(***************************************************************************)
(* How the agents of a new cluster come up (runAgent): the Raft node runs  *)
(* before the gRPC server that carries its messages serves anything, and   *)
(* between the two the agent publishes its metadata, for which it waits    *)
(* for a leader.                                                           *)
(***************************************************************************)
EXTENDS Naturals, FiniteSets

CONSTANTS Node,        \* the agents of the bootstrapped configuration
          Nobody,      \* no leader
          MaxWaits,    \* how often RegisterMetadata looks for a leader
          MaxPublish,  \* how often it tries to publish
          LoggerSet    \* whether Provider.logger is set; NewProvider leaves it nil

(* What the theorems assume of the constants. *)
StartupAssumption ==
    /\ IsFiniteSet(Node)
    /\ Nobody \notin Node
    /\ MaxWaits \in Nat /\ MaxPublish \in Nat \ {0}
    /\ LoggerSet \in BOOLEAN

VARIABLES process,    \* process[n]: where runAgent of n is, and its tries
          leader,     \* the elected leader
          known,      \* known[n]: LeaderWithID on n
          metadata    \* the agents whose metadata is in the log

vars == <<process, leader, known, metadata>>

At(n) == process[n].at
Tries(n) == process[n].tries
Goto(n, at, tries) == process' = [process EXCEPT ![n] = [at |-> at, tries |-> tries]]

Process ==
    [at : {"waiting"}, tries : 0 .. MaxWaits]
        \cup [at : {"publishing"}, tries : 0 .. MaxPublish - 1]
        \cup [at : {"serving", "crashed"}, tries : {0}]

(* Type correctness of the starting agents. *)
StartupTypeOK ==
    /\ process \in [Node -> Process]
    /\ leader \in Node \cup {Nobody}
    /\ known \in [Node -> Node \cup {Nobody}]
    /\ metadata \subseteq Node

(* NewAgentNode: Raft runs, with the bootstrapped configuration.  *)
Init ==
    /\ process = [n \in Node |-> [at |-> "waiting", tries |-> 0]]
    /\ leader = Nobody
    /\ known = [n \in Node |-> Nobody]
    /\ metadata = {}

Serves(n) == At(n) = "serving"
Runs(n) == At(n) # "crashed"

(***************************************************************************)
(* An election needs the votes of a majority.  The candidate votes for     *)
(* itself; the others answer if their server serves.                       *)
(***************************************************************************)
Elect(n) ==
    /\ leader = Nobody
    /\ Runs(n)
    /\ 2 * Cardinality({n} \cup {m \in Node : Serves(m)}) > Cardinality(Node)
    /\ leader' = n
    /\ known' = [known EXCEPT ![n] = n]
    /\ UNCHANGED <<process, metadata>>

HearLeader(n) ==
    /\ leader # Nobody
    /\ Runs(leader) /\ Serves(n)
    /\ known' = [known EXCEPT ![n] = leader]
    /\ UNCHANGED <<process, leader, metadata>>

(* RegisterMetadata, the first loop: it ends without a leader, too.  *)
WaitForLeader(n) ==
    /\ At(n) = "waiting"
    /\ IF known[n] # Nobody \/ Tries(n) = MaxWaits
       THEN Goto(n, "publishing", 0)
       ELSE Goto(n, "waiting", Tries(n) + 1)
    /\ UNCHANGED <<leader, known, metadata>>

(***************************************************************************)
(* The second loop.  The leader applies its metadata; the others call      *)
(* their own server, which does not serve yet.  Both outcomes are logged,  *)
(* which ends the process when there is no logger.                         *)
(***************************************************************************)
PublishLocally(n) ==
    /\ At(n) = "publishing"
    /\ known[n] = n
    /\ metadata' = metadata \cup {n}
    /\ IF LoggerSet THEN Goto(n, "serving", 0) ELSE Goto(n, "crashed", 0)
    /\ UNCHANGED <<leader, known>>

PublishFails(n) ==
    /\ At(n) = "publishing"
    /\ known[n] # n
    /\ IF ~LoggerSet THEN Goto(n, "crashed", 0)
       ELSE IF Tries(n) + 1 < MaxPublish THEN Goto(n, "publishing", Tries(n) + 1)
       ELSE Goto(n, "serving", 0)
    /\ UNCHANGED <<leader, known, metadata>>

RunAgent(n) == WaitForLeader(n) \/ PublishLocally(n) \/ PublishFails(n)

Next == \E n \in Node : RunAgent(n) \/ Elect(n) \/ HearLeader(n)

(* Processes run on, and Raft elects a leader when it can.  *)
Spec ==
    /\ Init /\ [][Next]_vars
    /\ \A n \in Node : WF_vars(RunAgent(n))
    /\ WF_vars(\E n \in Node : Elect(n))

-----------------------------------------------------------------------------
(***************************************************************************)
(* README 40-44: when a cluster of agents is bootstrapped, the agents      *)
(* elect a Raft leader.                                                    *)
(***************************************************************************)
ElectsLeader == <>(leader # Nobody)
=============================================================================
