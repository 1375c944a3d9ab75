---------------------------- MODULE Deliberation ----------------------------
(***************************************************************************)
(* What a cluster of agents promises to whoever submits a task, without    *)
(* replicas, events, timers or goroutines: the life of a task as one       *)
(* observer of the committed log sees it.                                  *)
(*                                                                         *)
(* An admitted task gets proposals, one round after the other, and agents  *)
(* accept them or not.  It ends done for a round that a majority           *)
(* accepted, or failed.  The last action is the promise the code does not  *)
(* make: a task that is done may still be turned into a failed one, by a   *)
(* timer that expired just before (handleTaskTimeout).                     *)
(***************************************************************************)
EXTENDS Integers, FiniteSets

CONSTANTS Node,      \* the agents
          Task,      \* the tasks clients may submit
          MaxRounds  \* rounds of proposals a task may have

VARIABLES phase,    \* phase[t]: new, admitted, proposal, done or failed
          rounds,   \* rounds[t]: the number of the newest proposal
          accepts,  \* accepts[t]: which agents accepted which round
          decided   \* decided[t]: the round that was accepted, 0 if none was

vars == <<phase, rounds, accepts, decided>>

Init ==
    /\ phase = [t \in Task |-> "new"]
    /\ rounds = [t \in Task |-> 0]
    /\ accepts = [t \in Task |-> {}]
    /\ decided = [t \in Task |-> 0]

Move(t, from, to) ==
    /\ phase[t] \in from
    /\ phase' = [phase EXCEPT ![t] = to]

Admit(t) ==
    /\ Move(t, {"new"}, "admitted")
    /\ UNCHANGED <<rounds, accepts, decided>>

Propose(t) ==
    /\ Move(t, IF rounds[t] = 0 THEN {"admitted"} ELSE {"proposal"}, "proposal")
    /\ rounds[t] < MaxRounds
    /\ rounds' = [rounds EXCEPT ![t] = @ + 1]
    /\ UNCHANGED <<accepts, decided>>

(* Votes may arrive late, for any round there was, also after the end. *)
Vote(t, r, a) ==
    /\ UNCHANGED <<phase, rounds, decided>>
    /\ accepts' = [accepts EXCEPT ![t] = @ \cup {<<r, a>>}]

AcceptedBy(t, r) == {a \in Node : <<r, a>> \in accepts[t]}

Accept(t, r) ==
    /\ Move(t, {"proposal"}, "done")
    /\ 2 * Cardinality(AcceptedBy(t, r)) > Cardinality(Node)
    /\ decided' = [decided EXCEPT ![t] = r]
    /\ UNCHANGED <<rounds, accepts>>

GiveUp(t) ==
    /\ Move(t, {"admitted", "proposal"}, "failed")
    /\ UNCHANGED <<rounds, accepts, decided>>

TimeOutDone(t) ==
    /\ Move(t, {"done"}, "failed")
    /\ decided' = [decided EXCEPT ![t] = 0]
    /\ UNCHANGED <<rounds, accepts>>

Next ==
    \E t \in Task :
        \/ Admit(t) \/ Propose(t) \/ GiveUp(t) \/ TimeOutDone(t)
        \/ \E r \in 1 .. rounds[t] :
              \/ Accept(t, r)
              \/ \E a \in Node : Vote(t, r, a)

Spec == Init /\ [][Next]_vars
=============================================================================
