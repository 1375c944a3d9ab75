----------------------------- MODULE Refinement -----------------------------
(***************************************************************************)
(* Under one leader the engines implement Deliberation.  Its state is read *)
(* off the committed log: the newest update of a task tells its phase, the *)
(* newest proposal its rounds, and the standing votes who accepted it.     *)
(***************************************************************************)
EXTENDS EngineProperties

Newest(S) == CHOOSE i \in S : \A j \in S : j <= i

PhaseOf(t) ==
    IF ~Submitted(t) THEN "new"
    ELSE IF Updates(t) = {} THEN "admitted"
    ELSE log[Newest(Updates(t))].state.status

RoundsOf(t) ==
    IF Proposals(t) = {} THEN 0 ELSE log[Newest(Proposals(t))].state.round

AcceptsOf(t) ==
    {<<v.round, v.agent>> :
        v \in {w \in StandingVotes(Len(log)) : w.task = t /\ w.accepted}}

DecidedFor(t) == IF PhaseOf(t) = "done" THEN log[Newest(Updates(t))].state.round ELSE 0

Promise == INSTANCE Deliberation WITH
    phase <- [t \in Task |-> PhaseOf(t)],
    rounds <- [t \in Task |-> RoundsOf(t)],
    accepts <- [t \in Task |-> AcceptsOf(t)],
    decided <- [t \in Task |-> DecidedFor(t)]

(***************************************************************************)
(* Every behaviour of the engines under one leader (MaxTerm = 0) is, in    *)
(* the log, a life of its tasks as Deliberation allows it: late answers,   *)
(* late votes, dropped events, expired timers and the leader's writes into *)
(* its own replica ahead of Raft change nothing an observer could see.     *)
(***************************************************************************)
ImplementsDeliberation == Promise!Spec
=============================================================================
