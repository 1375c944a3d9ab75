------------------------------- MODULE Tally -------------------------------
(***************************************************************************)
(* The arithmetic of one deliberation: how runFinalizeTask counts the      *)
(* votes of a round, what it decides, and what the outcome costs or earns  *)
(* the leader and the voters.  Pure operators, no state.                   *)
(*                                                                         *)
(* A vote is a record [task, round, agent, accepted, text].  The code keys *)
(* a vote by task, round and agent; "text" is history only (it names the   *)
(* proposal the agent validated) and no operator here reads it.            *)
(***************************************************************************)
EXTENDS Integers, FiniteSets

CONSTANTS Node,             \* the servers of the Raft configuration
          TargetConsensus,  \* accepts that finish a round at once
          MaxRounds         \* voting rounds before the fallback

ASSUME TallyAssumption ==
    /\ IsFiniteSet(Node)
    /\ Node # {}
    /\ TargetConsensus \in Nat
    /\ MaxRounds \in Nat \ {0}

ServerCount == Cardinality(Node)
Quorum == ServerCount \div 2 + 1
Target == IF TargetConsensus < Quorum THEN Quorum ELSE TargetConsensus

(***************************************************************************)
(* The voters map of runFinalizeTask: who accepted and who rejected round  *)
(* r of task t, among the votes vs that one replica has applied.           *)
(***************************************************************************)
InRound(vs, t, r) == {v \in vs : v.task = t /\ v.round = r}
Acceptors(vs, t, r) == {v.agent : v \in {w \in InRound(vs, t, r) : w.accepted}}
Rejecters(vs, t, r) == {v.agent : v \in {w \in InRound(vs, t, r) : ~w.accepted}}
Voters(vs, t, r) == {<<v.agent, v.accepted>> : v \in InRound(vs, t, r)}

Accepted(vs, t, r) == Cardinality(Acceptors(vs, t, r))
Rejected(vs, t, r) == Cardinality(Rejecters(vs, t, r))

(* Variant: the quorum is not asked for. *)
CandidatesAnyAccept(vs, t, r) == {q \in 1 .. r : Accepted(vs, t, q) >= 1}

(***************************************************************************)
(* The rounds the fallback may return to, and the one it prefers: most     *)
(* accepts, the later round on a tie.                                      *)
(***************************************************************************)
Candidates(vs, t, r) == {q \in 1 .. r : Accepted(vs, t, q) >= Quorum}

BetterRound(vs, t, p, q) ==
    \/ Accepted(vs, t, q) > Accepted(vs, t, p)
    \/ Accepted(vs, t, q) = Accepted(vs, t, p) /\ q >= p

BestRound(vs, t, r) ==
    CHOOSE q \in Candidates(vs, t, r) :
        \A p \in Candidates(vs, t, r) : BetterRound(vs, t, p, q)

(***************************************************************************)
(* What runFinalizeTask decides once it has read the votes of round r:     *)
(* the order of the tests is the order of its if-else chain.               *)
(***************************************************************************)
(* Variant: the target not raised to the quorum. *)
ConsensusBelowQuorum(vs, t, r) == Accepted(vs, t, r) >= TargetConsensus

Consensus(vs, t, r) == Accepted(vs, t, r) >= Target
Rejection(vs, t, r) == Rejected(vs, t, r) >= Quorum
AllVoted(vs, t, r) == Accepted(vs, t, r) + Rejected(vs, t, r) >= ServerCount
(* Variant: a tie is a majority. *)
MajorityOrTie(vs, t, r) == Accepted(vs, t, r) >= Rejected(vs, t, r)

Majority(vs, t, r) == Accepted(vs, t, r) > Rejected(vs, t, r)

(* Variant: one round too many. *)
AfterRejectionOneMore(vs, t, r) ==
    IF r <= MaxRounds THEN "revise"
    ELSE IF Candidates(vs, t, r) # {} THEN "fallback" ELSE "failed"

AfterRejection(vs, t, r) ==
    IF r < MaxRounds THEN "revise"
    ELSE IF Candidates(vs, t, r) # {} THEN "fallback" ELSE "failed"

AfterSplit(vs, t, r) ==
    IF r < MaxRounds THEN "revise"
    ELSE IF Majority(vs, t, r) THEN "done" ELSE "failed"

Verdict(vs, t, r) ==
    IF Consensus(vs, t, r) THEN "done"
    ELSE IF Rejection(vs, t, r) THEN AfterRejection(vs, t, r)
    ELSE IF AllVoted(vs, t, r) THEN AfterSplit(vs, t, r)
    ELSE "wait"

(***************************************************************************)
(* Reputation: an agent nothing was stored for has 100; every update is    *)
(* clamped to 0..100.                                                      *)
(***************************************************************************)
FullReputation == 100
(* Variant: the clamp forgotten. *)
Unclamped(x) == x

Clamp(x) == IF x < 0 THEN 0 ELSE IF x > FullReputation THEN FullReputation ELSE x

LeaderReward(status, rep) == Clamp(IF status = "done" THEN rep + 10 ELSE rep - 10)

Agreed(status, accepted) == (status = "done") = accepted
VoterReward(status, accepted, rep) ==
    Clamp(IF Agreed(status, accepted) THEN rep + 1 ELSE rep - 1)
=============================================================================
