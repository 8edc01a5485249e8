--------------------------- MODULE EffectEvidence ---------------------------
(***************************************************************************)
(* The effect evaluator (src/src/evidence/effect.ts,                       *)
(* evaluateEffectEvidence): observations of the business effect of an      *)
(* operation are reduced to one verdict.                                   *)
(*                                                                         *)
(* An observation is [op, contract, status, authoritative, late, effect,   *)
(* payload].  Abstractions: the query key, the effect type and finalAfter  *)
(* are the contract; `late' says that the observation was not made before  *)
(* finalAfter; sources and exact times matter only to tell observations    *)
(* apart, and repeated observations are dropped, so a list is a set.  An   *)
(* observation that is not well formed is one of another operation: both   *)
(* yield a contradiction and nothing else.                                 *)
(***************************************************************************)
EXTENDS Naturals, FiniteSets

Effect(status, count) == [status |-> status, count |-> count]

(* Commits count if the system of record says so.                          *)
Commits(observations) == {o \in observations : o.status = "committed" /\ o.authoritative}
CommittedEffects(observations) == {o.effect : o \in Commits(observations)}

(* Mutation: absence counts whenever it was observed.                      *)
AbsentAtAnyTime(observations) ==
  \E o \in observations : o.status = "absent" /\ o.authoritative

(* An absence counts once nothing can be committed any more.               *)
FinallyAbsent(observations) ==
  \E o \in observations : o.status = "absent" /\ o.authoritative /\ o.late

CommitRumoured(observations) ==
  \E o \in observations : o.status = "committed" /\ ~o.authoritative

EffectsContradict(operation, observations) ==
  \/ \E o \in observations : o.op # operation
  \/ \E a, b \in observations : a.contract # b.contract
  \/ \E a, b \in Commits(observations) : a.effect = b.effect /\ a.payload # b.payload
  \/ Commits(observations) # {} /\ FinallyAbsent(observations)

(* Mutation: a rumour of a commit is as good as a commit.                  *)
EvaluateEffectRumour(operation, observations) ==
  IF observations = {} THEN Effect("unknown", 0)
  ELSE IF EffectsContradict(operation, observations) THEN Effect("contradiction", 0)
  ELSE IF CommitRumoured(observations) \/ Commits(observations) # {} THEN Effect("committed", 1)
  ELSE IF FinallyAbsent(observations) THEN Effect("absent", 0) ELSE Effect("unknown", 0)

EvaluateEffect(operation, observations) ==
  LET committed == CommittedEffects({o \in observations : o.op = operation})
  IN  IF observations = {} THEN Effect("unknown", 0)
      ELSE IF EffectsContradict(operation, observations)
      THEN Effect("contradiction", Cardinality(committed))
      ELSE IF committed # {}
      THEN Effect(IF Cardinality(committed) > 1 THEN "duplicate" ELSE "committed",
                  Cardinality(committed))
      ELSE IF FinallyAbsent(observations) /\ ~CommitRumoured(observations)
      THEN Effect("absent", 0)
      ELSE Effect("unknown", 0)
=============================================================================
