----------------------- MODULE EvidenceKernelProofs -----------------------
(***************************************************************************)
(* Proofs about EvidenceKernel, for every system of record, every observer *)
(* without authority and every story.                                      *)
(*                                                                         *)
(* The bundles alone are not inductive: what they rest on must still hold  *)
(* when the world moves on.  Each is tied to facts of the world that never *)
(* change back (BundlesTrue), by way of what the collected evidence and the*)
(* authority's statements imply when they are evaluated (Promised,         *)
(* StatementsTrue).                                                        *)
(***************************************************************************)
EXTENDS EvidenceKernel, TLAPS

TrueOf(o) ==
  /\ o.status = "committed" => held # {}
  /\ o.status = "absent" /\ o.late => final /\ held = {}

StatementsTrue == \A o \in observations : o.op = Operation /\ o.authoritative => TrueOf(o)

WorldOK ==
  /\ {settled, void, otherwise, final} \subseteq BOOLEAN
  /\ report \in Verdicts \cup {NoReport}
  /\ report # NoReport => Promised(report)

BundlesTrue ==
  \A b \in bundles :
    /\ b.fresh => void /\ ~settled /\ final /\ held = {}
    /\ b.terminal = "settlement_failed" => void /\ ~settled
    /\ b.terminal = "settled_delivered" =>
         /\ settled \/ otherwise
         /\ b.story.effectContractApplicable => held # {}
         /\ b.story.deliveryContractApplicable => b.story.delivery = "pass"

IInv == WorldOK /\ StatementsTrue /\ BundlesTrue

-----------------------------------------------------------------------------
(* What the verdicts of the evaluator imply.                               *)

(* An effect found absent was seen absent, finally, by the authority.      *)
LEMMA AbsentEffect ==
  ASSUME StatementsTrue, EvaluateEffect(Operation, observations).status = "absent"
  PROVE  final /\ held = {}
<1>1. FinallyAbsent(observations) /\ ~EffectsContradict(Operation, observations)
  BY DEF EvaluateEffect, Effect
<1>2. PICK o \in observations : o.status = "absent" /\ o.authoritative /\ o.late
  BY <1>1 DEF FinallyAbsent
<1>3. o.op = Operation
  BY <1>1 DEF EffectsContradict
<1> QED
  BY <1>2, <1>3 DEF StatementsTrue, TrueOf

(* An effect found committed was seen committed by the authority.          *)
LEMMA CommittedEffect ==
  ASSUME StatementsTrue, EvaluateEffect(Operation, observations).status = "committed"
  PROVE  held # {}
<1>1. CommittedEffects({o \in observations : o.op = Operation}) # {}
  BY DEF EvaluateEffect, Effect
<1>2. PICK o \in observations : o.op = Operation /\ o.status = "committed" /\ o.authoritative
  BY <1>1 DEF CommittedEffects, Commits
<1> QED
  BY <1>2 DEF StatementsTrue, TrueOf

(* The policy: a settlement is failed only if its verdict is, and delivered *)
(* only if it is final and every outcome it requires passed.               *)
LEMMA PolicyFailed ==
  ASSUME NEW facts, DeriveTerminalState(facts) = "settlement_failed"
  PROVE  facts.settlement = "failed"
  BY DEF DeriveTerminalState, StateOfPayment

LEMMA PolicyDelivered ==
  ASSUME NEW facts, DeriveTerminalState(facts) = "settled_delivered"
  PROVE  facts.requiredFinalityReached = "pass" /\ Delivered(facts)
  BY DEF DeriveTerminalState, StateOfPayment

(* Only a collected absence fails a settlement.                            *)
LEMMA FailedIsAbsent ==
  ASSUME NEW story, NEW effect, TerminalState(story, effect) = "settlement_failed"
  PROVE  report = "absent"
<1>1. TerminalFacts(story, effect).settlement = "failed"
  BY PolicyFailed DEF TerminalState
<1> QED
  BY <1>1 DEF TerminalFacts, SettlementVerdict

(* A delivered operation was confirmed, and every outcome it requires      *)
(* passed.                                                                 *)
LEMMA DeliveredIsConfirmed ==
  ASSUME NEW story, NEW effect, TerminalState(story, effect) = "settled_delivered"
  PROVE  /\ report = "confirmed"
         /\ story.effectContractApplicable => effect.status = "committed"
         /\ story.deliveryContractApplicable => story.delivery = "pass"
<1> DEFINE facts == TerminalFacts(story, effect)
<1>1. facts.requiredFinalityReached = "pass" /\ RequiredOutcomes(facts) = {"pass"}
  BY PolicyDelivered DEF TerminalState, Delivered
<1>2. report = "confirmed"
  BY <1>1 DEF TerminalFacts, FinalityPredicate
<1>3. story.effectContractApplicable => facts.effect = "pass"
  BY <1>1 DEF RequiredOutcomes, TerminalFacts
<1>4. story.deliveryContractApplicable => story.delivery = "pass"
  BY <1>1 DEF RequiredOutcomes, TerminalFacts
<1>5. facts.effect = "pass" => effect.status = "committed"
  BY DEF TerminalFacts, EffectPredicate
<1> QED
  BY <1>2, <1>3, <1>4, <1>5

(* What the authority states is so when it states it.                      *)
LEMMA StatementsAreTrue ==
  ASSUME NEW statement \in Statements, NEW o \in statement
  PROVE  TrueOf(o)
<1>1. CASE \E s \in Samples : statement = {Committed(row) : row \in s}
  BY <1>1 DEF Samples, Committed, Observation, TrueOf
<1>2. CASE held = {} /\ statement = {Absent(final)}
  BY <1>2 DEF Absent, Observation, TrueOf
<1>3. CASE statement = {Untold}
  BY <1>3 DEF Untold, Observation, TrueOf
<1> QED
  BY <1>1, <1>2, <1>3 DEF Statements

-----------------------------------------------------------------------------
THEOREM KernelInvariance == Spec => []IInv
<1>1. Init => IInv
  BY DEF Init, ReportInit, EffectInit, IInv, WorldOK, StatementsTrue, BundlesTrue
<1>2. IInv /\ [Next]_vars => IInv'
  <2> SUFFICES ASSUME IInv, [Next]_vars PROVE IInv'
    OBVIOUS
  <2> USE DEF IInv
  <2>1. CASE Happen /\ UNCHANGED <<effectVars, observations, bundles>>
    <3>1. WorldOK'
      BY <2>1 DEF Happen, effectVars, WorldOK, Promised
    <3>2. StatementsTrue'
      BY <2>1 DEF effectVars, StatementsTrue, TrueOf
    <3>3. BundlesTrue'
      BY <2>1 DEF Happen, effectVars, WorldOK, BundlesTrue
    <3> QED
      BY <3>1, <3>2, <3>3
  <2>2. CASE Commit /\ UNCHANGED <<reportVars, bundles>>
    <3>1. WorldOK'
      BY <2>2 DEF Commit, reportVars, WorldOK, Promised
    <3>2. held' # {} /\ ~final
      BY <2>2 DEF Commit
    <3>3. StatementsTrue'
      BY <2>2, <3>2 DEF Commit, StatementsTrue, TrueOf
    <3>4. BundlesTrue'
      BY <2>2, <3>2 DEF Commit, reportVars, BundlesTrue
    <3> QED
      BY <3>1, <3>3, <3>4
  <2>3. CASE Amend /\ UNCHANGED <<reportVars, bundles>>
    <3>1. WorldOK'
      BY <2>3 DEF Amend, reportVars, WorldOK, Promised
    <3>2. held # {} /\ held' # {}
      BY <2>3 DEF Amend
    <3>3. StatementsTrue'
      BY <2>3, <3>2 DEF Amend, StatementsTrue, TrueOf
    <3>4. BundlesTrue'
      BY <2>3, <3>2 DEF Amend, reportVars, BundlesTrue
    <3> QED
      BY <3>1, <3>3, <3>4
  <2>4. CASE PassFinalAfter /\ UNCHANGED <<reportVars, bundles>>
    BY <2>4 DEF PassFinalAfter, reportVars, WorldOK, Promised, StatementsTrue, TrueOf, BundlesTrue
  <2>5. CASE Collect
    <3>1. WorldOK' /\ BundlesTrue'
      BY <2>5 DEF Collect, Report, effectVars, WorldOK, Promised, BundlesTrue
    <3>2. StatementsTrue'
      BY <2>5 DEF Collect, effectVars, StatementsTrue, TrueOf
    <3> QED
      BY <3>1, <3>2
  <2>6. CASE Observe
    <3>1. UNCHANGED <<reportVars, effectVars, bundles>>
      BY <2>6 DEF Observe, ObserveEffect
    <3>2. CASE ObserveEffect
      <4>1. PICK statement \in Statements : observations' = observations \cup statement
        BY <3>2 DEF ObserveEffect
      <4>2. \A o \in statement : TrueOf(o)
        BY StatementsAreTrue
      <4> QED
        BY <3>1, <4>1, <4>2
        DEF reportVars, effectVars, WorldOK, Promised, StatementsTrue, TrueOf, BundlesTrue
    <3>3. CASE \E o \in Rumours : observations' = observations \cup {o}
      BY <3>1, <3>3, RumoursAssumption
      DEF reportVars, effectVars, WorldOK, Promised, StatementsTrue, TrueOf, BundlesTrue
    <3> QED
      BY <2>6, <3>2, <3>3 DEF Observe
  <2>7. ASSUME NEW story \in Stories, NEW expired \in BOOLEAN, Evaluate(story, expired)
        PROVE  IInv'
    <3> DEFINE effect == EvaluateEffect(Operation, observations)
               b == [story |-> story, terminal |-> TerminalState(story, effect),
                     same |-> RetryWithSameAuthorization(story, effect),
                     fresh |-> RetryWithNewAuthorization(story, effect, expired)]
    <3>1. bundles' = bundles \cup {b} /\ report # NoReport
      BY <2>7 DEF Evaluate
    <3>2. b.fresh => void /\ ~settled /\ final /\ held = {}
      <4>1. b.fresh => report = "absent" /\ effect.status = "absent"
        BY DEF RetryWithNewAuthorization, NewAuthorizationSafe, Passes
      <4> QED
        BY <3>1, <4>1, AbsentEffect DEF WorldOK, Promised
    <3>3. b.terminal = "settlement_failed" => void /\ ~settled
      BY <3>1, FailedIsAbsent DEF WorldOK, Promised
    <3>4. b.terminal = "settled_delivered" =>
            /\ settled \/ otherwise
            /\ story.effectContractApplicable => held # {}
            /\ story.deliveryContractApplicable => story.delivery = "pass"
      <4> SUFFICES ASSUME TerminalState(story, effect) = "settled_delivered"
                   PROVE  /\ settled \/ otherwise
                          /\ story.effectContractApplicable => held # {}
                          /\ story.deliveryContractApplicable => story.delivery = "pass"
        OBVIOUS
      <4>1. /\ report = "confirmed"
            /\ story.effectContractApplicable => effect.status = "committed"
            /\ story.deliveryContractApplicable => story.delivery = "pass"
        BY DeliveredIsConfirmed
      <4> QED
        BY <3>1, <4>1, CommittedEffect DEF WorldOK, Promised
    <3>5. b.story = story
      OBVIOUS
    <3> HIDE DEF b
    <3>6. BundlesTrue'
      BY <2>7, <3>1, <3>2, <3>3, <3>4, <3>5 DEF Evaluate, reportVars, effectVars, BundlesTrue
    <3>7. WorldOK' /\ StatementsTrue'
      BY <2>7 DEF Evaluate, reportVars, effectVars, WorldOK, Promised, StatementsTrue, TrueOf
    <3> QED
      BY <3>6, <3>7
  <2>8. CASE UNCHANGED vars
    BY <2>8 DEF vars, WorldOK, Promised, StatementsTrue, TrueOf, BundlesTrue
  <2> QED
    BY <2>1, <2>2, <2>3, <2>4, <2>5, <2>6, <2>7, <2>8 DEF Next, World
<1> QED
  BY <1>1, <1>2, PTL DEF Spec

(* A new authorization that a bundle called safe is the only one that ever *)
(* pays or has an effect.                                                  *)
THEOREM FreshSound == Spec => []FreshPaysOnce
<1>1. IInv => FreshPaysOnce
  BY DEF IInv, BundlesTrue, FreshPaysOnce
<1> QED
  BY <1>1, KernelInvariance, PTL

(* What was reported delivered was paid, and had its effect.               *)
THEOREM DeliveredSound == Spec => []DeliveredHappened
<1>1. IInv => DeliveredHappened
  BY DEF IInv, BundlesTrue, DeliveredHappened
<1> QED
  BY <1>1, KernelInvariance, PTL

(* What was reported failed never settles.                                 *)
THEOREM FailedSound == Spec => []FailedNeverSettles
<1>1. IInv => FailedNeverSettles
  BY DEF IInv, BundlesTrue, FailedNeverSettles
<1> QED
  BY <1>1, KernelInvariance, PTL
=============================================================================
