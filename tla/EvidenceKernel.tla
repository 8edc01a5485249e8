--------------------------- MODULE EvidenceKernel ---------------------------
(***************************************************************************)
(* The evidence kernel (src/src/evidence/kernel.ts, evaluateEvidenceKernel)*)
(* in the world it judges: one operation that is paid for with one         *)
(* authorization and has a business effect in the operator's system of     *)
(* record.  Evidence is collected, effects are observed and bundles are    *)
(* evaluated in any order, any number of times, while the payment and the  *)
(* effect still happen; a bundle that was issued is acted upon later.      *)
(*                                                                         *)
(* The collected Base evidence is taken at the level of what it promises   *)
(* (SettlementReport), and so are the verified statements of the effect    *)
(* authority (EffectReport); who is no authority says anything.            *)
(* Abstractions: hashes, identities and the shape of the input are left    *)
(* out; an input that is refused leaves no bundle.                         *)
(***************************************************************************)
EXTENDS SettlementReport, EffectReport, EffectEvidence, ReconciliationPolicy

CONSTANTS
  Rumours,          \* what observers without authority say
  Stories,          \* what callers declare about the attempt
  MaxObservations,  \* bound: effect observations ever made
  MaxBundles        \* bound: different bundles ever issued

ASSUME RumoursAssumption ==
  \A o \in Rumours :
    /\ DOMAIN o = {"op", "contract", "status", "authoritative", "late", "effect", "payload"}
    /\ o.op = Operation => ~o.authoritative

(* The attempt, as evaluateEvidenceKernel checks it, and the retry          *)
(* assertions the caller makes.                                            *)
RetryAssertions ==
  {"idempotencyContractVerified", "identicalReplayCreatesNoNewSettlement",
   "identicalReplayCreatesNoNewEffect"}

ASSUME StoriesAssumption ==
  \A s \in Stories :
    /\ {s.authorizationCreated, s.preflightPassed, s.policyRejectedBeforeAuthorization,
        s.signingRejected, s.deliveryContractApplicable, s.effectContractApplicable}
         \subseteq BOOLEAN
    /\ {s.authorizationTransmitted, s.delivery} \subseteq Predicate
    /\ s.retryAssertions \subseteq RetryAssertions
    /\ ~s.deliveryContractApplicable => s.delivery = "not_applicable"

VARIABLE
  bundles         \* history: the bundles issued: the terminal state, and whether the same
                  \* authorization may be sent again or a fresh one be signed

vars == <<settled, void, otherwise, report, held, final, observations, bundles>>

Init ==
  /\ ReportInit
  /\ EffectInit
  /\ bundles = {}

-----------------------------------------------------------------------------
(* Those who observe the system of record, its authority among them.       *)
Observe ==
  /\ \/ ObserveEffect
     \/ \E o \in Rumours : observations' = observations \cup {o} /\ UNCHANGED effectVars
  /\ Cardinality(observations') <= MaxObservations
  /\ UNCHANGED <<reportVars, bundles>>

-----------------------------------------------------------------------------
(* The kernel.                                                             *)

(* Mutation: any settlement that is not confirmed has failed.              *)
SettlementVerdictHasty(story) ==
  IF ~story.authorizationCreated THEN "not_attempted"
  ELSE IF report \in {"confirmed", "pending_finality"} THEN "pass" ELSE "failed"

SettlementVerdict(story) ==
  IF ~story.authorizationCreated THEN "not_attempted"
  ELSE IF report \in {"confirmed", "pending_finality"} THEN "pass"
  ELSE IF report = "absent" THEN "failed"
  ELSE "unknown"

(* The transfers that were counted; whatever a contradiction counted, it   *)
(* stays a contradiction.                                                  *)
SettlementCount ==
  IF report = "duplicate" THEN 2 ELSE IF report \in {"confirmed", "pending_finality"} THEN 1 ELSE 0

FinalityPredicate ==
  IF report = "confirmed" THEN "pass"
  ELSE IF report = "pending_finality" THEN "fail" ELSE "not_applicable"

EffectPredicate(effect) ==
  IF effect.status = "committed" THEN "pass"
  ELSE IF effect.status = "unknown" THEN "unknown" ELSE "fail"

(* What the story says cannot be, given what was observed.                 *)
AttemptContradiction(story, effect) ==
  \/ ~story.authorizationCreated
       /\ (SettlementCount > 0 \/ story.authorizationTransmitted = "pass")
  \/ story.policyRejectedBeforeAuthorization /\ story.authorizationTransmitted = "pass"
  \/ SettlementCount > 0
       /\ (story.signingRejected \/ story.authorizationTransmitted \in {"fail", "not_applicable"})
  \/ ~story.effectContractApplicable /\ (observations # {} \/ effect.count > 0)

Contradiction(story, effect) ==
  \/ AttemptContradiction(story, effect)
  \/ report \in {"mismatch", "contradiction"}
  \/ effect.status = "contradiction"

TerminalFacts(story, effect) ==
  [paymentAuthorized |-> story.authorizationCreated,
   preflightPassed |-> story.preflightPassed,
   policyRejectedBeforeAuthorization |-> story.policyRejectedBeforeAuthorization,
   authorizationTransmitted |-> story.authorizationTransmitted,
   signingRejected |-> story.signingRejected,
   settlement |-> SettlementVerdict(story),
   settlementCount |-> SettlementCount,
   requiredFinalityReached |-> FinalityPredicate,
   deliveryContractApplicable |-> story.deliveryContractApplicable,
   delivery |-> story.delivery,
   effectContractApplicable |-> story.effectContractApplicable,
   effect |-> EffectPredicate(effect),
   effectCount |-> effect.count,
   evidenceContradiction |-> Contradiction(story, effect)]

TerminalState(story, effect) == DeriveTerminalState(TerminalFacts(story, effect))

EvidenceIntegrityFailed(story, effect) ==
  \/ Contradiction(story, effect)
  \/ report = "duplicate" \/ effect.status = "duplicate"
  \/ ~InvariantPassed(SettlementCount, effect.count)

Passes(condition) == IF condition THEN "pass" ELSE "fail"

RetryWithSameAuthorization(story, effect) ==
  /\ ~EvidenceIntegrityFailed(story, effect)
  /\ SameAuthorizationReplaySafe(
       [idempotencyContractVerified |->
          Passes("idempotencyContractVerified" \in story.retryAssertions),
        sameKeyReplayCreatesNoNewSettlement |->
          Passes("identicalReplayCreatesNoNewSettlement" \in story.retryAssertions),
        sameKeyReplayCreatesNoNewEffect |->
          Passes("identicalReplayCreatesNoNewEffect" \in story.retryAssertions)])

RetryWithNewAuthorization(story, effect, expired) ==
  /\ ~EvidenceIntegrityFailed(story, effect)
  /\ NewAuthorizationSafe(
       [priorAuthorizationUnusable |-> Passes(expired),
        settlementAbsenceAuthoritative |-> Passes(report = "absent"),
        effectAbsenceAuthoritative |-> Passes(effect.status = "absent")])

(* A bundle.  An absence is read from a block past the expiry, and a block *)
(* past the clock of the caller is refused.                                *)
Evaluate(story, expired) ==
  LET effect == EvaluateEffect(Operation, observations)
  IN  /\ report # NoReport
      /\ report = "absent" => expired
      /\ bundles' = bundles \cup
           {[story |-> story, terminal |-> TerminalState(story, effect),
             same |-> RetryWithSameAuthorization(story, effect),
             fresh |-> RetryWithNewAuthorization(story, effect, expired)]}
      /\ Cardinality(bundles') <= MaxBundles
      /\ UNCHANGED <<reportVars, effectVars, observations>>

World == \/ Happen /\ UNCHANGED <<effectVars, observations, bundles>>
         \/ (Commit \/ Amend \/ PassFinalAfter) /\ UNCHANGED <<reportVars, bundles>>

Collect == Report /\ UNCHANGED <<effectVars, observations, bundles>>

Next ==
  \/ World \/ Collect \/ Observe
  \/ \E story \in Stories, expired \in BOOLEAN : Evaluate(story, expired)

Spec == Init /\ [][Next]_vars

-----------------------------------------------------------------------------
(* Properties, of every bundle that was ever issued.                       *)

(* Whoever signs a new authorization because a bundle says it is safe pays *)
(* once: the old one never settles and its effect never comes.             *)
FreshPaysOnce == \A b \in bundles : b.fresh => ~settled /\ held = {}

(* An operation that was reported delivered was paid, its effect was       *)
(* committed if it has one, and its delivery passed if it has one.         *)
DeliveredHappened ==
  \A b \in bundles : b.terminal = "settled_delivered" =>
    /\ settled \/ otherwise
    /\ b.story.effectContractApplicable => held # {}
    /\ b.story.deliveryContractApplicable => b.story.delivery = "pass"

(* A settlement that was reported failed never happens.                    *)
FailedNeverSettles == \A b \in bundles : b.terminal = "settlement_failed" => ~settled
=============================================================================
