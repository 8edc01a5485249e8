------------------------ MODULE ReconciliationPolicy ------------------------
(***************************************************************************)
(* The policy of the evidence kernel (src/src/reconciliation-policy.ts):   *)
(* from the facts of one operation to its terminal state and to what may   *)
(* be retried.  Facts are records with the fields of TerminalFacts and     *)
(* RetryFacts; reasons are left out.                                       *)
(***************************************************************************)
EXTENDS Naturals

Predicate == {"pass", "fail", "unknown", "not_applicable"}

TerminalStates ==
  {"not_attempted", "rejected_before_authorization", "authorization_rejected",
   "settlement_unknown", "settlement_failed", "settled_pending_finality",
   "settled_delivery_unverified", "settled_delivery_failed", "settled_delivered",
   "delivered_settlement_unknown", "zero_claimed_pending_expiry",
   "zero_settled_delivery_failed", "zero_settled_delivered", "duplicate_settlement",
   "evidence_contradiction"}

RequiredOutcomes(facts) ==
  (IF facts.deliveryContractApplicable THEN {facts.delivery} ELSE {})
    \cup (IF facts.effectContractApplicable THEN {facts.effect} ELSE {})

DuplicateEffect(facts) == facts.effectContractApplicable /\ facts.effectCount > 1
Delivered(facts) == RequiredOutcomes(facts) = {"pass"} /\ ~DuplicateEffect(facts)

(* A payment that was authorized and is about to be judged by its outcome. *)
StateOfPayment(facts) ==
  IF facts.settlement = "not_attempted" THEN "not_attempted"
  ELSE IF facts.settlement = "zero_claimed_pending_expiry" THEN "zero_claimed_pending_expiry"
  ELSE IF facts.settlement = "zero_closed"
  THEN IF Delivered(facts) THEN "zero_settled_delivered" ELSE "zero_settled_delivery_failed"
  ELSE IF facts.settlement = "unknown"
  THEN IF Delivered(facts) THEN "delivered_settlement_unknown" ELSE "settlement_unknown"
  ELSE IF facts.settlement = "failed" THEN "settlement_failed"
  ELSE IF facts.requiredFinalityReached # "pass" THEN "settled_pending_finality"
  ELSE IF DuplicateEffect(facts) \/ "fail" \in RequiredOutcomes(facts)
  THEN "settled_delivery_failed"
  ELSE IF Delivered(facts) THEN "settled_delivered" ELSE "settled_delivery_unverified"

DeriveTerminalState(facts) ==
  IF facts.evidenceContradiction THEN "evidence_contradiction"
  ELSE IF facts.settlementCount > 1 THEN "duplicate_settlement"
  ELSE IF ~facts.paymentAuthorized THEN "not_attempted"
  ELSE IF facts.policyRejectedBeforeAuthorization THEN "rejected_before_authorization"
  ELSE IF ~facts.preflightPassed THEN "not_attempted"
  ELSE IF /\ facts.signingRejected
          /\ facts.authorizationTransmitted = "fail"
          /\ facts.settlement = "not_attempted"
  THEN "authorization_rejected"
  ELSE StateOfPayment(facts)

SameAuthorizationReplaySafe(facts) ==
  /\ facts.idempotencyContractVerified = "pass"
  /\ facts.sameKeyReplayCreatesNoNewSettlement = "pass"
  /\ facts.sameKeyReplayCreatesNoNewEffect = "pass"

NewAuthorizationSafe(facts) ==
  /\ facts.priorAuthorizationUnusable = "pass"
  /\ facts.settlementAbsenceAuthoritative = "pass"
  /\ facts.effectAbsenceAuthoritative = "pass"

InvariantPassed(settlementCount, effectCount) == settlementCount <= 1 /\ effectCount <= 1
=============================================================================
