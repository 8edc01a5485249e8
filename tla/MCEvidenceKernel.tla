-------------------------- MODULE MCEvidenceKernel --------------------------
(* Instances of EvidenceKernel for TLC. *)
EXTENDS EvidenceKernel

CONSTANTS e1, e2, x, y

Record(effect, payload) == [effect |-> effect, payload |-> payload]
MCRecords == {Record(e1, x), Record(e1, y), Record(e2, x)}

Rumour(op, contract, status, late, effect, payload, authoritative) ==
  [op |-> op, contract |-> contract, status |-> status, authoritative |-> authoritative,
   late |-> late, effect |-> effect, payload |-> payload]

(* A replica that saw a commit, one that saw none, one under another       *)
(* contract, and a statement about another operation.                      *)
MCRumours ==
  {Rumour(Operation, Contract, "committed", FALSE, e1, x, FALSE),
   Rumour(Operation, Contract, "absent", TRUE, "none", "none", FALSE),
   Rumour(Operation, "other", "absent", TRUE, "none", "none", FALSE),
   Rumour("other", Contract, "absent", TRUE, "none", "none", TRUE)}

Story(created, preflight, rejected, transmitted, signingRejected, delivery, effect, assertions) ==
  [authorizationCreated |-> created, preflightPassed |-> preflight,
   policyRejectedBeforeAuthorization |-> rejected, authorizationTransmitted |-> transmitted,
   signingRejected |-> signingRejected, deliveryContractApplicable |-> delivery # "not_applicable",
   delivery |-> delivery, effectContractApplicable |-> effect, retryAssertions |-> assertions]

(* Two ordinary attempts, with a delivery and with an effect, one that was *)
(* never authorized, and two that deny the payment.                        *)
MCStories ==
  {Story(TRUE, TRUE, FALSE, "unknown", FALSE, "not_applicable", TRUE, {}),
   Story(TRUE, TRUE, FALSE, "pass", FALSE, "pass", TRUE, RetryAssertions),
   Story(TRUE, TRUE, FALSE, "pass", FALSE, "pass", FALSE, {}),
   Story(FALSE, TRUE, FALSE, "fail", TRUE, "fail", TRUE, {}),
   Story(TRUE, FALSE, FALSE, "unknown", FALSE, "unknown", TRUE, {})}
=============================================================================
