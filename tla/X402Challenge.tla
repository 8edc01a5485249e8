---------------------------- MODULE X402Challenge ----------------------------
(***************************************************************************)
(* The payment challenge of a 402 response and what a contract accepts of  *)
(* it (src/src/x402-challenge.ts, src/src/load-contract.ts).               *)
(*                                                                         *)
(* A header is [resource, accepts, canonical, signIn]: the requirements it *)
(* offers, in order; whether it decodes as an x402 v2 challenge; whether it*)
(* asks for a sign-in.  A requirement is [payee, amount].                  *)
(* Abstractions: scheme, network, asset, recipient, timeout and EIP-712    *)
(* domain of a requirement are its payee; equal URLs are equal values.     *)
(***************************************************************************)
EXTENDS Naturals

CONSTANT None   \* no header

(* A contract that was parsed: its cap is positive, in USD as in atoms.    *)
ParsedPayment(payment) == payment.cap \in Nat /\ payment.cap > 0

ValidPaymentPolicy(payment) == payment.cap > 0

StructurallyValid(header) ==
  /\ header.canonical
  /\ DOMAIN header.accepts # {}
  /\ \A i \in DOMAIN header.accepts : header.accepts[i].amount > 0

ValidRequirement(requirement, payment) ==
  /\ requirement.payee = payment.payee
  /\ 0 < requirement.amount /\ requirement.amount <= payment.cap

Compatible(header, payment) ==
  {i \in DOMAIN header.accepts : ValidRequirement(header.accepts[i], payment)}

(* Two requirements that are alike are ambiguous as well.                  *)
ValidatePaymentRequired(header, payment, url) ==
  /\ ValidPaymentPolicy(payment)
  /\ header # None
  /\ StructurallyValid(header)
  /\ header.resource = url
  /\ \E i \in DOMAIN header.accepts : Compatible(header, payment) = {i}

HasSiwxExtension(header) == header.signIn

SingleRequirementHeader(header, payment) ==
  LET i == CHOOSE i \in DOMAIN header.accepts : i \in Compatible(header, payment)
  IN  [header EXCEPT !.accepts = <<header.accepts[i]>>]
=============================================================================
