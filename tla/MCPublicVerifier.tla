-------------------------- MODULE MCPublicVerifier --------------------------
(* Two clients ask an instance of each route, which may run one check at a *)
(* time, about a payment and about a transaction that does not exist.      *)
EXTENDS PublicVerifier

CONSTANTS c1, c2, paying, missing, asked, other, base, intent

Clients == {c1, c2}
Transactions == {paying, missing}
AllTerms == {asked, other}
BaseServers == {base}
IntentServers == {intent}
Fates == [x \in Transactions |-> IF x = paying THEN "confirmed" ELSE None]
Payments == [x \in Transactions |-> asked]
=============================================================================
