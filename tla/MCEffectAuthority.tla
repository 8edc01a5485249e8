------------------------- MODULE MCEffectAuthority -------------------------
(* Instances of EffectAuthority for TLC. *)
EXTENDS EffectAuthority, TLC

CONSTANTS c1, c2, o1, k1, k2, a1, e1, e2, x

MCPolicy ==
  c1 :> [authority |-> a1, marker |-> "marker", delay |-> 1, maxSign |-> 1, maxAge |-> 1] @@
  c2 :> [authority |-> a1, marker |-> "marker", delay |-> 1, maxSign |-> 0, maxAge |-> 2]
MCStartedAt == [o \in Operations |-> 1]
MCHolder == k1 :> a1 @@ k2 :> a1

Key(authority, from, until, revoked, allowed) ==
  [authority |-> authority, from |-> from, until |-> until, revoked |-> revoked,
   allowed |-> allowed]

(* A key that runs out, its revocation with a successor for one contract,  *)
(* and manifests that are refused: a contract without a key, a window that *)
(* is empty.                                                               *)
MCManifests ==
  {[contracts |-> {c1, c2}, keys |-> k1 :> Key(a1, 0, 3, FALSE, {c1, c2})],
   [contracts |-> {c1, c2},
    keys |-> k1 :> Key(a1, 0, 3, TRUE, {c2}) @@ k2 :> Key(a1, 2, 9, FALSE, {c1})],
   [contracts |-> {c1, c2}, keys |-> k2 :> Key(a1, 2, 9, FALSE, {c1})],
   [contracts |-> {c1}, keys |-> k2 :> Key(a1, 9, 9, FALSE, {c1})]}

(* An absence and a commit that nobody saw.                                *)
Claim(outcome) ==
  [contract |-> c1, op |-> o1, start |-> 1, observedAt |-> 2, signedAt |-> 2, outcome |-> outcome]
MCClaims ==
  {Claim(Outcome("zero", {}, "marker", 2, 2))}
    \cup {Claim(Outcome("one", {[effect |-> e, payload |-> x, at |-> 2]}, None, 0, 0)) : e \in Effects}

Symmetry == Permutations(Effects)
=============================================================================
