------------------------- MODULE MCEvidenceJournal -------------------------
(* Instances of EvidenceJournal for TLC. *)
EXTENDS EvidenceJournal, TLC

CONSTANTS p1, p2, h1, h2, h3, o1, o2, a1

Ev(id, op, auth, kind) == [id |-> id, op |-> op, auth |-> auth, kind |-> kind]

MCOwnerThree == h1 :> p1 @@ h2 :> p1 @@ h3 :> p2
MCOwnerOneProcess == h1 :> p1

(* Two events of one operation that writers race to append at one head,    *)
(* and a different event under an id that is already used.                 *)
RaceEvents ==
  {Ev(1, o1, a1, "attempt_opened"), Ev(2, o1, a1, "kernel_input_committed"),
   Ev(1, o2, a1, "attempt_opened")}

(* A whole closure, and an effect that may come before it but never after. *)
LifecycleEvents ==
  {Ev(1, o1, a1, "attempt_opened"), Ev(2, o1, a1, "kernel_input_committed"),
   Ev(3, o1, a1, "kernel_bundle_committed"), Ev(4, o1, a1, "effect_observed")}
=============================================================================
