-------------------------- MODULE MCJournalBundle --------------------------
(* Instances of JournalBundle for TLC. *)
EXTENDS JournalBundle, TLC

CONSTANTS c1, c2, o1, o2, a1, k1, k2, b1, e1, m1, m2

Ev(id, op, auth, kind) == [id |-> id, op |-> op, auth |-> auth, kind |-> kind]
In(op, core, effects, created) ==
  [op |-> op, auth |-> a1, core |-> core, base |-> b1, effects |-> effects,
   created |-> created, transmitted |-> FALSE]

(* Two evaluations of one operation, and another operation that shares its *)
(* Base collection.                                                        *)
RivalInputs ==
  {In(o1, k1, <<>>, FALSE), In(o1, k2, <<e1>>, FALSE), In(o2, k1, <<>>, FALSE)}
RivalEvents ==
  {Ev(m1, o1, NoAuth, "attempt_opened"), Ev(m2, o2, NoAuth, "attempt_opened")}

(* The calls differ in nothing but their names.                            *)
Calls == Permutations(Call)
=============================================================================
