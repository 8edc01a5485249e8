--------------------------- MODULE MCShadowRunner ---------------------------
(* Instances of ShadowRunner for TLC. *)
EXTENDS ShadowRunner, TLC

CONSTANTS c1, o1, o2, a1, f1, f2, t1, t2, b1, b2, m1, m2, m3

Ev(id, op, auth, kind) == [id |-> id, op |-> op, auth |-> auth, kind |-> kind]
In(op, auth, facts, at, base) ==
  [op |-> op, auth |-> auth, core |-> [facts |-> facts, at |-> at], base |-> base,
   effects |-> <<>>, created |-> TRUE, transmitted |-> FALSE]
Intent(op, auth, facts, head) ==
  [op |-> op, auth |-> auth, facts |-> facts, effects |-> <<>>, head |-> head]

(* Runs at two times, over two collections.                                *)
RunInputs == {In(o1, a1, f1, t1, b1), In(o1, a1, f1, t2, b2)}
RunEvents ==
  {Ev(m1, o1, NoAuth, "attempt_opened"), Ev(m2, o1, a1, "authorization_recorded"),
   Ev(m3, o2, NoAuth, "attempt_opened")}

(* The pinned command, one with other facts, and one pinned a record late. *)
RunIntents == {Intent(o1, a1, f1, 2), Intent(o1, a1, f2, 2), Intent(o1, a1, f1, 3)}
=============================================================================
