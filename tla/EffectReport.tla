---------------------------- MODULE EffectReport ----------------------------
(***************************************************************************)
(* What the verified statements of an effect authority promise about one   *)
(* operation under one effect contract, with no key, signature or clock in *)
(* sight: a commit that was reported happened, and an absence that was     *)
(* reported as final is one for ever.  EffectAuthority is shown to         *)
(* implement it.                                                           *)
(***************************************************************************)
CONSTANTS
  Operation,   \* the operation that is judged
  Contract,    \* ... and the effect contract it is observed under
  Records      \* rows the system of record can hold: [effect, payload]

ASSUME RecordsAssumption == \A r \in Records : DOMAIN r = {"effect", "payload"}

VARIABLES
  held,         \* every row the system of record holds or held for the operation
  final,        \* nothing is committed for the operation any more
  observations  \* the observations made so far

effectVars == <<held, final>>

EffectInit == held = {} /\ final = FALSE /\ observations = {}

-----------------------------------------------------------------------------
(* The system of record: a row of a new effect, a row of an effect that is *)
(* there already, and the end of it.                                       *)
Commit ==
  /\ ~final
  /\ \E r \in Records : /\ \A row \in held : row.effect # r.effect
                        /\ held' = held \cup {r}
  /\ UNCHANGED <<final, observations>>

Amend ==
  /\ \E r \in Records, row \in held : r.effect = row.effect /\ held' = held \cup {r}
  /\ UNCHANGED <<final, observations>>

PassFinalAfter ==
  /\ ~final /\ final' = TRUE
  /\ UNCHANGED <<held, observations>>

-----------------------------------------------------------------------------
(* `late' says of an absence that it was observed after finalAfter.        *)
Observation(status, authoritative, late, effect, payload) ==
  [op |-> Operation, contract |-> Contract, status |-> status,
   authoritative |-> authoritative, late |-> late, effect |-> effect, payload |-> payload]

Committed(row) == Observation("committed", TRUE, FALSE, row.effect, row.payload)
Absent(late) == Observation("absent", TRUE, late, "none", "none")
Untold == Observation("unknown", FALSE, FALSE, "none", "none")

(* What one statement can say: a row, two rows of different effects, that  *)
(* there is none, or that it cannot be told.                               *)
Samples == {s \in {{a, b} : a, b \in held} : \A a, b \in s : a = b \/ a.effect # b.effect}

Statements ==
  {{Committed(row) : row \in s} : s \in Samples}
    \cup (IF held = {} THEN {{Absent(final)}} ELSE {})
    \cup {{Untold}}

ObserveEffect ==
  /\ \E statement \in Statements : observations' = observations \cup statement
  /\ UNCHANGED effectVars

EffectNext == Commit \/ Amend \/ PassFinalAfter \/ ObserveEffect

EffectSpec == EffectInit /\ [][EffectNext]_<<held, final, observations>>
=============================================================================
