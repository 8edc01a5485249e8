-------------------------- MODULE ClosureRegistry --------------------------
(***************************************************************************)
(* What closing an operation promises, with no journal, store, crash or    *)
(* retry in sight: an operation is closed at most once, over one input at  *)
(* one source head, for ever; and a receipt only ever names a closure that *)
(* happened.  JournalBundle is shown to implement it.                      *)
(***************************************************************************)
CONSTANT Inputs     \* what a close call can evaluate

VARIABLES closed,   \* the closures: [input, head]
          receipts  \* the closures callers hold a receipt of

RegistryInit == closed = {} /\ receipts = {}

Close(cl) ==
  /\ cl.input \in Inputs
  /\ \A other \in closed : other.input.op # cl.input.op
  /\ closed' = closed \cup {cl}
  /\ UNCHANGED receipts

Deliver(cl) ==
  /\ cl \in closed
  /\ receipts' = receipts \cup {cl}
  /\ UNCHANGED closed

RegistryNext ==
  \/ \E cl \in closed' : Close(cl)
  \/ \E cl \in closed : Deliver(cl)

RegistrySpec == RegistryInit /\ [][RegistryNext]_<<closed, receipts>>
=============================================================================
