-------------------------- MODULE SettlementReport --------------------------
(***************************************************************************)
(* What collecting and evaluating the Base evidence of an authorization    *)
(* promises, with no source, block or receipt in sight: the verdict that   *)
(* comes out may be vague, but `confirmed' means that the payment was      *)
(* made, and `absent' that the authorization never settles.  BaseCollection*)
(* is shown to implement it as long as one source is honest.               *)
(***************************************************************************)
CONSTANT NoReport    \* nothing has been collected yet

VARIABLES
  settled,    \* the authorization settled
  void,       \* it is used, cancelled or expired
  otherwise,  \* the payment was made under another authorization
  report      \* the verdict of the last collection

reportVars == <<settled, void, otherwise, report>>

Verdicts ==
  {"confirmed", "pending_finality", "duplicate", "absent", "unknown", "mismatch", "contradiction"}

ReportInit ==
  /\ settled = FALSE /\ otherwise = FALSE /\ report = NoReport
  /\ void \in BOOLEAN

(* What the chain may do: an authorization that is void settles no more.   *)
Happen ==
  /\ settled' \in BOOLEAN /\ void' \in BOOLEAN /\ otherwise' \in BOOLEAN
  /\ settled => settled'
  /\ void => void' /\ settled' = settled
  /\ settled' => void'
  /\ otherwise => otherwise'
  /\ UNCHANGED report

Promised(verdict) ==
  /\ verdict = "confirmed" => settled \/ otherwise
  /\ verdict = "absent" => void /\ ~settled

Report ==
  /\ report' \in Verdicts
  /\ Promised(report')
  /\ UNCHANGED <<settled, void, otherwise>>

ReportNext == Happen \/ Report

ReportSpec == ReportInit /\ [][ReportNext]_reportVars
=============================================================================
