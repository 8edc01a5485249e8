------------------------- MODULE TransactionReport -------------------------
(***************************************************************************)
(* What one check of a transaction promises, with no source, block or      *)
(* receipt in sight: a final verdict is the outcome the honest sources     *)
(* hold final, and a transaction is only reported as not observed if none  *)
(* of them held it final when the check began.  All else is vague.         *)
(* BaseTransactionCheck is shown to implement it as long as one source is  *)
(* honest; the public verifier relies on nothing more.                     *)
(***************************************************************************)
CONSTANT None    \* no outcome is final yet, nothing is reported yet

VARIABLES
  outcome,    \* the outcome the honest sources hold final
  began,      \* ... and held when the check began
  report      \* the verdict of the check

reportVars == <<outcome, began, report>>

Outcomes == {"confirmed", "multiple", "not_eip3009_usdc", "reverted"}
Statuses == Outcomes \cup {"not_observed", "pending_finality", "contradiction", "failed"}

Promised(status) ==
  /\ status \in Outcomes => outcome = status
  /\ status = "not_observed" => began = None

ReportInit == outcome = None /\ began = None /\ report = None

(* An outcome that is final stays final.                                   *)
Happen ==
  /\ outcome = None /\ outcome' \in Outcomes
  /\ UNCHANGED <<began, report>>

Begin ==
  /\ report = None /\ began' = outcome
  /\ UNCHANGED <<outcome, report>>

Report ==
  /\ report = None /\ report' \in Statuses
  /\ Promised(report')
  /\ UNCHANGED <<outcome, began>>

ReportNext == Happen \/ Begin \/ Report

ReportSpec == ReportInit /\ [][ReportNext]_reportVars
=============================================================================
