---------------------------- MODULE BaseReaders ----------------------------
(***************************************************************************)
(* The two readers of the chain side by side: somebody looks a transaction *)
(* up with the public verifier (BaseTransactionCheck), and the operator    *)
(* collects the evidence of the authorization it settles (BaseCollection), *)
(* or only one of the two.  They ask the same sources about the same       *)
(* transaction, with their own rounds, and the sources go on in between.   *)
(***************************************************************************)
EXTENDS BaseTransactionCheck, BaseCollection

readersVars == <<chainVars, checkVars, collectionVars>>

ReadersInit == Init /\ CheckInit

Public ==
  /\ phase = "heads" /\ \A s \in Source : answer[s] = NoAnswer
  /\ Check
  /\ UNCHANGED collectionVars

(* The operator comes after a check that found the outcome, or alone.      *)
Operator ==
  /\ step \in {"idle"} \cup Settled
  /\ Collect
  /\ UNCHANGED checkVars

Around ==
  /\ phase \notin Ends /\ step \notin Statuses \ Settled
  /\ ChainNext
  /\ UNCHANGED <<checkVars, collectionVars>>

ReadersNext == Public \/ Operator \/ Around

ReadersSpec == ReadersInit /\ [][ReadersNext]_readersVars

-----------------------------------------------------------------------------
(* Properties.                                                             *)

(* The public and the operator are not told different stories: once the    *)
(* public verifier has called a transaction final, a collection over the   *)
(* same honest sources finds it below its anchor and without               *)
(* contradiction, takes it for a payment only if the public saw a payment, *)
(* for a failure if the public saw none, and never establishes absence.    *)
ReadersAgree ==
  LET verdict == Evaluation.status
  IN  /\ Honest = Source /\ asked /\ step \in Settled
      /\ phase \in Ends \ {"failed"}
      /\ chain[AnchorNumber(head)].time <= CollectedAt
      => /\ phase = "ready"
         /\ verdict # "absent"
         /\ verdict \in {"confirmed", "pending_finality", "duplicate"} =>
              step \in {"confirmed", "multiple"}
         /\ step \in {"reverted", "not_eip3009_usdc"} => verdict = "mismatch"
=============================================================================
