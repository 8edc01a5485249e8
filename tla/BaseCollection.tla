--------------------------- MODULE BaseCollection ---------------------------
(***************************************************************************)
(* The Base collector (src/src/evidence/base-rpc.ts, collectBaseEvidence): *)
(* one collection asks every source of the registry for its finalized      *)
(* head, takes the lowest as the anchor, and reads the anchor block, the   *)
(* state of the authorization at it, the receipt of the transaction and    *)
(* the block of the receipt, in rounds: each round asks all sources at     *)
(* once and ends when all have answered.  Any disagreement throws.  The    *)
(* kernel then evaluates what was collected (BaseSettlement).              *)
(*                                                                         *)
(* The chain grows and the sources catch up between any two answers.       *)
(* Abstractions: chain id, genesis and the identity of the token contract  *)
(* are constant and their checks, like a request that times out, are Fail. *)
(***************************************************************************)
EXTENDS BaseChain

CONSTANTS
  CollectedAt,            \* the caller's clock
  MinimumConfirmations,
  NoHash                  \* the canonical block hash of no receipt

ASSUME MinimumAssumption == MinimumConfirmations \in Nat \ {0}

INSTANCE BaseSettlement

VARIABLES
  asked,      \* whether the caller named a transaction
  phase,      \* the round under way, or how the collection ended
  answer,     \* what each source answered in this round
  head,       \* the finalized head each source reported
  anchor,     \* the block everything is read at
  used,       \* the authorization state all sources gave
  receipt     \* the receipt each source gave

collectionVars == <<asked, phase, answer, head, anchor, used, receipt>>
vars == <<chainVars, collectionVars>>

Rounds == {"heads", "anchor", "states", "receipts", "canonical"}
Ends == {"ready", "pending", "contradiction", "failed"}

TypeOK ==
  /\ asked \in BOOLEAN
  /\ phase \in Rounds \cup Ends
  /\ phase \notin {"heads", "failed"} => head \in [Source -> Blocks]
  /\ phase \in {"states", "receipts", "canonical", "ready", "pending"} => anchor \in Blocks
  /\ phase \in {"receipts", "canonical", "ready", "pending"} => used \in BOOLEAN
  /\ phase = "canonical" => receipt \in [Source -> Receipts]
  /\ seen \in [Source -> 1..Len(chain)]

Nothing == [s \in Source |-> NoAnswer]

Init ==
  /\ ChainInit
  /\ asked \in BOOLEAN
  /\ phase = "heads"
  /\ answer = Nothing
  /\ head = Nothing
  /\ anchor = NoAnswer
  /\ used = NoAnswer
  /\ receipt = Nothing

-----------------------------------------------------------------------------
(* requestAll: a round.                                                    *)

Answer(s, answers) ==
  /\ answer[s] = NoAnswer
  /\ \E a \in answers : answer' = [answer EXCEPT ![s] = a]
  /\ UNCHANGED <<chainVars, asked, phase, head, anchor, used, receipt>>

EndOfRound(from, to) ==
  /\ phase = from
  /\ \A s \in Source : answer[s] # NoAnswer
  /\ phase' = to
  /\ answer' = Nothing
  /\ UNCHANGED <<chainVars, asked>>

AnswerHead(s) == phase = "heads" /\ Answer(s, HeadAnswers(s))

(* The lowest finalized head is final for every source that told the truth. *)
AnchorNumber(heads) == Min({heads[s].num : s \in Source})

ChooseAnchor ==
  /\ EndOfRound("heads", "anchor")
  /\ head' = answer
  /\ UNCHANGED <<anchor, used, receipt>>

AnswerAnchor(s) == phase = "anchor" /\ Answer(s, BlockAnswers(s, AnchorNumber(head)))

(* Mutation: every source is expected to be at the anchor.                 *)
AnchorAgreedByAll(blocks) ==
  /\ \A s \in Source : blocks[s] = blocks[1] /\ head[s] = blocks[s]
  /\ blocks[1].time <= CollectedAt

(* One block, of the number asked for, the head of the sources that were   *)
(* there, and not from the future.                                         *)
AnchorAgreed(blocks) ==
  /\ \A s \in Source : blocks[s] = blocks[1]
  /\ blocks[1].num = AnchorNumber(head)
  /\ \A s \in Source : head[s].num = AnchorNumber(head) => head[s] = blocks[s]
  /\ blocks[1].time <= CollectedAt

AgreeOnAnchor ==
  /\ EndOfRound("anchor", IF AnchorAgreed(answer) THEN "states" ELSE "contradiction")
  /\ anchor' = answer[1]
  /\ UNCHANGED <<head, used, receipt>>

AnswerState(s) == phase = "states" /\ Answer(s, StateAnswers(s, anchor.hash))

StatesAgreed(states) == \A s \in Source : states[s] = states[1]

AgreeOnState ==
  /\ EndOfRound("states", IF ~StatesAgreed(answer) THEN "contradiction"
                          ELSE IF asked THEN "receipts" ELSE "ready")
  /\ used' = answer[1]
  /\ UNCHANGED <<head, anchor, receipt>>

AnswerReceipt(s) == phase = "receipts" /\ Answer(s, ReceiptAnswers(s))

(* A receipt some sources do not have may still be on its way, but only    *)
(* above the anchor.                                                       *)
AfterReceipts(receipts) ==
  LET present == {s \in Source : receipts[s] # NoReceipt}
      beyond == {s \in present : receipts[s].block > anchor.num}
  IN  IF present = {} THEN "ready"
      ELSE IF present # Source THEN IF beyond = {} THEN "contradiction" ELSE "pending"
      ELSE IF \E s \in Source : receipts[s] # receipts[1] THEN "contradiction"
      ELSE IF beyond # {} THEN "pending" ELSE "canonical"

CompareReceipts ==
  /\ EndOfRound("receipts", AfterReceipts(answer))
  /\ receipt' = answer
  /\ UNCHANGED <<head, anchor, used>>

AnswerCanonical(s) == phase = "canonical" /\ Answer(s, BlockAnswers(s, receipt[1].block))

CanonicalAgreed(blocks) ==
  \A s \in Source : blocks[s].hash = receipt[1].hash /\ blocks[s].num = receipt[1].block

AgreeOnCanonical ==
  /\ EndOfRound("canonical", IF CanonicalAgreed(answer) THEN "ready" ELSE "contradiction")
  /\ UNCHANGED <<head, anchor, used, receipt>>

(* A request fails or times out, or an answer is not what it must be: the  *)
(* collection throws, and what it had is gone.                             *)
Fail ==
  /\ phase \in Rounds
  /\ phase' = "failed"
  /\ answer' = Nothing /\ head' = Nothing /\ receipt' = Nothing
  /\ anchor' = NoAnswer /\ used' = NoAnswer
  /\ UNCHANGED <<chainVars, asked>>

Collect ==
  \/ \E s \in Source : \/ AnswerHead(s) \/ AnswerAnchor(s) \/ AnswerState(s)
                       \/ AnswerReceipt(s) \/ AnswerCanonical(s)
  \/ ChooseAnchor \/ AgreeOnAnchor \/ AgreeOnState \/ CompareReceipts \/ AgreeOnCanonical
  \/ Fail

(* The world goes on; after a collection that threw it no longer matters.  *)
World == phase \notin {"contradiction", "failed"} /\ ChainNext /\ UNCHANGED collectionVars

Next == Collect \/ World

Spec == Init /\ [][Next]_vars

-----------------------------------------------------------------------------
(* What is collected, and what the kernel makes of it.                     *)

ReceiptObservations ==
  IF ~asked THEN [i \in {} |-> NoReceipt]
  ELSE [s \in Source |->
         [source |-> s, head |-> anchor.num, receipt |-> receipt[s],
          canon |-> IF receipt[s] = NoReceipt THEN NoHash ELSE receipt[s].hash]]

StateObservations ==
  [s \in Source |->
    [source |-> s, used |-> used, num |-> anchor.num, hash |-> anchor.hash,
     time |-> anchor.time, head |-> head[s].num]]

Evaluation == EvaluateSettlement(ReceiptObservations, StateObservations)

-----------------------------------------------------------------------------
(* Properties.                                                             *)

SettledBy(n) == \E i \in 1..n : chain[i].does \in Settlements

(* With one honest source, a confirmed settlement is on the chain: the     *)
(* transaction asked about settles the authorization in the block the      *)
(* verdict names, with at least the confirmations it states on top.  All   *)
(* that can stand for it is a transaction that makes the same payment      *)
(* among mixed AuthorizationUsed events, and then the nonce is used.       *)
ConfirmedIsSettled ==
  phase = "ready" /\ Evaluation.status = "confirmed" /\ Honest # {} =>
    /\ Evaluation.block \in 1..Len(chain)
    /\ \/ chain[Evaluation.block].does = "settles"
       \/ chain[Evaluation.block].does = "paysOtherwise" /\ Used(anchor.num)
    /\ Len(chain) >= Evaluation.block + Evaluation.confirmations - 1

(* The rule of docs/evidence-kernel-v0.1.md:42: a confirmed settlement      *)
(* requires one AuthorizationUsed event of the authorization.              *)
ConfirmedShowsUse ==
  phase = "ready" /\ Evaluation.status = "confirmed" =>
    \A s \in Source : receipt[s].uses = 1

(* With one honest source, an authorization whose absence was established  *)
(* is not settled, not even by what the chain does later.                  *)
AbsentForEver ==
  phase = "ready" /\ Evaluation.status = "absent" /\ Honest # {} => ~SettledBy(Len(chain))

(* When no source lies and the transaction is final at the anchor, the      *)
(* collection ends in the verdict the chain gives, however the sources lag. *)
TrueVerdict(n) ==
  CASE chain[n].does = "settles" ->
         IF anchor.num - n + 1 >= MinimumConfirmations THEN "confirmed" ELSE "pending_finality"
    [] chain[n].does = "settlesTwice" -> "duplicate"
    [] chain[n].does \in {"reverts", "unrelated"} -> "mismatch"
    [] chain[n].does = "usesOtherwise" -> "unknown"

FinalIsReported ==
  Honest = Source /\ asked /\ phase \in Ends \ {"failed"} =>
    \A n \in 1..AnchorNumber(head) :
      chain[n].does \in Requested \ {"paysOtherwise"} /\ chain[AnchorNumber(head)].time <= CollectedAt =>
        phase = "ready" /\ Evaluation.status = TrueVerdict(n)

(* What is collected with one honest source never contradicts itself: the  *)
(* checks of the collector leave the evaluator no contradiction to find,   *)
(* but for a receipt that it takes for a settlement without its event.     *)
CollectionConsistent ==
  phase = "ready" /\ Honest # {} /\ Evaluation.status = "contradiction" =>
    \A s \in Source : receipt[s] # NoReceipt /\ receipt[s].uses = 0

(* With one honest source, collecting and evaluating keeps the promise the *)
(* evidence kernel relies on.                                              *)
Report == INSTANCE SettlementReport WITH
  settled <- SettledBy(Len(chain)),
  void <- Used(Len(chain)) \/ chain[Len(chain)].time >= ValidBefore,
  otherwise <- \E i \in 1..Len(chain) : chain[i].does = "paysOtherwise",
  report <- IF phase = "ready" THEN Evaluation.status ELSE "none",
  NoReport <- "none"
ImplementsReport == Report!ReportSpec
=============================================================================
