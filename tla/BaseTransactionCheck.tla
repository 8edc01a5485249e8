------------------------ MODULE BaseTransactionCheck ------------------------
(***************************************************************************)
(* The check of one transaction (src/src/evidence/base-transaction.ts,     *)
(* collectBaseTransactionObservation) behind the public routes.  Unlike    *)
(* the collector of the operator it asks for the receipt in the first      *)
(* round, together with the finalized head: an honest source answers the   *)
(* two requests in any order and may catch up between them.  Then it reads *)
(* the lowest head from every source, and the block of the receipt.        *)
(*                                                                         *)
(* Abstractions: chain id, genesis, the code of the token and the absence  *)
(* of removed logs are one answer, true at an honest source, compared when *)
(* the anchors are: the rounds in between read nothing else.  Of a check   *)
(* that has ended only what it reports is kept.                            *)
(***************************************************************************)
EXTENDS BaseChain

CONSTANT CheckedAt     \* the clock of the caller

VARIABLES
  step,          \* the round under way, or the status of the observation
  initial,       \* the finalized head and the receipt of each source
  reply,         \* what each source answered in a later round
  anchorNumber,  \* the number of the shared finalized anchor
  held           \* history: the head of each honest source when the check began

checkVars == <<step, initial, reply, anchorNumber, held>>

Settled == {"confirmed", "multiple", "not_eip3009_usdc", "reverted"}
CheckRounds == {"initial", "anchor", "canonical"}
Statuses == Settled \cup {"not_observed", "pending_finality", "contradiction", "failed"}

Unasked == [s \in Source |-> [head |-> NoAnswer, receipt |-> NoAnswer]]
Unanswered == [s \in Source |-> NoAnswer]

CheckInit ==
  /\ step = "idle"
  /\ initial = Unasked
  /\ reply = Unanswered
  /\ anchorNumber = 0
  /\ held = seen

Begin ==
  /\ step = "idle"
  /\ step' = "initial"
  /\ held' = seen
  /\ UNCHANGED <<chainVars, initial, reply, anchorNumber>>

-----------------------------------------------------------------------------
(* The first round.                                                        *)

GiveHead(s) ==
  /\ step = "initial" /\ initial[s].head = NoAnswer
  /\ \E b \in HeadAnswers(s) : initial' = [initial EXCEPT ![s].head = b]
  /\ UNCHANGED <<chainVars, step, reply, anchorNumber, held>>

GiveReceipt(s) ==
  /\ step = "initial" /\ initial[s].receipt = NoAnswer
  /\ \E r \in ReceiptAnswers(s) : initial' = [initial EXCEPT ![s].receipt = r]
  /\ UNCHANGED <<chainVars, step, reply, anchorNumber, held>>

Heads == {initial[s].head.num : s \in Source}

(* Mutation: the highest head is taken, which a source may not have.       *)
ChooseHighest ==
  /\ step = "initial"
  /\ \A s \in Source : initial[s].head # NoAnswer /\ initial[s].receipt # NoAnswer
  /\ step' = "anchor"
  /\ anchorNumber' = CHOOSE n \in Heads : \A m \in Heads : n >= m
  /\ UNCHANGED <<chainVars, initial, reply, held>>

ChooseLowest ==
  /\ step = "initial"
  /\ \A s \in Source : initial[s].head # NoAnswer /\ initial[s].receipt # NoAnswer
  /\ step' = "anchor"
  /\ anchorNumber' = CHOOSE n \in Heads : \A m \in Heads : n <= m
  /\ UNCHANGED <<chainVars, initial, reply, held>>

-----------------------------------------------------------------------------
(* The anchor.                                                             *)

Reply(s, answers) ==
  /\ reply[s] = NoAnswer
  /\ \E a \in answers : reply' = [reply EXCEPT ![s] = a]
  /\ UNCHANGED <<chainVars, step, initial, anchorNumber, held>>

GiveAnchor(s) == step = "anchor" /\ Reply(s, BlockAnswers(s, anchorNumber))

AnchorShared ==
  /\ \A s \in Source : reply[s].num = anchorNumber /\ reply[s] = reply[1]
  /\ \A s \in Source : initial[s].head.num = anchorNumber => initial[s].head = reply[s]

(* Receipts that not all sources have may only be above the anchor; equal  *)
(* receipts above it wait for finality, the others are looked up.          *)
AfterFirstRound ==
  LET present == {s \in Source : initial[s].receipt # NoReceipt}
      beyond == {s \in present : initial[s].receipt.block > anchorNumber}
  IN  IF present = {} THEN "not_observed"
      ELSE IF present # Source THEN IF beyond = {} THEN "contradiction" ELSE "pending_finality"
      ELSE IF \E s \in Source : initial[s].receipt # initial[1].receipt THEN "contradiction"
      ELSE IF beyond # {} THEN "pending_finality" ELSE "canonical"

(* The end of a round, or of the check.                                    *)
GoOn(to) ==
  /\ step' = to
  /\ reply' = Unanswered
  /\ initial' = IF to \in Statuses \ Settled THEN Unasked ELSE initial
  /\ UNCHANGED <<chainVars, anchorNumber, held>>

CompareAnchors ==
  /\ step = "anchor"
  /\ \A s \in Source : reply[s] # NoAnswer
  /\ \E identified \in [Source -> BOOLEAN] :
       /\ \A s \in Honest : identified[s]
       /\ GoOn(IF ~AnchorShared THEN "contradiction"
               ELSE IF reply[1].time > CheckedAt THEN "failed"
               ELSE IF \E s \in Source : ~identified[s] THEN "contradiction"
               ELSE AfterFirstRound)

-----------------------------------------------------------------------------
(* The block of the receipt.                                               *)

GiveCanonical(s) == step = "canonical" /\ Reply(s, BlockAnswers(s, initial[1].receipt.block))

Observed(r) ==
  IF ~r.ok THEN "reverted"
  ELSE IF r.pairs = 0 THEN "not_eip3009_usdc"
  ELSE IF r.pairs > 1 THEN "multiple"
  ELSE "confirmed"

(* Mutation: the block of the receipt is not compared with the canonical.  *)
TrustReceipt ==
  /\ step = "canonical"
  /\ \A s \in Source : reply[s] # NoAnswer
  /\ GoOn(Observed(initial[1].receipt))

CompareCanonical ==
  /\ step = "canonical"
  /\ \A s \in Source : reply[s] # NoAnswer
  /\ GoOn(IF \A s \in Source : /\ reply[s].num = initial[1].receipt.block
                               /\ reply[s].hash = initial[1].receipt.hash
                               /\ reply[s] = reply[1]
          THEN Observed(initial[1].receipt) ELSE "contradiction")

(* A request fails or times out, or its answer is malformed.               *)
CheckFails == step \in CheckRounds /\ GoOn("failed")

Check ==
  \/ Begin
  \/ \E s \in Source : \/ GiveHead(s) \/ GiveReceipt(s)
                       \/ GiveAnchor(s) \/ GiveCanonical(s)
  \/ ChooseLowest \/ CompareAnchors \/ CompareCanonical \/ CheckFails

CheckWorld == step \notin Statuses /\ ChainNext /\ UNCHANGED checkVars

CheckSpec == ChainInit /\ CheckInit /\ [][Check \/ CheckWorld]_<<chainVars, checkVars>>

-----------------------------------------------------------------------------
(* Properties.                                                             *)

CheckTypeOK ==
  /\ step \in CheckRounds \cup Statuses \cup {"idle"}
  /\ step \in {"anchor", "canonical"} \cup Settled =>
       /\ anchorNumber \in Heights
       /\ \A s \in Source : initial[s].head \in Blocks
                            /\ initial[s].receipt \in Receipts \cup {NoReceipt}
  /\ \A s \in Honest : held[s] \in 1..seen[s]

(* The outcome of the transaction in block n, as a check reports it.       *)
OutcomeAt(n) ==
  LET does == chain[n].does
  IN  IF does = "reverts" THEN "reverted"
      ELSE IF does = "unrelated" THEN "not_eip3009_usdc"
      ELSE IF does \in {"settles", "settlesTwice"} THEN "confirmed" ELSE "multiple"

RequestedUpTo(n) == {i \in 1..n : chain[i].does \in Requested}

(* When no source lies, a transaction that is final at every source before *)
(* the check begins is reported with its outcome and nothing else: no lag  *)
(* and no order of the answers makes the check contradict itself.          *)
FinalWhenAsked ==
  Honest = Source /\ step \in Statuses \ {"failed"} =>
    \A n \in 1..Len(chain) :
      chain[n].does \in Requested /\ (\A s \in Source : n <= held[s]) => step = OutcomeAt(n)

(* With one honest source a verdict that counts as final is true of the    *)
(* block it names, which every honest source holds final, and so is the    *)
(* anchor: the confirmations that are reported are there.                  *)
CheckedIsFinal ==
  step \in Settled /\ Honest # {} =>
    LET n == initial[1].receipt.block
    IN  /\ n \in 1..anchorNumber /\ chain[n].does \in Requested
        /\ step = OutcomeAt(n)
        /\ \A s \in Honest : anchorNumber <= seen[s]

(* One honest source is enough for the promise the public verifier needs.  *)
HonestlyFinal(heights) == UNION {RequestedUpTo(heights[s]) : s \in Honest}
OutcomeOf(final) == IF final = {} THEN "none" ELSE OutcomeAt(CHOOSE n \in final : TRUE)

Promise == INSTANCE TransactionReport WITH
  outcome <- OutcomeOf(HonestlyFinal(seen)),
  began <- OutcomeOf(HonestlyFinal(held)),
  report <- IF step \in Statuses THEN step ELSE "none",
  None <- "none"
ImplementsTransactionReport == Promise!ReportSpec
=============================================================================
