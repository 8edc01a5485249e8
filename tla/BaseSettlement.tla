--------------------------- MODULE BaseSettlement ---------------------------
(***************************************************************************)
(* The settlement evaluator (src/src/evidence/base-settlement.ts,          *)
(* evaluateBaseSettlement): receipts and authorization states that several *)
(* sources observed are reduced to one verdict about one authorization.    *)
(*                                                                         *)
(* A list of observations is a function from 1..n.  A receipt observation  *)
(* is [source, head, canon, receipt], a state observation [source, used,   *)
(* num, hash, time, head].  Abstractions: the authorization is valid;      *)
(* addresses, amounts, topics and log indices are in what a receipt counts *)
(* as an exact transfer, an exact AuthorizationUsed event, a pair of them  *)
(* and mixed events; an observation that is not well-formed JSON of its type is left   *)
(* out (it yields mismatch and nothing else).                              *)
(***************************************************************************)
EXTENDS Naturals, FiniteSets, FiniteSetsExt

CONSTANTS
  NoReceipt,     \* the receipt a source does not have
  NoHash,        \* ... and the canonical block hash that goes with it
  ValidBefore,   \* when the authorization expires
  MinimumConfirmations

Settlement(status, count, confirmations, block) ==
  [status |-> status, count |-> count, confirmations |-> confirmations, block |-> block]

Verdict(status, count) == Settlement(status, count, 0, 0)

Values(list) == {list[i] : i \in DOMAIN list}

DistinctSources(list) == \A i, j \in DOMAIN list : list[i].source = list[j].source => i = j

Confirmations(head, block) == IF head >= block THEN head - block + 1 ELSE 0

-----------------------------------------------------------------------------
(* One receipt.                                                            *)

(* Reasons against a receipt.  An event that no log shows is a reason only *)
(* if some field is wrong in all the candidates: none is if they are mixed. *)
Reasons(o) ==
  LET r == o.receipt
  IN  \/ ~r.ok
      \/ o.canon # r.hash
      \/ o.head < r.block
      \/ r.transfers = 0 /\ ~r.mixed
      \/ r.uses = 0 /\ ~r.mixed
      \/ r.uses > 1
      \/ r.uses > 0 /\ r.transfers > 0 /\ ~r.paired

Faulted(o) == IF o.receipt = NoReceipt THEN o.canon # NoHash ELSE Reasons(o)

(* More than one exact transfer is a reason too, but one with a verdict of  *)
(* its own; a receipt without any is a mismatch even if nothing says why.   *)
ReceiptKind(o) ==
  IF Faulted(o) THEN "mismatch"
  ELSE IF o.receipt = NoReceipt THEN "missing"
  ELSE IF o.receipt.transfers > 1 THEN "duplicate"
  ELSE IF o.receipt.transfers = 1 THEN "match" ELSE "mismatch"

OfKind(receipts, kind) == {i \in DOMAIN receipts : ReceiptKind(receipts[i]) = kind}

(* Two observations of one fact have one fingerprint.  The head of the     *)
(* source is not part of it; receipts that cannot be are all alike.        *)
Fingerprint(o) ==
  [receipt |-> o.receipt,
   canon   |-> IF ReceiptKind(o) = "mismatch" /\ o.receipt = NoReceipt THEN NoReceipt ELSE o.canon]

MatchingTransactions(receipts) == {receipts[i].receipt.tx : i \in OfKind(receipts, "match")}

VerifiedSettlementCount(receipts) ==
  Max({Cardinality(MatchingTransactions(receipts))}
      \cup {receipts[i].receipt.transfers : i \in OfKind(receipts, "duplicate")})

-----------------------------------------------------------------------------
(* The authorization states.                                               *)

StatesContradict(states) ==
  \E a, b \in Values(states) :
    \/ a.num = b.num /\ (a.hash # b.hash \/ a.time # b.time \/ a.used # b.used)
    \/ a.num < b.num /\ a.used /\ ~b.used

(* Mutation: the block of the receipt itself is not compared.              *)
StateContradictsReceiptLater(states, receipt) ==
  \E a \in Values(states) : \/ a.num > receipt.block /\ ~a.used
                            \/ a.num < receipt.block /\ a.used

StateContradictsReceipt(states, receipt) ==
  \E a \in Values(states) :
    \/ a.num = receipt.block /\ a.hash # receipt.hash
    \/ a.num >= receipt.block /\ ~a.used
    \/ a.num < receipt.block /\ a.used

(* Mutation: an unused authorization is taken for one that never settles.  *)
ExpiredUnusedSoFar(states) ==
  /\ Cardinality({a.source : a \in Values(states)}) >= 2
  /\ \A a \in Values(states) : ~a.used
  /\ \A a \in Values(states) : Confirmations(a.head, a.num) >= MinimumConfirmations

(* Every source says so, at one block past the expiry that is deep enough  *)
(* below the head of each.                                                 *)
ExpiredUnused(states) ==
  /\ Cardinality({a.source : a \in Values(states)}) >= 2
  /\ \A a \in Values(states) : ~a.used /\ a.time > ValidBefore
  /\ \A a, b \in Values(states) : a.num = b.num /\ a.hash = b.hash /\ a.time = b.time
  /\ \A a \in Values(states) : Confirmations(a.head, a.num) >= MinimumConfirmations

-----------------------------------------------------------------------------
(* The verdict.                                                            *)

EvaluateMatch(receipts, states) ==
  LET matching == OfKind(receipts, "match")
      receipt == receipts[Min(matching)].receipt
      confirmations == Min({Confirmations(receipts[i].head, receipts[i].receipt.block) : i \in matching})
  IN  IF StateContradictsReceipt(states, receipt) THEN Verdict("contradiction", 1)
      ELSE IF confirmations < MinimumConfirmations
      THEN Settlement("pending_finality", 1, confirmations, receipt.block)
      ELSE Settlement("confirmed", 1, confirmations, receipt.block)

EvaluateAbsence(states) ==
  IF ExpiredUnused(states)
  THEN Settlement("absent", 0, Min({Confirmations(a.head, a.num) : a \in Values(states)}), 0)
  ELSE Verdict("unknown", 0)

EvaluateSettlement(receipts, states) ==
  IF \/ ~DistinctSources(receipts) \/ ~DistinctSources(states)
     \/ \E a \in Values(states) : a.head < a.num
  THEN Verdict("mismatch", 0)
  ELSE IF StatesContradict(states)
  THEN Verdict("contradiction", VerifiedSettlementCount(receipts))
  ELSE IF OfKind(receipts, "duplicate") # {}
  THEN LET first == receipts[Min(OfKind(receipts, "duplicate"))]
       IN  Settlement("duplicate", first.receipt.transfers,
                      Confirmations(first.head, first.receipt.block), first.receipt.block)
  ELSE IF Cardinality({Fingerprint(o) : o \in Values(receipts)}) > 1
  THEN Verdict("contradiction", Cardinality(MatchingTransactions(receipts)))
  ELSE IF \E o \in Values(receipts) : Faulted(o) THEN Verdict("mismatch", 0)
  ELSE IF OfKind(receipts, "match") # {} THEN EvaluateMatch(receipts, states)
  ELSE EvaluateAbsence(states)
=============================================================================
