-------------------------- MODULE BaseReadersProofs --------------------------
(***************************************************************************)
(* Proofs about the readers of the chain: the collector of the operator    *)
(* (BaseCollection), the check of the public verifier                      *)
(* (BaseTransactionCheck), and the two side by side (BaseReaders); for any *)
(* number of sources, any chain and any behaviour of the sources that are  *)
(* not honest.                                                             *)
(*                                                                         *)
(* The chain only grows, what is true of a final block stays true, and     *)
(* what an honest source says of the blocks it holds final is true.  The   *)
(* head of an honest source is a block of the chain, and the anchor, the   *)
(* lowest of all heads, is not above it: so its answers about the anchor   *)
(* are true, and since all sources must agree, what is read at the anchor  *)
(* is true.  A receipt that has not become final may name an abandoned     *)
(* block; all sources must then agree on the block of its number, the      *)
(* honest one names the block of the chain, and an abandoned hash is not   *)
(* its hash.                                                               *)
(*                                                                         *)
(* When no source lies nothing disagrees either: a transaction that is     *)
(* final at the anchor has the same receipt at every source, of the block  *)
(* of the chain, and its verdict is the one the chain gives.  And a check  *)
(* that found it final read an anchor that no later collection goes below, *)
(* so the two readers agree on it.                                         *)
(***************************************************************************)
EXTENDS BaseReaders, FiniteSetTheorems, TLAPS

USE SourceAssumption, BoundAssumption, MinimumAssumption
    DEF SourceAssumption, BoundAssumption, MinimumAssumption

-----------------------------------------------------------------------------
(* The least element of a set of numbers exists: the strict inclusion of    *)
(* the intervals 0..n, which are finite sets, is well founded.             *)
LEMMA LeastOfNaturals ==
  ASSUME NEW S, S \subseteq Nat, S # {}
  PROVE  \E x \in S : \A y \in S : x <= y
<1> DEFINE T == {0..n : n \in S}
           R == StrictSubsetOrdering(Nat)
<1>1. IsWellFoundedOn(R, FiniteSubsetsOf(Nat))
  BY FS_StrictSubsetOrderingWellFounded
<1>2. T \subseteq FiniteSubsetsOf(Nat)
  <2>1. ASSUME NEW n \in S PROVE 0..n \in FiniteSubsetsOf(Nat)
    <3>1. IsFiniteSet(0..n) BY FS_Interval
    <3>2. 0..n \subseteq Nat OBVIOUS
    <3>3. QED BY <3>1, <3>2 DEF FiniteSubsetsOf
  <2>2. QED BY <2>1
<1>3. T # {} OBVIOUS
<1>4. PICK t \in T : \A y \in T : ~ (<<y, t>> \in R)
  BY <1>1, <1>2, <1>3, WFMin
<1>5. PICK x \in S : t = 0..x OBVIOUS
<1>6. ASSUME NEW y \in S PROVE x <= y
  <2>1. ~ (<<0..y, 0..x>> \in R) BY <1>4, <1>5
  <2>2. 0..y \in SUBSET Nat /\ 0..x \in SUBSET Nat OBVIOUS
  <2>3. ~ (0..y \subseteq 0..x /\ 0..y # 0..x) BY <2>1, <2>2 DEF StrictSubsetOrdering
  <2>4. SUFFICES ASSUME y < x PROVE FALSE BY x \in Nat, y \in Nat
  <2>5. 0..y \subseteq 0..x BY <2>4
  <2>6. x \in 0..x /\ x \notin 0..y BY <2>4
  <2>7. QED BY <2>3, <2>5, <2>6
<1>7. QED BY <1>6

-----------------------------------------------------------------------------
(* The chain, and what a source that holds a block final says of it.       *)

ChainInv ==
  /\ chain \in Seq([time : Times, does : Contents])
  /\ Len(chain) \in Heights
  /\ \A i, j \in 1..Len(chain) : i < j => chain[i].time < chain[j].time
  /\ \A i \in 1..Len(chain) : chain[i].does \in Settlements => chain[i].time < ValidBefore
  /\ seen \in [Source -> 1..Len(chain)]

Final(block, s) == block.num \in 1..seen[s] /\ block = Block(block.num)

LEMMA ChainElements ==
  ASSUME ChainInv
  PROVE  \A n \in 1..Len(chain) : n \in Heights /\ chain[n].time \in Times
<1> TAKE n \in 1..Len(chain)
<1>1. chain[n] \in [time : Times, does : Contents]
  <2> DEFINE T == [time : Times, does : Contents]
  <2>1. chain \in Seq(T) /\ n \in 1..Len(chain) BY DEF ChainInv
  <2> HIDE DEF T
  <2>2. chain[n] \in T BY <2>1
  <2>3. QED BY <2>2 DEF T
<1>2. n \in Heights BY DEF ChainInv, Heights
<1>3. QED BY <1>1, <1>2

LEMMA InitChainInv == ChainInit => ChainInv
<1> SUFFICES ASSUME ChainInit PROVE ChainInv OBVIOUS
<1> DEFINE genesis == [time |-> 0, does |-> "nothing"]
<1>1. genesis \in [time : Times, does : Contents] BY DEF Times, Contents
<1>2. chain \in Seq([time : Times, does : Contents]) /\ Len(chain) = 1
  BY <1>1 DEF ChainInit
<1>3. chain[1].does = "nothing" BY DEF ChainInit
<1>4. "nothing" \notin Settlements BY DEF Settlements
<1>5. 1 \in Heights BY DEF Heights
<1>6. seen \in [Source -> 1..Len(chain)] BY <1>2 DEF ChainInit
<1>7. QED BY <1>2, <1>3, <1>4, <1>5, <1>6 DEF ChainInv

(* The chain only grows, and no source forgets.                            *)
Grown ==
  /\ Len(chain) <= Len(chain')
  /\ \A n \in 1..Len(chain) : chain'[n] = chain[n]
  /\ \A s \in Source : seen[s] <= seen'[s]

LEMMA ChainGrows ==
  ASSUME ChainInv, ChainNext
  PROVE  ChainInv' /\ Grown
<1>1. CASE Finalize
  <2>1. PICK time \in Times, does \in Contents :
          LET block == [time |-> time, does |-> does]
          IN  /\ time > chain[Len(chain)].time
              /\ Allowed(block)
              /\ chain' = Append(chain, block)
    BY <1>1 DEF Finalize
  <2> DEFINE block == [time |-> time, does |-> does]
  <2>2. block \in [time : Times, does : Contents] /\ block.time = time /\ block.does = does OBVIOUS
  <2>3. /\ chain' \in Seq([time : Times, does : Contents])
        /\ Len(chain') = Len(chain) + 1
        /\ \A n \in 1..Len(chain) : chain'[n] = chain[n]
        /\ chain'[Len(chain) + 1] = block
    BY <2>1, <2>2 DEF ChainInv, Heights
  <2>4. Len(chain) < MaxHeight /\ seen' = seen BY <1>1 DEF Finalize
  <2>5. Len(chain') \in Heights BY <2>3, <2>4 DEF ChainInv, Heights
  <2>6. \A n \in 1..Len(chain) : chain[n].time \in Nat /\ chain[n].time < time
    <3>1. \A n \in 1..Len(chain) : chain[n].time \in Times BY ChainElements
    <3>2. \A n \in 1..Len(chain) : n = Len(chain) \/ n < Len(chain) BY DEF ChainInv, Heights
    <3>3. Len(chain) \in 1..Len(chain) BY DEF ChainInv, Heights
    <3>4. time > chain[Len(chain)].time BY <2>1
    <3>5. \A n \in 1..Len(chain) : chain[n].time <= chain[Len(chain)].time
      BY <3>1, <3>2, <3>3 DEF ChainInv, Times
    <3>6. QED BY <3>1, <3>3, <3>4, <3>5 DEF Times
  <2>7. \A i, j \in 1..Len(chain') : i < j => chain'[i].time < chain'[j].time
    <3> TAKE i, j \in 1..Len(chain')
    <3> HAVE i < j
    <3>1. i \in 1..Len(chain) BY <2>3 DEF ChainInv, Heights
    <3>2. CASE j \in 1..Len(chain) BY <2>3, <3>1, <3>2 DEF ChainInv
    <3>3. CASE j = Len(chain) + 1 BY <2>2, <2>3, <2>6, <3>1, <3>3
    <3>4. QED BY <2>3, <3>2, <3>3 DEF ChainInv, Heights
  <2>8. does \in Settlements => time < ValidBefore BY <2>1, <2>2 DEF Allowed
  <2>9. \A i \in 1..Len(chain') : chain'[i].does \in Settlements => chain'[i].time < ValidBefore
    <3> TAKE i \in 1..Len(chain')
    <3>1. CASE i \in 1..Len(chain) BY <2>3, <3>1 DEF ChainInv
    <3>2. CASE i = Len(chain) + 1 BY <2>2, <2>3, <2>8, <3>2
    <3>3. QED BY <2>3, <3>1, <3>2 DEF ChainInv, Heights
  <2>10. seen' \in [Source -> 1..Len(chain')] BY <2>3, <2>4 DEF ChainInv, Heights
  <2>11. Grown BY <2>3, <2>4, <2>10 DEF Grown, ChainInv, Heights
  <2>12. QED BY <2>3, <2>5, <2>7, <2>9, <2>10, <2>11 DEF ChainInv
<1>2. ASSUME NEW s \in Source, CatchUp(s) PROVE ChainInv' /\ Grown
  <2>1. PICK n \in (seen[s] + 1)..Len(chain) : seen' = [seen EXCEPT ![s] = n] BY <1>2 DEF CatchUp
  <2>2. chain' = chain BY <1>2 DEF CatchUp
  <2>3. n \in 1..Len(chain) /\ seen[s] <= n BY DEF ChainInv, Heights
  <2>4. seen' \in [Source -> 1..Len(chain)] BY <2>1, <2>3 DEF ChainInv
  <2>5. \A t \in Source : seen[t] <= seen'[t] BY <2>1, <2>3 DEF ChainInv, Heights
  <2>6. QED BY <2>2, <2>4, <2>5 DEF ChainInv, Grown, Heights
<1>3. QED BY <1>1, <1>2 DEF ChainNext

(* What was said truly of a final block stays true.                        *)
LEMMA FinalStays ==
  ASSUME ChainInv, Grown, NEW n \in 1..Len(chain)
  PROVE  Block(n)' = Block(n) /\ Used(n)' = Used(n)
<1>1. chain'[n] = chain[n] BY DEF Grown
<1>2. \A i \in 1..n : chain'[i] = chain[i] BY DEF Grown, ChainInv, Heights
<1>3. QED BY <1>1, <1>2 DEF Block, Used

-----------------------------------------------------------------------------
(* The answers: their types, and what an honest source says.               *)

LEMMA BlockTyped ==
  ASSUME ChainInv, NEW n \in 1..Len(chain)
  PROVE  Block(n) \in Blocks /\ Block(n).num = n
<1>1. n \in Heights /\ chain[n].time \in Times BY ChainElements
<1>2. Block(n) \in [num : {n}, hash : {n} \cup OtherHash, time : Times] BY <1>1 DEF Block
<1>3. QED BY <1>1, <1>2 DEF Blocks, Block

LEMMA AnyBlockTyped == ChainInv => AnyBlock \subseteq Blocks
<1> SUFFICES ASSUME ChainInv PROVE AnyBlock \subseteq Blocks OBVIOUS
<1>1. \A n \in 1..Len(chain) : Block(n) \in Blocks BY BlockTyped
<1>2. QED BY <1>1 DEF AnyBlock

LEMMA HeadAnswersTrue ==
  ASSUME ChainInv, NEW s \in Source, NEW a \in HeadAnswers(s)
  PROVE  a \in Blocks /\ (s \in Honest => Final(a, s))
<1>1. seen[s] \in 1..Len(chain) /\ seen[s] \in 1..seen[s] BY DEF ChainInv, Heights
<1>2. Block(seen[s]) \in Blocks /\ Block(seen[s]).num = seen[s] BY <1>1, BlockTyped
<1>3. QED BY <1>1, <1>2, AnyBlockTyped DEF HeadAnswers, Final

LEMMA BlockAnswersTrue ==
  ASSUME ChainInv, NEW s \in Source, NEW n \in Heights, NEW a \in BlockAnswers(s, n)
  PROVE  a \in Blocks /\ (s \in Honest /\ n <= seen[s] => a = Block(n))
<1>1. n <= seen[s] => n \in 1..Len(chain) BY DEF ChainInv, Heights
<1>2. n <= seen[s] => Block(n) \in Blocks BY <1>1, BlockTyped
<1>3. QED BY <1>2, AnyBlockTyped DEF BlockAnswers

LEMMA StateAnswersTrue ==
  ASSUME NEW s \in Source, NEW hash, NEW a \in StateAnswers(s, hash)
  PROVE  a \in BOOLEAN /\ (s \in Honest /\ hash \in 1..seen[s] => a = Used(hash))
<1>1. Used(hash) \in BOOLEAN BY DEF Used
<1>2. QED BY <1>1 DEF StateAnswers

(* A receipt an honest source gives: none, one of a block it does not hold *)
(* final, which may be abandoned, or the one the chain gives, which it     *)
(* gives whenever it holds one final.                                      *)
Unseen(s) == \A n \in 1..seen[s] : chain[n].does \notin Requested

Actual(r) ==
  /\ r.block \in 1..Len(chain)
  /\ chain[r.block].does \in Requested
  /\ r = Receipt(r.block, r.block, chain[r.block].does)

TrueAnswer(r, s) ==
  \/ r = NoReceipt /\ Unseen(s)
  \/ r.block > seen[s] /\ Unseen(s) /\ (Actual(r) \/ r.hash \in OtherHash)
  \/ r.block \in 1..seen[s] /\ Actual(r)

LEMMA ReceiptTyped ==
  ASSUME NEW n \in Heights, NEW hash \in {n} \cup OtherHash, NEW does \in Requested
  PROVE  Receipt(n, hash, does) \in Receipts /\ Receipt(n, hash, does).block = n
<1> DEFINE Of(m) == {Receipt(m, h, d) : h \in {m} \cup OtherHash, d \in Requested}
<1>1. Receipt(n, hash, does) \in Of(n) OBVIOUS
<1>2. Receipts = UNION {Of(m) : m \in Heights} BY DEF Receipts
<1>3. Receipt(n, hash, does).block = n BY DEF Receipt
<1> HIDE DEF Of
<1>4. QED BY <1>1, <1>2, <1>3

LEMMA ReceiptAnswersTrue ==
  ASSUME ChainInv, NEW s \in Source, NEW a \in ReceiptAnswers(s)
  PROVE  a \in Receipts \cup {NoReceipt} /\ (s \in Honest => TrueAnswer(a, s))
<1>1. CASE s \notin Honest BY <1>1 DEF ReceiptAnswers
<1>2. seen[s] \in 1..Len(chain) /\ seen[s] \in Nat /\ Len(chain) \in Nat BY DEF ChainInv, Heights
<1>3. ASSUME NEW from \in 1..Len(chain), NEW to \in 0..Len(chain), NEW r \in RequestedIn(from..to)
      PROVE  r \in Receipts /\ r.block \in from..to /\ Actual(r)
  <2>1. PICK n \in from..to : chain[n].does \in Requested /\ r = Receipt(n, n, chain[n].does)
    BY <1>3 DEF RequestedIn
  <2>2. n \in Heights BY <1>2, ChainElements
  <2>3. r \in Receipts /\ r.block = n BY <2>1, <2>2, ReceiptTyped
  <2>4. QED BY <1>2, <2>1, <2>3 DEF Actual
<1>4. CASE s \in Honest /\ RequestedIn(1..seen[s]) # {}
  <2>1. a \in RequestedIn(1..seen[s]) BY <1>4 DEF ReceiptAnswers
  <2>2. QED BY <1>2, <1>3, <2>1 DEF TrueAnswer
<1>5. CASE s \in Honest /\ RequestedIn(1..seen[s]) = {}
  <2>1. Unseen(s) BY <1>5 DEF RequestedIn, Unseen
  <2>2. a = NoReceipt \/ a \in RequestedIn((seen[s] + 1)..Len(chain)) \/ a \in AbandonedReceipts(seen[s])
    BY <1>5 DEF ReceiptAnswers
  <2>3. ASSUME a \in RequestedIn((seen[s] + 1)..Len(chain))
        PROVE  a \in Receipts /\ a.block > seen[s] /\ Actual(a)
    <3>1. PICK n \in (seen[s] + 1)..Len(chain) :
            chain[n].does \in Requested /\ a = Receipt(n, n, chain[n].does)
      BY <2>3 DEF RequestedIn
    <3>2. n \in Heights /\ n > seen[s] /\ n \in 1..Len(chain) BY <1>2, ChainElements
    <3>3. QED BY <3>1, <3>2, ReceiptTyped DEF Actual
  <2>4. ASSUME a \in AbandonedReceipts(seen[s])
        PROVE  a \in Receipts /\ a.block > seen[s] /\ a.hash \in OtherHash
    <3>1. PICK n \in (seen[s] + 1)..MaxHeight, hash \in OtherHash, does \in {"settles", "reverts"} :
            a = Receipt(n, hash, does)
      BY <2>4 DEF AbandonedReceipts
    <3>2. n \in Heights /\ n > seen[s] /\ does \in Requested BY <1>2 DEF Heights, Requested
    <3>3. QED BY <3>1, <3>2, ReceiptTyped DEF Receipt
  <2>5. QED BY <2>1, <2>2, <2>3, <2>4 DEF TrueAnswer
<1>6. QED BY <1>1, <1>4, <1>5

-----------------------------------------------------------------------------
(* The collector.                                                          *)

LEMMA MinOfNaturals ==
  ASSUME NEW S, S \subseteq Nat, S # {}
  PROVE  Min(S) \in S /\ \A y \in S : Min(S) <= y
BY LeastOfNaturals DEF Min

(* The anchor is the head of some source and not above the head of any.    *)
LEMMA AnchorIsLowest ==
  ASSUME NEW heads \in [Source -> Blocks]
  PROVE  /\ AnchorNumber(heads) \in Heights
         /\ \A s \in Source : AnchorNumber(heads) <= heads[s].num
<1> DEFINE S == {heads[s].num : s \in Source}
<1>1. \A b \in Blocks : b.num \in Heights BY DEF Blocks, Heights
<1>2. S \subseteq Nat /\ S \subseteq Heights BY <1>1 DEF Heights
<1>3. heads[1].num \in S BY DEF Source
<1>4. Min(S) \in S /\ \A y \in S : Min(S) <= y BY <1>2, <1>3, MinOfNaturals
<1>5. QED BY <1>2, <1>4 DEF AnchorNumber

-----------------------------------------------------------------------------
(* The inductive invariant.                                                *)

AnswerOK ==
  /\ phase \in {"heads", "anchor", "canonical"} => answer \in [Source -> Blocks \cup {NoAnswer}]
  /\ phase = "states" => answer \in [Source -> BOOLEAN \cup {NoAnswer}]
  /\ phase = "receipts" => answer \in [Source -> Receipts \cup {NoReceipt, NoAnswer}]

(* A receipt up to the anchor is the one the chain gives.                  *)
TrueReceipt(r) ==
  \/ r = NoReceipt
  \/ r.block > anchor.num
  \/ r.block \in 1..Len(chain) /\ r = Receipt(r.block, r.block, chain[r.block].does)

Anchored == {"states", "receipts", "canonical", "ready", "pending"}

HonestInv(s) ==
  /\ phase = "heads" /\ answer[s] # NoAnswer => Final(answer[s], s)
  /\ phase \notin {"heads", "failed"} => Final(head[s], s)
  /\ phase = "anchor" /\ answer[s] # NoAnswer => answer[s] = Block(AnchorNumber(head))
  /\ phase \in Anchored => anchor = Block(anchor.num) /\ anchor.num <= head[s].num
  /\ phase = "states" /\ answer[s] # NoAnswer => answer[s] = Used(anchor.num)
  /\ phase \in Anchored \ {"states"} => used = Used(anchor.num)
  /\ phase = "receipts" /\ answer[s] # NoAnswer => TrueReceipt(answer[s])
  /\ phase = "canonical" => TrueReceipt(receipt[s])
  /\ phase = "ready" /\ asked => TrueReceipt(receipt[s])

OneReceipt ==
  /\ \A s \in Source : receipt[s] = receipt[1]
  /\ receipt[1] \in Receipts
  /\ receipt[1] # NoReceipt
  /\ receipt[1].block <= anchor.num

ReceiptInv ==
  /\ phase = "receipts" => asked
  /\ phase = "canonical" => asked /\ OneReceipt
  /\ phase = "ready" /\ asked => OneReceipt \/ \A s \in Source : receipt[s] = NoReceipt

IInv ==
  /\ TypeOK
  /\ ChainInv
  /\ AnswerOK
  /\ \A s \in Honest : HonestInv(s)
  /\ ReceiptInv

LEMMA ReceiptAnswersOK ==
  ASSUME ChainInv, NEW s \in Source, NEW a \in ReceiptAnswers(s),
         s \in Honest => anchor.num <= seen[s], anchor.num \in Nat
  PROVE  a \in Receipts \cup {NoReceipt} /\ (s \in Honest => TrueReceipt(a))
<1>1. a \in Receipts \cup {NoReceipt} /\ (s \in Honest => TrueAnswer(a, s)) BY ReceiptAnswersTrue
<1>2. \A r \in Receipts : r.block \in Heights BY DEF Receipts, Receipt
<1>3. seen[s] \in 1..Len(chain) BY DEF ChainInv
<1>4. QED BY <1>1, <1>2, <1>3 DEF TrueAnswer, TrueReceipt, Actual, Heights, ChainInv

-----------------------------------------------------------------------------
(* Steps.                                                                  *)

LEMMA InitIInv == Init => IInv
<1> SUFFICES ASSUME Init PROVE IInv OBVIOUS
<1>1. ChainInv BY InitChainInv DEF Init
<1>2. phase = "heads" /\ answer = Nothing BY DEF Init
<1>3. TypeOK BY <1>1, <1>2 DEF Init, TypeOK, Rounds, ChainInv
<1>4. AnswerOK BY <1>2 DEF AnswerOK, Nothing
<1>5. \A s \in Honest : HonestInv(s)
  <2> TAKE s \in Honest
  <2>1. answer[s] = NoAnswer BY <1>2 DEF Nothing, Source
  <2>2. QED BY <1>2, <2>1 DEF HonestInv, Anchored
<1>6. ReceiptInv BY <1>2 DEF ReceiptInv
<1>7. QED BY <1>1, <1>3, <1>4, <1>5, <1>6 DEF IInv

(* The chain grows and the sources catch up: nothing collected is undone.   *)
LEMMA WorldStep ==
  ASSUME IInv, World
  PROVE  IInv'
<1>1. ChainInv' /\ Grown BY ChainGrows DEF IInv, World
<1>2. UNCHANGED <<asked, phase, answer, head, anchor, used, receipt>> BY DEF World, collectionVars
<1>3. TypeOK'
  BY <1>1, <1>2 DEF IInv, TypeOK, ChainInv
<1>4. AnswerOK' BY <1>2 DEF IInv, AnswerOK
<1>5. ReceiptInv' BY <1>2 DEF IInv, ReceiptInv, OneReceipt
<1>6. ASSUME NEW s \in Honest PROVE HonestInv(s)'
  <2>1. s \in Source /\ HonestInv(s) /\ ChainInv BY DEF IInv
  <2>2. seen[s] \in 1..Len(chain) /\ seen'[s] \in Nat /\ seen[s] <= seen'[s]
    BY <1>1, <2>1 DEF ChainInv, Grown, Heights
  <2>3. ASSUME NEW n \in 1..seen[s]
        PROVE  n \in 1..Len(chain) /\ Block(n)' = Block(n) /\ Used(n)' = Used(n)
    <3>1. n \in 1..Len(chain) BY <2>1, <2>2 DEF ChainInv, Heights
    <3>2. QED BY <1>1, <2>1, <3>1, FinalStays
  <2>4. ASSUME NEW b, Final(b, s) PROVE Final(b, s)'
    BY <2>2, <2>3, <2>4 DEF Final
  <2>5. ASSUME NEW r, TrueReceipt(r) PROVE TrueReceipt(r)'
    <3>1. CASE r = NoReceipt \/ r.block > anchor.num BY <1>2, <3>1 DEF TrueReceipt
    <3>2. CASE r.block \in 1..Len(chain) /\ r = Receipt(r.block, r.block, chain[r.block].does)
      <4>1. chain'[r.block] = chain[r.block] /\ r.block \in 1..Len(chain')
        BY <1>1, <2>1, <3>2 DEF Grown, ChainInv, Heights
      <4>2. QED BY <3>2, <4>1 DEF TrueReceipt, Receipt
    <3>3. QED BY <2>5, <3>1, <3>2 DEF TrueReceipt
  <2>6. phase \notin {"heads", "failed"} => head[s].num \in 1..seen[s]
    BY <2>1 DEF HonestInv, Final
  <2>7. phase = "anchor" =>
          Block(AnchorNumber(head))' = Block(AnchorNumber(head))
    <3> SUFFICES ASSUME phase = "anchor" PROVE Block(AnchorNumber(head))' = Block(AnchorNumber(head))
      OBVIOUS
    <3>1. AnchorNumber(head) \in Heights /\ AnchorNumber(head) <= head[s].num
      BY <2>1, AnchorIsLowest DEF IInv, TypeOK
    <3>2. AnchorNumber(head) \in 1..seen[s] BY <2>2, <2>6, <3>1 DEF Heights
    <3>3. AnchorNumber(head)' = AnchorNumber(head) BY <1>2 DEF AnchorNumber
    <3>4. QED BY <2>3, <3>2, <3>3 DEF Block
  <2>8. phase \in Anchored =>
          anchor.num \in 1..seen[s] /\ Block(anchor.num)' = Block(anchor.num)
          /\ Used(anchor.num)' = Used(anchor.num)
    <3> SUFFICES ASSUME phase \in Anchored
                 PROVE  anchor.num \in 1..seen[s] /\ Block(anchor.num)' = Block(anchor.num)
                        /\ Used(anchor.num)' = Used(anchor.num)
      OBVIOUS
    <3>1. anchor.num \in Heights BY DEF IInv, TypeOK, Anchored, Blocks
    <3>2. anchor.num \in 1..seen[s] BY <2>1, <2>2, <2>6, <3>1 DEF HonestInv, Anchored, Heights
    <3>3. QED BY <1>2, <2>3, <3>2 DEF Block, Used
  <2>9. QED
    BY <1>2, <2>1, <2>4, <2>5, <2>7, <2>8 DEF HonestInv, Anchored
<1>7. QED BY <1>1, <1>3, <1>4, <1>5, <1>6 DEF IInv

LEMMA HonestUnmoved ==
  ASSUME NEW t, UNCHANGED <<chain, seen, head, anchor>>
  PROVE  /\ \A b : Final(b, t)' <=> Final(b, t)
         /\ \A r : TrueReceipt(r)' <=> TrueReceipt(r)
         /\ Block(AnchorNumber(head))' = Block(AnchorNumber(head))
         /\ Block(anchor.num)' = Block(anchor.num)
         /\ Used(anchor.num)' = Used(anchor.num)
<1>1. \A b : Final(b, t)' <=> Final(b, t) BY DEF Final, Block
<1>2. \A r : TrueReceipt(r)' <=> TrueReceipt(r) BY DEF TrueReceipt
<1>3. Block(AnchorNumber(head))' = Block(AnchorNumber(head)) BY DEF AnchorNumber, Block
<1>4. Block(anchor.num)' = Block(anchor.num) BY DEF Block
<1>5. Used(anchor.num)' = Used(anchor.num) BY DEF Used
<1>6. QED BY <1>1, <1>2, <1>3, <1>4, <1>5

(* An answer disturbs only what is said of the answers of the round.        *)
LEMMA AnswerKeeps ==
  ASSUME IInv, NEW s \in Source, NEW answers, Answer(s, answers),
         AnswerOK',
         \A t \in Honest :
           /\ phase = "heads" /\ answer'[t] # NoAnswer => Final(answer'[t], t)
           /\ phase = "anchor" /\ answer'[t] # NoAnswer => answer'[t] = Block(AnchorNumber(head))
           /\ phase = "states" /\ answer'[t] # NoAnswer => answer'[t] = Used(anchor.num)
           /\ phase = "receipts" /\ answer'[t] # NoAnswer => TrueReceipt(answer'[t])
  PROVE  IInv'
<1>1. UNCHANGED <<chain, seen, asked, phase, head, anchor, used, receipt>>
  BY DEF Answer, chainVars
<1>2. TypeOK' BY <1>1 DEF IInv, TypeOK
<1>3. ChainInv' BY <1>1 DEF IInv, ChainInv
<1>4. ReceiptInv' BY <1>1 DEF IInv, ReceiptInv, OneReceipt
<1>5. ASSUME NEW t \in Honest PROVE HonestInv(t)'
  <2>1. HonestInv(t) BY DEF IInv
  <2>2. QED BY <1>1, <2>1, HonestUnmoved DEF HonestInv
<1>6. QED BY <1>2, <1>3, <1>4, <1>5 DEF IInv

LEMMA AnswerStep ==
  ASSUME IInv, NEW s \in Source,
         \/ AnswerHead(s) \/ AnswerAnchor(s) \/ AnswerState(s)
         \/ AnswerReceipt(s) \/ AnswerCanonical(s)
  PROVE  IInv'
<1> USE DEF IInv
<1> DEFINE Set(a) == answer' = [answer EXCEPT ![s] = a]
<1>1. CASE AnswerHead(s)
  <2>1. PICK a \in HeadAnswers(s) : Set(a) BY <1>1 DEF AnswerHead, Answer
  <2>2. a \in Blocks /\ (s \in Honest => Final(a, s)) BY HeadAnswersTrue
  <2>3. phase = "heads" /\ phase' = phase BY <1>1 DEF AnswerHead, Answer
  <2>4. answer \in [Source -> Blocks \cup {NoAnswer}] BY <2>3 DEF AnswerOK
  <2>5. AnswerOK' BY <2>1, <2>2, <2>3, <2>4 DEF AnswerOK
  <2>6. \A t \in Honest : answer'[t] # NoAnswer => Final(answer'[t], t)
    BY <2>1, <2>2, <2>3, <2>4 DEF HonestInv
  <2>7. QED BY <1>1, <2>3, <2>5, <2>6, AnswerKeeps DEF AnswerHead
<1>2. CASE AnswerAnchor(s)
  <2> DEFINE n == AnchorNumber(head)
  <2>1. PICK a \in BlockAnswers(s, n) : Set(a) BY <1>2 DEF AnswerAnchor, Answer
  <2>2. phase = "anchor" /\ phase' = phase BY <1>2 DEF AnswerAnchor, Answer
  <2>3. n \in Heights /\ \A t \in Source : n <= head[t].num
    BY <2>2, AnchorIsLowest DEF TypeOK
  <2>4. s \in Honest => n <= seen[s]
    BY <2>2, <2>3 DEF HonestInv, Final, Heights, ChainInv
  <2>5. a \in Blocks /\ (s \in Honest => a = Block(n)) BY <2>3, <2>4, BlockAnswersTrue
  <2>6. answer \in [Source -> Blocks \cup {NoAnswer}] BY <2>2 DEF AnswerOK
  <2>7. AnswerOK' BY <2>1, <2>2, <2>5, <2>6 DEF AnswerOK
  <2>8. \A t \in Honest : answer'[t] # NoAnswer => answer'[t] = Block(n)
    BY <2>1, <2>2, <2>5, <2>6 DEF HonestInv
  <2>9. QED BY <1>2, <2>2, <2>7, <2>8, AnswerKeeps DEF AnswerAnchor
<1>3. CASE AnswerState(s)
  <2>1. PICK a \in StateAnswers(s, anchor.hash) : Set(a) BY <1>3 DEF AnswerState, Answer
  <2>2. phase = "states" /\ phase' = phase BY <1>3 DEF AnswerState, Answer
  <2>3. s \in Honest => anchor.hash = anchor.num /\ anchor.hash \in 1..seen[s]
    <3>1. anchor.num \in Heights BY <2>2 DEF TypeOK, Blocks
    <3>2. s \in Honest => anchor = Block(anchor.num) /\ anchor.num <= head[s].num /\ head[s].num \in 1..seen[s]
      BY <2>2 DEF HonestInv, Final, Anchored
    <3>3. s \in Honest => anchor.hash = anchor.num BY <3>2 DEF Block
    <3>4. QED BY <3>1, <3>2, <3>3 DEF Heights, ChainInv
  <2>4. a \in BOOLEAN /\ (s \in Honest => a = Used(anchor.num)) BY <2>3, StateAnswersTrue
  <2>5. answer \in [Source -> BOOLEAN \cup {NoAnswer}] BY <2>2 DEF AnswerOK
  <2>6. AnswerOK' BY <2>1, <2>2, <2>4, <2>5 DEF AnswerOK
  <2>7. \A t \in Honest : answer'[t] # NoAnswer => answer'[t] = Used(anchor.num)
    BY <2>1, <2>2, <2>4, <2>5 DEF HonestInv
  <2>8. QED BY <1>3, <2>2, <2>6, <2>7, AnswerKeeps DEF AnswerState
<1>4. CASE AnswerReceipt(s)
  <2>1. PICK a \in ReceiptAnswers(s) : Set(a) BY <1>4 DEF AnswerReceipt, Answer
  <2>2. phase = "receipts" /\ phase' = phase BY <1>4 DEF AnswerReceipt, Answer
  <2>3. anchor.num \in Nat BY <2>2 DEF TypeOK, Blocks, Heights
  <2>4. s \in Honest => anchor.num <= seen[s]
    BY <2>2, <2>3 DEF HonestInv, Final, Anchored, ChainInv, Heights
  <2>5. a \in Receipts \cup {NoReceipt} /\ (s \in Honest => TrueReceipt(a))
    BY <2>3, <2>4, ReceiptAnswersOK
  <2>6. answer \in [Source -> Receipts \cup {NoReceipt, NoAnswer}] BY <2>2 DEF AnswerOK
  <2>7. AnswerOK' BY <2>1, <2>2, <2>5, <2>6 DEF AnswerOK
  <2>8. \A t \in Honest : answer'[t] # NoAnswer => TrueReceipt(answer'[t])
    BY <2>1, <2>2, <2>5, <2>6 DEF HonestInv
  <2>9. QED BY <1>4, <2>2, <2>7, <2>8, AnswerKeeps DEF AnswerReceipt
<1>5. CASE AnswerCanonical(s)
  <2> DEFINE n == receipt[1].block
  <2>1. PICK a \in BlockAnswers(s, n) : Set(a) BY <1>5 DEF AnswerCanonical, Answer
  <2>2. phase = "canonical" /\ phase' = phase BY <1>5 DEF AnswerCanonical, Answer
  <2>3. n \in Heights
    <3>1. receipt[1] \in Receipts BY <2>2 DEF TypeOK, Source
    <3>2. QED BY <3>1 DEF Receipts, Receipt
  <2>4. a \in Blocks BY <2>3, BlockAnswersTrue
  <2>5. answer \in [Source -> Blocks \cup {NoAnswer}] BY <2>2 DEF AnswerOK
  <2>6. AnswerOK' BY <2>1, <2>2, <2>4, <2>5 DEF AnswerOK
  <2>7. QED BY <1>5, <2>2, <2>6, AnswerKeeps DEF AnswerCanonical
<1>6. QED BY <1>1, <1>2, <1>3, <1>4, <1>5

-----------------------------------------------------------------------------
(* The end of a round.                                                     *)

LEMMA RoundStep ==
  ASSUME IInv,
         ChooseAnchor \/ AgreeOnAnchor \/ AgreeOnState \/ CompareReceipts \/ AgreeOnCanonical \/ Fail
  PROVE  IInv'
<1> USE DEF IInv
<1>1. UNCHANGED <<chain, seen, asked>> /\ answer' = Nothing
  BY DEF ChooseAnchor, AgreeOnAnchor, AgreeOnState, CompareReceipts, AgreeOnCanonical, Fail,
         EndOfRound, chainVars
<1>2. ChainInv' BY <1>1 DEF ChainInv
<1>3. AnswerOK' BY <1>1 DEF AnswerOK, Nothing
<1>4. 1 \in Source /\ Honest \subseteq Source BY DEF Source
<1>5. \A s \in Source : answer'[s] = NoAnswer BY <1>1 DEF Nothing
<1>6. CASE ChooseAnchor
  <2>1. phase = "heads" /\ phase' = "anchor" /\ head' = answer BY <1>6 DEF ChooseAnchor, EndOfRound
  <2>2. answer \in [Source -> Blocks]
    BY <1>6, <2>1 DEF ChooseAnchor, EndOfRound, AnswerOK
  <2>3. TypeOK' BY <1>1, <2>1, <2>2 DEF TypeOK, Rounds
  <2>4. ASSUME NEW s \in Honest PROVE HonestInv(s)'
    <3>1. answer[s] # NoAnswer BY <1>4, <1>6 DEF ChooseAnchor, EndOfRound
    <3>2. Final(answer[s], s) BY <2>1, <3>1 DEF HonestInv
    <3>3. Final(head[s], s)' BY <1>1, <2>1, <3>2 DEF Final, Block
    <3>4. QED BY <1>4, <1>5, <2>1, <3>3 DEF HonestInv, Anchored
  <2>5. ReceiptInv' BY <2>1 DEF ReceiptInv
  <2>6. QED BY <1>2, <1>3, <2>3, <2>4, <2>5
<1>7. CASE AgreeOnAnchor
  <2>1. /\ phase = "anchor" /\ anchor' = answer[1]
        /\ phase' = IF AnchorAgreed(answer) THEN "states" ELSE "contradiction"
        /\ UNCHANGED <<head, used, receipt>>
        /\ \A s \in Source : answer[s] # NoAnswer
    BY <1>7 DEF AgreeOnAnchor, EndOfRound
  <2>2. answer[1] \in Blocks BY <1>4, <2>1 DEF AnswerOK
  <2>3. TypeOK' BY <1>1, <2>1, <2>2 DEF TypeOK, Rounds, Ends
  <2>4. ASSUME NEW s \in Honest PROVE HonestInv(s)'
    <3>1. Final(head[s], s)' BY <1>1, <2>1 DEF HonestInv, Final, Block
    <3>2. AnchorNumber(head) <= head[s].num
      BY <1>4, <2>1, AnchorIsLowest DEF TypeOK
    <3>3. answer[s] = Block(AnchorNumber(head)) BY <1>4, <2>1 DEF HonestInv
    <3>4. ASSUME phase' = "states"
          PROVE  anchor' = Block(anchor.num)' /\ anchor'.num <= head'[s].num
      <4>1. answer[s] = answer[1] /\ answer[1].num = AnchorNumber(head)
        BY <1>4, <2>1, <3>4 DEF AnchorAgreed
      <4>2. QED BY <1>1, <2>1, <3>2, <3>3, <4>1 DEF Block
    <3>5. phase' \in {"states", "contradiction"} BY <2>1
    <3>6. QED BY <1>4, <1>5, <3>1, <3>4, <3>5 DEF HonestInv, Anchored
  <2>5. ReceiptInv' BY <2>1 DEF ReceiptInv
  <2>6. QED BY <1>2, <1>3, <2>3, <2>4, <2>5
<1>8. CASE AgreeOnState
  <2>1. /\ phase = "states" /\ used' = answer[1]
        /\ phase' = IF ~StatesAgreed(answer) THEN "contradiction" ELSE IF asked THEN "receipts" ELSE "ready"
        /\ UNCHANGED <<head, anchor, receipt>>
        /\ \A s \in Source : answer[s] # NoAnswer
    BY <1>8 DEF AgreeOnState, EndOfRound
  <2>2. answer[1] \in BOOLEAN BY <1>4, <2>1 DEF AnswerOK
  <2>3. TypeOK' BY <1>1, <2>1, <2>2 DEF TypeOK, Rounds, Ends
  <2>4. ASSUME NEW s \in Honest PROVE HonestInv(s)'
    <3>1. HonestInv(s) OBVIOUS
    <3>2. Final(head[s], s)' BY <1>1, <2>1, <3>1 DEF HonestInv, Final, Block
    <3>3. (anchor = Block(anchor.num) /\ anchor.num <= head[s].num)'
      BY <1>1, <2>1, <3>1 DEF HonestInv, Anchored, Block
    <3>4. answer[s] = Used(anchor.num) BY <1>4, <2>1, <3>1 DEF HonestInv
    <3>5. phase' # "contradiction" => answer[1] = answer[s] BY <1>4, <2>1 DEF StatesAgreed
    <3>6. phase' # "contradiction" => used' = Used(anchor.num)'
      BY <1>1, <2>1, <3>4, <3>5 DEF Used
    <3>7. phase' \in {"contradiction", "receipts", "ready"} /\ (phase' = "ready" => ~asked') BY <1>1, <2>1
    <3>8. QED BY <1>4, <1>5, <3>2, <3>3, <3>6, <3>7 DEF HonestInv, Anchored
  <2>5. ReceiptInv' BY <1>1, <2>1 DEF ReceiptInv
  <2>6. QED BY <1>2, <1>3, <2>3, <2>4, <2>5
<1>9. CASE CompareReceipts
  <2>1. /\ phase = "receipts" /\ receipt' = answer
        /\ phase' = AfterReceipts(answer)
        /\ UNCHANGED <<head, anchor, used>>
        /\ \A s \in Source : answer[s] # NoAnswer
    BY <1>9 DEF CompareReceipts, EndOfRound
  <2>2. answer \in [Source -> Receipts \cup {NoReceipt, NoAnswer}] BY <2>1 DEF AnswerOK
  <2>3. AfterReceipts(answer) \in {"ready", "contradiction", "pending", "canonical"}
    BY DEF AfterReceipts
  <2>4. AfterReceipts(answer) = "ready" => \A s \in Source : answer[s] = NoReceipt
    BY DEF AfterReceipts
  <2>5. ASSUME AfterReceipts(answer) = "canonical"
        PROVE  /\ answer \in [Source -> Receipts]
               /\ \A s \in Source : answer[s] = answer[1]
               /\ answer[1] # NoReceipt /\ answer[1].block <= anchor.num
    <3>1. \A s \in Source : answer[s] # NoReceipt BY <2>5 DEF AfterReceipts
    <3>2. answer \in [Source -> Receipts] BY <2>1, <2>2, <3>1
    <3>3. \A s \in Source : answer[s] = answer[1] /\ ~(answer[s].block > anchor.num)
      BY <2>5, <3>1 DEF AfterReceipts
    <3>4. \A r \in Receipts : r.block \in Heights BY DEF Receipts, Receipt
    <3>5. answer[1].block \in Nat /\ anchor.num \in Nat
      BY <1>4, <2>1, <3>2, <3>4 DEF TypeOK, Blocks, Heights
    <3>6. QED BY <1>4, <3>1, <3>2, <3>3, <3>5
  <2>6. TypeOK' BY <1>1, <2>1, <2>3, <2>5 DEF TypeOK, Rounds, Ends
  <2>7. asked BY <2>1 DEF ReceiptInv
  <2>8. ASSUME NEW s \in Honest PROVE HonestInv(s)'
    <3>1. HonestInv(s) OBVIOUS
    <3>2. Final(head[s], s)' BY <1>1, <2>1, <3>1 DEF HonestInv, Final, Block
    <3>3. (anchor = Block(anchor.num) /\ anchor.num <= head[s].num /\ used = Used(anchor.num))'
      BY <1>1, <2>1, <3>1 DEF HonestInv, Anchored, Block, Used
    <3>4. TrueReceipt(answer[s]) BY <1>4, <2>1, <3>1 DEF HonestInv
    <3>5. TrueReceipt(receipt[s])' BY <1>1, <2>1, <3>4 DEF TrueReceipt
    <3>6. QED BY <1>4, <1>5, <2>1, <2>3, <3>2, <3>3, <3>5 DEF HonestInv, Anchored
  <2>9. ReceiptInv'
    BY <1>1, <2>1, <2>3, <2>4, <2>5, <2>7 DEF ReceiptInv, OneReceipt, Source
  <2>10. QED BY <1>2, <1>3, <2>6, <2>8, <2>9
<1>10. CASE AgreeOnCanonical
  <2>1. /\ phase = "canonical"
        /\ phase' = IF CanonicalAgreed(answer) THEN "ready" ELSE "contradiction"
        /\ UNCHANGED <<head, anchor, used, receipt>>
    BY <1>10 DEF AgreeOnCanonical, EndOfRound
  <2>2. TypeOK' BY <1>1, <2>1 DEF TypeOK, Rounds, Ends
  <2>3. ASSUME NEW s \in Honest PROVE HonestInv(s)'
    <3>1. HonestInv(s) OBVIOUS
    <3>2. QED
      BY <1>1, <1>4, <1>5, <2>1, <3>1 DEF HonestInv, Anchored, Final, Block, Used, TrueReceipt
  <2>4. ReceiptInv' BY <1>1, <2>1 DEF ReceiptInv, OneReceipt
  <2>5. QED BY <1>2, <1>3, <2>2, <2>3, <2>4
<1>11. CASE Fail
  <2>1. phase' = "failed" BY <1>11 DEF Fail
  <2>2. TypeOK' BY <1>1, <2>1 DEF TypeOK, Rounds, Ends
  <2>3. \A s \in Honest : HonestInv(s)' BY <1>4, <1>5, <2>1 DEF HonestInv, Anchored
  <2>4. ReceiptInv' BY <2>1 DEF ReceiptInv
  <2>5. QED BY <1>2, <1>3, <2>2, <2>3, <2>4
<1>12. QED BY <1>6, <1>7, <1>8, <1>9, <1>10, <1>11

LEMMA CollectionStep ==
  ASSUME IInv, [Next]_vars
  PROVE  IInv'
<1>1. CASE Collect
  BY <1>1, AnswerStep, RoundStep DEF Collect
<1>2. CASE World BY <1>2, WorldStep
<1>3. CASE UNCHANGED vars
  <2>1. UNCHANGED <<chain, seen, asked, phase, answer, head, anchor, used, receipt>>
    BY <1>3 DEF vars, chainVars, collectionVars
  <2>2. TypeOK' /\ ChainInv' BY <2>1 DEF IInv, TypeOK, ChainInv
  <2>3. AnswerOK' /\ ReceiptInv' BY <2>1 DEF IInv, AnswerOK, ReceiptInv, OneReceipt
  <2>4. ASSUME NEW s \in Honest PROVE HonestInv(s)'
    BY <2>1, HonestUnmoved DEF IInv, HonestInv
  <2>5. QED BY <2>2, <2>3, <2>4 DEF IInv
<1>4. QED BY <1>1, <1>2, <1>3 DEF Next

THEOREM CollectionInvariance == Spec => []IInv
<1>1. IInv /\ [Next]_vars => IInv' BY CollectionStep
<1>2. QED BY InitIInv, <1>1, PTL DEF Spec

(* The variables of a collection have their types, the chain included.      *)
THEOREM CollectionTypeCorrect == Spec => []TypeOK
<1>1. IInv => TypeOK BY DEF IInv
<1>2. QED BY <1>1, CollectionInvariance, PTL

-----------------------------------------------------------------------------
(* What the verdicts of the evaluator rest on.                             *)

LEMMA ConfirmedRests ==
  ASSUME NEW receipts, NEW states, EvaluateSettlement(receipts, states).status = "confirmed"
  PROVE  /\ \A o \in Values(receipts) : ~Faulted(o)
         /\ OfKind(receipts, "match") # {}
         /\ ~StateContradictsReceipt(states, receipts[Min(OfKind(receipts, "match"))].receipt)
         /\ EvaluateSettlement(receipts, states) =
              Settlement("confirmed", 1,
                Min({Confirmations(receipts[i].head, receipts[i].receipt.block) : i \in OfKind(receipts, "match")}),
                receipts[Min(OfKind(receipts, "match"))].receipt.block)
BY DEF EvaluateSettlement, EvaluateMatch, EvaluateAbsence, Verdict, Settlement

LEMMA AbsentRests ==
  ASSUME NEW receipts, NEW states, EvaluateSettlement(receipts, states).status = "absent"
  PROVE  ExpiredUnused(states)
BY DEF EvaluateSettlement, EvaluateMatch, EvaluateAbsence, Verdict, Settlement

LEMMA ContradictionRests ==
  ASSUME NEW receipts, NEW states, EvaluateSettlement(receipts, states).status = "contradiction"
  PROVE  \/ StatesContradict(states)
         \/ Cardinality({Fingerprint(o) : o \in Values(receipts)}) > 1
         \/ /\ OfKind(receipts, "match") # {}
            /\ StateContradictsReceipt(states, receipts[Min(OfKind(receipts, "match"))].receipt)
BY DEF EvaluateSettlement, EvaluateMatch, EvaluateAbsence, Verdict, Settlement

-----------------------------------------------------------------------------
(* The observations of one collection are alike.                           *)

LEMMA NoMatchWithoutReceipt ==
  ASSUME ~asked \/ \A s \in Source : receipt[s] = NoReceipt
  PROVE  /\ OfKind(ReceiptObservations, "match") = {}
         /\ \A o, p \in Values(ReceiptObservations) : Fingerprint(o) = Fingerprint(p)
<1>1. CASE ~asked BY <1>1 DEF OfKind, ReceiptObservations, Values
<1>2. CASE asked /\ \A s \in Source : receipt[s] = NoReceipt
  <2>1. \A s \in Source : ReceiptObservations[s].receipt = NoReceipt /\ ReceiptObservations[s].canon = NoHash
    BY <1>2 DEF ReceiptObservations
  <2>2. DOMAIN ReceiptObservations = Source BY <1>2 DEF ReceiptObservations
  <2>3. \A s \in Source : ReceiptKind(ReceiptObservations[s]) = "missing"
    BY <2>1 DEF ReceiptKind, Faulted
  <2>4. \A o \in Values(ReceiptObservations) : ReceiptKind(o) = "missing" /\ o.receipt = NoReceipt /\ o.canon = NoHash
    BY <2>1, <2>2, <2>3 DEF Values
  <2>5. QED BY <2>2, <2>3, <2>4 DEF OfKind, Fingerprint
<1>3. QED BY <1>1, <1>2

LEMMA OneReceiptObserved ==
  ASSUME asked, OneReceipt
  PROVE  /\ DOMAIN ReceiptObservations = Source
         /\ \A s \in Source :
              /\ ReceiptObservations[s].head = anchor.num
              /\ ReceiptObservations[s].receipt = receipt[1]
              /\ ReceiptObservations[s].canon = receipt[1].hash
              /\ ReceiptKind(ReceiptObservations[s]) = ReceiptKind(ReceiptObservations[1])
         /\ \A o, p \in Values(ReceiptObservations) : Fingerprint(o) = Fingerprint(p)
<1>1. DOMAIN ReceiptObservations = Source BY DEF ReceiptObservations
<1>2. \A s \in Source :
        /\ ReceiptObservations[s].head = anchor.num
        /\ ReceiptObservations[s].receipt = receipt[1]
        /\ ReceiptObservations[s].canon = receipt[1].hash
  BY DEF ReceiptObservations, OneReceipt
<1>3. 1 \in Source BY DEF Source
<1>4. \A s \in Source : ReceiptKind(ReceiptObservations[s]) = ReceiptKind(ReceiptObservations[1])
  BY <1>2, <1>3 DEF ReceiptKind, Faulted, Reasons
<1>5. \A o, p \in Values(ReceiptObservations) : Fingerprint(o) = Fingerprint(p)
  BY <1>1, <1>2, <1>4 DEF Values, Fingerprint
<1>6. QED BY <1>1, <1>2, <1>4, <1>5

(* If they match at all, they all do, and the first one speaks for them.    *)
LEMMA MatchOfAll ==
  ASSUME asked, OneReceipt, OfKind(ReceiptObservations, "match") # {}
  PROVE  /\ OfKind(ReceiptObservations, "match") = Source
         /\ Min(Source) = 1
         /\ receipt[1].transfers = 1
<1>1. 1 \in Source /\ \A s \in Source : 1 <= s BY DEF Source
<1>2. OfKind(ReceiptObservations, "match") = Source BY <1>1, OneReceiptObserved DEF OfKind
<1>3. Min(Source) = 1
  <2>1. Source \subseteq Nat BY DEF Source
  <2>2. Min(Source) \in Source /\ \A s \in Source : Min(Source) <= s BY <1>1, <2>1, MinOfNaturals
  <2> DEFINE m == Min(Source)
  <2>3. m \in Nat /\ m <= 1 /\ 1 <= m BY <1>1, <2>1, <2>2
  <2> HIDE DEF m
  <2>4. m = 1 BY <2>3
  <2>5. QED BY <2>4 DEF m
<1>4. ReceiptKind(ReceiptObservations[1]) = "match" BY <1>1, <1>2 DEF OfKind
<1>5. receipt[1].transfers = 1 BY <1>1, <1>4, OneReceiptObserved DEF ReceiptKind, OneReceipt
<1>6. QED BY <1>2, <1>3, <1>5

LEMMA StatesAlike ==
  /\ DOMAIN StateObservations = Source
  /\ \A s \in Source :
       /\ StateObservations[s].num = anchor.num /\ StateObservations[s].hash = anchor.hash
       /\ StateObservations[s].time = anchor.time /\ StateObservations[s].used = used
BY DEF StateObservations

(* What an honest source makes of a ready collection.                      *)
LEMMA ReadyIsTrue ==
  ASSUME IInv, phase = "ready", Honest # {}
  PROVE  /\ anchor.num \in 1..Len(chain)
         /\ anchor = Block(anchor.num)
         /\ used = Used(anchor.num)
         /\ asked => \/ \A s \in Source : receipt[s] = NoReceipt
                     \/ /\ OneReceipt
                        /\ receipt[1].block \in 1..anchor.num
                        /\ receipt[1] = Receipt(receipt[1].block, receipt[1].block, chain[receipt[1].block].does)
<1> USE DEF IInv
<1>1. PICK s \in Honest : HonestInv(s) OBVIOUS
<1>2. s \in Source /\ 1 \in Source BY DEF Source
<1>3. anchor.num \in Heights BY DEF TypeOK, Blocks
<1>4. anchor.num \in 1..Len(chain)
  BY <1>1, <1>2, <1>3 DEF HonestInv, Final, Anchored, ChainInv, Heights
<1>5. anchor = Block(anchor.num) /\ used = Used(anchor.num) BY <1>1 DEF HonestInv, Anchored
<1>6. ASSUME asked, OneReceipt
      PROVE  /\ receipt[1].block \in 1..anchor.num
             /\ receipt[1] = Receipt(receipt[1].block, receipt[1].block, chain[receipt[1].block].does)
  <2>1. \A r \in Receipts : r.block \in Heights BY DEF Receipts, Receipt
  <2>2. receipt[1].block \in Heights /\ receipt[1].block <= anchor.num BY <1>6, <2>1 DEF OneReceipt
  <2>3. TrueReceipt(receipt[1]) BY <1>1, <1>2, <1>6 DEF HonestInv, OneReceipt
  <2>4. QED BY <1>3, <1>6, <2>2, <2>3 DEF TrueReceipt, OneReceipt, Heights
<1>7. QED BY <1>4, <1>5, <1>6 DEF ReceiptInv

-----------------------------------------------------------------------------
(* With one honest source among any number, a confirmed settlement is on   *)
(* the chain with the confirmations stated (collectBaseEvidence and        *)
(* evaluateBaseSettlement).                                                *)
THEOREM ConfirmedSound == Spec => []ConfirmedIsSettled
<1>1. ASSUME IInv PROVE ConfirmedIsSettled
  <2> DEFINE RO == ReceiptObservations
             SO == StateObservations
             r == receipt[1]
  <2>1. SUFFICES ASSUME phase = "ready", Evaluation.status = "confirmed", Honest # {}
                 PROVE  /\ Evaluation.block \in 1..Len(chain)
                        /\ \/ chain[Evaluation.block].does = "settles"
                           \/ chain[Evaluation.block].does = "paysOtherwise" /\ Used(anchor.num)
                        /\ Len(chain) >= Evaluation.block + Evaluation.confirmations - 1
    BY DEF ConfirmedIsSettled
  <2>2. /\ OfKind(RO, "match") # {}
        /\ ~StateContradictsReceipt(SO, RO[Min(OfKind(RO, "match"))].receipt)
        /\ Evaluation = Settlement("confirmed", 1,
             Min({Confirmations(RO[i].head, RO[i].receipt.block) : i \in OfKind(RO, "match")}),
             RO[Min(OfKind(RO, "match"))].receipt.block)
    BY <2>1, ConfirmedRests DEF Evaluation
  <2>3. asked /\ ~\A s \in Source : receipt[s] = NoReceipt BY <2>2, NoMatchWithoutReceipt
  <2>4. /\ anchor.num \in 1..Len(chain) /\ used = Used(anchor.num)
        /\ OneReceipt /\ r.block \in 1..anchor.num
        /\ r = Receipt(r.block, r.block, chain[r.block].does)
    BY <1>1, <2>1, <2>3, ReadyIsTrue
  <2>5. OfKind(RO, "match") = Source /\ Min(Source) = 1 /\ r.transfers = 1
    BY <2>2, <2>3, <2>4, MatchOfAll
  <2>6. 1 \in Source /\ \A s \in Source : RO[s].head = anchor.num /\ RO[s].receipt = r
    BY <2>3, <2>4, OneReceiptObserved DEF Source
  <2>7. r.block \in 1..Len(chain) BY <1>1, <2>4 DEF IInv, ChainInv, Heights
  <2>8. Evaluation.block = r.block BY <2>2, <2>5, <2>6 DEF Settlement
  <2>9. Evaluation.confirmations = anchor.num - r.block + 1
    <3> DEFINE c == anchor.num - r.block + 1
               S == {Confirmations(RO[i].head, RO[i].receipt.block) : i \in Source}
    <3>1. c \in Nat BY <2>4, <2>7 DEF Heights
    <3>2. \A i \in Source : Confirmations(RO[i].head, RO[i].receipt.block) = c
      BY <2>4, <2>6, <2>7 DEF Confirmations
    <3>3. S = {c} BY <2>6, <3>2
    <3>4. Min(S) \in S BY <3>1, <3>3, MinOfNaturals
    <3>5. Evaluation.confirmations = Min(S) BY <2>2, <2>5 DEF Settlement
    <3>6. QED BY <3>3, <3>4, <3>5
  <2>10. chain[r.block].does \in {"settles", "paysOtherwise"}
    BY <2>4, <2>5 DEF Receipt
  <2>11. Used(anchor.num)
    <3>1. SO[1] \in Values(SO) /\ SO[1].num = anchor.num /\ SO[1].used = used
      BY <2>6, StatesAlike DEF Values
    <3>2. ~StateContradictsReceipt(SO, r) BY <2>2, <2>5, <2>6
    <3>3. ~(anchor.num >= r.block /\ ~used) BY <3>1, <3>2 DEF StateContradictsReceipt
    <3>4. QED BY <2>4, <2>7, <3>3
  <2>12. Len(chain) >= r.block + (anchor.num - r.block + 1) - 1
    BY <1>1, <2>4, <2>7 DEF IInv, ChainInv, Heights
  <2>13. QED BY <2>7, <2>8, <2>9, <2>10, <2>11, <2>12
<1>2. QED BY <1>1, CollectionInvariance, PTL

(* With one honest source, an authorization whose absence was established  *)
(* never settles: every later block is past its expiry, and a settlement   *)
(* up to the anchor would have used it.                                    *)
THEOREM AbsenceSound == Spec => []AbsentForEver
<1>1. ASSUME IInv PROVE AbsentForEver
  <2>1. SUFFICES ASSUME phase = "ready", Evaluation.status = "absent", Honest # {},
                        NEW i \in 1..Len(chain), chain[i].does \in Settlements
                 PROVE  FALSE
    BY DEF AbsentForEver, SettledBy
  <2>2. ExpiredUnused(StateObservations) BY <2>1, AbsentRests DEF Evaluation
  <2>3. 1 \in Source BY DEF Source
  <2>4. StateObservations[1] \in Values(StateObservations) BY <2>3, StatesAlike DEF Values
  <2>5. ~used /\ anchor.time > ValidBefore BY <2>2, <2>3, <2>4, StatesAlike DEF ExpiredUnused
  <2>6. anchor.num \in 1..Len(chain) /\ anchor = Block(anchor.num) /\ used = Used(anchor.num)
    BY <1>1, <2>1, ReadyIsTrue
  <2>7. chain[anchor.num].time > ValidBefore BY <2>5, <2>6 DEF Block
  <2>8. chain[i].time < ValidBefore BY <1>1, <2>1 DEF IInv, ChainInv
  <2>9. ~(anchor.num < i)
    <3>1. chain[i].time \in Nat /\ chain[anchor.num].time \in Nat
      BY <1>1, <2>6, ChainElements DEF IInv, Times
    <3>2. anchor.num < i => chain[anchor.num].time < chain[i].time BY <1>1, <2>6 DEF IInv, ChainInv
    <3>3. QED BY <2>7, <2>8, <3>1, <3>2
  <2>10. i \in 1..anchor.num BY <1>1, <2>6, <2>9 DEF IInv, ChainInv, Heights
  <2>11. Used(anchor.num) BY <2>1, <2>10 DEF Used, Uses
  <2>12. QED BY <2>5, <2>6, <2>11
<1>2. QED BY <1>1, CollectionInvariance, PTL

(* With one honest source the evaluator finds no contradiction in what the *)
(* collector let through, unless the receipt shows no use of the nonce.    *)
THEOREM ConsistencySound == Spec => []CollectionConsistent
<1>1. ASSUME IInv PROVE CollectionConsistent
  <2> DEFINE RO == ReceiptObservations
             SO == StateObservations
             r == receipt[1]
  <2>1. SUFFICES ASSUME phase = "ready", Honest # {}, Evaluation.status = "contradiction"
                 PROVE  \A s \in Source : receipt[s] # NoReceipt /\ receipt[s].uses = 0
    BY DEF CollectionConsistent
  <2>2. \/ StatesContradict(SO)
        \/ Cardinality({Fingerprint(o) : o \in Values(RO)}) > 1
        \/ /\ OfKind(RO, "match") # {}
           /\ StateContradictsReceipt(SO, RO[Min(OfKind(RO, "match"))].receipt)
    BY <2>1, ContradictionRests DEF Evaluation
  <2>3. \A a \in Values(SO) :
          a.num = anchor.num /\ a.hash = anchor.hash /\ a.time = anchor.time /\ a.used = used
    BY StatesAlike DEF Values
  <2>4. anchor.num \in 1..Len(chain) /\ anchor = Block(anchor.num) /\ used = Used(anchor.num)
    BY <1>1, <2>1, ReadyIsTrue
  <2>5. ~StatesContradict(SO) BY <2>3, <2>4 DEF StatesContradict
  <2>6. ~asked \/ OneReceipt \/ \A s \in Source : receipt[s] = NoReceipt BY <1>1, <2>1, ReadyIsTrue
  <2>7. \A o, p \in Values(RO) : Fingerprint(o) = Fingerprint(p)
    BY <2>6, NoMatchWithoutReceipt, OneReceiptObserved
  <2>8. ~(Cardinality({Fingerprint(o) : o \in Values(RO)}) > 1)
    <3> DEFINE S == {Fingerprint(o) : o \in Values(RO)}
    <3>1. S = {} \/ \E x : S = {x} BY <2>7
    <3>2. S = {} => Cardinality(S) = 0 BY FS_EmptySet
    <3>3. \A x : S = {x} => Cardinality(S) = 1 BY FS_Singleton
    <3> HIDE DEF S
    <3>4. Cardinality(S) \in {0, 1} BY <3>1, <3>2, <3>3
    <3>5. ~(Cardinality(S) > 1) BY <3>4
    <3>6. QED BY <3>5 DEF S
  <2>9. OfKind(RO, "match") # {} /\ StateContradictsReceipt(SO, RO[Min(OfKind(RO, "match"))].receipt)
    BY <2>2, <2>5, <2>8
  <2>10. asked /\ ~\A s \in Source : receipt[s] = NoReceipt BY <2>9, NoMatchWithoutReceipt
  <2>11. /\ OneReceipt /\ r.block \in 1..anchor.num
         /\ r = Receipt(r.block, r.block, chain[r.block].does)
    BY <1>1, <2>1, <2>10, ReadyIsTrue
  <2>12. StateContradictsReceipt(SO, r)
    BY <2>9, <2>10, <2>11, MatchOfAll, OneReceiptObserved DEF Source
  <2>13. anchor.hash = anchor.num /\ r.hash = r.block BY <2>4, <2>11 DEF Block, Receipt
  <2>14. ~used
    <3>1. PICK a \in Values(SO) :
            \/ a.num = r.block /\ a.hash # r.hash
            \/ a.num >= r.block /\ ~a.used
            \/ a.num < r.block /\ a.used
      BY <2>12 DEF StateContradictsReceipt
    <3>2. a.num = anchor.num /\ a.hash = anchor.num /\ a.used = used BY <2>3, <2>13
    <3>3. ~(anchor.num < r.block) BY <2>4, <2>11
    <3>4. QED BY <2>13, <3>1, <3>2, <3>3
  <2>15. chain[r.block].does \notin Uses BY <2>4, <2>11, <2>14 DEF Used
  <2>16. r.uses = 0 BY <2>11, <2>15 DEF Receipt, Uses, Settlements
  <2>17. QED BY <2>11, <2>16 DEF OneReceipt
<1>2. QED BY <1>1, CollectionInvariance, PTL

-----------------------------------------------------------------------------
(* What the evidence kernel is promised.                                   *)

LEMMA VerdictTyped ==
  ASSUME NEW receipts, NEW states
  PROVE  EvaluateSettlement(receipts, states).status \in Report!Verdicts
BY DEF EvaluateSettlement, EvaluateMatch, EvaluateAbsence, Verdict, Settlement, Report!Verdicts

(* The verdict of a collection that is ready is kept.                      *)
LEMMA EvaluationStays ==
  ASSUME UNCHANGED collectionVars
  PROVE  phase' = phase /\ Evaluation' = Evaluation
BY DEF collectionVars, Evaluation, ReceiptObservations, StateObservations

(* An authorization that is used, or past its expiry, settles no more.     *)
LEMMA ChainHappens ==
  ASSUME ChainInv, Finalize
  PROVE  /\ SettledBy(Len(chain)) => SettledBy(Len(chain))'
         /\ Used(Len(chain)) => Used(Len(chain))'
         /\ chain[Len(chain)].time >= ValidBefore => (chain[Len(chain)].time >= ValidBefore)'
         /\ Used(Len(chain)) \/ chain[Len(chain)].time >= ValidBefore =>
              (SettledBy(Len(chain))' <=> SettledBy(Len(chain)))
         /\ SettledBy(Len(chain))' => Used(Len(chain))'
         /\ (\E i \in 1..Len(chain) : chain[i].does = "paysOtherwise") =>
              (\E i \in 1..Len(chain) : chain[i].does = "paysOtherwise")'
<1> DEFINE n == Len(chain)
<1>1. PICK block \in [time : Times, does : Contents] :
        /\ block.time > chain[n].time
        /\ Allowed(block)
        /\ chain' = Append(chain, block)
  BY DEF Finalize
<1>2. n \in Nat \ {0} /\ chain[n].time \in Nat /\ block.time \in Nat
  BY ChainElements DEF ChainInv, Heights, Times
<1>3. /\ Len(chain') = n + 1
      /\ \A i \in 1..n : chain'[i] = chain[i]
      /\ chain'[n + 1] = block
  BY <1>1 DEF ChainInv
<1>4. \A i : i \in 1..(n + 1) <=> i \in 1..n \/ i = n + 1 BY <1>2
<1>5. SettledBy(n) => SettledBy(n)' BY <1>3, <1>4 DEF SettledBy
<1>6. Used(n) => Used(n)' BY <1>3, <1>4 DEF Used
<1>7. chain[n].time >= ValidBefore => (chain[n].time >= ValidBefore)' BY <1>1, <1>2, <1>3
<1>8. SettledBy(n)' => SettledBy(n) \/ block.does \in Settlements BY <1>3, <1>4 DEF SettledBy
<1>9. block.does \in Settlements => ~Used(n) /\ ~(chain[n].time >= ValidBefore)
  BY <1>1, <1>2 DEF Allowed, Uses
<1>10. SettledBy(n)' => Used(n)' BY DEF SettledBy, Used, Uses
<1>11. (\E i \in 1..n : chain[i].does = "paysOtherwise") =>
         (\E i \in 1..n : chain[i].does = "paysOtherwise")'
  BY <1>3, <1>4
<1>12. QED BY <1>5, <1>6, <1>7, <1>8, <1>9, <1>10, <1>11

(* A collection that is ready keeps the promise of its verdict.            *)
PromiseKept == phase = "ready" => Report!Promised(Evaluation.status)

LEMMA ReadyIsPromised ==
  ASSUME IInv, ConfirmedIsSettled, AbsentForEver, Honest # {}
  PROVE  PromiseKept
<1> SUFFICES ASSUME phase = "ready" PROVE Report!Promised(Evaluation.status)
  BY DEF PromiseKept
<1>1. ASSUME Evaluation.status = "confirmed"
      PROVE  SettledBy(Len(chain)) \/ \E i \in 1..Len(chain) : chain[i].does = "paysOtherwise"
  BY <1>1 DEF ConfirmedIsSettled, SettledBy, Settlements
<1>2. ASSUME Evaluation.status = "absent"
      PROVE  chain[Len(chain)].time >= ValidBefore /\ ~SettledBy(Len(chain))
  <2>1. ~SettledBy(Len(chain)) BY <1>2 DEF AbsentForEver
  <2>2. ExpiredUnused(StateObservations) BY <1>2, AbsentRests DEF Evaluation
  <2>3. 1 \in Source /\ StateObservations[1] \in Values(StateObservations)
    BY StatesAlike DEF Values, Source
  <2>4. anchor.time > ValidBefore BY <2>2, <2>3, StatesAlike DEF ExpiredUnused
  <2>5. anchor.num \in 1..Len(chain) /\ chain[anchor.num].time = anchor.time
    BY ReadyIsTrue DEF Block
  <2>6. Len(chain) \in Heights /\ Len(chain) \in 1..Len(chain) BY DEF IInv, ChainInv, Heights
  <2>7. chain[Len(chain)].time \in Nat /\ chain[anchor.num].time \in Nat
    BY <2>5, <2>6, ChainElements DEF IInv, Times
  <2>8. anchor.num < Len(chain) => chain[anchor.num].time < chain[Len(chain)].time
    BY <2>5, <2>6 DEF IInv, ChainInv
  <2>9. anchor.num = Len(chain) \/ anchor.num < Len(chain) BY <2>5, <2>6 DEF Heights
  <2>10. chain[Len(chain)].time >= ValidBefore BY <2>4, <2>5, <2>7, <2>8, <2>9
  <2>11. QED BY <2>1, <2>10
<1>3. QED BY <1>1, <1>2 DEF Report!Promised

LEMMA StepKeepsPromise ==
  ASSUME IInv, PromiseKept', [Next]_vars
  PROVE  [Report!ReportNext]_Report!reportVars
<1> DEFINE verdict == IF phase = "ready" THEN Evaluation.status ELSE "none"
<1>1. CASE Collect
  <2>1. UNCHANGED chain /\ phase \in Rounds
    BY <1>1 DEF Collect, AnswerHead, AnswerAnchor, AnswerState, AnswerReceipt, AnswerCanonical, Answer,
                ChooseAnchor, AgreeOnAnchor, AgreeOnState, CompareReceipts, AgreeOnCanonical, Fail,
                EndOfRound, Rounds, chainVars
  <2>2. verdict = "none" BY <2>1 DEF Rounds
  <2>3. UNCHANGED <<SettledBy(Len(chain)), Used(Len(chain)) \/ chain[Len(chain)].time >= ValidBefore,
                    \E i \in 1..Len(chain) : chain[i].does = "paysOtherwise">>
    BY <2>1 DEF SettledBy, Used
  <2>4. CASE phase' = "ready"
    <3>1. verdict' \in Report!Verdicts BY <2>4, VerdictTyped DEF Evaluation
    <3>2. Report!Promised(Evaluation.status)' BY <2>4 DEF PromiseKept
    <3>3. Report!Promised(verdict') BY <2>1, <2>4, <3>2 DEF Report!Promised, SettledBy, Used
    <3>4. Report!Report BY <2>3, <3>1, <3>3 DEF Report!Report
    <3>5. QED BY <3>4 DEF Report!ReportNext
  <2>5. CASE phase' # "ready"
    <3>1. verdict' = verdict BY <2>2, <2>5
    <3>2. QED BY <2>3, <3>1 DEF Report!reportVars
  <2>6. QED BY <2>4, <2>5
<1>2. CASE World
  <2>1. verdict' = verdict BY <1>2, EvaluationStays DEF World
  <2>2. CASE Finalize
    <3> DEFINE settles == SettledBy(Len(chain))
               voided == Used(Len(chain)) \/ chain[Len(chain)].time >= ValidBefore
               pays == \E i \in 1..Len(chain) : chain[i].does = "paysOtherwise"
    <3>1. /\ settles => settles'
          /\ voided => voided' /\ (settles' <=> settles)
          /\ settles' => voided'
          /\ pays => pays'
      BY <2>2, ChainHappens DEF IInv
    <3>2. {settles, settles', voided', pays'} \subseteq BOOLEAN BY DEF SettledBy
    <3>3. voided => settles' = settles BY <3>1, <3>2
    <3> HIDE DEF settles, voided, pays
    <3>4. /\ settles' \in BOOLEAN /\ voided' \in BOOLEAN /\ pays' \in BOOLEAN
          /\ settles => settles'
          /\ voided => voided' /\ settles' = settles
          /\ settles' => voided'
          /\ pays => pays'
          /\ verdict' = verdict
      BY <2>1, <3>1, <3>2, <3>3
    <3>5. Report!Happen BY <3>4 DEF Report!Happen, settles, voided, pays
    <3>6. QED BY <3>5 DEF Report!ReportNext
  <2>3. CASE UNCHANGED chain
    <3>1. UNCHANGED <<SettledBy(Len(chain)), Used(Len(chain)) \/ chain[Len(chain)].time >= ValidBefore,
                      \E i \in 1..Len(chain) : chain[i].does = "paysOtherwise">>
      BY <2>3 DEF SettledBy, Used
    <3>2. QED BY <2>1, <3>1 DEF Report!reportVars
  <2>4. QED BY <1>2, <2>2, <2>3 DEF World, ChainNext, CatchUp
<1>3. CASE UNCHANGED vars
  <2>1. UNCHANGED chain /\ UNCHANGED collectionVars BY <1>3 DEF vars, chainVars
  <2>2. verdict' = verdict BY <2>1, EvaluationStays
  <2>3. UNCHANGED <<SettledBy(Len(chain)), Used(Len(chain)) \/ chain[Len(chain)].time >= ValidBefore,
                    \E i \in 1..Len(chain) : chain[i].does = "paysOtherwise">>
    BY <2>1 DEF SettledBy, Used
  <2>4. QED BY <2>2, <2>3 DEF Report!reportVars
<1>4. QED BY <1>1, <1>2, <1>3 DEF Next

(* With one honest source, collecting and evaluating Base evidence is a    *)
(* behaviour of SettlementReport, which is all the evidence kernel is      *)
(* proved from: a settlement that is confirmed was made, one that is       *)
(* absent never will be.                                                   *)
THEOREM CollectionKeepsPromise ==
  ASSUME Honest # {}
  PROVE  Spec => ImplementsReport
<1>1. Init => Report!ReportInit
  BY DEF Init, ChainInit, Report!ReportInit, SettledBy, Settlements
<1>2. IInv /\ PromiseKept' /\ [Next]_vars => [Report!ReportNext]_Report!reportVars
  BY StepKeepsPromise
<1>3. IInv /\ ConfirmedIsSettled /\ AbsentForEver => PromiseKept BY ReadyIsPromised
<1>4. QED
  BY <1>1, <1>2, <1>3, CollectionInvariance, ConfirmedSound, AbsenceSound, PTL
     DEF Spec, ImplementsReport, Report!ReportSpec

-----------------------------------------------------------------------------
(* The check of a transaction.                                             *)

Asked == {"anchor", "canonical"} \cup Settled

-----------------------------------------------------------------------------
(* The inductive invariant.                                                *)

(* The transaction is in one block at most.                                *)
OnceRequested ==
  \A i, j \in 1..Len(chain) :
    chain[i].does \in Requested /\ chain[j].does \in Requested => i = j

Answers == [head : Blocks \cup {NoAnswer}, receipt : Receipts \cup {NoReceipt, NoAnswer}]

Typed ==
  /\ step \in CheckRounds \cup Statuses \cup {"idle"}
  /\ initial \in [Source -> Answers]
  /\ reply \in [Source -> Blocks \cup {NoAnswer}]
  /\ held \in [Source -> Nat]
  /\ \A s \in Source : held[s] \in 1..seen[s]
  /\ step = "idle" => initial = Unasked
  /\ step \in {"idle", "initial"} => reply = Unanswered

(* When the first round has ended every source has answered, and the       *)
(* anchor is the head of one and not above the head of any.                *)
CheckAnchored ==
  step \in Asked =>
    /\ anchorNumber \in Heights /\ anchorNumber \in Heads
    /\ \A s \in Source : /\ initial[s].head \in Blocks
                         /\ initial[s].receipt \in Receipts \cup {NoReceipt}
                         /\ initial[s].head # NoAnswer /\ initial[s].receipt # NoAnswer
                         /\ anchorNumber <= initial[s].head.num

(* What an honest source says of the transaction: if it held it final when *)
(* the check began, what the chain has.                                    *)
TrueChecked(r, s) ==
  /\ r # NoReceipt => Actual(r) \/ r.hash \in OtherHash
  /\ \A n \in 1..held[s] : chain[n].does \in Requested => r = Receipt(n, n, chain[n].does)

CheckHonestInv(s) ==
  /\ step \in {"initial"} \cup Asked /\ initial[s].head # NoAnswer =>
       Final(initial[s].head, s) /\ held[s] <= initial[s].head.num
  /\ step \in {"initial"} \cup Asked /\ initial[s].receipt # NoAnswer =>
       TrueChecked(initial[s].receipt, s)
  /\ step = "anchor" /\ reply[s] # NoAnswer => reply[s] = Block(anchorNumber)
  /\ step = "canonical" /\ reply[s] # NoAnswer => reply[s] = Block(initial[1].receipt.block)

OneChecked ==
  step = "canonical" =>
    /\ \A s \in Source : initial[s].receipt = initial[1].receipt
    /\ initial[1].receipt \in Receipts
    /\ initial[1].receipt.block \in 1..anchorNumber

(* Every source that is honest held the transaction final at the start.    *)
HeldByAll(n) == n \in 1..Len(chain) /\ chain[n].does \in Requested /\ \A s \in Source : n <= held[s]

CheckInv ==
  /\ ChainInv
  /\ OnceRequested
  /\ Typed
  /\ CheckAnchored
  /\ \A s \in Honest : CheckHonestInv(s)
  /\ OneChecked
  /\ CheckedIsFinal
  /\ FinalWhenAsked

-----------------------------------------------------------------------------
(* Facts about receipts and outcomes.                                      *)

LEMMA ReceiptFields ==
  ASSUME NEW r \in Receipts
  PROVE  r.block \in Heights /\ (r.hash = r.block \/ r.hash \in OtherHash)
BY DEF Receipts, Receipt

(* What the check makes of the receipt of a final block is its outcome.    *)
LEMMA ObservedIsOutcome ==
  ASSUME NEW n, chain[n].does \in Requested
  PROVE  Observed(Receipt(n, n, chain[n].does)) = OutcomeAt(n)
<1> DEFINE does == chain[n].does
<1> SUFFICES ASSUME NEW r, r = Receipt(n, n, does) PROVE Observed(r) = OutcomeAt(n) OBVIOUS
<1>1. /\ r.ok = (does # "reverts")
      /\ does \in {"settles", "settlesTwice"} => r.pairs = 1
      /\ does \in {"reverts", "unrelated"} => r.pairs = 0
      /\ does \in {"paysOtherwise", "usesOtherwise"} => r.pairs = 2
  BY DEF Receipt
<1>2. does \in Requested OBVIOUS
<1>3. CASE does = "reverts" BY <1>1, <1>3 DEF Observed, OutcomeAt
<1>4. CASE does # "reverts"
  <2>1. r.ok BY <1>1, <1>4
  <2>2. QED BY <1>1, <1>2, <1>4, <2>1 DEF Observed, OutcomeAt, Requested
<1>5. QED BY <1>3, <1>4

LEMMA OutcomeTyped ==
  ASSUME NEW n, chain[n].does \in Requested
  PROVE  OutcomeAt(n) \in Settled
BY DEF OutcomeAt, Requested, Settled

LEMMA CheckedAnswersOK ==
  ASSUME CheckInv, NEW s \in Source, NEW a \in ReceiptAnswers(s)
  PROVE  a \in Receipts \cup {NoReceipt} /\ (s \in Honest => TrueChecked(a, s))
<1>1. a \in Receipts \cup {NoReceipt} /\ (s \in Honest => TrueAnswer(a, s))
  BY ReceiptAnswersTrue DEF CheckInv
<1>2. SUFFICES ASSUME TrueAnswer(a, s) PROVE TrueChecked(a, s) BY <1>1
<1>3. held[s] \in 1..seen[s] /\ seen[s] \in 1..Len(chain) BY DEF CheckInv, Typed, ChainInv
<1>4. \A n \in 1..held[s] : n \in 1..seen[s] /\ n \in 1..Len(chain) BY <1>3
<1>5. CASE Unseen(s) /\ (a = NoReceipt \/ Actual(a) \/ a.hash \in OtherHash)
  BY <1>4, <1>5 DEF Unseen, TrueChecked
<1>6. CASE a.block \in 1..seen[s] /\ Actual(a)
  <2>1. \A n \in 1..held[s] : chain[n].does \in Requested => n = a.block
    BY <1>4, <1>6 DEF CheckInv, OnceRequested, Actual
  <2>2. QED BY <1>6, <2>1 DEF TrueChecked, Actual
<1>7. QED BY <1>2, <1>5, <1>6 DEF TrueAnswer

-----------------------------------------------------------------------------
(* The chain grows.                                                        *)

LEMMA ChainKeepsOnce ==
  ASSUME ChainInv, OnceRequested, ChainNext
  PROVE  OnceRequested'
<1>1. CASE UNCHANGED chain BY <1>1 DEF OnceRequested
<1>2. CASE Finalize
  <2>1. PICK time \in Times, does \in Contents :
          LET block == [time |-> time, does |-> does]
          IN  Allowed(block) /\ chain' = Append(chain, block)
    BY <1>2 DEF Finalize
  <2> DEFINE n == Len(chain)
  <2>2. /\ n \in Nat /\ Len(chain') = n + 1
        /\ \A i \in 1..n : chain'[i] = chain[i]
        /\ chain'[n + 1].does = does
    BY <2>1 DEF ChainInv, Heights
  <2>3. does \in Requested => \A i \in 1..n : chain[i].does \notin Requested
    BY <2>1 DEF Allowed
  <2>4. \A i : i \in 1..(n + 1) <=> i \in 1..n \/ i = n + 1 BY <2>2
  <2>5. QED BY <2>2, <2>3, <2>4 DEF OnceRequested
<1>3. QED BY <1>1, <1>2 DEF ChainNext, CatchUp

LEMMA CheckWorldStep ==
  ASSUME CheckInv, ChainNext, UNCHANGED checkVars
  PROVE  CheckInv'
<1>1. ChainInv' /\ Grown BY ChainGrows DEF CheckInv
<1>2. OnceRequested' BY ChainKeepsOnce DEF CheckInv
<1>3. UNCHANGED <<step, initial, reply, anchorNumber, held>>
  BY DEF checkVars
<1>4. \A s \in Source : seen[s] \in 1..Len(chain) /\ seen'[s] \in Nat /\ seen[s] <= seen'[s]
  BY <1>1 DEF CheckInv, ChainInv, Grown, Heights
<1>5. Typed' BY <1>3, <1>4 DEF CheckInv, Typed
<1>6. CheckAnchored' BY <1>3 DEF CheckInv, CheckAnchored, Heads
<1>7. OneChecked' BY <1>3 DEF CheckInv, OneChecked
<1>8. CheckedIsFinal' /\ FinalWhenAsked'
  <2>1. \A n \in 1..Len(chain) : chain'[n] = chain[n] BY <1>1 DEF Grown
  <2>2. CheckedIsFinal'
    <3> SUFFICES ASSUME step \in Settled, Honest # {}
                 PROVE  LET n == initial[1].receipt.block
                        IN  /\ n \in 1..anchorNumber /\ chain'[n].does \in Requested
                            /\ step = OutcomeAt(n)'
                            /\ \A s \in Honest : anchorNumber <= seen'[s]
      BY <1>3 DEF CheckedIsFinal, OutcomeAt
    <3> DEFINE n == initial[1].receipt.block
    <3>1. /\ n \in 1..anchorNumber /\ chain[n].does \in Requested
          /\ step = OutcomeAt(n)
          /\ \A s \in Honest : s \in Source /\ anchorNumber <= seen[s]
      BY DEF CheckInv, CheckedIsFinal
    <3>2. anchorNumber \in Nat BY DEF CheckInv, CheckAnchored, Asked, Heights
    <3> HIDE DEF n
    <3>3. n \in 1..Len(chain) BY <1>4, <3>1, <3>2
    <3>4. chain'[n] = chain[n] /\ OutcomeAt(n)' = OutcomeAt(n) BY <1>3, <2>1, <3>3 DEF OutcomeAt, n
    <3>5. \A s \in Honest : anchorNumber <= seen'[s] BY <1>4, <3>1, <3>2
    <3> QED BY <3>1, <3>4, <3>5 DEF n
  <2>3. FinalWhenAsked'
    <3> SUFFICES ASSUME Honest = Source, step \in Statuses \ {"failed"}, NEW n \in 1..Len(chain'),
                        chain'[n].does \in Requested, \A s \in Source : n <= held[s]
                 PROVE  step = OutcomeAt(n)'
      BY <1>3 DEF FinalWhenAsked, OutcomeAt
    <3>1. 1 \in Source /\ held[1] \in 1..seen[1] BY DEF Source, CheckInv, Typed
    <3>2. n \in 1..Len(chain) BY <1>4, <3>1
    <3>3. chain'[n] = chain[n] /\ OutcomeAt(n)' = OutcomeAt(n) BY <2>1, <3>2 DEF OutcomeAt
    <3> QED BY <3>2, <3>3 DEF CheckInv, FinalWhenAsked
  <2> QED BY <2>2, <2>3
<1>9. ASSUME NEW s \in Honest PROVE CheckHonestInv(s)'
  <2>1. s \in Source /\ CheckHonestInv(s) /\ ChainInv /\ held[s] \in 1..seen[s] BY DEF CheckInv, Typed
  <2>2. ASSUME NEW n \in 1..seen[s]
        PROVE  n \in 1..Len(chain) /\ Block(n)' = Block(n) /\ chain'[n] = chain[n] /\ n \in 1..seen'[s]
    <3>1. n \in 1..Len(chain) /\ n \in 1..seen'[s] BY <1>4, <2>1
    <3>2. QED BY <1>1, <2>1, <3>1, FinalStays DEF Grown
  <2>3. ASSUME NEW b, Final(b, s) PROVE Final(b, s)'
    BY <2>2, <2>3 DEF Final
  <2>4. ASSUME NEW r, TrueChecked(r, s) PROVE TrueChecked(r, s)'
    <3>1. ASSUME Actual(r) PROVE Actual(r)'
      <4>1. chain'[r.block] = chain[r.block] /\ r.block \in 1..Len(chain')
        BY <1>1, <2>1, <3>1 DEF Grown, Actual, ChainInv, Heights
      <4>2. QED BY <3>1, <4>1 DEF Actual, Receipt
    <3>2. \A n \in 1..held[s] : chain'[n] = chain[n] BY <1>4, <2>1, <2>2
    <3>3. QED BY <1>3, <2>4, <3>1, <3>2 DEF TrueChecked, Receipt
  <2>5. step = "anchor" => Block(anchorNumber)' = Block(anchorNumber)
    <3> SUFFICES ASSUME step = "anchor" PROVE anchorNumber \in 1..seen[s]
      BY <1>3, <2>2 DEF Block
    <3>1. Final(initial[s].head, s) /\ anchorNumber \in Heights /\ anchorNumber <= initial[s].head.num
      BY <2>1 DEF CheckInv, CheckAnchored, Asked, CheckHonestInv
    <3>2. QED BY <1>4, <2>1, <3>1 DEF Final, Heights
  <2>6. step = "canonical" => Block(initial[1].receipt.block)' = Block(initial[1].receipt.block)
    <3> SUFFICES ASSUME step = "canonical" PROVE initial[1].receipt.block \in 1..seen[s]
      BY <1>3, <2>2 DEF Block
    <3>1. Final(initial[s].head, s) /\ anchorNumber \in Heights /\ anchorNumber <= initial[s].head.num
      BY <2>1 DEF CheckInv, CheckAnchored, Asked, CheckHonestInv
    <3>2. initial[1].receipt.block \in 1..anchorNumber BY DEF CheckInv, OneChecked
    <3>3. QED BY <1>4, <2>1, <3>1, <3>2 DEF Final, Heights
  <2>7. QED BY <1>3, <2>1, <2>3, <2>4, <2>5, <2>6 DEF CheckHonestInv
<1>10. QED BY <1>1, <1>2, <1>5, <1>6, <1>7, <1>8, <1>9 DEF CheckInv

-----------------------------------------------------------------------------
(* The beginning and the answers.                                          *)

LEMMA InitCheckInv == ChainInit /\ CheckInit => CheckInv
<1> SUFFICES ASSUME ChainInit, CheckInit PROVE CheckInv OBVIOUS
<1>1. ChainInv BY InitChainInv
<1>2. step = "idle" /\ initial = Unasked /\ reply = Unanswered /\ held = seen BY DEF CheckInit
<1>3. OnceRequested BY DEF ChainInit, OnceRequested
<1>4. \A s \in Source : seen[s] = 1 BY DEF ChainInit
<1>5. initial \in [Source -> Answers] BY <1>2 DEF Unasked, Answers
<1>6. reply \in [Source -> Blocks \cup {NoAnswer}] BY <1>2 DEF Unanswered
<1>7. Typed BY <1>2, <1>4, <1>5, <1>6 DEF Typed, ChainInit
<1>8. CheckAnchored /\ OneChecked BY <1>2 DEF CheckAnchored, OneChecked, Asked, Settled
<1>9. \A s \in Honest : CheckHonestInv(s) BY <1>2 DEF CheckHonestInv, Asked, Settled
<1>10. CheckedIsFinal /\ FinalWhenAsked
  BY <1>2 DEF CheckedIsFinal, FinalWhenAsked, Statuses, Settled
<1>11. QED BY <1>1, <1>3, <1>7, <1>8, <1>9, <1>10 DEF CheckInv

LEMMA BeginStep ==
  ASSUME CheckInv, Begin
  PROVE  CheckInv'
<1>1. /\ step = "idle" /\ step' = "initial" /\ held' = seen
      /\ UNCHANGED <<chain, seen, initial, reply, anchorNumber>>
  BY DEF Begin, chainVars
<1>2. ChainInv' /\ OnceRequested' BY <1>1 DEF CheckInv, ChainInv, OnceRequested
<1>3. initial = Unasked /\ reply = Unanswered BY <1>1 DEF CheckInv, Typed
<1>4. \A s \in Source : initial[s].head = NoAnswer /\ initial[s].receipt = NoAnswer
  BY <1>3 DEF Unasked
<1>5. \A s \in Source : seen[s] \in 1..seen[s] /\ seen[s] \in Nat
  BY DEF CheckInv, ChainInv, Heights
<1>6. Typed'
  <2>1. held' \in [Source -> Nat] BY <1>1, <1>5 DEF CheckInv, ChainInv
  <2>2. QED BY <1>1, <1>5, <2>1 DEF CheckInv, Typed, CheckRounds
<1>7. CheckAnchored' /\ OneChecked' BY <1>1 DEF CheckAnchored, OneChecked, Asked, Settled
<1>8. \A s \in Honest : CheckHonestInv(s)' BY <1>1, <1>4 DEF CheckHonestInv, Asked, Settled
<1>9. CheckedIsFinal' /\ FinalWhenAsked'
  BY <1>1 DEF CheckedIsFinal, FinalWhenAsked, Statuses, Settled
<1>10. QED BY <1>2, <1>6, <1>7, <1>8, <1>9 DEF CheckInv

(* Of an answer only the source that gives it has to account.              *)
LEMMA InitialStep ==
  ASSUME CheckInv, NEW s \in Source, GiveHead(s) \/ GiveReceipt(s)
  PROVE  CheckInv'
<1>1. /\ step = "initial" /\ UNCHANGED <<chain, seen, step, reply, anchorNumber, held>>
  BY DEF GiveHead, GiveReceipt, chainVars
<1>2. ChainInv' /\ OnceRequested' BY <1>1 DEF CheckInv, ChainInv, OnceRequested
<1>3. CheckAnchored' /\ OneChecked' BY <1>1 DEF CheckAnchored, OneChecked, Asked, Settled
<1>4. CheckedIsFinal' /\ FinalWhenAsked'
  BY <1>1 DEF CheckedIsFinal, FinalWhenAsked, Statuses, Settled
<1>5. initial \in [Source -> Answers] /\ step \in CheckRounds \cup Statuses \cup {"idle"} BY DEF CheckInv, Typed
<1>6. \A t \in Honest : t \in Source /\ CheckHonestInv(t) BY DEF CheckInv
<1>7. \A b, t : Final(b, t)' <=> Final(b, t) BY <1>1 DEF Final, Block
<1>8. \A r, t : TrueChecked(r, t)' <=> TrueChecked(r, t) BY <1>1 DEF TrueChecked, Actual
<1>9. CASE GiveHead(s)
  <2>1. PICK b \in HeadAnswers(s) : initial' = [initial EXCEPT ![s].head = b] BY <1>9 DEF GiveHead
  <2>2. b \in Blocks /\ (s \in Honest => Final(b, s)) BY HeadAnswersTrue DEF CheckInv
  <2>3. s \in Honest => held[s] <= b.num
    <3>1. s \in Honest => b = Block(seen[s]) BY <2>1 DEF HeadAnswers
    <3>2. Block(seen[s]).num = seen[s] BY DEF Block
    <3>3. held[s] \in 1..seen[s] /\ seen[s] \in Nat BY DEF CheckInv, Typed, ChainInv, Heights
    <3>4. QED BY <3>1, <3>2, <3>3
  <2>4. initial' \in [Source -> Answers] BY <1>5, <2>1, <2>2 DEF Answers
  <2>5. Typed' BY <1>1, <2>4 DEF CheckInv, Typed
  <2>6. ASSUME NEW t \in Honest PROVE CheckHonestInv(t)'
    <3>1. initial'[t].receipt = initial[t].receipt BY <1>5, <1>6, <2>1 DEF Answers
    <3>2. initial'[t].head # NoAnswer => Final(initial'[t].head, t) /\ held[t] <= initial'[t].head.num
      BY <1>1, <1>5, <1>6, <2>1, <2>2, <2>3 DEF CheckHonestInv, Answers
    <3>3. QED BY <1>1, <1>6, <1>7, <1>8, <3>1, <3>2 DEF CheckHonestInv, Asked, Settled
  <2>7. QED BY <1>2, <1>3, <1>4, <2>5, <2>6 DEF CheckInv
<1>10. CASE GiveReceipt(s)
  <2>1. PICK r \in ReceiptAnswers(s) : initial' = [initial EXCEPT ![s].receipt = r]
    BY <1>10 DEF GiveReceipt
  <2>2. r \in Receipts \cup {NoReceipt} /\ (s \in Honest => TrueChecked(r, s)) BY CheckedAnswersOK
  <2>3. initial' \in [Source -> Answers] BY <1>5, <2>1, <2>2 DEF Answers
  <2>4. Typed' BY <1>1, <2>3 DEF CheckInv, Typed
  <2>5. ASSUME NEW t \in Honest PROVE CheckHonestInv(t)'
    <3>1. initial'[t].head = initial[t].head BY <1>5, <1>6, <2>1 DEF Answers
    <3>2. initial'[t].receipt # NoAnswer => TrueChecked(initial'[t].receipt, t)
      BY <1>1, <1>5, <1>6, <2>1, <2>2 DEF CheckHonestInv, Answers
    <3>3. QED BY <1>1, <1>6, <1>7, <1>8, <3>1, <3>2 DEF CheckHonestInv, Asked, Settled
  <2>6. QED BY <1>2, <1>3, <1>4, <2>4, <2>5 DEF CheckInv
<1>11. QED BY <1>9, <1>10

LEMMA ReplyStep ==
  ASSUME CheckInv, NEW s \in Source, GiveAnchor(s) \/ GiveCanonical(s)
  PROVE  CheckInv'
<1>1. /\ step \in {"anchor", "canonical"}
      /\ UNCHANGED <<chain, seen, step, initial, anchorNumber, held>>
  BY DEF GiveAnchor, GiveCanonical, Reply, chainVars
<1>2. ChainInv' /\ OnceRequested' BY <1>1 DEF CheckInv, ChainInv, OnceRequested
<1>3. CheckAnchored' /\ OneChecked' BY <1>1 DEF CheckInv, CheckAnchored, OneChecked, Heads
<1>4. CheckedIsFinal' /\ FinalWhenAsked'
  BY <1>1 DEF CheckedIsFinal, FinalWhenAsked, Statuses, Settled
<1>5. \A t \in Honest : t \in Source /\ CheckHonestInv(t) BY DEF CheckInv
<1>6. \A b, t : Final(b, t)' <=> Final(b, t) BY <1>1 DEF Final, Block
<1>7. \A r, t : TrueChecked(r, t)' <=> TrueChecked(r, t) BY <1>1 DEF TrueChecked, Actual
<1>8. \A n : Block(n)' = Block(n) BY <1>1 DEF Block
<1> DEFINE n == IF step = "anchor" THEN anchorNumber ELSE initial[1].receipt.block
<1>9. anchorNumber \in Heights /\ n \in Heights /\ n <= anchorNumber
  <2>1. anchorNumber \in Heights BY <1>1 DEF CheckInv, CheckAnchored, Asked
  <2>2. step = "canonical" => initial[1].receipt.block \in 1..anchorNumber BY DEF CheckInv, OneChecked
  <2>3. QED BY <1>1, <2>1, <2>2 DEF Heights
<1>10. PICK a \in BlockAnswers(s, n) : reply' = [reply EXCEPT ![s] = a]
  BY DEF GiveAnchor, GiveCanonical, Reply
<1>11. s \in Honest => n <= seen[s]
  <2>1. SUFFICES ASSUME s \in Honest PROVE n <= seen[s] OBVIOUS
  <2>2. anchorNumber <= initial[s].head.num /\ initial[s].head # NoAnswer
    BY <1>1 DEF CheckInv, CheckAnchored, Asked
  <2>3. Final(initial[s].head, s) BY <1>1, <1>5, <2>1, <2>2 DEF CheckHonestInv, Asked
  <2>4. seen[s] \in Nat BY DEF CheckInv, ChainInv, Heights
  <2>5. QED BY <1>9, <2>2, <2>3, <2>4 DEF Final, Heights
<1>12. a \in Blocks /\ (s \in Honest => a = Block(n)) BY <1>9, <1>11, BlockAnswersTrue DEF CheckInv
<1>13. reply \in [Source -> Blocks \cup {NoAnswer}] BY DEF CheckInv, Typed
<1>14. Typed' BY <1>1, <1>10, <1>12, <1>13 DEF CheckInv, Typed
<1>15. ASSUME NEW t \in Honest PROVE CheckHonestInv(t)'
  <2>1. reply'[t] # NoAnswer => reply'[t] = Block(n)
    BY <1>1, <1>5, <1>10, <1>12, <1>13 DEF CheckHonestInv
  <2>2. QED BY <1>1, <1>5, <1>6, <1>7, <1>8, <2>1 DEF CheckHonestInv
<1>16. QED BY <1>2, <1>3, <1>4, <1>14, <1>15 DEF CheckInv

-----------------------------------------------------------------------------
(* The end of a round.                                                     *)

LEMMA AnchorStep ==
  ASSUME CheckInv, ChooseLowest
  PROVE  CheckInv'
<1>1. /\ step = "initial" /\ step' = "anchor"
      /\ \A s \in Source : initial[s].head # NoAnswer /\ initial[s].receipt # NoAnswer
      /\ anchorNumber' = CHOOSE n \in Heads : \A m \in Heads : n <= m
      /\ UNCHANGED <<chain, seen, initial, reply, held>>
  BY DEF ChooseLowest, chainVars
<1>2. ChainInv' /\ OnceRequested' BY <1>1 DEF CheckInv, ChainInv, OnceRequested
<1>3. initial \in [Source -> Answers] /\ reply = Unanswered BY <1>1 DEF CheckInv, Typed
<1>4. \A s \in Source : initial[s].head \in Blocks /\ initial[s].receipt \in Receipts \cup {NoReceipt}
  BY <1>1, <1>3 DEF Answers
<1>5. \A b \in Blocks : b.num \in Heights BY DEF Blocks, Heights
<1>6. Heads \subseteq Heights /\ Heads \subseteq Nat BY <1>4, <1>5 DEF Heads, Heights
<1>7. initial[1].head.num \in Heads BY DEF Heads, Source
<1>8. anchorNumber' \in Heads /\ \A m \in Heads : anchorNumber' <= m
  BY <1>1, <1>6, <1>7, LeastOfNaturals
<1>9. CheckAnchored' BY <1>1, <1>4, <1>6, <1>8 DEF CheckAnchored, Heads
<1>10. Typed' BY <1>1 DEF CheckInv, Typed, CheckRounds
<1>11. OneChecked' BY <1>1 DEF OneChecked
<1>12. CheckedIsFinal' /\ FinalWhenAsked'
  BY <1>1 DEF CheckedIsFinal, FinalWhenAsked, Statuses, Settled
<1>13. ASSUME NEW s \in Honest PROVE CheckHonestInv(s)'
  <2>1. CheckHonestInv(s) /\ s \in Source BY DEF CheckInv
  <2>2. Final(initial[s].head, s)' /\ held[s] <= initial[s].head.num
    BY <1>1, <2>1 DEF CheckHonestInv, Final, Block
  <2>3. TrueChecked(initial[s].receipt, s)' BY <1>1, <2>1 DEF CheckHonestInv, TrueChecked, Actual
  <2>4. reply'[s] = NoAnswer BY <1>1, <1>3, <2>1 DEF Unanswered
  <2>5. QED BY <1>1, <2>2, <2>3, <2>4 DEF CheckHonestInv
<1>14. QED BY <1>2, <1>9, <1>10, <1>11, <1>12, <1>13 DEF CheckInv

(* Every honest source holds the anchor, and when all are honest it is not *)
(* below what all of them held when the check began.                       *)
LEMMA AnchorHeld ==
  ASSUME CheckInv, step \in Asked
  PROVE  /\ \A s \in Honest : anchorNumber <= seen[s]
         /\ Honest = Source => \A n : HeldByAll(n) => n <= anchorNumber
<1>1. /\ anchorNumber \in Heights /\ anchorNumber \in Heads
      /\ \A s \in Source : initial[s].head # NoAnswer /\ anchorNumber <= initial[s].head.num
                           /\ initial[s].head \in Blocks
  BY DEF CheckInv, CheckAnchored
<1>2. \A s \in Honest : s \in Source /\ Final(initial[s].head, s) /\ held[s] <= initial[s].head.num
  BY <1>1 DEF CheckInv, CheckHonestInv
<1>3. \A s \in Source : seen[s] \in Nat /\ held[s] \in Nat BY DEF CheckInv, ChainInv, Typed, Heights
<1>4. \A s \in Honest : anchorNumber <= seen[s] BY <1>1, <1>2, <1>3 DEF Final, Heights
<1>5. ASSUME Honest = Source, NEW n, HeldByAll(n) PROVE n <= anchorNumber
  <2>1. PICK s \in Source : anchorNumber = initial[s].head.num BY <1>1 DEF Heads
  <2>2. n <= held[s] /\ n \in Nat BY <1>5 DEF HeldByAll
  <2>3. QED BY <1>1, <1>2, <1>3, <1>5, <2>1, <2>2 DEF Heights
<1>6. QED BY <1>4, <1>5

(* What a round that ends has to account for: a receipt that is looked up  *)
(* must be one, and a verdict must be right.                               *)
LEMMA GoOnStep ==
  ASSUME CheckInv, step \in CheckRounds, NEW to \in Statuses \cup {"canonical"}, GoOn(to),
         to \in Asked => step \in Asked,
         to = "canonical" =>
           /\ \A s \in Source : initial[s].receipt = initial[1].receipt
           /\ initial[1].receipt \in Receipts
           /\ initial[1].receipt.block \in 1..anchorNumber,
         CheckedIsFinal', FinalWhenAsked'
  PROVE  CheckInv'
<1>1. /\ step' = to /\ reply' = Unanswered
      /\ initial' = IF to \in Statuses \ Settled THEN Unasked ELSE initial
      /\ UNCHANGED <<chain, seen, anchorNumber, held>>
  BY DEF GoOn, chainVars
<1>2. ChainInv' /\ OnceRequested' BY <1>1 DEF CheckInv, ChainInv, OnceRequested
<1>3. to \notin {"idle", "initial", "anchor"} BY DEF Statuses, Settled
<1>4. to \in Asked => initial' = initial BY <1>1 DEF Asked, Statuses, Settled
<1>5. Typed'
  <2>1. Unasked \in [Source -> Answers] BY DEF Unasked, Answers
  <2>2. Unanswered \in [Source -> Blocks \cup {NoAnswer}] BY DEF Unanswered
  <2>3. step' \in CheckRounds \cup Statuses \cup {"idle"} BY <1>1 DEF CheckRounds
  <2>4. step' \notin {"idle", "initial"} BY <1>1, <1>3
  <2>5. initial' \in [Source -> Answers] BY <1>1, <2>1 DEF CheckInv, Typed
  <2>6. QED BY <1>1, <2>2, <2>3, <2>4, <2>5 DEF CheckInv, Typed
<1>6. CheckAnchored' BY <1>1, <1>4 DEF CheckInv, CheckAnchored, Heads
<1>7. OneChecked' BY <1>1, <1>4 DEF OneChecked, Asked
<1>8. ASSUME NEW s \in Honest PROVE CheckHonestInv(s)'
  <2>1. SUFFICES ASSUME to \in Asked PROVE CheckHonestInv(s)' BY <1>1, <1>3 DEF CheckHonestInv, Asked
  <2>2. step \in Asked /\ initial' = initial /\ CheckHonestInv(s) /\ s \in Source BY <1>4, <2>1 DEF CheckInv
  <2>3. initial[s].head # NoAnswer => Final(initial[s].head, s)' /\ held[s] <= initial[s].head.num
    BY <1>1, <2>2 DEF CheckHonestInv, Final, Block
  <2>4. initial[s].receipt # NoAnswer => TrueChecked(initial[s].receipt, s)'
    BY <1>1, <2>2 DEF CheckHonestInv, TrueChecked, Actual
  <2>5. reply'[s] = NoAnswer BY <1>1, <2>2 DEF Unanswered
  <2>6. QED BY <1>1, <2>2, <2>3, <2>4, <2>5 DEF CheckHonestInv
<1>9. QED BY <1>2, <1>5, <1>6, <1>7, <1>8 DEF CheckInv

(* When all are honest and held the transaction final, the anchors agree   *)
(* and all have the receipt of the chain.                                  *)
LEMMA AllHonestAgree ==
  ASSUME CheckInv, step = "anchor", \A s \in Source : reply[s] # NoAnswer,
         Honest = Source, NEW n, HeldByAll(n)
  PROVE  AnchorShared /\ AfterFirstRound = "canonical"
<1>1. /\ anchorNumber \in Heights
      /\ \A s \in Source : initial[s].head # NoAnswer /\ initial[s].receipt # NoAnswer
  BY DEF CheckInv, CheckAnchored, Asked
<1>2. \A s \in Source : /\ reply[s] = Block(anchorNumber)
                         /\ Final(initial[s].head, s) /\ TrueChecked(initial[s].receipt, s)
  BY <1>1 DEF CheckInv, CheckHonestInv, Asked
<1>3. 1 \in Source BY DEF Source
<1>4. AnchorShared
  <2>1. Block(anchorNumber).num = anchorNumber BY DEF Block
  <2>2. \A s \in Source : initial[s].head = Block(initial[s].head.num) BY <1>2 DEF Final
  <2>3. QED BY <1>2, <1>3, <2>1, <2>2 DEF AnchorShared
<1> DEFINE r == Receipt(n, n, chain[n].does)
<1>5. n \in Heights /\ n <= anchorNumber /\ chain[n].does \in Requested
  BY AnchorHeld, ChainElements DEF HeldByAll, CheckInv, Asked
<1>6. \A s \in Source : initial[s].receipt = r
  <2>1. \A s \in Source : held[s] \in Nat /\ n <= held[s] BY DEF CheckInv, Typed, HeldByAll
  <2>2. \A s \in Source : n \in 1..held[s] BY <1>5, <2>1 DEF Heights
  <2>3. QED BY <1>2, <1>5, <2>2 DEF TrueChecked
<1>7. r \in Receipts /\ r.block = n BY <1>5, ReceiptTyped
<1>8. r # NoReceipt BY <1>7, NullAssumption DEF NullAssumption
<1>9. ~(r.block > anchorNumber) BY <1>1, <1>5, <1>7 DEF Heights
<1> HIDE DEF r
<1>10. {s \in Source : initial[s].receipt # NoReceipt} = Source BY <1>6, <1>8
<1>11. {s \in Source : initial[s].receipt.block > anchorNumber} = {} BY <1>6, <1>9
<1>12. ~(\E s \in Source : initial[s].receipt # initial[1].receipt) BY <1>3, <1>6
<1>13. AfterFirstRound = "canonical" BY <1>3, <1>10, <1>11, <1>12 DEF AfterFirstRound
<1>14. QED BY <1>4, <1>13

LEMMA CompareAnchorsStep ==
  ASSUME CheckInv, CompareAnchors
  PROVE  CheckInv'
<1>1. step = "anchor" /\ \A s \in Source : reply[s] # NoAnswer BY DEF CompareAnchors
<1>2. PICK identified \in [Source -> BOOLEAN] :
        /\ \A s \in Honest : identified[s]
        /\ GoOn(IF ~AnchorShared THEN "contradiction"
                ELSE IF reply[1].time > CheckedAt THEN "failed"
                ELSE IF \E s \in Source : ~identified[s] THEN "contradiction"
                ELSE AfterFirstRound)
  BY DEF CompareAnchors
<1> DEFINE to == IF ~AnchorShared THEN "contradiction"
                 ELSE IF reply[1].time > CheckedAt THEN "failed"
                 ELSE IF \E s \in Source : ~identified[s] THEN "contradiction"
                 ELSE AfterFirstRound
<1>3. AfterFirstRound \in {"not_observed", "contradiction", "pending_finality", "canonical"}
  BY DEF AfterFirstRound
<1>4. to \in {"not_observed", "contradiction", "pending_finality", "canonical", "failed"} BY <1>3
<1>5. to = "canonical" =>
        /\ \A s \in Source : initial[s].receipt = initial[1].receipt
        /\ initial[1].receipt \in Receipts
        /\ initial[1].receipt.block \in 1..anchorNumber
  <2>1. SUFFICES ASSUME AfterFirstRound = "canonical"
                 PROVE  /\ \A s \in Source : initial[s].receipt = initial[1].receipt
                        /\ initial[1].receipt \in Receipts
                        /\ initial[1].receipt.block \in 1..anchorNumber
    OBVIOUS
  <2> DEFINE present == {s \in Source : initial[s].receipt # NoReceipt}
             beyond == {s \in present : initial[s].receipt.block > anchorNumber}
  <2>2. /\ present = Source /\ beyond = {}
        /\ ~(\E s \in Source : initial[s].receipt # initial[1].receipt)
    BY <2>1 DEF AfterFirstRound
  <2>3. 1 \in Source BY DEF Source
  <2>4. initial[1].receipt \in Receipts
    <3>1. initial[1].receipt \in Receipts \cup {NoReceipt} BY <1>1, <2>3 DEF CheckInv, CheckAnchored, Asked
    <3>2. initial[1].receipt # NoReceipt BY <2>2, <2>3
    <3>3. QED BY <3>1, <3>2
  <2>5. ~(initial[1].receipt.block > anchorNumber) BY <2>2, <2>3
  <2>6. initial[1].receipt.block \in Heights /\ anchorNumber \in Heights
    BY <1>1, <2>4, ReceiptFields DEF CheckInv, CheckAnchored, Asked
  <2>7. initial[1].receipt.block \in 1..anchorNumber BY <2>5, <2>6 DEF Heights
  <2>8. QED BY <2>2, <2>4, <2>7
<1>6. step' = to /\ UNCHANGED <<chain, seen, held>> BY <1>2 DEF GoOn, chainVars
<1>7. CheckedIsFinal' BY <1>4, <1>6 DEF CheckedIsFinal, Settled
<1>8. FinalWhenAsked'
  <2>1. SUFFICES ASSUME Honest = Source, to \in Statuses \ {"failed"},
                        NEW n \in 1..Len(chain),
                        chain[n].does \in Requested, \A s \in Source : n <= held[s]
                 PROVE  FALSE
    BY <1>6 DEF FinalWhenAsked
  <2>2. AnchorShared /\ AfterFirstRound = "canonical" BY <1>1, <2>1, AllHonestAgree DEF HeldByAll
  <2>3. \A s \in Source : identified[s] BY <1>2, <2>1
  <2>4. to \in {"failed", "canonical"} BY <2>2, <2>3
  <2>5. QED BY <2>1, <2>4 DEF Statuses, Settled
<1>9. step \in CheckRounds /\ step \in Asked /\ to \in Statuses \cup {"canonical"} /\ GoOn(to)
  BY <1>1, <1>2, <1>4 DEF CheckRounds, Asked, Statuses
<1> HIDE DEF to
<1>10. QED BY <1>5, <1>7, <1>8, <1>9, GoOnStep

(* A receipt whose block all sources have is the one of the chain.         *)
LEMMA CanonicalIsActual ==
  ASSUME CheckInv, step = "canonical", NEW s \in Honest, reply[s] # NoAnswer,
         reply[s].hash = initial[1].receipt.hash
  PROVE  Actual(initial[1].receipt)
<1> DEFINE r == initial[1].receipt
<1>1. s \in Source /\ initial[s].receipt = r /\ r \in Receipts /\ r.block \in 1..anchorNumber
  BY DEF CheckInv, OneChecked
<1>2. initial[s].receipt # NoAnswer BY <1>1 DEF CheckInv, CheckAnchored, Asked
<1>3. TrueChecked(r, s) /\ reply[s] = Block(r.block) BY <1>1, <1>2 DEF CheckInv, CheckHonestInv, Asked
<1>4. r.hash = r.block BY <1>3 DEF Block
<1>5. r.block \in Nat BY <1>1, ReceiptFields DEF Heights
<1>6. r.hash \notin OtherHash BY <1>4, <1>5, HashAssumption DEF HashAssumption
<1>7. r # NoReceipt BY <1>1, NullAssumption DEF NullAssumption
<1>8. QED BY <1>3, <1>6, <1>7 DEF TrueChecked

LEMMA CompareCanonicalStep ==
  ASSUME CheckInv, CompareCanonical
  PROVE  CheckInv'
<1> DEFINE r == initial[1].receipt
           agreed == \A s \in Source : /\ reply[s].num = r.block /\ reply[s].hash = r.hash
                                       /\ reply[s] = reply[1]
           to == IF agreed THEN Observed(r) ELSE "contradiction"
<1>1. /\ step = "canonical" /\ \A s \in Source : reply[s] # NoAnswer
      /\ GoOn(to)
  BY DEF CompareCanonical
<1>2. Observed(r) \in Settled BY DEF Observed, Settled
<1>3. to \in Settled \cup {"contradiction"} /\ to # "canonical" BY <1>2 DEF Settled
<1>4. step' = to /\ UNCHANGED <<chain, seen, anchorNumber, held>> /\ 1 \in Source
  BY <1>1 DEF GoOn, chainVars, Source
<1>5. CheckedIsFinal'
  <2>1. SUFFICES ASSUME to \in Settled, NEW h \in Honest PROVE CheckedIsFinal'
    BY <1>4 DEF CheckedIsFinal
  <2>2. agreed /\ to = Observed(r) BY <2>1 DEF Settled
  <2>3. initial' = initial BY <1>1, <2>1 DEF GoOn
  <2>4. Actual(r) BY <1>1, <2>2, CanonicalIsActual
  <2>5. r.block \in 1..anchorNumber BY <1>1 DEF CheckInv, OneChecked
  <2>6. Observed(r) = OutcomeAt(r.block) BY <2>4, ObservedIsOutcome DEF Actual
  <2>7. OutcomeAt(r.block)' = OutcomeAt(r.block) BY <1>4, <2>3 DEF OutcomeAt
  <2>8. \A s \in Honest : anchorNumber <= seen[s] BY <1>1, AnchorHeld DEF Asked
  <2>9. QED BY <1>4, <2>2, <2>3, <2>4, <2>5, <2>6, <2>7, <2>8 DEF CheckedIsFinal, Actual
<1>6. FinalWhenAsked'
  <2>1. SUFFICES ASSUME Honest = Source, NEW n \in 1..Len(chain),
                        chain[n].does \in Requested, \A s \in Source : n <= held[s]
                 PROVE  to = OutcomeAt(n)
    BY <1>4 DEF FinalWhenAsked, OutcomeAt
  <2>2. \A s \in Source : initial[s].receipt = r /\ initial[s].receipt # NoAnswer
    BY <1>1 DEF CheckInv, OneChecked, CheckAnchored, Asked
  <2>3. n \in 1..held[1] BY <1>4, <2>1
  <2>4. TrueChecked(r, 1) BY <1>1, <1>4, <2>1, <2>2 DEF CheckInv, CheckHonestInv, Asked
  <2>5. r = Receipt(n, n, chain[n].does) BY <2>1, <2>3, <2>4 DEF TrueChecked
  <2>6. r.block = n /\ r.hash = n BY <2>5 DEF Receipt
  <2>7. \A s \in Source : reply[s] = Block(n) BY <1>1, <2>1, <2>6 DEF CheckInv, CheckHonestInv
  <2>8. agreed BY <1>4, <2>6, <2>7 DEF Block
  <2>9. QED BY <2>1, <2>5, <2>8, ObservedIsOutcome
<1>7. step \in CheckRounds /\ step \in Asked /\ to \in Statuses \cup {"canonical"}
  BY <1>1, <1>3 DEF CheckRounds, Asked, Statuses
<1> HIDE DEF to
<1>8. QED BY <1>1, <1>3, <1>5, <1>6, <1>7, GoOnStep

LEMMA FailStep ==
  ASSUME CheckInv, CheckFails
  PROVE  CheckInv'
<1>1. step \in CheckRounds /\ GoOn("failed") BY DEF CheckFails
<1>2. step' = "failed" BY <1>1 DEF GoOn
<1>3. CheckedIsFinal' /\ FinalWhenAsked' BY <1>2 DEF CheckedIsFinal, FinalWhenAsked, Settled
<1>4. "failed" \in Statuses /\ "failed" \notin Asked BY DEF Statuses, Asked, Settled
<1>5. QED BY <1>1, <1>3, <1>4, GoOnStep

LEMMA StutterStep ==
  ASSUME CheckInv, UNCHANGED <<chainVars, checkVars>>
  PROVE  CheckInv'
<1>1. UNCHANGED <<chain, seen, step, initial, reply, anchorNumber, held>> BY DEF chainVars, checkVars
<1>2. ChainInv' /\ OnceRequested' /\ Typed' /\ CheckAnchored' /\ OneChecked'
  BY <1>1 DEF CheckInv, ChainInv, OnceRequested, Typed, CheckAnchored, OneChecked, Heads
<1>3. \A s \in Honest : CheckHonestInv(s)'
  BY <1>1 DEF CheckInv, CheckHonestInv, Final, Block, TrueChecked, Actual
<1>4. CheckedIsFinal' BY <1>1 DEF CheckInv, CheckedIsFinal, OutcomeAt
<1>5. FinalWhenAsked' BY <1>1 DEF CheckInv, FinalWhenAsked, OutcomeAt
<1>6. QED BY <1>2, <1>3, <1>4, <1>5 DEF CheckInv

LEMMA CheckStep ==
  ASSUME CheckInv, [Check \/ CheckWorld]_<<chainVars, checkVars>>
  PROVE  CheckInv'
BY CheckWorldStep, BeginStep, InitialStep, ReplyStep, AnchorStep, CompareAnchorsStep,
   CompareCanonicalStep, FailStep, StutterStep DEF Check, CheckWorld

THEOREM CheckInvariance == CheckSpec => []CheckInv
BY InitCheckInv, CheckStep, PTL DEF CheckSpec

(* The state of the check has its types.                                   *)
THEOREM CheckTyped == CheckSpec => []CheckTypeOK
<1>1. CheckInv => CheckTypeOK
  BY DEF CheckInv, CheckTypeOK, Typed, CheckAnchored, Asked
<1>2. QED BY <1>1, CheckInvariance, PTL

-----------------------------------------------------------------------------
(* What is reported.                                                       *)

(* With one honest source a verdict that counts as final is the outcome of *)
(* the transaction in a block below an anchor every honest source holds,   *)
(* however the other sources answer and whatever blocks are abandoned      *)
(* between the requests (collectBaseTransactionObservation).               *)
THEOREM CheckSound == CheckSpec => []CheckedIsFinal
BY CheckInvariance, PTL DEF CheckInv

(* When no source lies, what all of them held final before the check began *)
(* is reported, in whatever order and however late they answer             *)
(* (collectBaseTransactionObservation).                                    *)
THEOREM CheckComplete == CheckSpec => []FinalWhenAsked
BY CheckInvariance, PTL DEF CheckInv

-----------------------------------------------------------------------------
(* What the public verifier is promised.                                   *)

(* The outcome that is final at some height, "none" if there is none.      *)
LEMMA OutcomeIs ==
  ASSUME OnceRequested, NEW heights, NEW s \in Honest, NEW n \in 1..heights[s],
         \A t \in Honest : heights[t] \in 1..Len(chain),
         Len(chain) \in Nat, chain[n].does \in Requested
  PROVE  OutcomeOf(HonestlyFinal(heights)) = OutcomeAt(n)
<1>1. \A t \in Honest : RequestedUpTo(heights[t]) \subseteq {n} BY DEF RequestedUpTo, OnceRequested
<1>2. n \in RequestedUpTo(heights[s]) BY DEF RequestedUpTo
<1>3. HonestlyFinal(heights) = {n} BY <1>1, <1>2 DEF HonestlyFinal
<1>4. (CHOOSE m \in {n} : TRUE) = n OBVIOUS
<1>5. QED BY <1>3, <1>4 DEF OutcomeOf

LEMMA NoOutcome ==
  ASSUME NEW heights, \A s \in Honest : \A n \in 1..heights[s] : chain[n].does \notin Requested
  PROVE  OutcomeOf(HonestlyFinal(heights)) = "none"
BY DEF HonestlyFinal, RequestedUpTo, OutcomeOf

(* The same of the next state.                                             *)
LEMMA OutcomeWillBe ==
  ASSUME OnceRequested', NEW s \in Honest, NEW n \in 1..seen'[s],
         \A t \in Honest : seen'[t] \in 1..Len(chain'),
         Len(chain') \in Nat, chain'[n].does \in Requested
  PROVE  OutcomeOf(HonestlyFinal(seen))' = OutcomeAt(n)'
<1>1. \A t \in Honest : RequestedUpTo(seen[t])' \subseteq {n} BY DEF RequestedUpTo, OnceRequested
<1>2. n \in RequestedUpTo(seen[s])' BY DEF RequestedUpTo
<1>3. HonestlyFinal(seen)' = {n} BY <1>1, <1>2 DEF HonestlyFinal
<1>4. (CHOOSE m \in {n} : TRUE) = n OBVIOUS
<1>5. QED BY <1>3, <1>4 DEF OutcomeOf, OutcomeAt

(* A transaction all sources miss was not final at an honest one.          *)
LEMMA NotObservedUnheld ==
  ASSUME CheckInv, step = "anchor", AfterFirstRound = "not_observed"
  PROVE  \A s \in Honest : \A n \in 1..held[s] : chain[n].does \notin Requested
<1> TAKE s \in Honest
<1> TAKE n \in 1..held[s]
<1>1. SUFFICES ASSUME chain[n].does \in Requested PROVE FALSE OBVIOUS
<1>2. {t \in Source : initial[t].receipt # NoReceipt} = {} BY DEF AfterFirstRound
<1>3. s \in Source /\ initial[s].receipt = NoReceipt BY <1>2
<1>4. initial[s].receipt # NoAnswer BY <1>3 DEF CheckInv, CheckAnchored, Asked
<1>5. TrueChecked(NoReceipt, s) BY <1>3, <1>4 DEF CheckInv, CheckHonestInv, Asked
<1>6. NoReceipt = Receipt(n, n, chain[n].does) BY <1>1, <1>5 DEF TrueChecked
<1>7. n \in 1..Len(chain)
  <2>1. held[s] \in 1..seen[s] /\ seen[s] \in 1..Len(chain) BY <1>3 DEF CheckInv, Typed, ChainInv
  <2>2. QED BY <2>1
<1>8. Receipt(n, n, chain[n].does) \in Receipts
  BY <1>1, <1>7, ChainElements, ReceiptTyped DEF CheckInv
<1>9. QED BY <1>6, <1>8, NullAssumption DEF NullAssumption

(* The rounds leave the outcome alone, and a report keeps the promise.     *)
LEMMA CheckKeepsPromise ==
  ASSUME CheckInv, CheckInv', Honest # {}, Check
  PROVE  [Promise!ReportNext]_Promise!reportVars
<1> DEFINE outcome == OutcomeOf(HonestlyFinal(seen))
           began == OutcomeOf(HonestlyFinal(held))
           report == IF step \in Statuses THEN step ELSE "none"
<1>1. UNCHANGED <<chain, seen>>
  BY DEF Check, Begin, GiveHead, GiveReceipt, GiveAnchor, GiveCanonical, Reply,
         ChooseLowest, CompareAnchors, CompareCanonical, CheckFails, GoOn, chainVars
<1>2. UNCHANGED outcome BY <1>1 DEF HonestlyFinal, RequestedUpTo, OutcomeOf, OutcomeAt
<1>3. "idle" \notin Statuses /\ "none" \notin Statuses /\ CheckRounds \cap Statuses = {}
  BY DEF Statuses, Settled, CheckRounds
<1>4. step \in CheckRounds \cup {"idle"} /\ report = "none"
  BY <1>3 DEF Check, Begin, GiveHead, GiveReceipt, GiveAnchor, GiveCanonical, CheckRounds,
         ChooseLowest, CompareAnchors, CompareCanonical, CheckFails
<1>5. CASE Begin
  <2>1. step' = "initial" /\ held' = seen BY <1>5 DEF Begin
  <2>2. report' = "none" BY <1>3, <2>1 DEF CheckRounds
  <2>3. began' = outcome
    BY <1>1, <2>1 DEF HonestlyFinal, RequestedUpTo, OutcomeOf, OutcomeAt
  <2>4. Promise!Begin BY <1>2, <1>4, <2>2, <2>3 DEF Promise!Begin
  <2>5. QED BY <2>4 DEF Promise!ReportNext
<1>6. CASE ~Begin
  <2>1. UNCHANGED held
    BY <1>6 DEF Check, GiveHead, GiveReceipt, GiveAnchor, GiveCanonical, Reply,
         ChooseLowest, CompareAnchors, CompareCanonical, CheckFails, GoOn
  <2>2. UNCHANGED began
    BY <1>1, <2>1 DEF HonestlyFinal, RequestedUpTo, OutcomeOf, OutcomeAt
  <2>3. CASE step' \notin Statuses BY <1>2, <1>4, <2>2, <2>3 DEF Promise!reportVars
  <2>4. CASE step' \in Statuses
    <3>1. ASSUME step' \in Settled PROVE outcome = step'
      <4> DEFINE n == initial'[1].receipt.block
      <4>1. /\ n \in 1..anchorNumber' /\ chain[n].does \in Requested
            /\ step' = OutcomeAt(n)
            /\ \A s \in Honest : anchorNumber' <= seen[s]
        BY <1>1, <3>1 DEF CheckInv, CheckedIsFinal, OutcomeAt
      <4>2. PICK s \in Honest : TRUE OBVIOUS
      <4>3. \A t \in Honest : seen[t] \in 1..Len(chain) BY DEF CheckInv, ChainInv
      <4>4. anchorNumber' \in Heights /\ Len(chain) \in Heights
        BY <3>1 DEF CheckInv, CheckAnchored, Asked, ChainInv
      <4>5. n \in 1..seen[s] BY <4>1, <4>2, <4>3, <4>4 DEF Heights
      <4> HIDE DEF n
      <4>6. outcome = OutcomeAt(n) BY <4>1, <4>2, <4>3, <4>4, <4>5, OutcomeIs DEF CheckInv, Heights
      <4>7. QED BY <4>1, <4>6
    <3>2. ASSUME step' = "not_observed" PROVE began = "none"
      <4>1. CompareAnchors
        <5>1. Observed(initial[1].receipt) # "not_observed" BY DEF Observed
        <5>2. QED
          BY <1>3, <1>4, <1>6, <3>2, <5>1
             DEF Check, GiveHead, GiveReceipt, GiveAnchor, GiveCanonical, Reply,
                 ChooseLowest, CompareCanonical, CheckFails, GoOn, CheckRounds, Statuses
      <4>2. step = "anchor" /\ AfterFirstRound = "not_observed" BY <3>2, <4>1 DEF CompareAnchors, GoOn
      <4>3. QED BY <4>2, NotObservedUnheld, NoOutcome
    <3>3. report' = step' /\ report' \in Promise!Statuses
      BY <2>4 DEF Statuses, Settled, Promise!Statuses, Promise!Outcomes
    <3>4. Promise!Promised(report')
      BY <3>1, <3>2, <3>3 DEF Promise!Promised, Promise!Outcomes, Settled
    <3>5. Promise!Report BY <1>2, <1>4, <2>2, <3>3, <3>4 DEF Promise!Report, Promise!Promised
    <3>6. QED BY <3>5 DEF Promise!ReportNext
  <2>5. QED BY <2>3, <2>4
<1>7. QED BY <1>5, <1>6

(* What is final stays final, and what was held when the check began is    *)
(* not touched.                                                            *)
LEMMA WorldKeepsPromise ==
  ASSUME CheckInv, CheckInv', ChainNext, UNCHANGED checkVars
  PROVE  [Promise!ReportNext]_Promise!reportVars
<1> DEFINE outcome == OutcomeOf(HonestlyFinal(seen))
           began == OutcomeOf(HonestlyFinal(held))
           report == IF step \in Statuses THEN step ELSE "none"
<1>1. UNCHANGED <<step, held>> /\ UNCHANGED report BY DEF checkVars
<1>2. Grown BY ChainGrows DEF CheckInv
<1>3. /\ \A s \in Honest : seen[s] \in 1..Len(chain) /\ held[s] \in 1..seen[s]
      /\ \A s \in Honest : seen'[s] \in 1..Len(chain') /\ seen[s] <= seen'[s]
      /\ Len(chain) \in Nat /\ Len(chain') \in Nat
      /\ OnceRequested /\ OnceRequested'
  BY <1>2 DEF CheckInv, ChainInv, Typed, Grown, Heights
<1>4. \A n \in 1..Len(chain) : chain'[n] = chain[n] BY <1>2 DEF Grown
<1>5. \A s \in Honest : \A n \in 1..seen[s] :
        chain'[n] = chain[n] /\ OutcomeAt(n)' = OutcomeAt(n) /\ n \in 1..seen'[s]
  BY <1>3, <1>4 DEF OutcomeAt
<1>6. UNCHANGED began
  <2>1. \A s \in Honest : RequestedUpTo(held[s])' = RequestedUpTo(held[s])
    <3> TAKE s \in Honest
    <3>1. \A n \in 1..held[s] : n \in 1..seen[s] BY <1>3
    <3>2. QED BY <1>1, <1>5, <3>1 DEF RequestedUpTo
  <2>2. HonestlyFinal(held)' = HonestlyFinal(held) BY <2>1 DEF HonestlyFinal
  <2>3. CASE \E s \in Honest : \E n \in 1..held[s] : chain[n].does \in Requested
    <3>0. PICK s \in Honest : \E n \in 1..held[s] : chain[n].does \in Requested BY <2>3
    <3>1. PICK n \in 1..held[s] : chain[n].does \in Requested BY <3>0
    <3>2. \A i \in HonestlyFinal(held) : i = n
      BY <1>3, <3>1 DEF HonestlyFinal, RequestedUpTo, OnceRequested
    <3>3. HonestlyFinal(held) = {n} BY <3>1, <3>2 DEF HonestlyFinal, RequestedUpTo
    <3>4. (CHOOSE m \in {n} : TRUE) = n OBVIOUS
    <3>5. OutcomeAt(n)' = OutcomeAt(n) BY <1>3, <1>5
    <3>6. QED BY <2>2, <3>3, <3>4, <3>5 DEF OutcomeOf, OutcomeAt
  <2>4. CASE \A s \in Honest : \A n \in 1..held[s] : chain[n].does \notin Requested
    <3>1. HonestlyFinal(held) = {} BY <2>4 DEF HonestlyFinal, RequestedUpTo
    <3>2. QED BY <2>2, <3>1 DEF OutcomeOf
  <2>5. QED BY <2>3, <2>4
<1>7. CASE \E s \in Honest : \E n \in 1..seen[s] : chain[n].does \in Requested
  <2>0. PICK s \in Honest : \E n \in 1..seen[s] : chain[n].does \in Requested BY <1>7
  <2>1. PICK n \in 1..seen[s] : chain[n].does \in Requested BY <2>0
  <2>2. outcome = OutcomeAt(n) BY <1>3, <2>1, OutcomeIs
  <2>3. outcome' = OutcomeAt(n)' BY <1>3, <1>5, <2>1, OutcomeWillBe
  <2>4. QED BY <1>1, <1>5, <1>6, <2>2, <2>3 DEF Promise!reportVars
<1>8. CASE \A s \in Honest : \A n \in 1..seen[s] : chain[n].does \notin Requested
  <2>1. outcome = "none" BY <1>8, NoOutcome
  <2>2. CASE \E s \in Honest : \E n \in 1..seen'[s] : chain'[n].does \in Requested
    <3>0. PICK s \in Honest : \E n \in 1..seen'[s] : chain'[n].does \in Requested BY <2>2
    <3>1. PICK n \in 1..seen'[s] : chain'[n].does \in Requested BY <3>0
    <3>2. outcome' = OutcomeAt(n)' BY <1>3, <3>1, OutcomeWillBe
    <3>3. OutcomeAt(n)' \in Promise!Outcomes
      BY <3>1 DEF OutcomeAt, Requested, Promise!Outcomes
    <3>4. Promise!Happen BY <1>1, <1>6, <2>1, <3>2, <3>3 DEF Promise!Happen
    <3>5. QED BY <3>4 DEF Promise!ReportNext
  <2>3. CASE \A s \in Honest : \A n \in 1..seen'[s] : chain'[n].does \notin Requested
    <3>1. HonestlyFinal(seen)' = {} BY <2>3 DEF HonestlyFinal, RequestedUpTo
    <3>2. outcome' = "none" BY <3>1 DEF OutcomeOf
    <3>3. QED BY <1>1, <1>6, <2>1, <3>2 DEF Promise!reportVars
  <2>4. QED BY <2>2, <2>3
<1>9. QED BY <1>7, <1>8

LEMMA InitPromise ==
  ASSUME ChainInit, CheckInit
  PROVE  Promise!ReportInit
<1>1. chain = <<[time |-> 0, does |-> "nothing"]>> /\ held = seen /\ step = "idle"
  BY DEF ChainInit, CheckInit
<1>2. \A s \in Source : seen[s] = 1 BY DEF ChainInit
<1>3. \A s \in Honest : \A n \in 1..seen[s] : chain[n].does \notin Requested
  BY <1>1, <1>2 DEF Requested
<1>4. OutcomeOf(HonestlyFinal(seen)) = "none" BY <1>3, NoOutcome
<1>5. OutcomeOf(HonestlyFinal(held)) = "none" BY <1>1, <1>4
<1>6. step \notin Statuses BY <1>1 DEF Statuses, Settled
<1> QED BY <1>4, <1>5, <1>6 DEF Promise!ReportInit

LEMMA StutterKeepsPromise ==
  ASSUME UNCHANGED <<chainVars, checkVars>>
  PROVE  UNCHANGED Promise!reportVars
BY DEF chainVars, checkVars, Promise!reportVars, HonestlyFinal, RequestedUpTo, OutcomeOf, OutcomeAt

(* With one honest source a check is a behaviour of TransactionReport,     *)
(* which is all the public verifier relies on.                             *)
THEOREM CheckKeepsTransactionPromise ==
  ASSUME Honest # {}
  PROVE  CheckSpec => ImplementsTransactionReport
<1>1. ChainInit /\ CheckInit => Promise!ReportInit BY InitPromise
<1>2. CheckInv /\ CheckInv' /\ [Check \/ CheckWorld]_<<chainVars, checkVars>>
        => [Promise!ReportNext]_Promise!reportVars
  BY StutterKeepsPromise, CheckKeepsPromise, WorldKeepsPromise DEF CheckWorld
<1>3. QED
  BY <1>1, <1>2, CheckInvariance, PTL
     DEF CheckSpec, ImplementsTransactionReport, Promise!ReportSpec

-----------------------------------------------------------------------------
(* When no source lies: what is final at the anchor is reported.           *)

(* The transaction is in block n, which the anchor makes final, and the    *)
(* anchor is not from the future.                                          *)
Due(n) ==
  /\ n \in 1..AnchorNumber(head) /\ chain[n].does \in Requested
  /\ chain[AnchorNumber(head)].time <= CollectedAt

Given(n) == Receipt(n, n, chain[n].does)

(* No round finds a disagreement, every source has the receipt, and it is  *)
(* of the canonical block.                                                 *)
Reported ==
  Honest = Source /\ asked /\ phase \notin {"heads", "failed"} =>
    /\ phase \in Anchored => anchor.num = AnchorNumber(head)
    /\ \A n \in 1..AnchorNumber(head) : Due(n) =>
         /\ phase \notin {"contradiction", "pending"}
         /\ phase = "receipts" => \A s \in Source : answer[s] # NoAnswer => answer[s] = Given(n)
         /\ phase = "canonical" => \A s \in Source : answer[s] # NoAnswer => answer[s] = Block(n)
         /\ phase \in {"canonical", "ready"} => \A s \in Source : receipt[s] = Given(n)

ReportInv == IInv /\ OnceRequested /\ Reported

(* The anchor is final at every source when none of them lies.             *)
LEMMA AnchorFinal ==
  ASSUME IInv, Honest = Source, phase \notin {"heads", "failed"}
  PROVE  /\ AnchorNumber(head) \in Heights
         /\ \A s \in Source : /\ AnchorNumber(head) <= head[s].num /\ head[s].num \in 1..seen[s]
                              /\ AnchorNumber(head) \in 1..seen[s]
                              /\ head[s] = Block(head[s].num)
         /\ AnchorNumber(head) \in 1..Len(chain)
         /\ \A n \in 1..AnchorNumber(head) :
              n \in Heights /\ n \in 1..Len(chain) /\ \A s \in Source : n \in 1..seen[s]
<1>1. head \in [Source -> Blocks] /\ \A s \in Source : HonestInv(s) BY DEF IInv, TypeOK
<1>2. \A s \in Source : head[s].num \in 1..seen[s] /\ head[s] = Block(head[s].num)
  BY <1>1 DEF HonestInv, Final
<1>3. AnchorNumber(head) \in Heights /\ \A s \in Source : AnchorNumber(head) <= head[s].num
  BY <1>1, AnchorIsLowest
<1>4. \A s \in Source : seen[s] \in 1..Len(chain) /\ Len(chain) \in Heights /\ 1 \in Source
  BY DEF IInv, ChainInv, Source
<1>5. \A s \in Source : AnchorNumber(head) \in 1..seen[s]
  BY <1>2, <1>3, <1>4 DEF Heights
<1> QED BY <1>2, <1>3, <1>4, <1>5 DEF Heights, Source

LEMMA GivenTyped ==
  ASSUME IInv, NEW n \in 1..Len(chain), chain[n].does \in Requested
  PROVE  Given(n) \in Receipts /\ Given(n) # NoReceipt /\ Given(n).block = n /\ Given(n).hash = n
<1>1. n \in Heights BY ChainElements DEF IInv
<1>2. Given(n) \in Receipts /\ Given(n).block = n BY <1>1, ReceiptTyped DEF Given
<1>3. Given(n).hash = n BY DEF Given, Receipt
<1> QED BY <1>2, <1>3, NullAssumption DEF NullAssumption

(* The chain and the sources go on.                                        *)
LEMMA ReportWorldStep ==
  ASSUME ReportInv, World
  PROVE  ReportInv'
<1>1. IInv' BY CollectionStep DEF ReportInv, Next
<1>2. OnceRequested' BY ChainKeepsOnce DEF ReportInv, IInv, World
<1>3. Grown BY ChainGrows DEF ReportInv, IInv, World
<1>4. UNCHANGED <<asked, phase, answer, head, anchor, used, receipt>> BY DEF World, collectionVars
<1>5. AnchorNumber(head)' = AnchorNumber(head) BY <1>4 DEF AnchorNumber
<1>6. Reported'
  <2> SUFFICES ASSUME Honest = Source, asked, phase \notin {"heads", "failed"}
               PROVE  Reported'
    BY <1>4 DEF Reported
  <2>1. /\ AnchorNumber(head) \in 1..Len(chain)
        /\ \A n \in 1..AnchorNumber(head) : n \in 1..Len(chain)
    BY AnchorFinal DEF ReportInv
  <2>2. \A n \in 1..Len(chain) : chain'[n] = chain[n] BY <1>3 DEF Grown
  <2>3. \A n \in 1..AnchorNumber(head) :
          (Due(n)' <=> Due(n)) /\ Given(n)' = Given(n) /\ Block(n)' = Block(n)
    BY <1>5, <2>1, <2>2 DEF Due, Given, Block
  <2>4. /\ phase \in Anchored => anchor.num = AnchorNumber(head)
        /\ \A n \in 1..AnchorNumber(head) : Due(n) =>
             /\ phase \notin {"contradiction", "pending"}
             /\ phase = "receipts" => \A s \in Source : answer[s] # NoAnswer => answer[s] = Given(n)
             /\ phase = "canonical" => \A s \in Source : answer[s] # NoAnswer => answer[s] = Block(n)
             /\ phase \in {"canonical", "ready"} => \A s \in Source : receipt[s] = Given(n)
    BY DEF ReportInv, Reported
  <2> QED BY <1>4, <1>5, <2>3, <2>4 DEF Reported
<1> QED BY <1>1, <1>2, <1>6 DEF ReportInv

(* A source gives the one receipt it holds final, and the block of it.     *)
LEMMA ReportAnswerStep ==
  ASSUME ReportInv, NEW s \in Source,
         \/ AnswerHead(s) \/ AnswerAnchor(s) \/ AnswerState(s)
         \/ AnswerReceipt(s) \/ AnswerCanonical(s)
  PROVE  ReportInv'
<1>1. IInv' BY CollectionStep DEF ReportInv, Next, Collect
<1>2. UNCHANGED <<chain, seen, asked, phase, head, anchor, used, receipt>>
  BY DEF AnswerHead, AnswerAnchor, AnswerState, AnswerReceipt, AnswerCanonical, Answer, chainVars
<1>3. OnceRequested' BY <1>2 DEF ReportInv, OnceRequested
<1>4. AnchorNumber(head)' = AnchorNumber(head) BY <1>2 DEF AnchorNumber
<1>5. Reported'
  <2> SUFFICES ASSUME Honest = Source, asked, phase \notin {"heads", "failed"}
               PROVE  Reported'
    BY <1>2 DEF Reported
  <2>1. /\ \A n \in 1..AnchorNumber(head) :
             n \in Heights /\ n \in 1..Len(chain) /\ \A t \in Source : n \in 1..seen[t]
    BY AnchorFinal DEF ReportInv
  <2>2. \A n : (Due(n)' <=> Due(n)) /\ Given(n)' = Given(n) /\ Block(n)' = Block(n)
    BY <1>2, <1>4 DEF Due, Given, Block
  <2>3. phase \in Anchored => anchor.num = AnchorNumber(head) BY DEF ReportInv, Reported
  <2>4. ASSUME NEW n \in 1..AnchorNumber(head), Due(n)
        PROVE  /\ phase \notin {"contradiction", "pending"}
               /\ phase = "receipts" => \A t \in Source : answer'[t] # NoAnswer => answer'[t] = Given(n)
               /\ phase = "canonical" => \A t \in Source : answer'[t] # NoAnswer => answer'[t] = Block(n)
               /\ phase \in {"canonical", "ready"} => \A t \in Source : receipt[t] = Given(n)
    <3>1. /\ phase \notin {"contradiction", "pending"}
          /\ phase = "receipts" => \A t \in Source : answer[t] # NoAnswer => answer[t] = Given(n)
          /\ phase = "canonical" => \A t \in Source : answer[t] # NoAnswer => answer[t] = Block(n)
          /\ phase \in {"canonical", "ready"} => \A t \in Source : receipt[t] = Given(n)
      BY <2>4 DEF ReportInv, Reported
    <3>2. chain[n].does \in Requested /\ n \in 1..Len(chain) /\ n \in 1..seen[s] /\ n \in Heights
      BY <2>1, <2>4 DEF Due
    <3>3. ASSUME phase = "receipts"
          PROVE  \A t \in Source : answer'[t] # NoAnswer => answer'[t] = Given(n)
      <4>1. PICK a \in ReceiptAnswers(s) : answer' = [answer EXCEPT ![s] = a]
        BY <3>3 DEF AnswerHead, AnswerAnchor, AnswerState, AnswerReceipt, AnswerCanonical, Answer
      <4>2. TrueAnswer(a, s) BY ReceiptAnswersTrue DEF ReportInv, IInv
      <4>3. a.block \in 1..seen[s] /\ Actual(a) BY <3>2, <4>2 DEF TrueAnswer, Unseen
      <4>4. a.block = n BY <3>2, <4>3 DEF Actual, ReportInv, OnceRequested
      <4>5. a = Given(n) BY <4>3, <4>4 DEF Actual, Given
      <4>6. answer \in [Source -> Receipts \cup {NoReceipt, NoAnswer}]
        BY <3>3 DEF ReportInv, IInv, AnswerOK
      <4> QED BY <3>1, <3>3, <4>1, <4>5, <4>6
    <3>4. ASSUME phase = "canonical"
          PROVE  \A t \in Source : answer'[t] # NoAnswer => answer'[t] = Block(n)
      <4>1. PICK a \in BlockAnswers(s, receipt[1].block) : answer' = [answer EXCEPT ![s] = a]
        BY <3>4 DEF AnswerHead, AnswerAnchor, AnswerState, AnswerReceipt, AnswerCanonical, Answer
      <4>2. receipt[1].block = n BY <3>1, <3>2, <3>4, GivenTyped DEF Source, ReportInv
      <4>3. a = Block(n) BY <3>2, <4>1, <4>2 DEF BlockAnswers
      <4>4. answer \in [Source -> Blocks \cup {NoAnswer}] BY <3>4 DEF ReportInv, IInv, AnswerOK
      <4> QED BY <3>1, <3>4, <4>1, <4>3, <4>4
    <3> QED BY <3>1, <3>3, <3>4
  <2> QED BY <1>2, <1>4, <2>2, <2>3, <2>4 DEF Reported
<1> QED BY <1>1, <1>3, <1>5 DEF ReportInv

(* No round ends in a disagreement.                                        *)
LEMMA ReportRoundStep ==
  ASSUME ReportInv,
         ChooseAnchor \/ AgreeOnAnchor \/ AgreeOnState \/ CompareReceipts \/ AgreeOnCanonical \/ Fail
  PROVE  ReportInv'
<1>1. IInv /\ IInv' BY CollectionStep DEF ReportInv, Next, Collect
<1>2. UNCHANGED <<chain, seen, asked>> /\ answer' = Nothing
  BY DEF ChooseAnchor, AgreeOnAnchor, AgreeOnState, CompareReceipts, AgreeOnCanonical, Fail,
         EndOfRound, chainVars
<1>3. OnceRequested' BY <1>2 DEF ReportInv, OnceRequested
<1>4. \A s \in Source : answer'[s] = NoAnswer BY <1>2 DEF Nothing
<1>5. 1 \in Source BY DEF Source
<1>6. CASE Fail
  BY <1>1, <1>3, <1>6 DEF ReportInv, Reported, Fail
<1>7. CASE ChooseAnchor
  <2>1. phase' = "anchor" BY <1>7 DEF ChooseAnchor, EndOfRound
  <2>2. Reported' BY <1>4, <2>1 DEF Reported, Anchored
  <2> QED BY <1>1, <1>3, <2>2 DEF ReportInv
<1>8. CASE ~Fail /\ ~ChooseAnchor
  <2>1. /\ head' = head /\ phase \in {"anchor", "states", "receipts", "canonical"}
        /\ \A s \in Source : answer[s] # NoAnswer
    BY <1>8 DEF AgreeOnAnchor, AgreeOnState, CompareReceipts, AgreeOnCanonical, EndOfRound
  <2>2. AnchorNumber(head)' = AnchorNumber(head) BY <2>1 DEF AnchorNumber
  <2>3. SUFFICES ASSUME Honest = Source, asked PROVE Reported'
    BY <1>1, <1>2, <1>3 DEF ReportInv, Reported
  <2>4. \A n : (Due(n)' <=> Due(n)) /\ Given(n)' = Given(n)
    BY <1>2, <2>2 DEF Due, Given
  <2>5. /\ AnchorNumber(head) \in Heights
        /\ \A s \in Source : AnchorNumber(head) <= head[s].num /\ head[s] = Block(head[s].num)
        /\ \A n \in 1..AnchorNumber(head) : n \in Heights /\ n \in 1..Len(chain)
    BY <1>1, <2>1, <2>3, AnchorFinal
  <2>6. CASE AgreeOnAnchor
    <3>1. /\ phase = "anchor" /\ anchor' = answer[1]
          /\ phase' = IF AnchorAgreed(answer) THEN "states" ELSE "contradiction"
      BY <2>6 DEF AgreeOnAnchor, EndOfRound
    <3>2. \A s \in Source : answer[s] = Block(AnchorNumber(head))
      BY <1>1, <2>1, <2>3, <3>1 DEF IInv, HonestInv
    <3>3. anchor'.num = AnchorNumber(head) BY <1>5, <3>1, <3>2 DEF Block
    <3>4. chain[AnchorNumber(head)].time <= CollectedAt => AnchorAgreed(answer)
      <4>1. Block(AnchorNumber(head)).num = AnchorNumber(head)
            /\ Block(AnchorNumber(head)).time = chain[AnchorNumber(head)].time
        BY DEF Block
      <4>2. \A s \in Source : head[s].num = AnchorNumber(head) => head[s] = answer[s]
        BY <2>5, <3>2
      <4> QED BY <1>5, <3>2, <4>1, <4>2 DEF AnchorAgreed
    <3>5. \A n : Due(n) => phase' = "states" BY <3>1, <3>4 DEF Due
    <3>6. phase' \in {"states", "contradiction"} BY <3>1
    <3> QED BY <2>2, <2>4, <3>3, <3>5, <3>6 DEF Reported, Anchored
  <2>7. CASE AgreeOnState
    <3>1. /\ phase = "states" /\ anchor' = anchor
          /\ phase' = IF ~StatesAgreed(answer) THEN "contradiction"
                      ELSE IF asked THEN "receipts" ELSE "ready"
      BY <2>7 DEF AgreeOnState, EndOfRound
    <3>2. \A s \in Source : answer[s] = Used(anchor.num)
      BY <1>1, <2>1, <2>3, <3>1 DEF IInv, HonestInv
    <3>3. phase' = "receipts" BY <1>5, <2>3, <3>1, <3>2 DEF StatesAgreed
    <3>4. anchor'.num = AnchorNumber(head) BY <2>3, <3>1 DEF ReportInv, Reported, Anchored
    <3> QED BY <1>4, <2>2, <3>3, <3>4 DEF Reported
  <2>8. CASE CompareReceipts
    <3>1. /\ phase = "receipts" /\ anchor' = anchor /\ receipt' = answer
          /\ phase' = AfterReceipts(answer)
      BY <2>8 DEF CompareReceipts, EndOfRound
    <3>2. anchor.num = AnchorNumber(head) BY <2>3, <3>1 DEF ReportInv, Reported, Anchored
    <3>3. ASSUME NEW n \in 1..AnchorNumber(head), Due(n)
          PROVE  phase' = "canonical" /\ \A s \in Source : receipt'[s] = Given(n)
      <4>1. \A s \in Source : answer[s] = Given(n)
        BY <2>1, <2>3, <3>1, <3>3 DEF ReportInv, Reported
      <4>2. Given(n) # NoReceipt /\ Given(n).block = n
        BY <1>1, <2>5, <3>3, GivenTyped DEF Due
      <4>3. ~(n > anchor.num) BY <2>5, <3>2, <3>3 DEF Heights
      <4>4. {s \in Source : answer[s] # NoReceipt} = Source BY <4>1, <4>2
      <4>5. {s \in Source : answer[s].block > anchor.num} = {} BY <4>1, <4>2, <4>3
      <4>6. AfterReceipts(answer) = "canonical"
        BY <1>5, <4>1, <4>4, <4>5 DEF AfterReceipts
      <4> QED BY <3>1, <4>1, <4>6
    <3>4. phase' \in {"ready", "contradiction", "pending", "canonical"}
      BY <3>1 DEF AfterReceipts
    <3> QED BY <1>4, <2>2, <2>4, <3>1, <3>2, <3>3, <3>4 DEF Reported, Anchored
  <2>9. CASE AgreeOnCanonical
    <3>1. /\ phase = "canonical" /\ anchor' = anchor /\ receipt' = receipt
          /\ phase' = IF CanonicalAgreed(answer) THEN "ready" ELSE "contradiction"
      BY <2>9 DEF AgreeOnCanonical, EndOfRound
    <3>2. anchor.num = AnchorNumber(head) BY <2>3, <3>1 DEF ReportInv, Reported, Anchored
    <3>3. ASSUME NEW n \in 1..AnchorNumber(head), Due(n)
          PROVE  phase' = "ready" /\ \A s \in Source : receipt'[s] = Given(n)
      <4>1. \A s \in Source : answer[s] = Block(n) /\ receipt[s] = Given(n)
        BY <2>1, <2>3, <3>1, <3>3 DEF ReportInv, Reported
      <4>2. Given(n).hash = n /\ Given(n).block = n /\ Block(n).hash = n /\ Block(n).num = n
        BY <1>1, <2>5, <3>3, GivenTyped DEF Due, Block
      <4>3. CanonicalAgreed(answer) BY <1>5, <4>1, <4>2 DEF CanonicalAgreed
      <4> QED BY <3>1, <4>1, <4>3
    <3>4. phase' \in {"ready", "contradiction"} BY <3>1
    <3> QED BY <1>4, <2>2, <2>4, <3>2, <3>1, <3>3, <3>4 DEF Reported, Anchored
  <2> QED BY <1>8, <2>6, <2>7, <2>8, <2>9
<1> QED BY <1>6, <1>7, <1>8

LEMMA ReportStep ==
  ASSUME ReportInv, [Next]_vars
  PROVE  ReportInv'
<1>1. CASE Collect BY <1>1, ReportAnswerStep, ReportRoundStep DEF Collect
<1>2. CASE World BY <1>2, ReportWorldStep
<1>3. CASE UNCHANGED vars
  <2>1. UNCHANGED <<chain, seen, asked, phase, answer, head, anchor, used, receipt>>
    BY <1>3 DEF vars, chainVars, collectionVars
  <2>2. OnceRequested' BY <2>1 DEF ReportInv, OnceRequested
  <2>3. AnchorNumber(head)' = AnchorNumber(head) BY <2>1 DEF AnchorNumber
  <2>4. \A n : (Due(n)' <=> Due(n)) /\ Given(n)' = Given(n) /\ Block(n)' = Block(n)
    BY <2>1, <2>3 DEF Due, Given, Block
  <2>5. Reported' BY <2>1, <2>3, <2>4 DEF ReportInv, Reported
  <2>6. IInv' BY CollectionStep DEF ReportInv
  <2> QED BY <2>2, <2>5, <2>6 DEF ReportInv
<1> QED BY <1>1, <1>2, <1>3 DEF Next

LEMMA InitReportInv == Init => ReportInv
<1> SUFFICES ASSUME Init PROVE ReportInv OBVIOUS
<1>1. OnceRequested BY DEF Init, ChainInit, OnceRequested
<1>2. Reported BY DEF Init, Reported
<1> QED BY <1>1, <1>2, InitIInv DEF ReportInv

THEOREM ReportInvariance == Spec => []ReportInv
<1>1. ReportInv /\ [Next]_vars => ReportInv' BY ReportStep
<1> QED BY InitReportInv, <1>1, PTL DEF Spec

(* The verdict on one receipt that every source gave, of a final block.    *)
LEMMA StatusOfOne ==
  ASSUME ReportInv, Honest = Source, asked, phase = "ready",
         NEW n \in 1..AnchorNumber(head), Due(n)
  PROVE  LET o == ReceiptObservations[1]
         IN  /\ OneReceipt /\ receipt[1] = Given(n)
             /\ Evaluation.status =
                  IF ReceiptKind(o) = "duplicate" THEN "duplicate"
                  ELSE IF Faulted(o) THEN "mismatch"
                  ELSE IF ReceiptKind(o) = "match"
                  THEN EvaluateMatch(ReceiptObservations, StateObservations).status
                  ELSE EvaluateAbsence(StateObservations).status
<1> DEFINE RO == ReceiptObservations
           SO == StateObservations
<1>1. 1 \in Source BY DEF Source
<1>2. /\ \A s \in Source : anchor.num <= head[s].num
      /\ anchor.num = AnchorNumber(head) /\ anchor.num \in Nat
      /\ n \in 1..Len(chain) /\ n <= anchor.num
  <2>1. anchor.num = AnchorNumber(head) BY DEF ReportInv, Reported, Anchored
  <2> QED BY <2>1, AnchorFinal DEF ReportInv, Heights
<1>3. \A s \in Source : receipt[s] = Given(n) BY DEF ReportInv, Reported
<1>4. OneReceipt /\ receipt[1] = Given(n)
  BY <1>1, <1>2, <1>3, GivenTyped DEF OneReceipt, ReportInv, Due
<1>5. /\ DOMAIN RO = Source
      /\ \A s \in Source : ReceiptKind(RO[s]) = ReceiptKind(RO[1])
      /\ \A s \in Source : RO[s].receipt = receipt[1] /\ RO[s].canon = receipt[1].hash
                           /\ RO[s].head = anchor.num
      /\ \A o, p \in Values(RO) : Fingerprint(o) = Fingerprint(p)
  BY <1>4, OneReceiptObserved
<1>6. \A s \in Source : RO[s].source = s BY DEF ReceiptObservations
<1>7. DistinctSources(RO) BY <1>5, <1>6 DEF DistinctSources
<1>8. DistinctSources(SO) /\ ~\E a \in Values(SO) : a.head < a.num
  <2>1. DOMAIN SO = Source
        /\ \A s \in Source : SO[s].source = s /\ SO[s].head = head[s].num /\ SO[s].num = anchor.num
    BY DEF StateObservations
  <2>2. \A s \in Source : head[s].num \in Nat
    BY AnchorFinal DEF ReportInv, IInv, ChainInv, Heights
  <2> QED BY <1>2, <2>1, <2>2 DEF DistinctSources, Values
<1>9. ~StatesContradict(SO)
  <2>1. \A a \in Values(SO) :
          a.num = anchor.num /\ a.hash = anchor.hash /\ a.time = anchor.time /\ a.used = used
    BY StatesAlike DEF Values
  <2> QED BY <1>2, <2>1 DEF StatesContradict
<1>10. ~(Cardinality({Fingerprint(o) : o \in Values(RO)}) > 1)
  <2> DEFINE S == {Fingerprint(o) : o \in Values(RO)}
  <2>1. S = {} \/ \E x : S = {x} BY <1>5
  <2>2. S = {} => Cardinality(S) = 0 BY FS_EmptySet
  <2>3. \A x : S = {x} => Cardinality(S) = 1 BY FS_Singleton
  <2> HIDE DEF S
  <2>4. ~(Cardinality(S) > 1) BY <2>1, <2>2, <2>3
  <2> QED BY <2>4 DEF S
<1>11. \A kind : OfKind(RO, kind) # {} <=> ReceiptKind(RO[1]) = kind
  BY <1>1, <1>5 DEF OfKind
<1>12. (\E o \in Values(RO) : Faulted(o)) <=> Faulted(RO[1])
  BY <1>1, <1>5 DEF Values, Faulted, Reasons
<1>13. Evaluation.status =
         IF ReceiptKind(RO[1]) = "duplicate" THEN "duplicate"
         ELSE IF Faulted(RO[1]) THEN "mismatch"
         ELSE IF ReceiptKind(RO[1]) = "match" THEN EvaluateMatch(RO, SO).status
         ELSE EvaluateAbsence(SO).status
  <2> HIDE DEF RO, SO
  <2>1. Evaluation = EvaluateSettlement(RO, SO) BY DEF Evaluation, RO, SO
  <2> QED BY <1>7, <1>8, <1>9, <1>10, <1>11, <1>12, <2>1
          DEF EvaluateSettlement, Verdict, Settlement
<1> QED BY <1>4, <1>13

LEMMA MatchStatus ==
  ASSUME NEW receipts, NEW states, NEW matching, matching = OfKind(receipts, "match"),
         NEW confirmations,
         confirmations = Min({Confirmations(receipts[i].head, receipts[i].receipt.block) : i \in matching})
  PROVE  EvaluateMatch(receipts, states).status =
           IF StateContradictsReceipt(states, receipts[Min(matching)].receipt) THEN "contradiction"
           ELSE IF confirmations < MinimumConfirmations THEN "pending_finality" ELSE "confirmed"
BY DEF EvaluateMatch, Verdict, Settlement

LEMMA TrueVerdictIs ==
  ASSUME NEW n
  PROVE  /\ chain[n].does = "settles" =>
              TrueVerdict(n) = IF anchor.num - n + 1 >= MinimumConfirmations
                               THEN "confirmed" ELSE "pending_finality"
         /\ chain[n].does = "settlesTwice" => TrueVerdict(n) = "duplicate"
         /\ chain[n].does \in {"reverts", "unrelated"} => TrueVerdict(n) = "mismatch"
         /\ chain[n].does = "usesOtherwise" => TrueVerdict(n) = "unknown"
<1> DEFINE deep == anchor.num - n + 1 >= MinimumConfirmations
<1> HIDE DEF deep
<1>1. TrueVerdict(n) =
        CASE chain[n].does = "settles" -> IF deep THEN "confirmed" ELSE "pending_finality"
          [] chain[n].does = "settlesTwice" -> "duplicate"
          [] chain[n].does \in {"reverts", "unrelated"} -> "mismatch"
          [] chain[n].does = "usesOtherwise" -> "unknown"
  BY DEF TrueVerdict, deep
<1>2. ASSUME chain[n].does = "settles"
      PROVE  TrueVerdict(n) = IF deep THEN "confirmed" ELSE "pending_finality"
  BY <1>1, <1>2, Zenon
<1>3. chain[n].does = "settlesTwice" => TrueVerdict(n) = "duplicate"
  BY <1>1, Zenon
<1>4. chain[n].does \in {"reverts", "unrelated"} => TrueVerdict(n) = "mismatch"
  BY <1>1, Zenon
<1>5. chain[n].does = "usesOtherwise" => TrueVerdict(n) = "unknown"
  BY <1>1, Zenon
<1> QED BY <1>2, <1>3, <1>4, <1>5 DEF deep

LEMMA StatusIs ==
  ASSUME ReportInv, Honest = Source, asked, phase = "ready",
         NEW n \in 1..AnchorNumber(head), Due(n)
  PROVE  LET does == chain[n].does
             verdict == Evaluation.status
         IN  /\ does = "settles" =>
                  verdict = IF anchor.num - n + 1 >= MinimumConfirmations
                            THEN "confirmed" ELSE "pending_finality"
             /\ does = "settlesTwice" => verdict = "duplicate"
             /\ does \in {"reverts", "unrelated"} => verdict = "mismatch"
             /\ does = "usesOtherwise" => verdict = "unknown"
             /\ does = "paysOtherwise" =>
                  verdict \in {"confirmed", "pending_finality", "contradiction"}
<1> DEFINE RO == ReceiptObservations
           SO == StateObservations
           does == chain[n].does
           o == RO[1]
           r == Given(n)
<1>1. /\ OneReceipt /\ receipt[1] = r
      /\ Evaluation.status =
           IF ReceiptKind(o) = "duplicate" THEN "duplicate"
           ELSE IF Faulted(o) THEN "mismatch"
           ELSE IF ReceiptKind(o) = "match" THEN EvaluateMatch(RO, SO).status
           ELSE EvaluateAbsence(SO).status
  BY StatusOfOne
<1>2. /\ anchor.num = AnchorNumber(head) /\ anchor.num \in Nat
      /\ n \in 1..Len(chain) /\ n \in Nat /\ n >= 1 /\ n <= anchor.num /\ does \in Requested
  <2>1. anchor.num = AnchorNumber(head) BY DEF ReportInv, Reported, Anchored
  <2> QED BY <2>1, AnchorFinal DEF ReportInv, Heights, Due
<1>3. 1 \in Source /\ Honest # {} BY DEF Source
<1>4. /\ o.receipt = r /\ o.canon = r.hash /\ o.head = anchor.num
      /\ DOMAIN RO = Source
      /\ \A s \in Source : RO[s].receipt = r /\ RO[s].head = anchor.num
  BY <1>1, <1>3, OneReceiptObserved
<1>5. r # NoReceipt /\ r.block = n /\ r.hash = n BY <1>2, GivenTyped DEF ReportInv
<1>6. /\ r.ok = (does # "reverts")
      /\ r.transfers = IF does = "settlesTwice" THEN 2
                       ELSE IF does \in {"settles", "paysOtherwise"} THEN 1 ELSE 0
      /\ r.uses = IF does \in {"settles", "settlesTwice", "usesOtherwise"} THEN 1 ELSE 0
      /\ r.paired = (does \in {"settles", "settlesTwice"})
      /\ r.mixed = (does \in {"paysOtherwise", "usesOtherwise"})
  BY DEF Given, Receipt
<1>7. /\ anchor = Block(anchor.num) /\ used = Used(anchor.num)
  BY <1>3, ReadyIsTrue DEF ReportInv
<1>8. \A a \in Values(SO) : a.num = anchor.num /\ a.hash = anchor.num /\ a.used = used
  BY <1>7, StatesAlike DEF Values, Block
<1>9. does \in Uses => used BY <1>2, <1>7 DEF Used
<1> HIDE DEF r, o, does, RO, SO
<1>10. CASE does \in {"reverts", "unrelated"}
  <2>1. Faulted(o) BY <1>4, <1>5, <1>6, <1>10 DEF Faulted, Reasons
  <2>2. ReceiptKind(o) = "mismatch" BY <2>1 DEF ReceiptKind
  <2> QED BY <1>1, <1>10, <2>1, <2>2 DEF does
<1>11. CASE does \notin {"reverts", "unrelated"}
  <2>1. ~Faulted(o)
    <3>1. r.ok BY <1>6, <1>11
    <3>2. ~(anchor.num < r.block) BY <1>2, <1>5
    <3>3. CASE does = "settles"
      <4>1. r.transfers = 1 /\ r.uses = 1 /\ r.paired BY <1>6, <3>3
      <4> QED BY <1>4, <1>5, <3>1, <3>2, <4>1 DEF Faulted, Reasons
    <3>4. CASE does = "settlesTwice"
      <4>1. r.transfers = 2 /\ r.uses = 1 /\ r.paired BY <1>6, <3>4
      <4> QED BY <1>4, <1>5, <3>1, <3>2, <4>1 DEF Faulted, Reasons
    <3>5. CASE does = "paysOtherwise"
      <4>1. r.transfers = 1 /\ r.uses = 0 /\ r.mixed BY <1>6, <3>5
      <4> QED BY <1>4, <1>5, <3>1, <3>2, <4>1 DEF Faulted, Reasons
    <3>6. CASE does = "usesOtherwise"
      <4>1. r.transfers = 0 /\ r.uses = 1 /\ r.mixed BY <1>6, <3>6
      <4> QED BY <1>4, <1>5, <3>1, <3>2, <4>1 DEF Faulted, Reasons
    <3> QED BY <1>2, <1>11, <3>3, <3>4, <3>5, <3>6 DEF Requested
  <2>2. CASE does = "settlesTwice"
    <3>1. ReceiptKind(o) = "duplicate" BY <1>4, <1>5, <1>6, <2>1, <2>2 DEF ReceiptKind
    <3> QED BY <1>1, <2>2, <3>1 DEF does
  <2>3. CASE does = "usesOtherwise"
    <3>1. ReceiptKind(o) = "mismatch" BY <1>4, <1>5, <1>6, <2>1, <2>3 DEF ReceiptKind
    <3>2. used BY <1>9, <2>3 DEF Uses
    <3>3. SO[1] \in Values(SO) BY <1>3, StatesAlike DEF Values, SO
    <3>4. ~ExpiredUnused(SO) BY <1>8, <3>2, <3>3 DEF ExpiredUnused
    <3>5. EvaluateAbsence(SO).status = "unknown" BY <3>4 DEF EvaluateAbsence, Verdict, Settlement
    <3> QED BY <1>1, <2>1, <2>3, <3>1, <3>5 DEF does
  <2>4. CASE does \in {"settles", "paysOtherwise"}
    <3> DEFINE m == OfKind(RO, "match")
               c == anchor.num - n + 1
               C == {Confirmations(RO[i].head, RO[i].receipt.block) : i \in m}
    <3>1. ReceiptKind(o) = "match" BY <1>4, <1>5, <1>6, <2>1, <2>4 DEF ReceiptKind
    <3>2. m # {} BY <1>3, <1>4, <3>1 DEF OfKind, o
    <3>3. m = Source /\ Min(m) = 1 BY <1>1, <3>2, MatchOfAll DEF RO
    <3>4. C = {c}
      <4>1. \A i \in Source : Confirmations(RO[i].head, RO[i].receipt.block) = c
        BY <1>2, <1>4, <1>5 DEF Confirmations
      <4> QED BY <1>3, <3>3, <4>1
    <3>5. c \in Nat BY <1>2
    <3>6. Min(C) = c BY <3>4, <3>5, MinOfNaturals
    <3>7. RO[Min(m)].receipt = r BY <1>3, <1>4, <3>3
    <3>8. Evaluation.status = EvaluateMatch(RO, SO).status BY <1>1, <2>1, <3>1
    <3> HIDE DEF m, C, c
    <3>9. EvaluateMatch(RO, SO).status =
            IF StateContradictsReceipt(SO, r) THEN "contradiction"
            ELSE IF c < MinimumConfirmations THEN "pending_finality" ELSE "confirmed"
      <4>1. m = OfKind(RO, "match") BY DEF m
      <4>2. c = Min({Confirmations(RO[i].head, RO[i].receipt.block) : i \in m})
        BY <3>6 DEF C
      <4>3. EvaluateMatch(RO, SO).status =
              IF StateContradictsReceipt(SO, RO[Min(m)].receipt) THEN "contradiction"
              ELSE IF c < MinimumConfirmations THEN "pending_finality" ELSE "confirmed"
        BY ONLY <4>1, <4>2, MatchStatus
      <4> QED BY <3>7, <4>3
    <3>10. does = "settles" => ~StateContradictsReceipt(SO, r)
      <4> SUFFICES ASSUME does = "settles", NEW a \in Values(SO)
                   PROVE  /\ ~(a.num = r.block /\ a.hash # r.hash)
                          /\ ~(a.num >= r.block /\ ~a.used)
                          /\ ~(a.num < r.block /\ a.used)
        BY Zenon DEF StateContradictsReceipt
      <4>1. used BY <1>9 DEF Uses, Settlements
      <4>2. a.used BY <4>1, <1>8
      <4>3. a.num = anchor.num /\ a.hash = anchor.num BY <1>8
      <4>4. ~(a.num < r.block) /\ (a.num = r.block => a.hash = r.hash)
        BY <4>3, <1>2, <1>5
      <4> QED BY <4>2, <4>4
    <3> QED BY <2>4, <3>5, <3>8, <3>9, <3>10 DEF does, c
  <2> QED BY <1>2, <1>11, <2>2, <2>3, <2>4 DEF Requested
<1> QED BY <1>10, <1>11

(* When no source lies, a transaction that is final at the anchor is       *)
(* reported with the verdict the chain gives: no lag of a source and no    *)
(* order of the answers makes collectBaseEvidence throw or wait, or        *)
(* evaluateBaseSettlement see something else.                              *)
THEOREM ReportComplete == Spec => []FinalIsReported
<1>1. ReportInv => FinalIsReported
  <2> SUFFICES ASSUME ReportInv, Honest = Source, asked, phase \in Ends \ {"failed"},
                      NEW n \in 1..AnchorNumber(head),
                      chain[n].does \in Requested \ {"paysOtherwise"},
                      chain[AnchorNumber(head)].time <= CollectedAt
               PROVE  phase = "ready" /\ Evaluation.status = TrueVerdict(n)
    BY DEF FinalIsReported
  <2>1. Due(n) BY DEF Due
  <2>2. phase = "ready" BY <2>1 DEF ReportInv, Reported, Ends
  <2>3. Evaluation.status = TrueVerdict(n)
    <3>1. chain[n].does \in {"settles", "settlesTwice", "reverts", "unrelated", "usesOtherwise"}
      BY DEF Requested
    <3> QED BY <2>1, <2>2, <3>1, StatusIs, TrueVerdictIs
  <2> QED BY <2>2, <2>3
<1> QED BY <1>1, ReportInvariance, PTL

-----------------------------------------------------------------------------
(* The readers side by side.                                               *)

LEMMA CollectionOfReaders ==
  ASSUME [ReadersNext]_readersVars
  PROVE  [Next]_vars
<1>1. CASE Public
  <2>1. UNCHANGED chainVars
    BY <1>1 DEF Public, Check, Begin, GiveHead, GiveReceipt, GiveAnchor, GiveCanonical, Reply,
           ChooseLowest, CompareAnchors, CompareCanonical, CheckFails, GoOn
  <2>2. UNCHANGED collectionVars BY <1>1 DEF Public
  <2> QED BY <2>1, <2>2 DEF vars
<1>2. CASE Operator BY <1>2 DEF Operator, Next
<1>3. CASE Around BY <1>3 DEF Around, Next, World, Ends
<1>4. CASE UNCHANGED readersVars BY <1>4 DEF readersVars, vars
<1> QED BY <1>1, <1>2, <1>3, <1>4 DEF ReadersNext

(* Beside the public verifier the operator still collects as alone: what   *)
(* holds of every collection holds here.                                   *)
THEOREM ReadersCollect == ReadersSpec => Spec
<1>1. ReadersInit => Init BY DEF ReadersInit
<1>2. [ReadersNext]_readersVars => [Next]_vars BY CollectionOfReaders
<1> QED BY <1>1, <1>2, PTL DEF ReadersSpec, Spec

LEMMA CollectLeavesChain ==
  ASSUME Collect
  PROVE  UNCHANGED chainVars
BY DEF Collect, AnswerHead, AnswerAnchor, AnswerState, AnswerReceipt, AnswerCanonical, Answer,
       ChooseAnchor, AgreeOnAnchor, AgreeOnState, CompareReceipts, AgreeOnCanonical, EndOfRound, Fail

LEMMA ReadersCheckStep ==
  ASSUME CheckInv, [ReadersNext]_readersVars
  PROVE  CheckInv'
<1>1. CASE Public BY <1>1, CheckStep DEF Public
<1>2. CASE Operator BY <1>2, CollectLeavesChain, StutterStep DEF Operator
<1>3. CASE Around BY <1>3, CheckWorldStep DEF Around
<1>4. CASE UNCHANGED readersVars BY <1>4, StutterStep DEF readersVars
<1> QED BY <1>1, <1>2, <1>3, <1>4 DEF ReadersNext

THEOREM ReadersCheckInvariance == ReadersSpec => []CheckInv
<1>1. ReadersInit => CheckInv BY InitCheckInv DEF ReadersInit, Init
<1>2. CheckInv /\ [ReadersNext]_readersVars => CheckInv' BY ReadersCheckStep
<1> QED BY <1>1, <1>2, PTL DEF ReadersSpec

(* Nor does the operator disturb the public verifier: a verdict that counts *)
(* as final stays true while the evidence is collected and the chain grows. *)
THEOREM ReadersCheckSound == ReadersSpec => []CheckedIsFinal
BY ReadersCheckInvariance, PTL DEF CheckInv

(* And when no source lies it is the outcome of what was final when the    *)
(* check began.                                                            *)
THEOREM ReadersCheckComplete == ReadersSpec => []FinalWhenAsked
BY ReadersCheckInvariance, PTL DEF CheckInv

(* Beside a collection, too, the check keeps the promise the public        *)
(* verifier relies on.                                                     *)
THEOREM ReadersKeepPromise ==
  ASSUME Honest # {}
  PROVE  ReadersSpec => ImplementsTransactionReport
<1>1. ReadersInit => Promise!ReportInit BY InitPromise DEF ReadersInit, Init
<1>2. CheckInv /\ CheckInv' /\ [ReadersNext]_readersVars
        => [Promise!ReportNext]_Promise!reportVars
  <2> SUFFICES ASSUME CheckInv, CheckInv', [ReadersNext]_readersVars
               PROVE  [Promise!ReportNext]_Promise!reportVars
    OBVIOUS
  <2>1. CASE Public BY <2>1, CheckKeepsPromise DEF Public
  <2>2. CASE Operator BY <2>2, CollectLeavesChain, StutterKeepsPromise DEF Operator
  <2>3. CASE Around BY <2>3, WorldKeepsPromise DEF Around
  <2>4. CASE UNCHANGED readersVars BY <2>4, StutterKeepsPromise DEF readersVars
  <2> QED BY <2>1, <2>2, <2>3, <2>4 DEF ReadersNext
<1> QED
  BY <1>1, <1>2, ReadersCheckInvariance, PTL
     DEF ReadersSpec, ImplementsTransactionReport, Promise!ReportSpec

(* What is collected after a check that found the outcome is not below its *)
(* anchor: every source already held that final.                           *)
NotBelow ==
  Honest = Source /\ step \in Settled =>
    /\ phase = "heads" => \A s \in Source : answer[s] # NoAnswer => anchorNumber <= answer[s].num
    /\ phase \notin {"heads", "failed"} => \A s \in Source : anchorNumber <= head[s].num

ReadersInv == CheckInv /\ ReportInv /\ NotBelow

(* A collection begins after the check, so its heads are not below what    *)
(* the check saw final; later rounds leave them alone.                     *)
LEMMA CollectNotBelow ==
  ASSUME CheckInv, ReportInv, NotBelow, Collect, UNCHANGED checkVars
  PROVE  NotBelow'
<1> SUFFICES ASSUME Honest = Source, step \in Settled
             PROVE  /\ phase' = "heads" =>
                         \A s \in Source : answer'[s] # NoAnswer => anchorNumber <= answer'[s].num
                    /\ phase' \notin {"heads", "failed"} => \A s \in Source : anchorNumber <= head'[s].num
  BY DEF NotBelow, checkVars
<1>1. /\ phase = "heads" => \A s \in Source : answer[s] # NoAnswer => anchorNumber <= answer[s].num
      /\ phase \notin {"heads", "failed"} => \A s \in Source : anchorNumber <= head[s].num
  BY DEF NotBelow
<1>2. \A s \in Source : anchorNumber <= seen[s]
  <2>1. 1 \in Source BY DEF Source
  <2>2. Honest # {} BY <2>1
  <2> QED BY <2>2 DEF CheckInv, CheckedIsFinal
<1>3. ASSUME NEW s \in Source, AnswerHead(s)
      PROVE  phase' = "heads" /\ \A t \in Source : answer'[t] # NoAnswer => anchorNumber <= answer'[t].num
  <2>1. phase = "heads" /\ phase' = "heads" BY <1>3 DEF AnswerHead, Answer
  <2>2. HeadAnswers(s) = {Block(seen[s])} BY DEF HeadAnswers
  <2>3. answer' = [answer EXCEPT ![s] = Block(seen[s])] BY <1>3, <2>2 DEF AnswerHead, Answer
  <2>4. Block(seen[s]).num = seen[s] BY DEF Block
  <2>5. answer \in [Source -> Blocks \cup {NoAnswer}] BY <2>1 DEF ReportInv, IInv, AnswerOK
  <2>6. ASSUME NEW t \in Source, answer'[t] # NoAnswer PROVE anchorNumber <= answer'[t].num
    <3>1. CASE t = s BY <1>2, <2>3, <2>4, <2>5, <3>1
    <3>2. CASE t # s
      <4>1. answer'[t] = answer[t] BY <2>3, <2>5, <3>2
      <4> QED BY <1>1, <2>1, <2>6, <4>1
    <3> QED BY <3>1, <3>2
  <2> QED BY <2>1, <2>6
<1>4. ASSUME NEW s \in Source, AnswerAnchor(s) \/ AnswerState(s) \/ AnswerReceipt(s) \/ AnswerCanonical(s)
      PROVE  phase \notin {"heads", "failed"} /\ phase' = phase /\ head' = head
  BY <1>4 DEF AnswerAnchor, AnswerState, AnswerReceipt, AnswerCanonical, Answer
<1>5. ASSUME ChooseAnchor
      PROVE  phase' = "anchor" /\ \A s \in Source : anchorNumber <= head'[s].num
  <2>1. /\ phase = "heads" /\ phase' = "anchor" /\ head' = answer
        /\ \A s \in Source : answer[s] # NoAnswer
    BY <1>5 DEF ChooseAnchor, EndOfRound
  <2> QED BY <1>1, <2>1
<1>6. ASSUME AgreeOnAnchor \/ AgreeOnState \/ CompareReceipts \/ AgreeOnCanonical
      PROVE  phase \notin {"heads", "failed"} /\ head' = head /\ phase' # "heads"
  BY <1>6 DEF AgreeOnAnchor, AgreeOnState, CompareReceipts, AgreeOnCanonical, EndOfRound, AfterReceipts
<1>7. ASSUME Fail PROVE phase' = "failed" BY <1>7 DEF Fail
<1>8. CASE \E s \in Source : AnswerHead(s) BY <1>8, <1>3
<1>9. CASE \E s \in Source : AnswerAnchor(s) \/ AnswerState(s) \/ AnswerReceipt(s) \/ AnswerCanonical(s)
  BY <1>9, <1>4, <1>1
<1>10. CASE ChooseAnchor BY <1>10, <1>5
<1>11. CASE AgreeOnAnchor \/ AgreeOnState \/ CompareReceipts \/ AgreeOnCanonical
  BY <1>11, <1>6, <1>1
<1>12. CASE Fail BY <1>12, <1>7
<1> QED BY <1>8, <1>9, <1>10, <1>11, <1>12 DEF Collect

LEMMA ReadersStep ==
  ASSUME ReadersInv, [ReadersNext]_readersVars
  PROVE  ReadersInv'
<1>1. CheckInv' BY ReadersCheckStep DEF ReadersInv
<1>2. ReportInv'
  <2>1. [Next]_vars BY CollectionOfReaders
  <2> QED BY <2>1, ReportStep DEF ReadersInv
<1>3. CASE Public
  <2>1. phase' = "heads" /\ \A s \in Source : answer'[s] = NoAnswer
    BY <1>3 DEF Public, collectionVars
  <2> QED BY <1>1, <1>2, <2>1 DEF ReadersInv, NotBelow
<1>4. CASE Operator
  <2>1. NotBelow' BY <1>4, CollectNotBelow DEF Operator, ReadersInv
  <2> QED BY <1>1, <1>2, <2>1 DEF ReadersInv
<1>5. CASE Around \/ UNCHANGED readersVars
  <2>1. UNCHANGED <<step, anchorNumber, phase, answer, head>>
    BY <1>5 DEF Around, readersVars, checkVars, collectionVars
  <2>2. NotBelow' BY <2>1 DEF ReadersInv, NotBelow
  <2> QED BY <1>1, <1>2, <2>2 DEF ReadersInv
<1> QED BY <1>3, <1>4, <1>5 DEF ReadersNext

THEOREM ReadersInvariance == ReadersSpec => []ReadersInv
<1>1. ReadersInit => ReadersInv
  <2> SUFFICES ASSUME ReadersInit PROVE ReadersInv OBVIOUS
  <2>1. CheckInv BY InitCheckInv DEF ReadersInit, Init
  <2>2. ReportInv BY InitReportInv DEF ReadersInit
  <2>3. step = "idle" BY DEF ReadersInit, CheckInit
  <2>4. NotBelow BY <2>3 DEF NotBelow, Settled
  <2> QED BY <2>1, <2>2, <2>4 DEF ReadersInv
<1>2. ReadersInv /\ [ReadersNext]_readersVars => ReadersInv' BY ReadersStep
<1> QED BY <1>1, <1>2, PTL DEF ReadersSpec

(* The transaction the public verifier found final is due to be reported,  *)
(* and the evaluation answers what the chain holds of it.                  *)
LEMMA InvAgrees == ReadersInv => ReadersAgree
<1> SUFFICES ASSUME ReadersInv, Honest = Source, asked, step \in Settled,
                    phase \in Ends \ {"failed"},
                    chain[AnchorNumber(head)].time <= CollectedAt
             PROVE  /\ phase = "ready"
                    /\ Evaluation.status # "absent"
                    /\ Evaluation.status \in {"confirmed", "pending_finality", "duplicate"} =>
                         step \in {"confirmed", "multiple"}
                    /\ step \in {"reverted", "not_eip3009_usdc"} => Evaluation.status = "mismatch"
  BY DEF ReadersAgree
<1> DEFINE n == initial[1].receipt.block
           does == chain[n].does
<1>1. n \in 1..anchorNumber /\ does \in Requested /\ step = OutcomeAt(n)
  <2>1. Honest # {} BY DEF Source
  <2> QED BY <2>1 DEF ReadersInv, CheckInv, CheckedIsFinal
<1>2. phase \notin {"heads", "failed"} BY DEF Ends
<1>3. anchorNumber <= AnchorNumber(head) /\ AnchorNumber(head) \in Nat
  <2>1. head \in [Source -> Blocks] BY <1>2 DEF ReadersInv, ReportInv, IInv, TypeOK
  <2>2. \A s \in Source : anchorNumber <= head[s].num BY <1>2 DEF ReadersInv, NotBelow
  <2>3. \A b \in Blocks : b.num \in Nat BY DEF Blocks, Heights
  <2> DEFINE S == {head[s].num : s \in Source}
  <2>4. S \subseteq Nat /\ S # {} /\ \A m \in S : anchorNumber <= m BY <2>1, <2>2, <2>3 DEF Source
  <2>5. Min(S) \in S BY <2>4, MinOfNaturals
  <2> QED BY <2>4, <2>5 DEF AnchorNumber
<1>4. anchorNumber \in Nat BY DEF ReadersInv, CheckInv, CheckAnchored, Asked, Heights
<1>5. n \in 1..AnchorNumber(head) BY <1>1, <1>3, <1>4
<1>6. Due(n) BY <1>1, <1>5 DEF Due
<1>7. phase = "ready" BY <1>2, <1>5, <1>6 DEF ReadersInv, ReportInv, Reported, Ends
<1>8. /\ does = "settles" => Evaluation.status \in {"confirmed", "pending_finality"}
      /\ does = "settlesTwice" => Evaluation.status = "duplicate"
      /\ does \in {"reverts", "unrelated"} => Evaluation.status = "mismatch"
      /\ does = "usesOtherwise" => Evaluation.status = "unknown"
      /\ does = "paysOtherwise" =>
           Evaluation.status \in {"confirmed", "pending_finality", "contradiction"}
  BY <1>5, <1>6, <1>7, StatusIs DEF ReadersInv
<1>9. /\ does = "reverts" => step = "reverted"
      /\ does = "unrelated" => step = "not_eip3009_usdc"
      /\ does \in {"settles", "settlesTwice"} => step = "confirmed"
      /\ does \in {"paysOtherwise", "usesOtherwise"} => step = "multiple"
  BY <1>1 DEF OutcomeAt
<1> HIDE DEF n, does
<1> QED BY <1>1, <1>7, <1>8, <1>9 DEF Requested

(* When no source lies, what the operator collects after the public        *)
(* verifier called the transaction final does not contradict what the      *)
(* public was told, in either code's reading of the same receipt.          *)
THEOREM ReadersAgreeAlways == ReadersSpec => []ReadersAgree
BY InvAgrees, ReadersInvariance, PTL
=============================================================================
