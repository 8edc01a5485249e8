----------------------------- MODULE BaseChain -----------------------------
(***************************************************************************)
(* The outside world of the evidence collectors: the part of the Base      *)
(* chain that is final, one EIP-3009 authorization on it, one transaction  *)
(* somebody asks about, and the RPC sources that report on them.  External *)
(* to the repository; what the sources answer is what base-rpc.ts and      *)
(* base-transaction.ts ask for.                                            *)
(*                                                                         *)
(* The chain holds the blocks that are final or will be.  Such a block is  *)
(* the only one of its height, so its height stands for its hash; OtherHash*)
(* are the hashes of all other blocks: abandoned or made up.  An honest    *)
(* source lags behind the chain, answers truly about every block it holds  *)
(* final, and above those may still show blocks that will be abandoned.    *)
(* The other sources answer anything at all, and change their minds.       *)
(***************************************************************************)
EXTENDS Naturals, Sequences

CONSTANTS
  SourceCount,   \* the sources of the operator's registry are 1..SourceCount
  Honest,        \* those that answer truly
  MaxHeight,     \* bound on the length of the chain
  MaxTime,       \* bound on block times
  ValidBefore,   \* when the authorization expires
  OtherHash,     \* hashes of blocks that never are final
  NoReceipt,     \* the answer null
  NoAnswer       \* a source that has not answered yet

Source == 1..SourceCount

ASSUME SourceAssumption == SourceCount \in Nat /\ SourceCount >= 2 /\ Honest \subseteq Source
ASSUME BoundAssumption == MaxHeight \in Nat \ {0} /\ MaxTime \in Nat /\ ValidBefore \in Nat
ASSUME HashAssumption == OtherHash \cap Nat = {}

VARIABLES
  chain,         \* the final blocks: [time, does]
  seen           \* the finalized head of each honest source

chainVars == <<chain, seen>>

(* What a block holds of the story.  The transaction asked about settles   *)
(* the authorization, settles it and moves the same amount again, fails,   *)
(* has nothing to do with it (unrelated), makes the same payment under     *)
(* other authorizations (paysOtherwise), or spends the nonce on another    *)
(* payment (usesOtherwise); the last two among other events of the same    *)
(* kinds.  Or the nonce is used elsewhere: by a settlement of the          *)
(* authorization in another transaction, or cancelled.                     *)
Requested ==
  {"settles", "settlesTwice", "reverts", "unrelated", "paysOtherwise", "usesOtherwise"}
Settlements == {"settles", "settlesTwice", "settledElsewhere"}
Uses == Settlements \cup {"usesOtherwise", "cancelled"}
Contents == {"nothing"} \cup Requested \cup Uses

Heights == 1..MaxHeight
Times == 0..MaxTime

(* The authorization is used at the end of block n.                        *)
Used(n) == \E i \in 1..n : chain[i].does \in Uses

(* The token contract lets an authorization be used once, and only before  *)
(* it expires; a cancellation needs no date.                               *)
Allowed(block) ==
  /\ block.does \in Uses => ~Used(Len(chain))
  /\ block.does \in Settlements => block.time < ValidBefore
  /\ block.does \in Requested => \A i \in 1..Len(chain) : chain[i].does \notin Requested

ChainInit ==
  /\ chain = <<[time |-> 0, does |-> "nothing"]>>
  /\ seen = [s \in Source |-> 1]

Finalize ==
  /\ Len(chain) < MaxHeight
  /\ \E time \in Times, does \in Contents :
       LET block == [time |-> time, does |-> does]
       IN  /\ time > chain[Len(chain)].time
           /\ Allowed(block)
           /\ chain' = Append(chain, block)
  /\ UNCHANGED seen

CatchUp(s) ==
  /\ s \in Honest
  /\ \E n \in (seen[s] + 1)..Len(chain) : seen' = [seen EXCEPT ![s] = n]
  /\ UNCHANGED chain

ChainNext == Finalize \/ \E s \in Source : CatchUp(s)

-----------------------------------------------------------------------------
(* What the sources answer.                                                *)

Block(n) == [num |-> n, hash |-> n, time |-> chain[n].time]

(* What can be said of a block.  A hash names one block, so a lie has a     *)
(* false hash: a true one with a false number or time is no better.        *)
Blocks == UNION {[num : {n}, hash : {n} \cup OtherHash, time : Times] : n \in Heights}

(* A receipt: the block it names, its status, how many exact transfers and *)
(* exact AuthorizationUsed events are among its logs, whether one of each  *)
(* follow one another as the contract emits them, how many such pairs it   *)
(* has of any authorization, and whether the events are mixed: each        *)
(* differs from the exact one in another field.                            *)
Receipt(n, hash, does) ==
  LET settled == does \in {"settles", "settlesTwice"}
  IN  [tx |-> "asked", block |-> n, hash |-> hash, ok |-> does # "reverts",
       transfers |-> IF does = "settlesTwice" THEN 2
                     ELSE IF does \in {"settles", "paysOtherwise"} THEN 1 ELSE 0,
       uses |-> IF settled \/ does = "usesOtherwise" THEN 1 ELSE 0,
       paired |-> settled,
       pairs |-> IF settled THEN 1 ELSE IF does \in {"paysOtherwise", "usesOtherwise"} THEN 2 ELSE 0,
       mixed |-> does \in {"paysOtherwise", "usesOtherwise"}]

Receipts ==
  UNION {{Receipt(n, hash, does) : hash \in {n} \cup OtherHash, does \in Requested} : n \in Heights}

ASSUME NullAssumption == NoReceipt \notin Receipts

AnyBlock == {Block(n) : n \in 1..Len(chain)} \cup {b \in Blocks : b.hash \in OtherHash}

HeadAnswers(s) == IF s \in Honest THEN {Block(seen[s])} ELSE AnyBlock

BlockAnswers(s, n) ==
  IF s \in Honest
  THEN IF n <= seen[s] THEN {Block(n)} ELSE {b \in AnyBlock : b.num = n}
  ELSE AnyBlock

(* The state at a block the caller names by its hash.                      *)
StateAnswers(s, hash) ==
  IF s \in Honest /\ hash \in 1..seen[s] THEN {Used(hash)} ELSE BOOLEAN

RequestedIn(heights) ==
  {Receipt(n, n, chain[n].does) : n \in {m \in heights : chain[m].does \in Requested}}

(* What an abandoned block had of the transaction: it settled, or failed.  *)
AbandonedReceipts(above) ==
  {Receipt(n, hash, does) : n \in (above + 1)..MaxHeight, hash \in OtherHash,
                            does \in {"settles", "reverts"}}

(* An honest source that does not hold the transaction final does not have *)
(* it, or has it in a block that will be final, or be abandoned.           *)
ReceiptAnswers(s) ==
  IF s \notin Honest THEN Receipts \cup {NoReceipt}
  ELSE IF RequestedIn(1..seen[s]) # {} THEN RequestedIn(1..seen[s])
  ELSE {NoReceipt} \cup RequestedIn((seen[s] + 1)..Len(chain)) \cup AbandonedReceipts(seen[s])
=============================================================================
