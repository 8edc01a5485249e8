------------------------ MODULE ArtifactStoreProofs ------------------------
(***************************************************************************)
(* Proofs about ArtifactStore, for every set of artifacts and of calls.    *)
(* The strengthening says what a call has reached when it is somewhere:    *)
(* a synced file is whole and no longer written, a linked file is synced,  *)
(* and a durable name is the visible name.                                 *)
(***************************************************************************)
EXTENDS ArtifactStore, TLAPS

SyncedWhole ==
  \A p \in Put : p \in synced =>
    content[p] = "whole" /\ pc[p] \notin {"idle", "creating", "writing"}

LinkedSynced ==
  \A a \in Artifact :
    /\ final[a] # NoFile => final[a] \in synced
    /\ finalDisk[a] # NoFile => finalDisk[a] \in synced

DurableVisible ==
  \A a \in Artifact : finalDisk[a] # NoFile => final[a] = finalDisk[a]

Reached ==
  \A p \in Put :
    /\ pc[p] = "syncing" => content[p] = "whole"
    /\ pc[p] = "linking" => p \in synced
    /\ pc[p] \in {"publishing", "confirming"} => final[ArtifactOf[p]] # NoFile
    /\ pc[p] \in {"removing", "settling", "done"} => finalDisk[ArtifactOf[p]] # NoFile

Inv == TypeOK /\ SyncedWhole /\ LinkedSynced /\ DurableVisible /\ Reached

LEMMA InitInv == Init => Inv
  BY ArtifactOfAssumption DEF Init, Inv, TypeOK, SyncedWhole, LinkedSynced, DurableVisible,
       Reached, Contents, Running

(* Every call that looks, writes or links keeps the invariant ...          *)
LEMMA EarlyStep ==
  ASSUME Inv, NEW p \in Put,
         \/ Lookup(p) \/ CreateTemporary(p) \/ WriteTemporary(p) \/ SyncTemporary(p)
         \/ LinkFinal(p) \/ LinkExists(p) \/ Compare(p) \/ Fail(p)
  PROVE  Inv'
<1> USE ArtifactOfAssumption, NoFileAssumption
    DEF Inv, TypeOK, SyncedWhole, LinkedSynced, DurableVisible, Reached, Contents, Running,
        Goto, Mine, Readable
<1>1. CASE Lookup(p)
  BY <1>1 DEF Lookup
<1>2. CASE CreateTemporary(p)
  BY <1>2 DEF CreateTemporary
<1>3. CASE WriteTemporary(p)
  BY <1>3 DEF WriteTemporary
<1>4. CASE SyncTemporary(p)
  BY <1>4 DEF SyncTemporary
<1>5. CASE LinkFinal(p)
  BY <1>5 DEF LinkFinal
<1>6. CASE LinkExists(p)
  BY <1>6 DEF LinkExists
<1>7. CASE Compare(p)
  BY <1>7 DEF Compare
<1>8. CASE Fail(p)
  BY <1>8 DEF Fail
<1> QED
  BY <1>1, <1>2, <1>3, <1>4, <1>5, <1>6, <1>7, <1>8

(* ... and so does every call that syncs the directory or cleans up ...    *)
LEMMA LateStep ==
  ASSUME Inv, NEW p \in Put,
         Confirm(p) \/ Publish(p) \/ RemoveTemporary(p) \/ Settle(p)
  PROVE  Inv'
<1> USE ArtifactOfAssumption, NoFileAssumption
    DEF Inv, TypeOK, SyncedWhole, LinkedSynced, DurableVisible, Reached, Contents, Running,
        Goto, SyncDirectory
<1>1. CASE Confirm(p)
  BY <1>1 DEF Confirm
<1>2. CASE Publish(p)
  BY <1>2 DEF Publish
<1>3. CASE RemoveTemporary(p)
  BY <1>3 DEF RemoveTemporary
<1>4. CASE Settle(p)
  BY <1>4 DEF Settle
<1> QED
  BY <1>1, <1>2, <1>3, <1>4

(* ... and a power loss: a linked file was synced, so it comes back whole. *)
LEMMA PowerStep == ASSUME Inv, PowerLoss PROVE Inv'
<1>1. PICK names \in [Artifact -> BOOLEAN], shorter \in [Put -> Contents],
           lost \in SUBSET ((temp \cup tempDisk) \ (temp \cap tempDisk)) :
        /\ final' = [a \in Artifact |-> IF names[a] THEN final[a] ELSE finalDisk[a]]
        /\ finalDisk' = final'
        /\ temp' = (temp \cup tempDisk) \ lost
        /\ tempDisk' = temp'
        /\ \A p \in Put : \/ shorter[p] = content[p]
                          \/ p \notin synced /\ (content[p] = "whole" \/ shorter[p] = "none")
        /\ content' = shorter
        /\ pc' = [p \in Put |-> IF pc[p] \in Running THEN "failed" ELSE pc[p]]
        /\ synced' = synced
  BY DEF PowerLoss
<1> USE <1>1, ArtifactOfAssumption, NoFileAssumption
    DEF Inv, TypeOK, SyncedWhole, LinkedSynced, DurableVisible, Reached, Contents
<1>2. TypeOK'
  BY DEF Running
<1>3. SyncedWhole'
  BY DEF Running
<1>4. LinkedSynced' /\ DurableVisible'
  OBVIOUS
<1>5. Reached'
  BY DEF Running
<1> QED
  BY <1>2, <1>3, <1>4, <1>5

LEMMA StepInv == Inv /\ [Next]_vars => Inv'
<1> SUFFICES ASSUME Inv, [Next]_vars PROVE Inv'
  OBVIOUS
<1>1. CASE \E p \in Put : Step(p) \/ Fail(p)
  BY <1>1, EarlyStep, LateStep DEF Step
<1>2. CASE PowerLoss
  BY <1>2, PowerStep
<1>3. CASE UNCHANGED vars
  BY <1>3 DEF vars, Inv, TypeOK, SyncedWhole, LinkedSynced, DurableVisible, Reached
<1> QED
  BY <1>1, <1>2, <1>3 DEF Next

(* The invariant holds in every behaviour of the store.                    *)
THEOREM StoreInvariance == Spec => []Inv
  BY InitInv, StepInv, PTL DEF Spec

(* Every variable keeps its type, whatever calls interleave with failures. *)
THEOREM StoreTypeCorrect == Spec => []TypeOK
<1>1. Inv => TypeOK
  BY DEF Inv
<1> QED
  BY <1>1, StoreInvariance, PTL

(* No crash, failure or power loss leaves a torn file under a final name.  *)
THEOREM NoTornArtifact == Spec => []NeverTorn
<1>1. Inv => NeverTorn
  BY DEF Inv, NeverTorn, LinkedSynced, SyncedWhole, TypeOK
<1> QED
  BY <1>1, StoreInvariance, PTL

(* A receipt of put outlives every crash and power loss.                   *)
THEOREM ReceiptsSurvive == Spec => []ReceiptDurable
<1>1. Inv => ReceiptDurable
  BY ArtifactOfAssumption DEF Inv, ReceiptDurable, LinkedSynced, SyncedWhole, Reached, TypeOK
<1> QED
  BY <1>1, StoreInvariance, PTL

-----------------------------------------------------------------------------
(* A durable name keeps its file: in one step, and in the refinement.      *)
LEMMA LinkStays ==
  ASSUME Inv, [Next]_vars, NEW a \in Artifact, finalDisk[a] # NoFile
  PROVE  final'[a] = finalDisk[a] /\ finalDisk'[a] = finalDisk[a]
<1> USE DEF Inv, DurableVisible
<1>1. CASE \E p \in Put : Step(p) \/ Fail(p)
  <2>1. PICK p \in Put : Step(p) \/ Fail(p)
    BY <1>1
  <2>2. CASE LinkFinal(p)
    BY <2>2, ArtifactOfAssumption DEF LinkFinal, Mine, TypeOK
  <2>3. CASE Confirm(p) \/ Publish(p) \/ Settle(p)
    BY <2>3 DEF Confirm, Publish, Settle, SyncDirectory
  <2>4. CASE \/ Lookup(p) \/ CreateTemporary(p) \/ WriteTemporary(p) \/ SyncTemporary(p)
             \/ LinkExists(p) \/ Compare(p) \/ RemoveTemporary(p) \/ Fail(p)
    BY <2>4 DEF Lookup, CreateTemporary, WriteTemporary, SyncTemporary, LinkExists, Compare,
                RemoveTemporary, Fail
  <2> QED
    BY <2>1, <2>2, <2>3, <2>4 DEF Step
<1>2. CASE PowerLoss
  BY <1>2 DEF PowerLoss
<1>3. CASE UNCHANGED vars
  BY <1>3 DEF vars
<1> QED
  BY <1>1, <1>2, <1>3 DEF Next

(* The file that was durably linked first is never replaced, not even by a *)
(* racing call that wrote the same artifact, and not by a power loss.      *)
THEOREM FirstLinkWins == Spec => FirstLinkStays
<1>1. Inv /\ [Next]_vars => [\A a \in Artifact : finalDisk[a] # NoFile =>
        final'[a] = finalDisk[a] /\ finalDisk'[a] = finalDisk[a]]_vars
  BY LinkStays
<1> QED
  BY <1>1, StoreInvariance, PTL DEF Spec, FirstLinkStays

Kept == {a \in Artifact : finalDisk[a] # NoFile}
Receipts == {p \in Put : pc[p] = "done"}

LEMMA DoneStays ==
  ASSUME Inv, [Next]_vars, NEW p \in Put, pc[p] = "done" PROVE pc'[p] = "done"
<1> USE DEF Inv, TypeOK, Running, Goto
<1>1. CASE \E q \in Put : Step(q) \/ Fail(q)
  <2>1. PICK q \in Put : Step(q) \/ Fail(q)
    BY <1>1
  <2>2. CASE Lookup(q) \/ Confirm(q) \/ CreateTemporary(q) \/ WriteTemporary(q)
    BY <2>2 DEF Lookup, Confirm, CreateTemporary, WriteTemporary
  <2>3. CASE SyncTemporary(q) \/ LinkFinal(q) \/ LinkExists(q) \/ Compare(q)
    BY <2>3 DEF SyncTemporary, LinkFinal, LinkExists, Compare
  <2>4. CASE Publish(q) \/ RemoveTemporary(q) \/ Settle(q) \/ Fail(q)
    BY <2>4 DEF Publish, RemoveTemporary, Settle, Fail
  <2> QED
    BY <2>1, <2>2, <2>3, <2>4 DEF Step
<1>2. CASE PowerLoss
  BY <1>2 DEF PowerLoss
<1>3. CASE UNCHANGED vars
  BY <1>3 DEF vars
<1> QED
  BY <1>1, <1>2, <1>3 DEF Next

LEMMA StoreStep ==
  ASSUME Inv, Inv', [Next]_vars PROVE [Store!StoreNext]_<<Kept, Receipts>>
<1>1. Kept \subseteq Kept'
  BY LinkStays DEF Kept
<1>2. Receipts \subseteq Receipts'
  BY DoneStays DEF Receipts
<1>3. \A p \in Receipts' : ArtifactOf[p] \in Kept'
  BY ArtifactOfAssumption DEF Inv, Reached, Kept, Receipts
<1>4. Kept' \subseteq Artifact /\ Receipts' \subseteq Put
  BY DEF Kept, Receipts
<1> QED
  BY <1>1, <1>2, <1>3, <1>4 DEF Store!StoreNext, Kept, Receipts

(* The store implements a growing set of artifacts with honest receipts.   *)
THEOREM ImplementsEvidenceStore == Spec => ImplementsStore
<1>1. Init => Store!StoreInit
  BY DEF Init, Store!StoreInit
<1>2. Inv /\ Inv' /\ [Next]_vars => [Store!StoreNext]_<<Kept, Receipts>>
  BY StoreStep
<1> QED
  BY <1>1, <1>2, StoreInvariance, PTL DEF Spec, ImplementsStore, Store!StoreSpec, Kept, Receipts
=============================================================================
