--------------------------- MODULE EvidenceStore ---------------------------
(***************************************************************************)
(* What the artifact store promises: a set of immutable artifacts that     *)
(* only grows, and receipts that are only given for artifacts in it.       *)
(* ArtifactStore is shown to implement it.                                 *)
(***************************************************************************)
CONSTANTS Artifact, Put, ArtifactOf

VARIABLES kept,       \* the artifacts that can be read back, whatever happens
          receipts    \* the put calls that were answered with a receipt

StoreInit == kept = {} /\ receipts = {}

(* Artifacts are only added, and a receipt is only given for one that is   *)
(* kept by then.                                                           *)
StoreNext ==
  /\ kept \subseteq kept' /\ kept' \subseteq Artifact
  /\ receipts \subseteq receipts' /\ receipts' \subseteq Put
  /\ \A p \in receipts' \ receipts : ArtifactOf[p] \in kept'

StoreSpec == StoreInit /\ [][StoreNext]_<<kept, receipts>>
=============================================================================
