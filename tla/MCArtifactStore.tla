-------------------------- MODULE MCArtifactStore --------------------------
(* Three calls, two of them racing for one artifact. *)
EXTENDS ArtifactStore, TLC

CONSTANTS p1, p2, p3, a1, a2

MCArtifactOf == p1 :> a1 @@ p2 :> a1 @@ p3 :> a2
=============================================================================
