---------------------------- MODULE ArtifactStore ----------------------------
(***************************************************************************)
(* What a worker's artifact store promises (the protocol of                *)
(* src/infra_joint/worker/artifact_store.py:47-52, which the in-memory     *)
(* store implements directly): a write-once map from artifact IDs to       *)
(* artifacts.  An artifact is its bytes together with its media type; the  *)
(* SHA-256 of the bytes is taken to be injective, so the bytes stand for   *)
(* their own digest.                                                       *)
(***************************************************************************)
CONSTANTS Ids, Bytes, Media, Missing

Artifact == [bytes : Bytes, media : Media]

VARIABLE artifacts

Init == artifacts = [id \in Ids |-> Missing]

\* A first put of an ID stores the artifact; a put of the artifact that is
\* already there returns without a change (a stutter), and a put of a different
\* one raises ArtifactConflictError, which changes nothing either.
Put(id, artifact) ==
  /\ artifacts[id] = Missing
  /\ artifacts' = [artifacts EXCEPT ![id] = artifact]

Next == \E id \in Ids, artifact \in Artifact : Put(id, artifact)

Spec == Init /\ [][Next]_artifacts
=============================================================================
