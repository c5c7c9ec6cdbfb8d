-------------------------- MODULE FileArtifactStore --------------------------
(***************************************************************************)
(* The persistent store of a deployed worker, FileArtifactStore in         *)
(* src/infra_joint/worker/artifact_store.py.  An artifact is a blob file    *)
(* and a metadata file, each written under a temporary name and renamed.   *)
(* The worker is one event loop and put has no await, so puts do not        *)
(* interleave with other operations; the process can die, or a file         *)
(* operation fail, between any two of put's file operations.                *)
(***************************************************************************)
CONSTANTS
  Ids, Bytes, Media,
  Tampered, \* the IDs whose blobs something outside the program may rewrite
  Missing,  \* no such file; also the outcome of a get that finds none
  Torn,     \* a file whose content is not what any put wrote
  Corrupt,  \* the outcome ArtifactCorruptionError
  NoPut

Artifact == [bytes : Bytes, media : Media]
Steps == {"write_blob", "write_metadata", "replace_blob", "replace_metadata"}
Writing == [step : Steps, id : Ids, artifact : Artifact]

ASSUME TamperedAssumption == Tampered \subseteq Ids
ASSUME ValuesAreDistinct ==
  /\ Missing \notin Artifact \cup Bytes \cup {Torn, Corrupt}
  /\ Torn \notin Artifact \cup Bytes
  /\ Corrupt \notin Artifact
  /\ NoPut \notin Writing

\* The metadata file describes one artifact: its media type, and the size and
\* checksum of its bytes.
VARIABLES
  blob,      \* blob[id]: the bytes in <key>.blob
  metadata,  \* metadata[id]: the artifact <key>.json describes
  blobTemp,  \* the bytes in <key>.blob.tmp
  metaTemp,  \* the artifact <key>.json.tmp describes
  putting,   \* the put under way: its next file operation and its argument
  acked      \* history: the artifact a put of the ID returned for

vars == <<blob, metadata, blobTemp, metaTemp, putting, acked>>

Init ==
  /\ blob = [id \in Ids |-> Missing]
  /\ metadata = [id \in Ids |-> Missing]
  /\ blobTemp = [id \in Ids |-> Missing]
  /\ metaTemp = [id \in Ids |-> Missing]
  /\ putting = NoPut
  /\ acked = [id \in Ids |-> Missing]

-----------------------------------------------------------------------------
\* Mutant: a get that trusts the files and compares no checksum.
GetUnchecked(id) ==
  IF blob[id] = Missing \/ metadata[id] = Missing THEN Missing
  ELSE [bytes |-> blob[id], media |-> metadata[id].media]

\* get, as a function of the files it reads.  The checksum comparison is the
\* comparison of the bytes.
Get(id) ==
  IF blob[id] = Missing \/ metadata[id] = Missing THEN Missing
  ELSE IF blob[id] # metadata[id].bytes THEN Corrupt
  ELSE [bytes |-> blob[id], media |-> metadata[id].media]

\* ids lists the metadata files; it does not look at the blobs.
ListedIds == {id \in Ids : metadata[id] # Missing}

\* Mutants: put checks the metadata only; put checks nothing and overwrites.
ExistsByMetadata(id) == metadata[id] # Missing
ExistsNever(id) == FALSE

Exists(id) == blob[id] # Missing \/ metadata[id] # Missing

\* Mutant: put compares the contents and forgets the media type.
PutExistingSameBytes(id, artifact) ==
  /\ putting = NoPut
  /\ Exists(id)
  /\ Get(id) \in Artifact /\ Get(id).bytes = artifact.bytes
  /\ acked' = [acked EXCEPT ![id] = artifact]
  /\ UNCHANGED <<blob, metadata, blobTemp, metaTemp, putting>>

\* put of an ID of which a file exists writes nothing: it returns if get yields
\* an equal artifact and otherwise raises, as partial, corrupt or conflicting.
PutExisting(id, artifact) ==
  /\ putting = NoPut
  /\ Exists(id)
  /\ Get(id) = artifact
  /\ acked' = [acked EXCEPT ![id] = artifact]
  /\ UNCHANGED <<blob, metadata, blobTemp, metaTemp, putting>>

\* Mutant: put resumes from temporary files an earlier put left behind.
PutNewResumed(id, artifact) ==
  /\ putting = NoPut
  /\ ~Exists(id)
  /\ putting' = [step |-> IF blobTemp[id] = Missing THEN "write_blob" ELSE "write_metadata",
                 id |-> id, artifact |-> artifact]
  /\ UNCHANGED <<blob, metadata, blobTemp, metaTemp, acked>>

PutNew(id, artifact) ==
  /\ putting = NoPut
  /\ ~Exists(id)
  /\ putting' = [step |-> "write_blob", id |-> id, artifact |-> artifact]
  /\ UNCHANGED <<blob, metadata, blobTemp, metaTemp, acked>>

At(step) == putting # NoPut /\ putting.step = step

WriteBlobTemp ==
  /\ At("write_blob")
  /\ blobTemp' = [blobTemp EXCEPT ![putting.id] = putting.artifact.bytes]
  /\ putting' = [putting EXCEPT !.step = "write_metadata"]
  /\ UNCHANGED <<blob, metadata, metaTemp, acked>>

\* Mutant: the metadata is renamed before the blob.
WriteMetadataTempSwapped ==
  /\ At("write_metadata")
  /\ metaTemp' = [metaTemp EXCEPT ![putting.id] = putting.artifact]
  /\ putting' = [putting EXCEPT !.step = "replace_metadata"]
  /\ UNCHANGED <<blob, metadata, blobTemp, acked>>

WriteMetadataTemp ==
  /\ At("write_metadata")
  /\ metaTemp' = [metaTemp EXCEPT ![putting.id] = putting.artifact]
  /\ putting' = [putting EXCEPT !.step = "replace_blob"]
  /\ UNCHANGED <<blob, metadata, blobTemp, acked>>

ReplaceBlob ==
  /\ At("replace_blob")
  /\ blob' = [blob EXCEPT ![putting.id] = blobTemp[putting.id]]
  /\ blobTemp' = [blobTemp EXCEPT ![putting.id] = Missing]
  /\ putting' = [putting EXCEPT !.step = "replace_metadata"]
  /\ UNCHANGED <<metadata, metaTemp, acked>>

\* The process may still die between the last rename and put's return.
ReplaceMetadata ==
  /\ At("replace_metadata")
  /\ metadata' = [metadata EXCEPT ![putting.id] = metaTemp[putting.id]]
  /\ metaTemp' = [metaTemp EXCEPT ![putting.id] = Missing]
  /\ putting' = NoPut
  /\ acked' \in {acked, [acked EXCEPT ![putting.id] = putting.artifact]}
  /\ UNCHANGED <<blob, blobTemp>>

\* The process dies, or the next file operation raises.  A rename is atomic; a
\* temporary file whose write was under way may be left incomplete.
Interrupt ==
  /\ putting # NoPut
  /\ putting' = NoPut
  /\ blobTemp' \in {blobTemp} \cup {t \in {[blobTemp EXCEPT ![putting.id] = Torn]} :
                                      putting.step = "write_blob"}
  /\ metaTemp' \in {metaTemp} \cup {t \in {[metaTemp EXCEPT ![putting.id] = Torn]} :
                                      putting.step = "write_metadata"}
  /\ UNCHANGED <<blob, metadata, acked>>

\* Something outside the program rewrites or removes a blob
\* (tests/test_file_artifact_store.py:21-29).
Tamper(id, bytes) ==
  /\ putting = NoPut
  /\ blob[id] # Missing
  /\ blob' = [blob EXCEPT ![id] = bytes]
  /\ UNCHANGED <<metadata, blobTemp, metaTemp, putting, acked>>

Next ==
  \/ \E id \in Ids, artifact \in Artifact : PutExisting(id, artifact) \/ PutNew(id, artifact)
  \/ WriteBlobTemp \/ WriteMetadataTemp \/ ReplaceBlob \/ ReplaceMetadata
  \/ Interrupt
  \/ \E id \in Tampered, bytes \in Bytes \cup {Torn, Missing} : Tamper(id, bytes)

Spec == Init /\ [][Next]_vars

-----------------------------------------------------------------------------
Untouched == Ids \ Tampered

\* Types; a file that the program alone writes is whole under its final name, only
\* a temporary one may be torn (artifact_store.py:107-118).
TypeOK ==
  /\ blob \in [Ids -> Bytes \cup {Missing, Torn}]
  /\ \A id \in Untouched : blob[id] # Torn
  /\ metadata \in [Ids -> Artifact \cup {Missing}]
  /\ blobTemp \in [Ids -> Bytes \cup {Missing, Torn}]
  /\ metaTemp \in [Ids -> Artifact \cup {Missing, Torn}]
  /\ putting \in Writing \cup {NoPut}
  /\ acked \in [Ids -> Artifact \cup {Missing}]

\* Every ID that ids() lists, and nobody touched, can be read by get().  The /state handler reads
\* each listed ID (server.py:86-95), so one listed ID without its blob would
\* make the whole worker unobservable; a crash may fall between the two renames.
ListedIdsAreReadable == \A id \in ListedIds \cap Untouched : Get(id) \in Artifact

\* Once put has returned for an artifact, get returns exactly that artifact,
\* whatever crashes and whatever puts of other content follow
\* (artifact_store.py:93-118).
AckedIsDurable == \A id \in Untouched : acked[id] # Missing => Get(id) = acked[id]

Split(id) ==
  /\ blob[id] # Missing /\ metadata[id] = Missing
  /\ putting # NoPut => putting.id # id

\* A crash between the two renames poisons the ID: from then on it stays unread
\* and unlisted and no put of it is accepted, because put refuses an ID of which
\* one file exists (artifact_store.py:95-101) and nothing removes files.
SplitIsPermanent == [][\A id \in Untouched : Split(id) => Split(id)']_vars

\* Whatever happens to a blob on disk, a get of an acknowledged ID returns the
\* acknowledged artifact or raises; it never returns other content as if it were
\* the artifact, and no later put replaces it (artifact_store.py:95-106,132-138).
TamperingIsDetected ==
  \A id \in Ids : acked[id] # Missing => Get(id) \in {acked[id], Missing, Corrupt}

-----------------------------------------------------------------------------
\* The artifact a reader sees under an ID.
Visible == [id \in Untouched |-> IF Get(id) \in Artifact THEN Get(id) ELSE Missing]

Store == INSTANCE ArtifactStore WITH Ids <- Untouched, artifacts <- Visible

\* The files implement the write-once map, crashes included: the rename of the
\* metadata (artifact_store.py:118) is the step that stores the artifact, every
\* other file operation is a stutter.
ImplementsArtifactStore == Store!Spec
=============================================================================
