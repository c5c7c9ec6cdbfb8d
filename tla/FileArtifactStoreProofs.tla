----------------------- MODULE FileArtifactStoreProofs -----------------------
(***************************************************************************)
(* The file store keeps its promises for any sets of IDs, contents and      *)
(* media types, any number of puts and crashes, and any tampering.          *)
(***************************************************************************)
EXTENDS FileArtifactStore, TLAPS

\* A metadata file always describes the blob beside it, if nobody touched that.
PairsAreWhole ==
  \A id \in Untouched : metadata[id] # Missing => blob[id] = metadata[id].bytes

\* How far the put under way has come.
PutInProgress ==
  putting # NoPut =>
    /\ metadata[putting.id] = Missing
    /\ putting.step # "replace_metadata" => blob[putting.id] = Missing
    /\ putting.step \in {"write_metadata", "replace_blob"} =>
         blobTemp[putting.id] = putting.artifact.bytes
    /\ putting.step \in {"replace_blob", "replace_metadata"} =>
         metaTemp[putting.id] = putting.artifact
    /\ putting.step = "replace_metadata" => blob[putting.id] = putting.artifact.bytes

AckedIsStored == \A id \in Ids : acked[id] # Missing => metadata[id] = acked[id]

IInv == TypeOK /\ PairsAreWhole /\ PutInProgress /\ AckedIsStored

\* What get returns for a pair of files that match.
LEMMA GetOfPair ==
  ASSUME TypeOK, PairsAreWhole, NEW id \in Untouched
  PROVE  Get(id) = metadata[id]
<1>1. CASE metadata[id] = Missing
  BY <1>1 DEF Get
<1>2. CASE metadata[id] # Missing
  <2>1. metadata[id] \in Artifact /\ blob[id] = metadata[id].bytes
    BY <1>2 DEF TypeOK, PairsAreWhole, Untouched
  <2>2. blob[id] # Missing
    BY <2>1, ValuesAreDistinct DEF Artifact
  <2>3. metadata[id] = [bytes |-> metadata[id].bytes, media |-> metadata[id].media]
    BY <2>1 DEF Artifact
  <2> QED BY <1>2, <2>1, <2>2, <2>3 DEF Get
<1> QED BY <1>1, <1>2

\* Whatever the files are, get returns what the metadata describes or nothing.
LEMMA GetIsChecked ==
  ASSUME TypeOK, NEW id \in Ids
  PROVE  Get(id) \in {metadata[id], Missing, Corrupt}
<1>1. CASE metadata[id] = Missing
  BY <1>1 DEF Get
<1>2. CASE metadata[id] # Missing
  <2>1. metadata[id] = [bytes |-> metadata[id].bytes, media |-> metadata[id].media]
    BY <1>2 DEF TypeOK, Artifact
  <2> QED BY <2>1 DEF Get
<1> QED BY <1>1, <1>2

\* The invariant holds in an empty store.
LEMMA InitInvariant == Init => IInv
BY ValuesAreDistinct DEF Untouched, Init, IInv, TypeOK, PairsAreWhole, PutInProgress, AckedIsStored

\* Every file operation, and a crash between any two, keeps the invariant.
LEMMA StepInvariant == IInv /\ [Next]_vars => IInv'
<1> SUFFICES ASSUME IInv, [Next]_vars PROVE IInv'
  OBVIOUS
<1> USE ValuesAreDistinct, TamperedAssumption DEF Untouched
<1>1. ASSUME NEW id \in Ids, NEW artifact \in Artifact, PutExisting(id, artifact)
      PROVE  IInv'
  <2>1. metadata[id] = artifact
    BY <1>1, GetIsChecked DEF IInv, PutExisting
  <2> QED BY <1>1, <2>1
          DEF IInv, PutExisting, TypeOK, PairsAreWhole, PutInProgress, AckedIsStored
<1>2. ASSUME NEW id \in Ids, NEW artifact \in Artifact, PutNew(id, artifact)
      PROVE  IInv'
  <2>1. putting' \in Writing
    BY <1>2 DEF PutNew, Writing, Steps
  <2> QED BY <1>2, <2>1 DEF IInv, PutNew, Exists, TypeOK, PairsAreWhole, PutInProgress, AckedIsStored
<1>3. CASE WriteBlobTemp
  <2>1. putting \in Writing /\ putting' \in Writing /\ putting' # NoPut
    BY <1>3 DEF IInv, TypeOK, WriteBlobTemp, At, Writing, Steps
  <2> QED BY <1>3, <2>1 DEF IInv, WriteBlobTemp, At, TypeOK, PairsAreWhole, PutInProgress,
                           AckedIsStored, Writing, Artifact
<1>4. CASE WriteMetadataTemp
  <2>1. putting \in Writing /\ putting' \in Writing /\ putting' # NoPut
    BY <1>4 DEF IInv, TypeOK, WriteMetadataTemp, At, Writing, Steps
  <2> QED BY <1>4, <2>1 DEF IInv, WriteMetadataTemp, At, TypeOK, PairsAreWhole, PutInProgress,
                           AckedIsStored, Writing
<1>5. CASE ReplaceBlob
  <2>1. putting \in Writing /\ putting' \in Writing /\ putting' # NoPut
    BY <1>5 DEF IInv, TypeOK, ReplaceBlob, At, Writing, Steps
  <2> QED BY <1>5, <2>1 DEF IInv, ReplaceBlob, At, TypeOK, PairsAreWhole, PutInProgress,
                           AckedIsStored, Writing, Artifact
<1>6. CASE ReplaceMetadata
  <2>1. putting \in Writing /\ putting.id \in Ids /\ putting.artifact \in Artifact
    BY <1>6 DEF IInv, TypeOK, ReplaceMetadata, At, Writing
  <2> QED BY <1>6, <2>1 DEF IInv, ReplaceMetadata, At, TypeOK, PairsAreWhole, PutInProgress,
                           AckedIsStored
<1>7. CASE Interrupt
  <2>1. blobTemp' \in [Ids -> Bytes \cup {Missing, Torn}]
    BY <1>7 DEF IInv, TypeOK, Interrupt
  <2>2. metaTemp' \in [Ids -> Artifact \cup {Missing, Torn}]
    BY <1>7 DEF IInv, TypeOK, Interrupt
  <2> QED BY <1>7, <2>1, <2>2 DEF IInv, Interrupt, TypeOK, PairsAreWhole, PutInProgress,
                                 AckedIsStored
<1>8. ASSUME NEW id \in Tampered, NEW bytes \in Bytes \cup {Torn, Missing}, Tamper(id, bytes)
      PROVE  IInv'
  BY <1>8 DEF IInv, Tamper, TypeOK, PairsAreWhole, PutInProgress, AckedIsStored
<1>9. CASE UNCHANGED vars
  BY <1>9 DEF IInv, vars, TypeOK, PairsAreWhole, PutInProgress, AckedIsStored
<1> QED BY <1>1, <1>2, <1>3, <1>4, <1>5, <1>6, <1>7, <1>8, <1>9 DEF Next

\* The inductive invariant behind the theorems below.
THEOREM Invariance == Spec => []IInv
BY InitInvariant, StepInvariant, PTL DEF Spec

-----------------------------------------------------------------------------
\* Types, and no torn file under a final name, whatever crashes
\* (artifact_store.py:107-118).
THEOREM TypeCorrect == Spec => []TypeOK
BY Invariance, PTL DEF IInv

\* A listed ID can always be read, so one crash never makes a worker's /state
\* fail (artifact_store.py:117-118, server.py:86-95).
THEOREM ListedReadable == Spec => []ListedIdsAreReadable
<1>1. IInv => ListedIdsAreReadable
  BY GetOfPair DEF IInv, ListedIdsAreReadable, ListedIds, TypeOK, Untouched
<1> QED BY <1>1, Invariance, PTL

\* An acknowledged put is never lost or replaced (artifact_store.py:93-118).
THEOREM AckedDurable == Spec => []AckedIsDurable
<1>1. IInv => AckedIsDurable
  BY GetOfPair DEF IInv, AckedIsDurable, AckedIsStored, Untouched
<1> QED BY <1>1, Invariance, PTL

\* No other content is ever returned for an acknowledged ID, whatever happens to
\* the blob on disk (artifact_store.py:95-106, 132-138).
THEOREM TamperingDetected == Spec => []TamperingIsDetected
<1>1. IInv => TamperingIsDetected
  BY GetIsChecked DEF IInv, AckedIsStored, TamperingIsDetected
<1> QED BY <1>1, Invariance, PTL

\* A pair of files that a crash split is never repaired (artifact_store.py:95-101).
THEOREM SplitPermanent == Spec => SplitIsPermanent
<1>1. ASSUME IInv, [Next]_vars, NEW id \in Untouched, Split(id) PROVE Split(id)'
  <2> USE <1>1
  <2>1. putting # NoPut => putting \in Writing /\ putting.id # id /\ putting.id \in Ids
    BY DEF IInv, TypeOK, Split, Writing
  <2>2. ASSUME NEW i \in Ids, NEW artifact \in Artifact,
               PutExisting(i, artifact) \/ PutNew(i, artifact)
        PROVE  Split(id)'
    BY <2>2 DEF Split, PutExisting, PutNew, Exists
  <2>3. CASE WriteBlobTemp \/ WriteMetadataTemp \/ ReplaceBlob
    BY <2>1, <2>3 DEF Split, WriteBlobTemp, WriteMetadataTemp, ReplaceBlob, At, IInv, TypeOK,
                      Writing, Untouched
  <2>4. CASE ReplaceMetadata
    BY <2>1, <2>4 DEF Split, ReplaceMetadata, At, IInv, TypeOK, Untouched
  <2>5. CASE Interrupt
    BY <2>5 DEF Split, Interrupt
  <2>6. ASSUME NEW i \in Tampered, NEW bytes \in Bytes \cup {Torn, Missing}, Tamper(i, bytes)
        PROVE  Split(id)'
    <3>1. i # id
      BY <2>6 DEF Untouched
    <3>2. blob'[id] = blob[id]
      BY <2>6, <3>1, TamperedAssumption DEF Tamper, IInv, TypeOK, Untouched
    <3> QED BY <2>6, <3>2 DEF Tamper, Split
  <2>7. CASE UNCHANGED vars
    BY <2>7 DEF Split, vars
  <2> QED BY <2>2, <2>3, <2>4, <2>5, <2>6, <2>7 DEF Next
<1>2. IInv /\ [Next]_vars => [\A id \in Untouched : Split(id) => Split(id)']_vars
  BY <1>1
<1> QED BY <1>2, Invariance, PTL DEF Spec, SplitIsPermanent

-----------------------------------------------------------------------------
Described == [id \in Untouched |-> metadata[id]]

\* A reader sees exactly the artifacts that have metadata.
LEMMA VisibleIsDescribed == IInv => Visible = Described
<1> SUFFICES ASSUME IInv PROVE Visible = Described
  OBVIOUS
<1>1. \A id \in Untouched : Visible[id] = metadata[id]
  BY GetOfPair DEF IInv, TypeOK, Visible, Untouched
<1> QED BY <1>1 DEF Visible, Described

\* The files implement the write-once map (artifact_store.py:47-76, 86-118).
THEOREM Implements == Spec => ImplementsArtifactStore
<1>1. Init => Store!Init
  <2> SUFFICES ASSUME Init PROVE Store!Init
    OBVIOUS
  <2>1. Visible = Described
    BY InitInvariant, VisibleIsDescribed
  <2> QED BY <2>1 DEF Init, Store!Init, Described, Untouched
<1>2. ASSUME IInv, IInv', [Next]_vars PROVE [Store!Next]_Visible
  <2>0. (IInv => Visible = Described)'
    BY VisibleIsDescribed, PTL
  <2>1. Visible = Described /\ Visible' = Described'
    BY <1>2, <2>0, VisibleIsDescribed
  <2>2. CASE ReplaceMetadata
    <3>1. /\ putting.id \in Ids /\ putting.artifact \in Artifact
          /\ metadata[putting.id] = Missing
          /\ metadata' = [metadata EXCEPT ![putting.id] = putting.artifact]
      BY <1>2, <2>2 DEF IInv, TypeOK, PutInProgress, ReplaceMetadata, At, Writing
    <3>2. CASE putting.id \in Untouched
      <4>1. Store!Put(putting.id, putting.artifact)
        BY <1>2, <2>1, <3>1, <3>2 DEF Store!Put, Described, IInv, TypeOK, Untouched
      <4> QED BY <3>1, <3>2, <4>1 DEF Store!Next, Store!Artifact, Artifact
    <3>3. CASE putting.id \notin Untouched
      <4>1. Described' = Described
        BY <1>2, <3>1, <3>3 DEF Described, IInv, TypeOK, Untouched
      <4> QED BY <2>1, <4>1
    <3> QED BY <3>2, <3>3
  <2>3. CASE ~ReplaceMetadata
    <3>1. UNCHANGED metadata
      BY <1>2, <2>3 DEF Next, vars, PutExisting, PutNew, WriteBlobTemp, WriteMetadataTemp,
                        ReplaceBlob, Interrupt, Tamper
    <3> QED BY <2>1, <3>1 DEF Described
  <2> QED BY <2>2, <2>3
<1> QED BY <1>1, <1>2, Invariance, PTL DEF Spec, ImplementsArtifactStore, Store!Spec
=============================================================================
