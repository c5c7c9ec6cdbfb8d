------------------------ MODULE MCFileArtifactStore ------------------------
\* Instances of FileArtifactStore for TLC: two IDs, one of them exposed to
\* tampering, two contents, two media types. Contents are interchangeable.
EXTENDS FileArtifactStore, TLC

Symmetry == Permutations(Bytes) \cup Permutations(Media)
=============================================================================
