--------------------------- MODULE MCSubdocApply ---------------------------
(* Small instances of SubdocApply for TLC: what the cloud may send.        *)
EXTENDS SubdocApply, TLC

Part(d, v)    == [name |-> d, version |-> v, ok |-> TRUE]
Garbled(d, v) == [name |-> d, version |-> v, ok |-> FALSE]

\* One bundle of two documents.
Two(v)    == <<Part("wan", v), Part("lan", v)>>
OneBundle == {Two(1)}

\* Blobs only: two documents, one of them again and newer, and a supplementary
\* bundle. The cloud sends any of these in any order, or one of them twice.
BlobBundles == {Two(1), <<Part("wan", 2)>>, <<Part("tele", 1)>>}

\* Primary bundles in either order, one of them with a part that cannot be
\* decoded, a supplementary one, and one without any part.
MixedBundles ==
  {<<Part("lan", 1), Part("wan", 1)>>, <<Garbled("wan", 2), Part("lan", 2)>>,
   <<Part("tele", 1)>>, <<>>}

TransSymmetry == Permutations(TransIds)
=============================================================================
