----------------------------- MODULE MCOciBlobs -----------------------------
(* OciBlobs with the values TLC gives its constants. *)
EXTENDS OciBlobs

CONSTANTS b1, b2, m1, m2, c1, c2, s1, s2

OneBlob == {b1}
TwoBlobs == {b1, b2}
OneManifest == {m1}
TwoManifests == {m1, m2}
\* Two manifests that share a layer; one with two layers.
Twins == m1 :> <<b1>> @@ m2 :> <<b1>>
Pair == m1 :> <<b1, b2>>
OneClient == {c1}
TwoClients == {c1, c2}
OneSweeper == {s1}
TwoSweepers == {s1, s2}
AllOperations == {"upload", "put", "delete", "drop"}
UploadAndPut == {"upload", "put"}
Symmetry == Permutations(TwoClients) \cup Permutations(Manifest)
\* Once everything is disturbed the properties say nothing any more.
Worthwhile == ~(Blob \cup Manifest \subseteq disturbed)
AnyFailure == {"inventory", "request", "sweep"}
NoFailure == {}
=============================================================================
