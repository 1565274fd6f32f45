------------------------------ MODULE MCStore ------------------------------
(* Small instances of Store: sizes in bytes, chunk size 4, times in ticks. *)
EXTENDS StoreInvariant, TLC

(* Manifests: `one' declares a single partial chunk, `two' a full chunk and  *)
(* a partial one, `big' more bytes than the request allows.                  *)
CONSTANTS one, two, big

DeclaredSize == one :> 3 @@ two :> 6 @@ big :> 9
MCPlainSize == [m \in Manifest |-> DeclaredSize[m]]
MCChunkSize == [m \in Manifest |-> 4]

Symmetry == Permutations(Handler) \cup Permutations(Digest) \cup Permutations(Upload)
=============================================================================
