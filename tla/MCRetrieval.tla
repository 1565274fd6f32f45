----------------------------- MODULE MCRetrieval -----------------------------
(* Small instances of Retrieval: sizes in bytes, chunk size 4.               *)
EXTENDS Retrieval, TLC

CONSTANTS one, two

DeclaredSize == one :> 3 @@ two :> 6
MCPlainSize == [m \in Manifest |-> DeclaredSize[m]]
MCChunkSize == [m \in Manifest |-> 4]
=============================================================================
