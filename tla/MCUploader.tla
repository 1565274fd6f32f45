----------------------------- MODULE MCUploader -----------------------------
(* A page with one file of two chunks; others may send other chunks under    *)
(* its ID, or, once the ID is free, another manifest: an empty file.         *)
EXTENDS Uploader, TLC

CONSTANTS two, empty, u1, own, other

MCBatch == <<two>>
MCIdOf == [m \in Manifest |-> u1]
MCPlainSize == [m \in Manifest |-> IF m = two THEN 8 ELSE 0]
MCChunkSize == [m \in Manifest |-> 4]
MCContent == [m \in Manifest |-> [i \in Indices(m) |-> own]]
=============================================================================
