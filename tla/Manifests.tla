----------------------------- MODULE Manifests -----------------------------
(***************************************************************************)
(* The data the store and the intake ledger share: manifests with the      *)
(* sizes they declare, chunk files, receipts.  A manifest stands for one   *)
(* exact byte string; a digest for one chunk content.                      *)
(***************************************************************************)
EXTENDS Chunking, FiniteSets

CONSTANTS
  Manifest,    \* manifest bodies, each valid by itself
  Digest,      \* ciphertext contents a client may send as a chunk
  PlainSize,   \* PlainSize[m]: the plaintext size manifest m declares
  ChunkSize    \* ChunkSize[m]: the chunk size it declares

ASSUME SizesAssumption ==
  /\ PlainSize \in [Manifest -> Nat]
  /\ ChunkSize \in [Manifest -> Nat \ {0}]

Count(m) == ChunkCountFor(PlainSize[m], ChunkSize[m])
Indices(m) == 0 .. Count(m) - 1
Index == UNION {Indices(m) : m \in Manifest}

ExpectedLength(m, i) == CipherLength(PlainSize[m], ChunkSize[m], Count(m), i)
Length == UNION {{ExpectedLength(m, i) : i \in Indices(m)} : m \in Manifest}

ChunkFile == [len : Length, dig : Digest]

(* The bytes reserved for uploads, m[u] being the manifest of upload u: each  *)
(* of them told apart from every other, so that their number is the sum of   *)
(* the declared sizes.                                                       *)
Bytes(m) == UNION {{u} \X (1 .. PlainSize[m[u]]) : u \in DOMAIN m}
TotalSize(m) == Cardinality(Bytes(m))

(* A receipt names the manifest and the content of every chunk, in order. *)
Receipt == UNION {[m : {m}, root : [Indices(m) -> Digest]] : m \in Manifest}

(* The file holds a chunk of the length m declares for index i. *)
Fits(file, m, i) == file \in ChunkFile /\ file.len = ExpectedLength(m, i)
AllFit(files, m) == \A i \in Indices(m) : Fits(files[i], m, i)
\* Fault: whole files instead of their digests.
ReceiptOfFiles(files, m) == [m |-> m, root |-> [i \in Indices(m) |-> files[i]]]
ReceiptOf(files, m) == [m |-> m, root |-> [i \in Indices(m) |-> files[i].dig]]
=============================================================================
