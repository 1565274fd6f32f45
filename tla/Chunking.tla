------------------------------ MODULE Chunking ------------------------------
(***************************************************************************)
(* How a plaintext of a declared size is cut into encrypted chunks: the    *)
(* arithmetic the server checks a manifest and every stored chunk against  *)
(* (validateManifest and expectedCipherChunkSize).  The code caps a        *)
(* request at 2^50 bytes and a chunk at 8 MiB, so 64-bit sums of these     *)
(* never wrap and the natural numbers model them exactly.                  *)
(***************************************************************************)
EXTENDS Integers

Overhead == 16            \* the AES-GCM tag every chunk carries

(* Chunks declared for `plain` bytes: the ceiling, and one for an empty file. *)
ChunkCountFor(plain, size) ==
  LET n == (plain + size - 1) \div size IN IF n = 0 THEN 1 ELSE n

(* Plaintext bytes in chunk i: a full chunk, or what is left in the last. *)
PlainLength(plain, size, count, i) ==
  IF i = count - 1 THEN plain - i * size ELSE size

CipherLength(plain, size, count, i) ==
  PlainLength(plain, size, count, i) + Overhead
=============================================================================
