--------------------------- MODULE ManifestsProofs ---------------------------
(***************************************************************************)
(* The arithmetic of manifests: the declared chunks cover a plaintext      *)
(* exactly, for every plaintext size and every chunk size, and the sizes   *)
(* of a finite set of uploads add up.                                      *)
(***************************************************************************)
EXTENDS Manifests, FiniteSetTheorems, TLAPS

LEMMA DivisionBounds ==
  ASSUME NEW a \in Nat, NEW b \in Nat \ {0}
  PROVE  /\ a \div b \in Nat
         /\ b * (a \div b) <= a
         /\ a < b * (a \div b) + b
  BY Z3

LEMMA CountBounds ==
  ASSUME NEW plain \in Nat, NEW size \in Nat \ {0}
  PROVE  LET n == ChunkCountFor(plain, size) IN
         /\ n \in Nat \ {0}
         /\ plain <= n * size
         /\ plain > 0 => (n - 1) * size < plain
         /\ plain = 0 => n = 1
  <1> DEFINE q == (plain + size - 1) \div size
  <1>1. plain + size - 1 \in Nat
    BY SMT
  <1>2. q \in Nat /\ size * q <= plain + size - 1 /\ plain + size - 1 < size * q + size
    BY <1>1, DivisionBounds
  <1>3. CASE q = 0
    <2>1. ChunkCountFor(plain, size) = 1
      BY <1>3 DEF ChunkCountFor
    <2>2. size * q = 0
      BY <1>3, SMT
    <2>3. plain = 0
      BY <1>2, <2>2, SMT
    <2> QED  BY <2>1, <2>3, SMT
  <1>4. CASE q # 0
    <2>1. ChunkCountFor(plain, size) = q
      BY <1>4 DEF ChunkCountFor
    <2>2. (q - 1) * size = size * q - size /\ q * size = size * q
      BY <1>2, SMT
    <2>3. plain = 0 => q = 1
      <3>1. ASSUME plain = 0, q > 1 PROVE FALSE
        <4>1. size * q >= size + size
          BY <1>2, <3>1, SMT
        <4> QED  BY <1>2, <3>1, <4>1, SMT
      <3> QED  BY <1>2, <1>4, <3>1, SMT
    <2> QED  BY <1>2, <1>4, <2>1, <2>2, <2>3, SMT
  <1> QED  BY <1>3, <1>4

(* The chunks tile the plaintext: each but the last is full, the last holds  *)
(* what is left after them, at least one byte unless the file is empty, and  *)
(* never more than a full chunk (validateManifest's ceiling division against *)
(* expectedCipherChunkSize's last chunk).                                    *)
THEOREM ChunksTilePlaintext ==
  ASSUME NEW plain \in Nat, NEW size \in Nat \ {0}
  PROVE  LET n == ChunkCountFor(plain, size)
             last == PlainLength(plain, size, n, n - 1)
         IN /\ n \in Nat \ {0}
            /\ \A i \in 0 .. n - 2 : PlainLength(plain, size, n, i) = size
            /\ (n - 1) * size + last = plain
            /\ last \in 0 .. size
            /\ last = 0 <=> plain = 0
  <1> DEFINE n == ChunkCountFor(plain, size)
             last == PlainLength(plain, size, n, n - 1)
  <1>1. n \in Nat \ {0} /\ plain <= n * size /\ (plain > 0 => (n - 1) * size < plain)
          /\ (plain = 0 => n = 1)
    BY CountBounds
  <1> HIDE DEF n
  <1>2. \A i \in 0 .. n - 2 : PlainLength(plain, size, n, i) = size
    BY <1>1 DEF PlainLength
  <1>3. last = plain - (n - 1) * size
    BY DEF PlainLength
  <1>4. n * size = (n - 1) * size + size /\ (n - 1) * size \in Nat
    BY <1>1, SMT
  <1> HIDE DEF last
  <1>5. last \in 0 .. size
    <2>1. CASE plain = 0
      BY <1>1, <1>3, <2>1, SMT
    <2>2. CASE plain > 0
      BY <1>1, <1>3, <1>4, <2>2, SMT
    <2> QED  BY <2>1, <2>2
  <1>6. last = 0 <=> plain = 0
    <2>1. CASE plain = 0
      BY <1>1, <1>3, <2>1, SMT
    <2>2. CASE plain > 0
      BY <1>1, <1>3, <1>4, <2>2, SMT
    <2> QED  BY <2>1, <2>2
  <1>7. (n - 1) * size + last = plain
    BY <1>1, <1>3, <1>4, SMT
  <1> QED  BY <1>1, <1>2, <1>5, <1>6, <1>7 DEF n, last

-----------------------------------------------------------------------------
(* Sums of declared sizes. *)

(* The bytes of one upload. *)
LEMMA UploadBytes ==
  ASSUME NEW u, NEW n \in Nat
  PROVE  IsFiniteSet({u} \X (1 .. n)) /\ Cardinality({u} \X (1 .. n)) = n
  <1> DEFINE S == {u}  T == 1 .. n
  <1>1. IsFiniteSet(S) /\ Cardinality(S) = 1
    BY FS_Singleton
  <1>2. IsFiniteSet(T) /\ Cardinality(T) = n
    BY FS_Interval
  <1> HIDE DEF S, T
  <1>3. IsFiniteSet(S \X T) /\ Cardinality(S \X T) = Cardinality(S) * Cardinality(T)
    BY <1>1, <1>2, FS_Product
  <1>4. IsFiniteSet(S \X T) /\ Cardinality(S \X T) = n
    BY <1>1, <1>2, <1>3
  <1> QED  BY <1>4 DEF S, T

LEMMA BytesFinite ==
  ASSUME NEW D, IsFiniteSet(D), NEW m \in [D -> Manifest]
  PROVE  IsFiniteSet(Bytes(m)) /\ TotalSize(m) \in Nat
  <1> DEFINE own == [u \in D |-> {u} \X (1 .. PlainSize[m[u]])]
             all == {{u} \X (1 .. PlainSize[m[u]]) : u \in D}
  <1>1. own \in Surjection(D, all)
    BY DEF Surjection
  <1>2. IsFiniteSet(all)
    BY <1>1, FS_Surjection
  <1>3. ASSUME NEW b \in all PROVE IsFiniteSet(b)
    <2>1. PICK u \in D : b = {u} \X (1 .. PlainSize[m[u]])
      OBVIOUS
    <2>2. PlainSize[m[u]] \in Nat
      BY SizesAssumption
    <2>3. IsFiniteSet({u} \X (1 .. PlainSize[m[u]]))
      BY <2>2, UploadBytes
    <2> QED  BY <2>1, <2>3, Zenon
  <1>4. Bytes(m) = UNION all
    BY DEF Bytes
  <1> HIDE DEF all
  <1>5. IsFiniteSet(Bytes(m))
    BY <1>2, <1>3, <1>4, FS_UNION
  <1> QED  BY <1>5, FS_CardinalityType DEF TotalSize

(* One upload more: its declared size more. *)
LEMMA AddedSize ==
  ASSUME NEW D, IsFiniteSet(D), NEW m \in [D -> Manifest], NEW u, u \notin D,
         NEW w \in [D \cup {u} -> Manifest], \A v \in D : w[v] = m[v]
  PROVE  TotalSize(w) = TotalSize(m) + PlainSize[w[u]]
  <1> DEFINE own == {u} \X (1 .. PlainSize[w[u]])
  <1>1. PlainSize[w[u]] \in Nat
    BY SizesAssumption
  <1>2. IsFiniteSet(own) /\ Cardinality(own) = PlainSize[w[u]]
    BY <1>1, UploadBytes
  <1>3. Bytes(w) = Bytes(m) \cup own
    BY DEF Bytes
  <1>4. Bytes(m) \cap own = {}
    BY DEF Bytes
  <1>5. IsFiniteSet(Bytes(m)) /\ Cardinality(Bytes(m)) \in Nat
    BY BytesFinite DEF TotalSize
  <1> HIDE DEF own
  <1>6. Cardinality(Bytes(m) \cup own) = Cardinality(Bytes(m)) + Cardinality(own) - Cardinality({})
    BY <1>2, <1>4, <1>5, FS_Union
  <1>7. Cardinality({}) = 0
    BY FS_EmptySet
  <1> QED  BY <1>1, <1>2, <1>3, <1>5, <1>6, <1>7 DEF TotalSize

(* Some of the uploads, each as large as before: no more in all. *)
LEMMA SmallerSize ==
  ASSUME NEW D, IsFiniteSet(D), NEW m \in [D -> Manifest], NEW E, E \subseteq D,
         NEW w \in [E -> Manifest], \A v \in E : w[v] = m[v]
  PROVE  TotalSize(w) <= TotalSize(m)
  <1>1. Bytes(w) \subseteq Bytes(m)
    BY DEF Bytes
  <1>2. IsFiniteSet(Bytes(m))
    BY BytesFinite
  <1> QED  BY <1>1, <1>2, FS_Subset DEF TotalSize

LEMMA NoSize ==
  ASSUME NEW m, DOMAIN m = {} PROVE TotalSize(m) = 0
  <1>1. Bytes(m) = {}
    BY DEF Bytes
  <1> QED  BY <1>1, FS_EmptySet DEF TotalSize
=============================================================================
