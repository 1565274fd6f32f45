--------------------------- MODULE LimiterProofs ---------------------------
(* Proofs about Limiter for every number of handlers, clients and buckets. *)
EXTENDS Limiter, FiniteSetTheorems, SequenceTheorems, TLAPS

-----------------------------------------------------------------------------
(* Whom a request is charged to, for every forged chain and every path. *)

TrustedText == {t \in Text : Denotes[t] \in Trusted}

(* All proxies but the last. *)
LEMMA AllButLast ==
  ASSUME NEW path \in Seq(TrustedText), path # <<>>
  PROVE  /\ Len(path) \in Nat \ {0} /\ path[Len(path)] \in TrustedText
         /\ SubSeq(path, 1, Len(path) - 1) \in Seq(TrustedText)
         /\ Len(SubSeq(path, 1, Len(path) - 1)) = Len(path) - 1
  <1>1. Len(path) \in Nat \ {0} /\ path[Len(path)] \in TrustedText
    BY EmptySeq, LenProperties
  <1>2. \A j \in 1 .. Len(path) - 1 : path[j] \in TrustedText
    BY <1>1, ElementOfSeq
  <1>3. 1 \in Int /\ Len(path) - 1 \in Int
    BY <1>1
  <1>4. /\ SubSeq(path, 1, Len(path) - 1) \in Seq(TrustedText)
        /\ Len(SubSeq(path, 1, Len(path) - 1)) =
             IF 1 <= Len(path) - 1 THEN Len(path) - 1 - 1 + 1 ELSE 0
    BY <1>2, <1>3, SubSeqProperties
  <1>5. ASSUME NEW n \in Nat \ {0}
        PROVE  (IF 1 <= n - 1 THEN n - 1 - 1 + 1 ELSE 0) = n - 1
    OBVIOUS
  <1>6. (IF 1 <= Len(path) - 1 THEN Len(path) - 1 - 1 + 1 ELSE 0) = Len(path) - 1
    BY <1>1, <1>5
  <1> QED  BY <1>1, <1>4, <1>6

(* A chain that ends in trusted hops. *)
LEMMA Joined ==
  ASSUME NEW from \in Text, NEW n \in Nat, NEW first \in Seq(Text), NEW rest \in Seq(TrustedText),
         Len(first) = n + 1, first[n + 1] = from
  PROVE  /\ first \o rest \in Seq(Text) /\ Len(first \o rest) = n + 1 + Len(rest)
         /\ (first \o rest)[n + 1] = from
         /\ \A j \in n + 2 .. Len(first \o rest) : (first \o rest)[j] \in TrustedText
  <1>1. Len(rest) \in Nat /\ \A j \in 1 .. Len(rest) : rest[j] \in TrustedText
    BY LenProperties, ElementOfSeq
  <1>2. rest \in Seq(Text)
    BY SeqMonotonic DEF TrustedText
  <1>3. /\ first \o rest \in Seq(Text) /\ Len(first \o rest) = n + 1 + Len(rest)
        /\ \A j \in 1 .. n + 1 + Len(rest) :
             (first \o rest)[j] = IF j <= n + 1 THEN first[j] ELSE rest[j - (n + 1)]
    <2>1. /\ first \o rest \in Seq(Text) /\ Len(first \o rest) = Len(first) + Len(rest)
          /\ \A j \in 1 .. Len(first) + Len(rest) :
               (first \o rest)[j] = IF j <= Len(first) THEN first[j] ELSE rest[j - Len(first)]
      BY <1>2, ConcatProperties, Zenon
    <2> QED  BY <2>1, Zenon
  <1>4. (first \o rest)[n + 1] = from
    BY <1>1, <1>3
  <1>5. ASSUME NEW j \in n + 2 .. n + 1 + Len(rest)
        PROVE  (first \o rest)[j] \in TrustedText
    <2>1. j - (n + 1) \in 1 .. Len(rest) /\ j \in 1 .. n + 1 + Len(rest) /\ ~(j <= n + 1)
      BY <1>1
    <2> QED  BY <1>1, <1>3, <2>1
  <1> QED  BY <1>3, <1>4, <1>5

(* The hops of a request that came over proxies: what the sender forged, the *)
(* sender, and all proxies but the last.                                     *)
LEMMA HopsOf ==
  ASSUME NEW from \in Text, NEW forged \in Seq(Text),
         NEW path \in Seq(TrustedText), path # <<>>
  PROVE  LET hops == Arrives(from, forged, path).hops
         IN  /\ hops \in Seq(Text) /\ Len(hops) = Len(forged) + Len(path)
             /\ hops[Len(forged) + 1] = from
             /\ \A j \in Len(forged) + 2 .. Len(hops) : hops[j] \in TrustedText
  <1>1. Len(forged) \in Nat /\ Len(path) \in Nat
    BY LenProperties
  <1>2. PICK first \in Seq(Text) :
          /\ first = Append(forged, from)
          /\ Len(first) = Len(forged) + 1 /\ first[Len(forged) + 1] = from
    BY AppendProperties
  <1>3. PICK rest \in Seq(TrustedText) :
          rest = SubSeq(path, 1, Len(path) - 1) /\ Len(rest) = Len(path) - 1
    BY AllButLast
  <1>4. Arrives(from, forged, path).hops = first \o rest
    BY <1>2, <1>3 DEF Arrives
  <1>5. Len(first) = Len(forged) + 1 /\ first[Len(forged) + 1] = from
    BY <1>2, Zenon
  <1>6. Len(rest) = Len(path) - 1
    BY <1>3, Zenon
  <1>7. Len(forged) + 1 + Len(rest) = Len(forged) + Len(path)
    BY <1>1, <1>6
  <1>8. /\ first \o rest \in Seq(Text) /\ Len(first \o rest) = Len(forged) + 1 + Len(rest)
        /\ (first \o rest)[Len(forged) + 1] = from
        /\ \A j \in Len(forged) + 2 .. Len(first \o rest) : (first \o rest)[j] \in TrustedText
    BY <1>1, <1>5, Joined, Zenon
  <1> QED  BY <1>4, <1>7, <1>8, Zenon

(* The walk ends at the last hop that is not trusted. *)
LEMMA NearestIsLast ==
  ASSUME NEW S \in SUBSET Nat, NEW n \in S, \A j \in S : j <= n
  PROVE  Nearest(S) = n
  <1>1. \A i \in S : (\A j \in S : j <= i) => i = n
    OBVIOUS
  <1> QED  BY <1>1 DEF Nearest

(* An untrusted sender is recognised over any trusted proxies, whatever      *)
(* chain it claims to have come along; a trusted one passes for itself or    *)
(* for another trusted machine (clientIPResolver.resolve).                   *)
THEOREM SenderResolved ==
  ASSUME NEW from \in Sender, NEW forged \in MayForge(from), NEW path \in Path
  PROVE  LET c == Resolve(Arrives(from, forged, path))
         IN  /\ c \in Client
             /\ Denotes[from] \notin Trusted => c = Denotes[from]
             /\ Denotes[from] \in Trusted => c \in Trusted
  <1> DEFINE request == Arrives(from, forged, path)
             hops == request.hops
             peer == Denotes[request.remote]
  <1>1. from \in Text /\ Denotes[from] \in Client
    BY ClientIPAssumption DEF Sender
  <1>2. forged \in Seq(Text) /\ (Denotes[from] \in Trusted => forged = <<>>)
    BY ClientIPAssumption DEF MayForge
  <1>3. path \in Seq(TrustedText)
    BY ClientIPAssumption DEF TrustedText
  <1>4. CASE path = <<>>
    <2>1. request = [remote |-> from, hops |-> forged]
      BY <1>4 DEF Arrives
    <2>2. CASE Denotes[from] \notin Trusted
      BY <1>1, <2>1, <2>2, ClientIPAssumption DEF Resolve
    <2>3. CASE Denotes[from] \in Trusted
      <3>1. Stops(forged) = {}
        BY <1>2, <2>3 DEF Stops
      <3> QED  BY <1>1, <2>1, <2>3, <3>1, ClientIPAssumption DEF Resolve, Walk
    <2> QED  BY <2>2, <2>3
  <1>5. CASE path # <<>>
    <2>1. request.remote = path[Len(path)]
      BY <1>5 DEF Arrives
    <2>2. peer \in Trusted /\ peer \in Client /\ peer # None
      BY <1>3, <1>5, <2>1, AllButLast, ClientIPAssumption DEF TrustedText
    <2>3. Resolve(request) = Walk(peer, hops)
      BY <2>2 DEF Resolve
    <2>4. /\ hops \in Seq(Text) /\ Len(hops) = Len(forged) + Len(path)
          /\ hops[Len(forged) + 1] = from
          /\ \A j \in Len(forged) + 2 .. Len(hops) : hops[j] \in TrustedText
          /\ Len(path) \in Nat \ {0} /\ Len(forged) \in Nat
      BY <1>1, <1>2, <1>3, <1>5, HopsOf, AllButLast, LenProperties
    <2>5. DOMAIN hops = 1 .. Len(hops)
      BY <2>4, LenProperties
    <2>6. CASE Denotes[from] \notin Trusted
      <3>1. Len(forged) + 1 \in Stops(hops)
        BY <2>4, <2>5, <2>6 DEF Stops
      <3>2. Stops(hops) \subseteq Nat
        BY <2>4, <2>5 DEF Stops
      <3>3. \A j \in Stops(hops) : j <= Len(forged) + 1
        BY <2>4, <2>5 DEF Stops, TrustedText
      <3>4. Nearest(Stops(hops)) = Len(forged) + 1
        BY <3>1, <3>2, <3>3, NearestIsLast
      <3>5. Walk(peer, hops) = Denotes[from]
        BY <1>1, <2>4, <3>1, <3>4, ClientIPAssumption DEF Walk
      <3> QED  BY <1>1, <2>3, <2>6, <3>5
    <2>7. CASE Denotes[from] \in Trusted
      <3>1. Len(forged) = 0
        BY <1>2, <2>7, EmptySeq
      <3>2. \A j \in DOMAIN hops : Denotes[hops[j]] \in Trusted
        BY <2>4, <2>5, <2>7, <3>1 DEF TrustedText
      <3>3. Stops(hops) = {}
        BY <3>2 DEF Stops
      <3>4. Walk(peer, hops) = peer
        BY <3>3 DEF Walk
      <3> QED  BY <2>2, <2>3, <2>7, <3>4
    <2> QED  BY <2>6, <2>7
  <1> QED  BY <1>4, <1>5

-----------------------------------------------------------------------------
(* The table. *)

FailureWindow == [start : Nat, count : Nat]
Table == [Key -> FailureWindow \cup {None}]

(* A window is a record and None is not one, so a running bucket has a start. *)
LEMMA WindowTypes ==
  ASSUME NEW w \in Table, NEW k \in Key
  PROVE  w[k] # None <=> w[k] \in FailureWindow
  BY LimiterAssumption DEF Table, FailureWindow

(* Sweeping keeps the table well typed, and only ever empties buckets. *)
LEMMA SweptTable ==
  ASSUME NEW w \in Table, NEW c \in Client
  PROVE  /\ Swept(w, c) \in Table
         /\ BucketKey(Swept(w, c), c) \in Key
         /\ Buckets(Swept(w, c)) \subseteq Buckets(w)
  <1>1. RemoveExpired(w, clock) \in Table
    BY DEF RemoveExpired, Table
  <1>2. Buckets(RemoveExpired(w, clock)) \subseteq Buckets(w)
    BY DEF RemoveExpired, Buckets
  <1> QED  BY <1>1, <1>2 DEF Swept, BucketKey, Key

(* Whoever sent it, a request is taken for one of that machine's own. *)
LEMMA BlockedAdmits ==
  ASSUME NEW h \in Handler, Blocked(h)
  PROVE  \E from \in Sender, c \in Client :
           /\ Denotes[from] \in Client /\ SamePlace(Denotes[from], c)
           /\ Admitted(h, c, from)
           /\ checking[h] = None /\ UNCHANGED clock
  <1>1. PICK from \in Sender, path \in Path : \E forged \in MayForge(from) :
          Admitted(h, Resolve(Arrives(from, forged, path)), from)
    BY Zenon DEF Blocked
  <1>2. PICK forged \in MayForge(from) : Admitted(h, Resolve(Arrives(from, forged, path)), from)
    BY <1>1, Zenon
  <1>3. Denotes[from] \in Client
    BY ClientIPAssumption DEF Sender
  <1>4. PICK c : c = Resolve(Arrives(from, forged, path))
    OBVIOUS
  <1>5. /\ c \in Client
        /\ Denotes[from] \notin Trusted => c = Denotes[from]
        /\ Denotes[from] \in Trusted => c \in Trusted
    BY <1>4, SenderResolved, Zenon
  <1>6. SamePlace(Denotes[from], c)
    BY <1>5 DEF SamePlace
  <1>7. Admitted(h, c, from)
    BY <1>2, <1>4
  <1>8. checking[h] = None /\ UNCHANGED clock
    BY DEF Blocked
  <1> QED  BY <1>3, <1>5, <1>6, <1>7, <1>8, Zenon

(* TypeOK is inductive. *)
LEMMA TypeInit == Init => TypeOK
  BY DEF Init, TypeOK

LEMMA TypeStep == TypeOK /\ [Next]_vars => TypeOK'
  <1> SUFFICES ASSUME TypeOK, [Next]_vars PROVE TypeOK'
    OBVIOUS
  <1> USE DEF TypeOK
  <1>0. windows \in Table
    BY DEF Table, FailureWindow
  <1>1. ASSUME NEW h \in Handler, Blocked(h) PROVE TypeOK'
    <2>0. PICK from \in Sender, c \in Client :
            Denotes[from] \in Client /\ Admitted(h, c, from) /\ UNCHANGED clock
      BY <1>1, BlockedAdmits, Zenon
    <2>1. LET w == Swept(windows, c)
              k == BucketKey(w, c)
          IN  windows' = w \/ windows' = [w EXCEPT ![k] = None]
      BY <2>0, Zenon DEF Admitted
    <2>2. windows' \in Table
      BY <1>0, <2>1, SweptTable DEF Table
    <2>3. \/ UNCHANGED <<checking, sender>>
          \/ /\ checking' = [checking EXCEPT ![h] = c]
             /\ sender' = [sender EXCEPT ![h] = Denotes[from]]
      BY <2>0, Zenon DEF Admitted, Checks
    <2>4. checking' \in [Handler -> Client \cup {None}] /\ sender' \in [Handler -> Client \cup {None}]
      BY <2>0, <2>3
    <2> QED  BY <2>0, <2>2, <2>4 DEF Table, FailureWindow
  <1>2. ASSUME NEW h \in Handler, Failure(h) PROVE TypeOK'
    <2> DEFINE c == checking[h]
               w == Swept(windows, c)
               k == BucketKey(w, c)
    <2>1. c \in Client
      BY <1>2 DEF Failure
    <2>2. w \in Table /\ k \in Key
      BY <1>0, <2>1, SweptTable
    <2>3. CASE Running(w, k)
      <3>1. w[k] \in FailureWindow
        BY <2>2, <2>3, WindowTypes DEF Running
      <3>2. [w[k] EXCEPT !.count = @ + 1] \in FailureWindow
        BY <3>1 DEF FailureWindow
      <3>3. windows' = [w EXCEPT ![k] = [w[k] EXCEPT !.count = @ + 1]]
        BY <1>2, <2>3 DEF Failure
      <3> QED  BY <1>2, <2>2, <3>2, <3>3 DEF Failure, Ends, Table, FailureWindow
    <2>4. CASE ~Running(w, k)
      <3>1. windows' = [w EXCEPT ![k] = NewWindow]
        BY <1>2, <2>4 DEF Failure
      <3> QED  BY <1>2, <2>2, <3>1 DEF Failure, Ends, Table, FailureWindow, NewWindow
    <2> QED  BY <2>3, <2>4
  <1>3. ASSUME NEW h \in Handler, Authenticated(h) PROVE TypeOK'
    BY <1>3 DEF Authenticated, Ends
  <1>4. CASE Tick
    BY <1>4 DEF Tick
  <1>5. CASE UNCHANGED vars
    BY <1>5 DEF vars
  <1> QED  BY <1>1, <1>2, <1>3, <1>4, <1>5 DEF Next

(* Every reachable state of the limiter is well typed. *)
THEOREM TypeCorrect == Spec => []TypeOK
  BY TypeInit, TypeStep, PTL DEF Spec

-----------------------------------------------------------------------------
(* BucketBound is not inductive: a client gets a bucket by the size of the   *)
(* whole table, the overflow bucket comes on top.  What is inductive is the  *)
(* number of the clients' own buckets.                                       *)
OwnBuckets(w) == Buckets(w) \ {Overflow}
OwnBound == Cardinality(OwnBuckets(windows)) <= MaxBuckets - 1

LEMMA BucketsFinite ==
  ASSUME NEW w
  PROVE  /\ IsFiniteSet(Buckets(w)) /\ IsFiniteSet(OwnBuckets(w))
         /\ Cardinality(Buckets(w)) \in Nat /\ Cardinality(OwnBuckets(w)) \in Nat
         /\ Cardinality(OwnBuckets(w)) <= Cardinality(Buckets(w))
         /\ Cardinality(Buckets(w)) <= Cardinality(OwnBuckets(w)) + 1
  <1>1. IsFiniteSet(Key)
    BY FS_AddElement, LimiterAssumption DEF Key
  <1>2. IsFiniteSet(Buckets(w))
    BY <1>1, FS_Subset DEF Buckets
  <1>3. IsFiniteSet(OwnBuckets(w)) /\ Cardinality(OwnBuckets(w)) <= Cardinality(Buckets(w))
    BY <1>2, FS_Subset DEF OwnBuckets
  <1>4. Cardinality(Buckets(w)) \in Nat /\ Cardinality(OwnBuckets(w)) \in Nat
    BY <1>2, <1>3, FS_CardinalityType
  <1>5. Cardinality(Buckets(w)) <= Cardinality(OwnBuckets(w)) + 1
    BY <1>2, <1>4, FS_RemoveElement DEF OwnBuckets
  <1> QED  BY <1>2, <1>3, <1>4, <1>5

(* A table with no more own buckets than another is within the bound too. *)
LEMMA FewerBuckets ==
  ASSUME NEW v, NEW w, OwnBuckets(v) \subseteq OwnBuckets(w),
         Cardinality(OwnBuckets(w)) <= MaxBuckets - 1
  PROVE  Cardinality(OwnBuckets(v)) <= MaxBuckets - 1
  <1>1. Cardinality(OwnBuckets(v)) <= Cardinality(OwnBuckets(w))
    BY BucketsFinite, FS_Subset
  <1> QED  BY <1>1, BucketsFinite, LimiterAssumption

(* Filling the bucket bucketKey answers keeps the clients' own bound. *)
LEMMA FilledBucket ==
  ASSUME NEW w \in Table, NEW c \in Client, NEW window,
         Cardinality(OwnBuckets(w)) <= MaxBuckets - 1
  PROVE  Cardinality(OwnBuckets([w EXCEPT ![BucketKey(w, c)] = window])) <= MaxBuckets - 1
  <1> DEFINE v == [w EXCEPT ![BucketKey(w, c)] = window]
  <1>1. CASE BucketKey(w, c) = Overflow
    <2>1. OwnBuckets(v) \subseteq OwnBuckets(w)
      BY <1>1 DEF OwnBuckets, Buckets, Table
    <2> QED  BY <2>1, FewerBuckets
  <1>2. CASE BucketKey(w, c) # Overflow /\ w[c] # None
    <2>1. OwnBuckets(v) \subseteq OwnBuckets(w)
      BY <1>2, LimiterAssumption DEF OwnBuckets, Buckets, Table, BucketKey, Key
    <2> QED  BY <2>1, FewerBuckets
  <1>3. CASE BucketKey(w, c) # Overflow /\ w[c] = None
    <2>1. Cardinality(Buckets(w)) < MaxBuckets - 1 /\ BucketKey(w, c) = c
      BY <1>3 DEF BucketKey, OwnsBucket
    <2>2. OwnBuckets(v) \subseteq OwnBuckets(w) \cup {c}
      BY <2>1 DEF OwnBuckets, Buckets, Table
    <2>3. /\ IsFiniteSet(OwnBuckets(w) \cup {c})
          /\ Cardinality(OwnBuckets(w) \cup {c}) <= Cardinality(OwnBuckets(w)) + 1
      <3>1. /\ IsFiniteSet(OwnBuckets(w)) /\ Cardinality(OwnBuckets(w)) \in Nat
        BY BucketsFinite
      <3> QED  BY <3>1, FS_AddElement
    <2>4. Cardinality(OwnBuckets(v)) <= Cardinality(OwnBuckets(w) \cup {c})
      BY <2>2, <2>3, FS_Subset
    <2>5. Cardinality(OwnBuckets(w) \cup {c}) \in Nat
      BY <2>3, FS_CardinalityType
    <2> QED  BY <2>1, <2>3, <2>4, <2>5, BucketsFinite, LimiterAssumption
  <1> QED  BY <1>1, <1>2, <1>3

LEMMA OwnBoundStep == TypeOK /\ OwnBound /\ [Next]_vars => OwnBound'
  <1> SUFFICES ASSUME TypeOK, OwnBound, [Next]_vars PROVE OwnBound'
    OBVIOUS
  <1>0. windows \in Table
    BY DEF TypeOK, Table, FailureWindow
  <1>1. ASSUME NEW c \in Client
        PROVE  Cardinality(OwnBuckets(Swept(windows, c))) <= MaxBuckets - 1
    <2>1. OwnBuckets(Swept(windows, c)) \subseteq OwnBuckets(windows)
      BY <1>0, SweptTable DEF OwnBuckets
    <2> QED  BY <2>1, FewerBuckets DEF OwnBound
  <1>2. ASSUME NEW h \in Handler, Blocked(h) PROVE OwnBound'
    <2>0. PICK from \in Sender, c \in Client : Admitted(h, c, from)
      BY <1>2, BlockedAdmits, Zenon
    <2>1. LET w == Swept(windows, c)
          IN  windows' = w \/ windows' = [w EXCEPT ![BucketKey(w, c)] = None]
      BY <2>0, Zenon DEF Admitted
    <2>2. Swept(windows, c) \in Table
      BY <1>0, SweptTable
    <2>3. Cardinality(OwnBuckets(windows')) <= MaxBuckets - 1
      BY <1>1, <2>1, <2>2, FilledBucket
    <2> QED  BY <2>3 DEF OwnBound, OwnBuckets, Buckets
  <1>3. ASSUME NEW h \in Handler, Failure(h) PROVE OwnBound'
    <2> DEFINE w == Swept(windows, checking[h])
    <2>1. checking[h] \in Client
      BY <1>3 DEF Failure, TypeOK
    <2>2. w \in Table
      BY <1>0, <2>1, SweptTable
    <2>3. PICK window : windows' = [w EXCEPT ![BucketKey(w, checking[h])] = window]
      BY <1>3 DEF Failure
    <2>4. Cardinality(OwnBuckets(windows')) <= MaxBuckets - 1
      BY <1>1, <2>1, <2>2, <2>3, FilledBucket
    <2> QED  BY <2>4 DEF OwnBound, OwnBuckets, Buckets
  <1>4. CASE UNCHANGED windows
    BY <1>4 DEF OwnBound, OwnBuckets, Buckets
  <1> QED  BY <1>2, <1>3, <1>4 DEF Next, Authenticated, Tick, vars

(* The table stays within MaxBuckets windows whatever clients come. *)
THEOREM BucketsBounded == Spec => []BucketBound
  <1>1. Init => OwnBound
    <2>1. Init => OwnBuckets(windows) = {}
      BY DEF Init, OwnBuckets, Buckets
    <2>2. Cardinality({}) = 0 /\ 0 <= MaxBuckets - 1
      BY FS_EmptySet, LimiterAssumption
    <2> QED  BY <2>1, <2>2 DEF OwnBound
  <1>2. OwnBound => BucketBound
    BY BucketsFinite, LimiterAssumption DEF OwnBound, BucketBound
  <1> QED  BY <1>1, <1>2, TypeCorrect, OwnBoundStep, PTL DEF Spec

-----------------------------------------------------------------------------
(* No step drops, restarts or lowers a window that has not ended. *)
THEOREM RunningWindowsKept == Spec => RunningWindowKept
  <1> DEFINE Kept(k) ==
        Running(windows, k) =>
          /\ windows'[k] # None /\ windows'[k].start = windows[k].start
          /\ windows'[k].count \in {windows[k].count, windows[k].count + 1}
  <1>1. TypeOK /\ [Next]_vars => \A k \in Key : Kept(k)
    <2> SUFFICES ASSUME TypeOK, [Next]_vars, NEW k \in Key, Running(windows, k)
                 PROVE  Kept(k)
      BY DEF RunningWindowKept
    <2>0. windows \in Table /\ windows[k] \in FailureWindow
      BY WindowTypes DEF TypeOK, Table, FailureWindow, Running
    <2>1. ASSUME NEW c \in Client
          PROVE  /\ Swept(windows, c) \in Table
                 /\ Swept(windows, c)[k] = windows[k] /\ Running(Swept(windows, c), k)
      <3>1. Swept(windows, c)[k] = windows[k]
        BY DEF Swept, RemoveExpired, Running
      <3> QED  BY <2>0, <3>1, SweptTable DEF Running
    <2>2. ASSUME NEW h \in Handler, Blocked(h) PROVE Kept(k)
      <3>0. PICK from \in Sender, c \in Client : Admitted(h, c, from)
        BY <2>2, BlockedAdmits, Zenon
      <3>1. LET w == Swept(windows, c)
                b == BucketKey(w, c)
            IN  windows' = w \/ (~Running(w, b) /\ windows' = [w EXCEPT ![b] = None])
        BY <3>0, Zenon DEF Admitted
      <3>2. windows'[k] = windows[k]
        BY <2>1, <3>1 DEF Table
      <3> QED  BY <2>0, <3>2, LimiterAssumption DEF Running
    <2>3. ASSUME NEW h \in Handler, Failure(h) PROVE Kept(k)
      <3> DEFINE w == Swept(windows, checking[h])
                 b == BucketKey(w, checking[h])
      <3>1. checking[h] \in Client
        BY <2>3 DEF Failure, TypeOK
      <3>2. w \in Table /\ b \in Key /\ w[k] = windows[k] /\ Running(w, k)
        BY <2>0, <2>1, <3>1, SweptTable
      <3>3. CASE b # k
        <4>1. windows'[k] = windows[k]
          BY <2>3, <3>2, <3>3 DEF Failure, Table
        <4> QED  BY <2>0, <4>1, LimiterAssumption DEF Running
      <3>4. CASE b = k
        <4>1. windows'[k] = [windows[k] EXCEPT !.count = @ + 1]
          BY <2>3, <3>2, <3>4 DEF Failure, Table
        <4>2. windows'[k] \in FailureWindow
          BY <2>0, <4>1 DEF FailureWindow
        <4> QED  BY <2>0, <4>1, <4>2, LimiterAssumption DEF FailureWindow
      <3> QED  BY <3>3, <3>4
    <2>4. CASE UNCHANGED windows
      BY <2>0, <2>4, LimiterAssumption DEF Running
    <2> QED  BY <2>2, <2>3, <2>4 DEF Next, Authenticated, Tick, vars
  <1> QED  BY <1>1, TypeCorrect, PTL DEF Spec, RunningWindowKept
-----------------------------------------------------------------------------
(* OvershootBounded is not inductive: the failures to come of the handlers   *)
(* that are checking count as well.                                          *)
Checkers(c) == {h \in Handler : checking[h] = c}
Committed ==
  \A c \in Client : windows[c] # None =>
    windows[c].count + Cardinality(Checkers(c)) <= Limit + Cardinality(Handler) - 1

LEMMA SomeHandlers ==
  ASSUME NEW S \in SUBSET Handler
  PROVE  /\ IsFiniteSet(S) /\ Cardinality(S) \in Nat
         /\ Cardinality(S) <= Cardinality(Handler) /\ Cardinality(Handler) \in Nat
         /\ \A T \in SUBSET S : Cardinality(T) <= Cardinality(S)
         /\ \A h \in S : Cardinality(S \ {h}) = Cardinality(S) - 1
  <1>1. IsFiniteSet(Handler)
    BY LimiterAssumption
  <1>2. IsFiniteSet(S) /\ Cardinality(S) <= Cardinality(Handler)
    BY <1>1, FS_Subset
  <1>3. Cardinality(S) \in Nat /\ Cardinality(Handler) \in Nat
    BY <1>1, <1>2, FS_CardinalityType
  <1>4. \A T \in SUBSET S : Cardinality(T) <= Cardinality(S)
    BY <1>2, FS_Subset
  <1>5. \A h \in S : Cardinality(S \ {h}) = Cardinality(S) - 1
    BY <1>2, FS_RemoveElement
  <1> QED  BY <1>2, <1>3, <1>4, <1>5

(* What asking for a bucket does to a window: nothing, or it is swept. *)
LEMMA SweptWindow ==
  ASSUME NEW w \in Table, NEW c \in Client, NEW k \in Key
  PROVE  Swept(w, c)[k] \in {w[k], None}
  BY DEF Swept, RemoveExpired, Table

LEMMA CommittedStep == TypeOK /\ Committed /\ [Next]_vars => Committed'
  <1> SUFFICES ASSUME TypeOK, Committed, [Next]_vars, NEW d \in Client, windows'[d] # None
               PROVE  windows'[d].count + Cardinality(Checkers(d)')
                        <= Limit + Cardinality(Handler) - 1
    BY DEF Committed
  <1>0. windows \in Table /\ d \in Key
    BY DEF TypeOK, Table, FailureWindow, Key
  <1>1. /\ Checkers(d) \in SUBSET Handler /\ Checkers(d)' \in SUBSET Handler
        /\ Limit \in Nat \ {0} /\ Cardinality(Handler) \in Nat
        /\ Cardinality(Checkers(d)) \in Nat /\ Cardinality(Checkers(d)') \in Nat
    <2>1. Checkers(d) \in SUBSET Handler /\ Checkers(d)' \in SUBSET Handler
      BY DEF Checkers
    <2>2. Limit \in Nat \ {0}
      BY LimiterAssumption
    <2> QED  BY <2>1, <2>2, SomeHandlers
  \* A window left alone, with no more handlers checking than before.
  <1>2. ASSUME windows'[d] = windows[d], Checkers(d)' \subseteq Checkers(d)
        PROVE  windows'[d].count + Cardinality(Checkers(d)') <= Limit + Cardinality(Handler) - 1
    <2>1. windows[d] \in FailureWindow
      BY <1>0, <1>2, WindowTypes
    <2>2. windows[d].count \in Nat
      BY <2>1 DEF FailureWindow
    <2>3. windows[d].count + Cardinality(Checkers(d)) <= Limit + Cardinality(Handler) - 1
      BY <1>2 DEF Committed
    <2>4. Cardinality(Checkers(d)') <= Cardinality(Checkers(d))
      BY <1>1, <1>2, SomeHandlers
    <2> QED  BY <1>1, <1>2, <2>2, <2>3, <2>4
  <1>3. ASSUME NEW h \in Handler, Blocked(h)
        PROVE  windows'[d].count + Cardinality(Checkers(d)') <= Limit + Cardinality(Handler) - 1
    <2>1. PICK from \in Sender, c \in Client : Admitted(h, c, from) /\ checking[h] = None
      BY <1>3, BlockedAdmits, Zenon
    <2> DEFINE w == Swept(windows, c)
               k == BucketKey(w, c)
    <2>2. w \in Table /\ k \in Key /\ w[d] \in {windows[d], None}
      BY <1>0, SweptTable, SweptWindow
    <2>3. windows'[d] = windows[d] /\ w[d] = windows[d]
      <3>1. windows' = w \/ windows' = [w EXCEPT ![k] = None]
        BY <2>1, Zenon DEF Admitted
      <3>2. windows'[d] # None
        OBVIOUS
      <3> HIDE DEF w, k
      <3>3. windows'[d] = w[d]
        BY <1>0, <2>2, <3>1, <3>2 DEF Table
      <3> QED  BY <2>2, <3>2, <3>3
    <2>4. checking' = checking \/ checking' = [checking EXCEPT ![h] = c]
      BY <2>1, Zenon DEF Admitted, Checks
    <2>5. CASE Checkers(d)' \subseteq Checkers(d)
      BY <1>2, <2>3, <2>5
    <2>6. CASE ~(Checkers(d)' \subseteq Checkers(d))
      <3>1. c = d /\ checking' # checking
        BY <2>4, <2>6 DEF Checkers, TypeOK
      <3>2. k = d
        BY <2>3, <3>1 DEF BucketKey, OwnsBucket
      <3>3. Running(w, k) => w[k].count < Limit
        <4>1. CASE Running(w, k)
          <5>1. ~(w[k].count >= Limit)
            BY <2>1, <3>1, <4>1, Zenon DEF Admitted
          <5>2. w[k].count \in Nat
            BY <2>2, <4>1, WindowTypes DEF Running, FailureWindow
          <5> QED  BY <1>1, <5>1, <5>2
        <4> QED  BY <4>1
      <3>4. Running(w, k)
        <4>1. CASE ~Running(w, k)
          <5>1. windows' = [w EXCEPT ![k] = None]
            BY <2>1, <4>1, Zenon DEF Admitted
          <5> QED  BY <2>2, <3>2, <5>1 DEF Table
        <4> QED  BY <4>1
      <3>5. windows'[d].count < Limit /\ windows'[d].count \in Nat
        BY <2>2, <2>3, <3>2, <3>3, <3>4, WindowTypes DEF Running, FailureWindow
      <3>6. Cardinality(Checkers(d)') <= Cardinality(Handler)
        BY <1>1, SomeHandlers
      <3> QED  BY <1>1, <3>5, <3>6
    <2> QED  BY <2>5, <2>6
  <1>4. ASSUME NEW h \in Handler, Failure(h)
        PROVE  windows'[d].count + Cardinality(Checkers(d)') <= Limit + Cardinality(Handler) - 1
    <2> DEFINE c == checking[h]
               w == Swept(windows, c)
               k == BucketKey(w, c)
    <2>1. c \in Client /\ c # None
      BY <1>4 DEF Failure, TypeOK
    <2>2. w \in Table /\ k \in Key /\ w[d] \in {windows[d], None}
      BY <1>0, <2>1, SweptTable, SweptWindow
    <2>3. checking' = [checking EXCEPT ![h] = None]
      BY <1>4 DEF Failure, Ends
    <2>4. Checkers(d)' = Checkers(d) \ {h}
      BY <2>3, LimiterAssumption DEF Checkers, TypeOK
    <2>5. CASE k # d
      <3>1. windows'[d] = w[d]
        BY <1>4, <2>2, <2>5 DEF Failure, Table
      <3> QED  BY <1>2, <2>2, <2>4, <3>1
    <2>6. CASE k = d
      <3>1. c = d /\ h \in Checkers(d)
        BY <2>6, LimiterAssumption DEF BucketKey, Checkers
      <3>2. Cardinality(Checkers(d)') = Cardinality(Checkers(d)) - 1
        BY <1>1, <2>4, <3>1, SomeHandlers
      <3>3. CASE Running(w, k)
        <4>1. windows'[d] = [w[d] EXCEPT !.count = @ + 1]
          BY <1>4, <2>2, <2>6, <3>3 DEF Failure, Table
        <4>2. w[d] \in FailureWindow /\ windows[d] = w[d] /\ windows[d] # None
          BY <2>2, <2>6, <3>3, WindowTypes DEF Running
        <4>3. windows'[d].count = windows[d].count + 1 /\ windows[d].count \in Nat
          BY <4>1, <4>2 DEF FailureWindow
        <4>4. windows[d].count + Cardinality(Checkers(d)) <= Limit + Cardinality(Handler) - 1
          BY <4>2 DEF Committed
        <4> QED  BY <1>1, <3>2, <4>3, <4>4
      <3>4. CASE ~Running(w, k)
        <4>1. windows'[d] = NewWindow
          BY <1>4, <2>2, <2>6, <3>4 DEF Failure, Table
        <4>2. windows'[d].count = 1
          BY <4>1 DEF NewWindow
        <4>3. Cardinality(Checkers(d)) <= Cardinality(Handler)
          BY <1>1, SomeHandlers
        <4> QED  BY <1>1, <3>2, <4>2, <4>3
      <3> QED  BY <3>3, <3>4
    <2> QED  BY <2>5, <2>6
  <1>5. ASSUME NEW h \in Handler, Authenticated(h)
        PROVE  windows'[d].count + Cardinality(Checkers(d)') <= Limit + Cardinality(Handler) - 1
    <2>1. windows' = windows /\ checking' = [checking EXCEPT ![h] = None]
      BY <1>5 DEF Authenticated, Ends
    <2>2. Checkers(d)' \subseteq Checkers(d)
      BY <2>1, LimiterAssumption DEF Checkers, TypeOK
    <2> QED  BY <1>2, <2>1, <2>2
  <1>6. CASE UNCHANGED <<windows, checking>>
    BY <1>2, <1>6 DEF Checkers
  <1> QED  BY <1>3, <1>4, <1>5, <1>6 DEF Next, Tick, vars

(* However the handlers interleave, a client's window counts at most what    *)
(* the handlers that passed the check together add to the limit.             *)
THEOREM OvershootIsBounded == Spec => []OvershootBounded
  <1>1. Init => Committed
    BY LimiterAssumption DEF Init, Committed, Key
  <1>2. TypeOK /\ Committed => OvershootBounded
    <2> SUFFICES ASSUME TypeOK, Committed, NEW c \in Client, windows[c] # None
                 PROVE  windows[c].count <= Limit + Cardinality(Handler) - 1
      BY DEF OvershootBounded
    <2>1. windows \in Table /\ c \in Key
      BY DEF TypeOK, Table, FailureWindow, Key
    <2>2. windows[c].count \in Nat
      BY <2>1, WindowTypes DEF FailureWindow
    <2>3. Checkers(c) \in SUBSET Handler
      BY DEF Checkers
    <2>4. Cardinality(Checkers(c)) \in Nat /\ Cardinality(Handler) \in Nat
      BY <2>3, SomeHandlers
    <2>5. windows[c].count + Cardinality(Checkers(c)) <= Limit + Cardinality(Handler) - 1
      BY DEF Committed
    <2> QED  BY <2>2, <2>4, <2>5, LimiterAssumption
  <1> QED  BY <1>1, <1>2, TypeCorrect, CommittedStep, PTL DEF Spec

-----------------------------------------------------------------------------
(* The request a handler checks came from the client it is checked for. *)
RightClient ==
  \A h \in Handler : checking[h] # None => SamePlace(sender[h], checking[h])

LEMMA RightClientStep == TypeOK /\ RightClient /\ [Next]_vars => RightClient'
  <1> SUFFICES ASSUME TypeOK, RightClient, [Next]_vars PROVE RightClient'
    OBVIOUS
  <1> USE DEF TypeOK, RightClient
  <1>1. ASSUME NEW h \in Handler, Blocked(h) PROVE RightClient'
    <2>1. PICK from \in Sender, c \in Client :
            SamePlace(Denotes[from], c) /\ Admitted(h, c, from)
      BY <1>1, BlockedAdmits, Zenon
    <2>2. \/ UNCHANGED <<checking, sender>>
          \/ /\ checking' = [checking EXCEPT ![h] = c]
             /\ sender' = [sender EXCEPT ![h] = Denotes[from]]
      BY <2>1, Zenon DEF Admitted, Checks
    <2> QED  BY <2>1, <2>2
  <1>2. ASSUME NEW h \in Handler, Ends(h) PROVE RightClient'
    BY <1>2 DEF Ends
  <1>3. CASE UNCHANGED <<checking, sender>>
    BY <1>3
  <1> QED  BY <1>1, <1>2, <1>3 DEF Next, Failure, Authenticated, Tick, vars

(* Only a request of its own is ever counted against a client. *)
THEOREM FailuresChargedToSender == Spec => ChargedToSender
  <1> DEFINE Own(c) == \E h \in Handler :
               checking[h] = c /\ checking'[h] = None /\ SamePlace(sender[h], c)
  <1>1. TypeOK /\ RightClient /\ [Next]_vars => \A c \in Client : Counted(c) => Own(c)
    <2> SUFFICES ASSUME TypeOK, RightClient, [Next]_vars, NEW d \in Client, Counted(d)
                 PROVE  Own(d)
      OBVIOUS
    <2>0. windows \in Table /\ d \in Key
      BY DEF TypeOK, Table, FailureWindow, Key
    <2>1. windows'[d] # None /\ windows'[d] # windows[d]
      BY DEF Counted
    <2>2. ASSUME NEW h \in Handler, Blocked(h) PROVE Own(d)
      <3>1. PICK from \in Sender, c \in Client : Admitted(h, c, from)
        BY <2>2, BlockedAdmits, Zenon
      <3> DEFINE w == Swept(windows, c)
                 k == BucketKey(w, c)
      <3>2. windows' = w \/ windows' = [w EXCEPT ![k] = None]
        BY <3>1, Zenon DEF Admitted
      <3>3. w \in Table /\ w[d] \in {windows[d], None}
        BY <2>0, SweptTable, SweptWindow
      <3> HIDE DEF w, k
      <3>4. windows'[d] = w[d] \/ windows'[d] = None
        BY <2>0, <3>2, <3>3 DEF Table
      <3> QED  BY <2>1, <3>3, <3>4
    <2>3. ASSUME NEW h \in Handler, Failure(h) PROVE Own(d)
      <3> DEFINE c == checking[h]
                 w == Swept(windows, c)
                 k == BucketKey(w, c)
      <3>1. c \in Client /\ c # None
        BY <2>3 DEF Failure, TypeOK
      <3>2. w \in Table /\ w[d] \in {windows[d], None}
        BY <2>0, <3>1, SweptTable, SweptWindow
      <3>3. PICK window : windows' = [w EXCEPT ![k] = window]
        BY <2>3 DEF Failure
      <3>4. k = d
        BY <2>1, <3>2, <3>3 DEF Table
      <3>5. c = d
        BY <3>4, LimiterAssumption DEF BucketKey
      <3>6. checking'[h] = None
        BY <2>3 DEF Failure, Ends, TypeOK
      <3>7. SamePlace(sender[h], d)
        BY <3>1, <3>5 DEF RightClient
      <3>8. checking[h] = d
        BY <3>5
      <3> QED  BY <3>6, <3>7, <3>8
    <2>4. CASE UNCHANGED windows
      BY <2>1, <2>4
    <2> QED  BY <2>2, <2>3, <2>4 DEF Next, Authenticated, Tick, vars
  <1>2. Init => RightClient
    BY DEF Init, RightClient
  <1> QED  BY <1>1, <1>2, TypeCorrect, RightClientStep, PTL DEF Spec, ChargedToSender
=============================================================================
