------------------------- MODULE StoreReceiptProofs -------------------------
(***************************************************************************)
(* What the store keeps of an upload, proved for every instance: files are *)
(* in place and described by their receipt, and what a lock holder has     *)
(* found stays true until it writes.  From it follow that receipts match   *)
(* what is stored, that the quota is kept, that nothing is overwritten or  *)
(* given up early, and that a success is on disk when it is answered;      *)
(* that the store implements the intake ledger; and that the mutex is      *)
(* never left behind and each step brings a handler nearer to its answer.  *)
(***************************************************************************)
EXTENDS StoreProofs, ManifestsProofs

-----------------------------------------------------------------------------
(* The frames: an upload nobody touches, a handler that does not move. *)

Good(u) == Placed(u) /\ OneManifest(u) /\ Described(u)

Untouched(u) ==
  /\ dir'[u] = dir[u] /\ manifest'[u] = manifest[u] /\ server'[u] = server[u]
  /\ chunk'[u] = chunk[u] /\ receipt'[u] = receipt[u]
  /\ (u \in ack' <=> u \in ack) /\ (u \in doomed' <=> u \in doomed)

LEMMA UntouchedGood ==
  ASSUME NEW u \in Upload, Good(u), Untouched(u)
  PROVE  Good(u)'
  <1>1. Placed(u)'
    BY DEF Good, Placed, Absent, Untouched
  <1>2. Described(u)'
    BY DEF Good, Described, Untouched
  <1>3. OneManifest(u)'
    BY DEF Good, OneManifest, Untouched
  <1> QED  BY <1>1, <1>2, <1>3 DEF Good

LEMMA AllUntouched ==
  ASSUME UNCHANGED <<uploadVars, doomed>>
  PROVE  \A u \in Upload : Untouched(u)
  BY DEF Untouched, uploadVars

LEMMA SameReserved ==
  ASSUME UNCHANGED server PROVE Reserved' = Reserved /\ UsedBytes' = UsedBytes
  BY DEF Reserved, UsedBytes

(* Only h moves, the server is up, and purge does not run. *)
Stays(g) == pc'[g] = pc[g] /\ job'[g] = job[g] /\ seen'[g] = seen[g]
Moved(h) ==
  /\ \A g \in Handler \ {h} : Stays(g)
  /\ up /\ up' /\ purging' = purging

LEMMA Awake ==
  ASSUME FilesInv, NEW h \in Handler, pc[h] # "idle"
  PROVE  up /\ purging = None
  BY DEF FilesInv, Exclusive

LEMMA NotHolding ==
  ASSUME IInv, NEW h \in Handler, NEW g \in Handler \ {h}, pc[h] \in Critical
  PROVE  pc[g] \notin Critical
  BY StoreAssumption DEF IInv, ClosureInv, LockDiscipline

LEMMA NothingToFind ==
  ASSUME NEW h \in Handler, pc'[h] \notin Critical PROVE StillFinds(h)'
  BY DEF StillFinds, Critical, Creating

LEMMA FindsUnchanged ==
  ASSUME NEW h \in Handler, Stays(h), StillFinds(h), UNCHANGED <<uploadVars, doomed>>
  PROVE  StillFinds(h)'
  BY SameReserved DEF StillFinds, Stays, HasQuota, uploadVars

(* A handler's step keeps FilesInv if it keeps the uploads in order and h    *)
(* itself finds what it relies on; only a lock holder changes files.         *)
LEMMA HandlerStep ==
  ASSUME IInv, FilesInv, NEW h \in Handler, Moved(h),
         UNCHANGED <<uploadVars, doomed>> \/ pc[h] \in Critical,
         \A u \in Upload : Good(u)', StillFinds(h)',
         QuotaRespected'
  PROVE  FilesInv'
  <1>1. ASSUME NEW g \in Handler \ {h} PROVE StillFinds(g)'
    <2>1. Stays(g) /\ StillFinds(g)
      BY DEF Moved, FilesInv
    <2>2. CASE UNCHANGED <<uploadVars, doomed>>
      BY <2>1, <2>2, FindsUnchanged
    <2>3. CASE pc[h] \in Critical
      <3>1. pc'[g] \notin Critical
        BY <2>1, <2>3, NotHolding DEF Stays
      <3> QED  BY <3>1, NothingToFind
    <2> QED  BY <2>2, <2>3
  <1>2. \A g \in Handler : StillFinds(g)'
    BY <1>1
  <1>3. Exclusive'
    <2>1. purging = None
      BY DEF FilesInv, Exclusive, Moved
    <2> QED  BY <2>1 DEF Exclusive, Moved
  <1>4. \A u \in Upload : (Placed(u) /\ OneManifest(u) /\ Described(u))'
    BY DEF Good
  <1> QED  BY <1>2, <1>3, <1>4 DEF FilesInv

LEMMA ControlStep ==
  ASSUME IInv, FilesInv, NEW h \in Handler, Moved(h), UNCHANGED <<uploadVars, doomed>>,
         StillFinds(h)'
  PROVE  FilesInv'
  <1>1. \A u \in Upload : Good(u)
    BY DEF FilesInv, Good
  <1>2. \A u \in Upload : Good(u)'
    BY <1>1, AllUntouched, UntouchedGood
  <1>4. QuotaRespected'
    BY SameReserved DEF FilesInv, QuotaRespected, uploadVars
  <1> QED  BY <1>2, <1>4, HandlerStep

LEMMA FileStep ==
  ASSUME IInv, FilesInv, NEW h \in Handler, NEW u \in Upload, Moved(h), pc[h] \in Critical,
         \A v \in Upload \ {u} : Untouched(v), Good(u)', StillFinds(h)',
         QuotaRespected'
  PROVE  FilesInv'
  <1>1. \A v \in Upload : Good(v)
    BY DEF FilesInv, Good
  <1>2. \A v \in Upload \ {u} : Good(v)'
    BY <1>1, UntouchedGood
  <1>3. \A v \in Upload : Good(v)'
    BY <1>2
  <1> QED  BY <1>3, HandlerStep

LEMMA MovesOne ==
  ASSUME Procs, NEW h \in Handler, NEW l,
         Goto(h, l) \/ Answer(h, l) \/ Proceed(h, l) \/ Unlock(h, l)
  PROVE  (\A g \in Handler \ {h} : Stays(g)) /\ pc'[h] = l
  BY DEF Goto, Answer, Proceed, Unlock, Stays, Procs

LEMMA MovesAwake ==
  ASSUME FilesInv, NEW h \in Handler, pc[h] # "idle", UNCHANGED <<up, purging>>,
         \A g \in Handler \ {h} : Stays(g)
  PROVE  Moved(h)
  BY Awake DEF Moved

LEMMA ReplyOutside == \A l \in Reply : l \notin Critical /\ l # "idle"
  BY DEF Reply, Critical, Creating

LEMMA AnswerStep ==
  ASSUME IInv, FilesInv, NEW h \in Handler, NEW l \in Reply, pc[h] # "idle",
         Answer(h, l) \/ Unlock(h, l), UNCHANGED <<uploadVars, doomed, envVars>>
  PROVE  FilesInv'
  <1>1. Procs
    BY TypeParts DEF IInv
  <1>2. (\A g \in Handler \ {h} : Stays(g)) /\ pc'[h] = l
    BY <1>1, MovesOne
  <1>3. Moved(h)
    BY <1>2, MovesAwake DEF envVars
  <1>4. StillFinds(h)'
    BY <1>2, ReplyOutside, NothingToFind
  <1> QED  BY <1>3, <1>4, ControlStep

(* The quota: server.json comes only with the step that reserves it.         *)
NoneReserved == \A u \in Upload : server'[u] # None => server'[u] = server[u]

LEMMA ReservedSizes ==
  ASSUME Files
  PROVE  /\ IsFiniteSet(Reserved) /\ Cardinality(Reserved) \in Nat
         /\ [u \in Reserved |-> server[u].m] \in [Reserved -> Manifest]
         /\ UsedBytes \in Nat
  <1>1. IsFiniteSet(Reserved) /\ Cardinality(Reserved) \in Nat
    BY StoreAssumption, FS_Subset, FS_CardinalityType DEF Reserved
  <1>2. [u \in Reserved |-> server[u].m] \in [Reserved -> Manifest]
    BY DEF Files, Reserved, ServerFile
  <1> QED  BY <1>1, <1>2, BytesFinite DEF UsedBytes

LEMMA QuotaKept ==
  ASSUME IInv, FilesInv, NoneReserved
  PROVE  QuotaRespected'
  <1>t. Files /\ QuotaRespected
    BY TypeParts DEF IInv, FilesInv
  <1>1. PICK R, S, m, w :
          /\ R = Reserved /\ S = Reserved'
          /\ m = [u \in Reserved |-> server[u].m] /\ w = ([u \in Reserved |-> server[u].m])'
    OBVIOUS
  <1>2. /\ IsFiniteSet(R) /\ Cardinality(R) \in Nat
        /\ m \in [R -> Manifest] /\ TotalSize(m) \in Nat
    BY <1>t, <1>1, ReservedSizes DEF UsedBytes
  <1>3. S \subseteq R
    BY <1>1 DEF NoneReserved, Reserved
  <1>4. w \in [S -> Manifest] /\ \A u \in S : w[u] = m[u]
    <2>1. \A u \in S : u \in R /\ server'[u] = server[u]
      BY <1>1, <1>3 DEF NoneReserved, Reserved
    <2>2. \A u \in S : w[u] = server[u].m /\ m[u] = server[u].m
      BY <1>1, <2>1
    <2> QED  BY <1>1, <1>2, <2>1, <2>2
  <1>5. Cardinality(S) \in Nat /\ Cardinality(S) <= Cardinality(R)
    BY <1>2, <1>3, FS_Subset, FS_CardinalityType
  <1>6. IsFiniteSet(S)
    BY <1>2, <1>3, FS_Subset
  <1>7. TotalSize(w) \in Nat /\ TotalSize(w) <= TotalSize(m)
    BY <1>2, <1>3, <1>4, <1>6, BytesFinite, SmallerSize
  <1>8. Cardinality(R) <= MaxFiles /\ TotalSize(m) <= MaxBytes
    BY <1>t, <1>1 DEF QuotaRespected, UsedBytes
  <1>9. Cardinality(S) <= MaxFiles /\ TotalSize(w) <= MaxBytes
    BY <1>2, <1>5, <1>7, <1>8, StoreAssumption
  <1> QED  BY <1>1, <1>9 DEF QuotaRespected, UsedBytes

-----------------------------------------------------------------------------
(* The steps of one handler, operation by operation. *)

LEMMA AuthorizeFiles ==
  ASSUME IInv, FilesInv, NEW h \in Handler,
         Call(h) \/ AuthenticateClosed(h) \/ Gate(h) \/ Return(h)
  PROVE  FilesInv'
  <1>t. Procs /\ Carries(pc[h], job[h], seen[h])
    BY TypeParts DEF IInv, Procs, CarriesMatchStep
  <1>u. UNCHANGED <<uploadVars, doomed, envVars>>
    BY DEF Call, AuthenticateClosed, Gate, Return
  <1>1. (\A g \in Handler \ {h} : Stays(g)) /\ pc'[h] \notin Critical
    <2>1. CASE Call(h)
      <3>1. PICK r \in Request : /\ job' = [job EXCEPT ![h] = r]
                                 /\ pc' = [pc EXCEPT ![h] = IF active THEN Admitted(r) ELSE "auth"]
        BY <2>1 DEF Call
      <3>2. UNCHANGED seen
        BY <2>1 DEF Call
      <3> QED  BY <1>t, <3>1, <3>2, RequestOps DEF Procs, Stays, Admitted, Critical, Creating
    <2>2. CASE AuthenticateClosed(h)
      <3> DEFINE l == IF closedBundle THEN Admitted(job[h]) ELSE "unauthorized"
      <3>1. job[h] \in Request /\ Proceed(h, l)
        BY <1>t, <2>2 DEF AuthenticateClosed, At, Carries
      <3>2. l \notin Critical
        BY <3>1, RequestOps DEF Admitted, Critical, Creating
      <3> QED  BY <1>t, <3>1, <3>2, MovesOne
    <2>3. CASE Gate(h)
      <3> DEFINE l == IF closure # None THEN "closed" ELSE job[h].op
      <3>1. job[h].op \in SubmitOp /\ Proceed(h, l)
        BY <1>t, <2>3 DEF Gate, At, Carries
      <3>2. l \notin Critical
        BY <3>1 DEF SubmitOp, Critical, Creating
      <3> QED  BY <1>t, <3>1, <3>2, MovesOne
    <2>4. CASE Return(h)
      BY <1>t, <2>4, MovesOne DEF Return, Critical, Creating
    <2> QED  BY <2>1, <2>2, <2>3, <2>4
  <1>2. up
    <2>1. CASE Call(h)
      BY <2>1 DEF Call
    <2>2. CASE ~Call(h)
      BY <2>2, Awake, ReplyOutside DEF AuthenticateClosed, Gate, Return, At
    <2> QED  BY <2>1, <2>2
  <1>3. Moved(h)
    BY <1>u, <1>1, <1>2 DEF Moved, envVars
  <1> QED  BY <1>u, <1>1, <1>3, NothingToFind, ControlStep

(* A step inside the critical section goes on to label l. *)
LEMMA GoingOn ==
  ASSUME IInv, FilesInv, NEW h \in Handler, NEW l, pc[h] # "idle",
         Goto(h, l) \/ Proceed(h, l), UNCHANGED <<up, purging>>
  PROVE  Moved(h) /\ pc'[h] = l
  <1>1. Procs
    BY TypeParts DEF IInv
  <1> QED  BY <1>1, MovesOne, MovesAwake

(* Taking the lock for a verdict. *)
LEMMA LockThenStep ==
  ASSUME IInv, FilesInv, NEW h \in Handler, NEW l, pc[h] # "idle", LockThen(h, l),
         UNCHANGED <<uploadVars, doomed, envVars>>,
         l \notin Reply /\ job' = job /\ seen' = seen /\ pc'[h] = l => StillFinds(h)'
  PROVE  FilesInv'
  <1>1. Moved(h) /\ pc'[h] = l
    BY GoingOn DEF LockThen, envVars
  <1>2. StillFinds(h)'
    <2>1. CASE l \in Reply
      BY <1>1, <2>1, ReplyOutside, NothingToFind
    <2>2. CASE l \notin Reply
      BY <1>1, <2>2 DEF LockThen, Proceed, Goto
    <2> QED  BY <2>1, <2>2
  <1> QED  BY <1>1, <1>2, ControlStep

LEMMA BeginJob ==
  ASSUME Procs, NEW h \in Handler, pc[h] \in BeginStep
  PROVE  job[h].u \in Upload /\ job[h].m \in Manifest
  <1>1. job[h] \in Request /\ job[h].op = "begin"
    BY DEF Procs, CarriesMatchStep, Carries
  <1> QED  BY <1>1, BeginRequest

LEMMA BeginEnterFiles ==
  ASSUME IInv, FilesInv, NEW h \in Handler, BeginTooLarge(h) \/ BeginEnter(h)
  PROVE  FilesInv'
  <1>1. CASE BeginTooLarge(h)
    BY <1>1, AnswerStep DEF BeginTooLarge, At, Reply, envVars
  <1>2. CASE BeginEnter(h)
    <2> DEFINE l == BeginVerdict(job[h].u, job[h].m)
    <2>1. /\ LockThen(h, l) /\ pc[h] = "begin"
          /\ UNCHANGED <<uploadVars, doomed, envVars>>
      BY <1>2 DEF BeginEnter, At
    <2>2. ASSUME l \notin Reply, job' = job, pc'[h] = l PROVE StillFinds(h)'
      <3>1. l = "mkdir" /\ dir[job[h].u] = "none" /\ HasQuota(job[h].m)
        BY <2>2 DEF BeginVerdict, Reply
      <3>2. dir' = dir /\ Reserved' = Reserved /\ UsedBytes' = UsedBytes
        BY <2>1, SameReserved DEF uploadVars
      <3> QED  BY <2>2, <3>1, <3>2 DEF StillFinds, Creating, HasQuota
    <2> HIDE DEF l
    <2> QED  BY <2>1, <2>2, LockThenStep
  <1> QED  BY <1>1, <1>2

LEMMA BeginWriteFiles ==
  ASSUME IInv, FilesInv, NEW h \in Handler,
         BeginMkdir(h) \/ BeginChunks(h) \/ BeginManifest(h)
  PROVE  FilesInv'
  <1>t. Files /\ Procs
    BY TypeParts DEF IInv
  <1>1. pc[h] \in {"mkdir", "chunks", "manifest"}
    BY DEF BeginMkdir, BeginChunks, BeginManifest, At
  <1>j. job[h].u \in Upload
    BY <1>t, <1>1, BeginJob DEF BeginStep, Creating
  <1>u. PICK u \in Upload : u = job[h].u
    BY <1>j
  <1>2. job[h].m \in Manifest /\ pc[h] \in Critical /\ pc[h] # "idle"
    BY <1>t, <1>1, BeginJob DEF BeginStep, Critical, Creating
  <1>3. PICK l \in {"chunks", "manifest", "server", "cleanup"} :
          Goto(h, l) /\ UNCHANGED <<server, receipt, ack, doomed, chunk, envVars>>
    BY DEF BeginMkdir, BeginChunks, BeginManifest
  <1>4. Moved(h) /\ pc'[h] = l /\ job' = job
    BY <1>2, <1>3, GoingOn DEF envVars, Goto
  <1>5. Reserved' = Reserved /\ UsedBytes' = UsedBytes
    BY <1>3, SameReserved
  <1>6. \A v \in Upload \ {u} : Untouched(v)
    BY <1>t, <1>u, <1>3 DEF BeginMkdir, BeginChunks, BeginManifest, Untouched, Files
  <1>g. Good(u) /\ StillFinds(h)
    BY <1>u DEF FilesInv, Good
  <1>7. Good(u)' /\ StillFinds(h)'
    <2>1. CASE BeginMkdir(h)
      <3>1. dir[u] = "none" /\ pc'[h] = "chunks" /\ HasQuota(job[h].m)
        BY <1>t, <1>u, <1>g, <2>1 DEF BeginMkdir, At, StillFinds, Creating, Goto, Procs
      <3>2. Absent(u)
        BY <1>g, <3>1 DEF Good, Placed
      <3>3. dir'[u] = "bare" /\ manifest' = manifest
        BY <1>t, <1>u, <2>1 DEF BeginMkdir, Files
      <3>4. Good(u)'
        BY <1>3, <3>2, <3>3 DEF Good, Placed, OneManifest, Described, Absent
      <3>5. StillFinds(h)'
        BY <1>u, <1>3, <1>4, <1>5, <3>1, <3>2, <3>3 DEF StillFinds, Absent, Creating, HasQuota
      <3> QED  BY <3>4, <3>5
    <2>2. CASE BeginChunks(h)
      <3>1. /\ receipt[u] = None /\ u \notin ack \cup doomed /\ pc'[h] = "manifest"
            /\ manifest[u] = None /\ server[u] = None /\ HasQuota(job[h].m)
            /\ \A i \in Index : chunk[u][i] = None
        BY <1>t, <1>u, <1>g, <2>2 DEF BeginChunks, At, StillFinds, Creating, Goto, Procs
      <3>2. dir'[u] = "full" /\ manifest' = manifest
        BY <1>t, <1>u, <2>2 DEF BeginChunks, Files
      <3>3. Good(u)'
        BY <1>3, <3>1, <3>2 DEF Good, Placed, OneManifest, Described
      <3>4. StillFinds(h)'
        BY <1>u, <1>3, <1>4, <1>5, <3>1, <3>2 DEF StillFinds, Creating, HasQuota
      <3> QED  BY <3>3, <3>4
    <2>3. CASE BeginManifest(h)
      <3>1. /\ receipt[u] = None /\ u \notin ack \cup doomed /\ dir[u] = "full"
            /\ server[u] = None /\ HasQuota(job[h].m)
            /\ \A i \in Index : chunk[u][i] = None
        BY <1>t, <1>u, <1>g, <2>3 DEF BeginManifest, At, StillFinds, Creating
      <3>2. pc'[h] \in {"server", "cleanup"}
        BY <1>t, <1>4, <2>3 DEF BeginManifest, Goto, Procs
      <3>3. dir' = dir /\ manifest'[u] = job[h].m
        BY <1>t, <1>u, <2>3 DEF BeginManifest, Files
      <3>4. Good(u)'
        BY <1>3, <3>1, <3>3 DEF Good, Placed, OneManifest, Described
      <3>5. StillFinds(h)'
        BY <1>u, <1>3, <1>4, <1>5, <3>1, <3>2, <3>3 DEF StillFinds, Creating, HasQuota
      <3> QED  BY <3>4, <3>5
    <2> QED  BY <2>1, <2>2, <2>3
  <1>8. QuotaRespected'
    BY <1>3, QuotaKept DEF NoneReserved
  <1> QED  BY <1>2, <1>4, <1>6, <1>7, <1>8, FileStep

(* server.json reserves the quota: one more file than before and its bytes,  *)
(* which the verdict found room for.                                         *)
LEMMA ReservingKeepsQuota ==
  ASSUME IInv, FilesInv, NEW u \in Upload, NEW m \in Manifest, NEW f \in ServerFile,
         f.m = m, server[u] = None, HasQuota(m), server' = [server EXCEPT ![u] = f]
  PROVE  QuotaRespected'
  <1>t. Files
    BY TypeParts DEF IInv
  <1>1. PICK R, S, d, w :
          /\ R = Reserved /\ S = Reserved'
          /\ d = [v \in Reserved |-> server[v].m] /\ w = ([v \in Reserved |-> server[v].m])'
    OBVIOUS
  <1>2. /\ IsFiniteSet(R) /\ Cardinality(R) \in Nat
        /\ d \in [R -> Manifest] /\ TotalSize(d) \in Nat
    BY <1>t, <1>1, ReservedSizes DEF UsedBytes
  <1>3. u \notin R /\ S = R \cup {u}
    BY <1>t, <1>1, StoreAssumption DEF Reserved, Files
  <1>4. /\ \A v \in R : server'[v] = server[v] /\ server'[v].m = d[v]
        /\ server'[u] = f
    BY <1>t, <1>1 DEF Reserved, Files
  <1>5. w \in [S -> Manifest] /\ w[u] = m /\ \A v \in R : w[v] = d[v]
    <2>1. w = [v \in S |-> server'[v].m]
      BY <1>1
    <2> QED  BY <1>2, <1>3, <1>4, <2>1
  <1>6. Cardinality(S) = Cardinality(R) + 1
    BY <1>2, <1>3, FS_AddElement
  <1>7. TotalSize(w) = TotalSize(d) + PlainSize[m]
    <2>1. w \in [R \cup {u} -> Manifest]
      BY <1>3, <1>5
    <2>2. TotalSize(w) = TotalSize(d) + PlainSize[w[u]]
      <3>1. IsFiniteSet(R) /\ d \in [R -> Manifest] /\ u \notin R /\ \A v \in R : w[v] = d[v]
        BY <1>2, <1>3, <1>5
      <3> QED  BY <2>1, <3>1, AddedSize
    <2> QED  BY <1>5, <2>2
  <1>8. Cardinality(R) < MaxFiles /\ PlainSize[m] <= MaxBytes - TotalSize(d)
    BY <1>1 DEF HasQuota, UsedBytes
  <1>9. PlainSize[m] \in Nat
    BY SizesAssumption
  <1>10. Cardinality(S) <= MaxFiles /\ TotalSize(w) <= MaxBytes
    BY <1>2, <1>6, <1>7, <1>8, <1>9, StoreAssumption
  <1> QED  BY <1>1, <1>10 DEF QuotaRespected, UsedBytes

LEMMA BeginServerFiles ==
  ASSUME IInv, FilesInv, NEW h \in Handler, BeginServer(h)
  PROVE  FilesInv'
  <1>t. Files /\ Procs
    BY TypeParts DEF IInv
  <1>1. pc[h] = "server" /\ UNCHANGED <<dir, manifest, chunk, receipt, ack, doomed, envVars>>
    BY DEF BeginServer, At
  <1>j. job[h].u \in Upload
    BY <1>t, <1>1, BeginJob DEF BeginStep, Creating
  <1>u. PICK u \in Upload : u = job[h].u
    BY <1>j
  <1>2. pc[h] \in Critical /\ pc[h] # "idle"
    BY <1>1 DEF Critical, Creating
  <1>3. PICK f \in ServerFile : f.m = job[h].m /\ server' = [server EXCEPT ![u] = f]
    <2>1. job[h].m \in Manifest
      BY <1>t, <1>1, BeginJob DEF BeginStep, Creating
    <2>2. [m |-> job[h].m, at |-> clock] \in ServerFile
      BY <1>t, <2>1 DEF ServerFile, Files
    <2> QED  BY <1>u, <2>2 DEF BeginServer
  <1>g. Good(u) /\ StillFinds(h)
    BY <1>u DEF FilesInv, Good
  <1>4. /\ receipt[u] = None /\ u \notin ack \cup doomed /\ dir[u] = "full"
        /\ server[u] = None /\ manifest[u] = job[h].m /\ HasQuota(job[h].m)
        /\ \A i \in Index : chunk[u][i] = None
    BY <1>u, <1>1, <1>g DEF StillFinds, Creating
  <1>5. \A v \in Upload \ {u} : Untouched(v)
    BY <1>t, <1>u, <1>1, <1>3 DEF Untouched, Files
  <1>6. Good(u)'
    <2>1. server'[u].m = manifest'[u]
      BY <1>t, <1>1, <1>3, <1>4 DEF Files
    <2> QED  BY <1>1, <1>4, <2>1 DEF Good, Placed, OneManifest, Described
  <1>7. QuotaRespected'
    <2>1. job[h].m \in Manifest
      BY <1>t, <1>1, BeginJob DEF BeginStep, Creating
    <2> QED  BY <1>3, <1>4, <2>1, ReservingKeepsQuota
  <1>8. Moved(h) /\ StillFinds(h)'
    <2>1. CASE Unlock(h, "ok")
      <3>1. (\A g \in Handler \ {h} : Stays(g)) /\ pc'[h] = "ok"
        BY <1>t, <2>1, MovesOne
      <3> QED  BY <1>1, <1>2, <3>1, MovesAwake, NothingToFind DEF envVars, Critical, Creating
    <2>2. CASE Goto(h, "cleanup")
      <3>1. Moved(h) /\ pc'[h] = "cleanup" /\ job' = job
        BY <1>1, <1>2, <2>2, GoingOn DEF envVars, Goto
      <3> QED  BY <1>u, <1>1, <1>4, <3>1 DEF StillFinds, Creating
    <2> QED  BY <2>1, <2>2 DEF BeginServer
  <1> QED  BY <1>2, <1>5, <1>6, <1>7, <1>8, FileStep

LEMMA PutJob ==
  ASSUME Procs, NEW h \in Handler, pc[h] \in PutStep
  PROVE  job[h].u \in Upload /\ job[h].i \in Index
  <1>1. job[h] \in Request /\ job[h].op = "put"
    BY DEF Procs, CarriesMatchStep, Carries
  <1> QED  BY <1>1, PutRequest

LEMMA PutControlFiles ==
  ASSUME IInv, FilesInv, NEW h \in Handler, PutRead(h) \/ PutEnter(h) \/ PutAborted(h)
  PROVE  FilesInv'
  <1>t. Procs
    BY TypeParts DEF IInv
  <1>1. CASE PutRead(h)
    <2>1. pc[h] = "put" /\ UNCHANGED <<uploadVars, doomed, envVars>>
      BY <1>1 DEF PutRead, At
    <2>2. CASE Answer(h, "notfound") \/ Answer(h, "invalid")
      BY <2>1, <2>2, AnswerStep DEF Reply
    <2>3. CASE seen' = [seen EXCEPT ![h] = manifest[job[h].u]] /\ UNCHANGED <<pc, job>>
      <3>1. \A g \in Handler \ {h} : Stays(g)
        BY <1>t, <2>3 DEF Stays, Procs
      <3>2. Moved(h) /\ pc'[h] \notin Critical
        BY <2>1, <2>3, <3>1, MovesAwake DEF envVars, Critical, Creating
      <3> QED  BY <2>1, <3>2, NothingToFind, ControlStep
    <2> QED  BY <1>1, <2>2, <2>3 DEF PutRead
  <1>2. CASE PutEnter(h)
    <2> DEFINE l == PutVerdict(job[h].u, job[h].i)
    <2>1. /\ LockThen(h, l) /\ pc[h] = "put"
          /\ UNCHANGED <<uploadVars, doomed, envVars>>
      BY <1>2 DEF PutEnter, At
    <2>2. ASSUME l \notin Reply, job' = job, pc'[h] = l PROVE StillFinds(h)'
      <3>1. l = "body" /\ dir[job[h].u] = "full" /\ chunk[job[h].u][job[h].i] = None
        BY <2>2 DEF PutVerdict, Reply
      <3>2. dir' = dir /\ chunk' = chunk
        BY <2>1 DEF uploadVars
      <3> QED  BY <2>2, <3>1, <3>2 DEF StillFinds, Creating
    <2> HIDE DEF l
    <2> QED  BY <2>1, <2>2, LockThenStep
  <1>3. CASE PutAborted(h)
    BY <1>3, AnswerStep DEF PutAborted, At, Reply
  <1> QED  BY <1>1, <1>2, <1>3

(* The chunk goes where the lock holder found none.  It may come from a      *)
(* request that read the manifest of an earlier upload under the same ID:    *)
(* then its index lies outside a sealed upload, all of whose chunks exist.   *)
LEMMA PutBodyFiles ==
  ASSUME IInv, FilesInv, NEW h \in Handler, PutBody(h)
  PROVE  FilesInv'
  <1>t. Files /\ Procs
    BY TypeParts DEF IInv
  <1>1. /\ pc[h] = "body" /\ Unlock(h, "ok")
        /\ UNCHANGED <<dir, manifest, server, receipt, ack, doomed, envVars>>
    BY DEF PutBody, At
  <1>j. job[h].u \in Upload /\ job[h].i \in Index
    BY <1>t, <1>1, PutJob DEF PutStep
  <1>u. PICK u \in Upload, i \in Index : u = job[h].u /\ i = job[h].i
    BY <1>j
  <1>2. PICK c : chunk' = [chunk EXCEPT ![u][i] = c]
    BY <1>u DEF PutBody
  <1>g. Good(u) /\ StillFinds(h)
    BY <1>u DEF FilesInv, Good
  <1>3. dir[u] = "full" /\ chunk[u][i] = None
    BY <1>u, <1>1, <1>g DEF StillFinds
  <1>4. \A v \in Upload \ {u} : Untouched(v)
    BY <1>t, <1>1, <1>2 DEF Untouched, Files
  <1>5. Described(u)'
    <2> SUFFICES ASSUME u \notin doomed PROVE Described(u)'
      BY <1>1 DEF Described
    <2>1. CASE receipt[u] = None
      BY <1>1, <1>g, <2>1 DEF Good, Described
    <2>2. CASE receipt[u] # None
      <3>1. PICK m : m = manifest[u]
        OBVIOUS
      <3>2. AllFit(chunk[u], m) /\ receipt[u] = ReceiptOf(chunk[u], m) /\ m = receipt[u].m
        BY <1>g, <2>2, <3>1 DEF Good, Described
      <3>3. None \notin ChunkFile
        BY StoreAssumption
      <3>4. i \notin Indices(m)
        BY <1>3, <3>2, <3>3 DEF AllFit, Fits
      <3>5. \A k \in Indices(m) : chunk'[u][k] = chunk[u][k]
        BY <1>t, <1>2, <3>4 DEF Files
      <3>6. AllFit(chunk'[u], m)
        BY <3>2, <3>5 DEF AllFit
      <3>7. ReceiptOf(chunk'[u], m) = ReceiptOf(chunk[u], m)
        BY <3>5 DEF ReceiptOf
      <3>8. manifest'[u] = m /\ receipt'[u] = receipt[u]
        BY <1>1, <3>1
      <3> QED  BY <2>2, <3>2, <3>6, <3>7, <3>8 DEF Described
    <2> QED  BY <2>1, <2>2
  <1>6. Placed(u)'
    BY <1>1, <1>3, <1>g DEF Good, Placed
  <1>m. OneManifest(u)'
    BY <1>1, <1>g DEF Good, OneManifest
  <1>7. Moved(h) /\ StillFinds(h)'
    <2>1. (\A g \in Handler \ {h} : Stays(g)) /\ pc'[h] = "ok"
      BY <1>t, <1>1, MovesOne
    <2> QED  BY <1>1, <2>1, MovesAwake, NothingToFind DEF envVars, Critical, Creating
  <1>8. QuotaRespected'
    BY <1>1, QuotaKept DEF NoneReserved
  <1>9. pc[h] \in Critical
    BY <1>1 DEF Critical
  <1> QED  BY <1>4, <1>5, <1>6, <1>m, <1>7, <1>8, <1>9, FileStep DEF Good

LEMMA UploadJob ==
  ASSUME Procs, NEW h \in Handler, pc[h] \in CompleteStep \cup AckStep
  PROVE  job[h].u \in Upload
  <1>1. job[h] \in Request /\ job[h].op \in {"complete", "ack"}
    BY DEF Procs, CarriesMatchStep, Carries
  <1> QED  BY <1>1, UploadRequest

LEMMA CompleteFiles ==
  ASSUME IInv, FilesInv, NEW h \in Handler, CompleteEnter(h) \/ WriteReceipt(h)
  PROVE  FilesInv'
  <1>t. Files /\ Procs
    BY TypeParts DEF IInv
  <1>0. pc[h] \in {"complete", "receipt"}
    BY DEF CompleteEnter, WriteReceipt, At
  <1>j. job[h].u \in Upload
    BY <1>t, <1>0, UploadJob DEF CompleteStep
  <1>u. PICK u \in Upload : u = job[h].u
    BY <1>j
  <1>1. CASE CompleteEnter(h)
    <2>1. UNCHANGED <<uploadVars, doomed, envVars>>
      BY <1>1 DEF CompleteEnter
    <2>2. CASE CompleteVerdict(u) # "receipt"
      <3>1. PICK v \in Reply : Answer(h, v)
        <4>1. CompleteVerdict(u) \in Reply
          BY <2>2 DEF CompleteVerdict, Reply
        <4> QED  BY <1>u, <1>1, <2>2, <4>1 DEF CompleteEnter
      <3> QED  BY <1>0, <2>1, <3>1, AnswerStep
    <2>3. CASE CompleteVerdict(u) = "receipt"
      <3>1. /\ pc' = [pc EXCEPT ![h] = "receipt"] /\ job' = job
            /\ seen' = [seen EXCEPT ![h] = ReceiptOf(chunk[u], manifest[u])]
        BY <1>u, <1>1, <2>3 DEF CompleteEnter
      <3>2. receipt[u] = None /\ manifest[u] # None /\ AllFit(chunk[u], manifest[u])
        BY <2>3 DEF CompleteVerdict
      <3>3. (\A g \in Handler \ {h} : Stays(g)) /\ pc'[h] = "receipt"
        BY <1>t, <3>1 DEF Stays, Procs
      <3>4. seen'[h] = ReceiptOf(chunk[u], manifest[u])
        BY <1>t, <3>1 DEF Procs
      <3>5. Moved(h)
        BY <1>0, <2>1, <3>3, MovesAwake DEF envVars
      <3>6. chunk' = chunk /\ manifest' = manifest /\ receipt' = receipt
        BY <2>1 DEF uploadVars
      <3>7. StillFinds(h)'
        BY <1>u, <3>1, <3>2, <3>3, <3>4, <3>6 DEF StillFinds, Creating
      <3> QED  BY <2>1, <3>5, <3>7, ControlStep
    <2> QED  BY <2>2, <2>3
  <1>2. CASE WriteReceipt(h)
    <2>1. /\ pc[h] = "receipt" /\ receipt' = [receipt EXCEPT ![u] = seen[h]]
          /\ UNCHANGED <<dir, manifest, server, chunk, ack, doomed, envVars>>
      BY <1>u, <1>2 DEF WriteReceipt, At
    <2>2. PICK l \in Reply : Unlock(h, l)
      BY <1>2 DEF WriteReceipt, WriteReply, Reply
    <2>3. (\A g \in Handler \ {h} : Stays(g)) /\ pc'[h] = l
      BY <1>t, <2>2, MovesOne
    <2>4. Moved(h) /\ StillFinds(h)'
      BY <2>1, <2>3, MovesAwake, NothingToFind, ReplyOutside DEF envVars
    <2>g. Good(u) /\ StillFinds(h)
      BY <1>u DEF FilesInv, Good
    <2>5. /\ manifest[u] # None /\ AllFit(chunk[u], manifest[u])
          /\ seen[h] = ReceiptOf(chunk[u], manifest[u])
      BY <1>u, <2>1, <2>g DEF StillFinds
    <2>6. seen[h].m = manifest[u] /\ seen[h] # None
      <3>1. seen[h] \in Receipt
        BY <1>t, <2>1 DEF Procs, CarriesMatchStep, Carries
      <3> QED  BY <2>5, <3>1, StoreAssumption DEF ReceiptOf
    <2>7. receipt'[u] = seen[h]
      BY <1>t, <2>1 DEF Files
    <2>8. Good(u)'
      BY <2>1, <2>5, <2>6, <2>7, <2>g DEF Good, Placed, OneManifest, Described, Absent
    <2>9. \A v \in Upload \ {u} : Untouched(v)
      BY <1>t, <2>1 DEF Untouched, Files
    <2>10. QuotaRespected'
      BY <2>1, QuotaKept DEF NoneReserved
    <2>11. pc[h] \in Critical
      BY <2>1 DEF Critical
    <2> QED  BY <2>4, <2>8, <2>9, <2>10, <2>11, FileStep
  <1> QED  BY <1>1, <1>2

-----------------------------------------------------------------------------
(* RemoveAll's unlinks and its final rmdir. *)

LEMMA UnlinkOne ==
  ASSUME Files, NEW u \in Upload, Unlink(u), UNCHANGED doomed
  PROVE  (\A v \in Upload \ {u} : Untouched(v)) /\ NoneReserved
  <1> USE DEF Files, Untouched, NoneReserved
  <1>1. CASE manifest' = [manifest EXCEPT ![u] = None] /\ UNCHANGED <<dir, server, chunk, receipt, ack>>
    BY <1>1
  <1>2. CASE server' = [server EXCEPT ![u] = None] /\ UNCHANGED <<dir, manifest, chunk, receipt, ack>>
    BY <1>2
  <1>3. CASE receipt' = [receipt EXCEPT ![u] = None] /\ UNCHANGED <<dir, manifest, server, chunk, ack>>
    BY <1>3
  <1>4. CASE ack' = ack \ {u} /\ UNCHANGED <<dir, manifest, server, chunk, receipt>>
    BY <1>4
  <1>5. ASSUME NEW i \in Index, chunk' = [chunk EXCEPT ![u][i] = None],
               UNCHANGED <<dir, manifest, server, receipt, ack>>
        PROVE  (\A v \in Upload \ {u} : Untouched(v)) /\ NoneReserved
    BY <1>5
  <1>6. CASE dir' = [dir EXCEPT ![u] = "bare"] /\ UNCHANGED <<manifest, server, chunk, receipt, ack>>
    BY <1>6
  <1> QED  BY <1>1, <1>2, <1>3, <1>4, <1>5, <1>6 DEF Unlink

(* Removal only takes away. *)
LEMMA UnlinkTakes ==
  ASSUME Files, NEW u \in Upload, Unlink(u)
  PROVE  /\ manifest'[u] \in {manifest[u], None} /\ server'[u] \in {server[u], None}
         /\ receipt'[u] \in {receipt[u], None} /\ ack' \subseteq ack
         /\ dir'[u] # dir[u] => dir'[u] = "bare"
         /\ \A i \in Index : chunk'[u][i] \in {chunk[u][i], None}
  <1> USE DEF Files
  <1>1. CASE manifest' = [manifest EXCEPT ![u] = None] /\ UNCHANGED <<dir, server, chunk, receipt, ack>>
    BY <1>1
  <1>2. CASE server' = [server EXCEPT ![u] = None] /\ UNCHANGED <<dir, manifest, chunk, receipt, ack>>
    BY <1>2
  <1>3. CASE receipt' = [receipt EXCEPT ![u] = None] /\ UNCHANGED <<dir, manifest, server, chunk, ack>>
    BY <1>3
  <1>4. CASE ack' = ack \ {u} /\ UNCHANGED <<dir, manifest, server, chunk, receipt>>
    BY <1>4
  <1>6. CASE dir' = [dir EXCEPT ![u] = "bare"] /\ UNCHANGED <<manifest, server, chunk, receipt, ack>>
    BY <1>6
  <1>5. ASSUME NEW k \in Index, chunk' = [chunk EXCEPT ![u][k] = None],
               UNCHANGED <<dir, manifest, server, receipt, ack>>
        PROVE  /\ UNCHANGED <<dir, manifest, server, receipt, ack>>
               /\ \A i \in Index : chunk'[u][i] \in {chunk[u][i], None}
    BY <1>5
  <1> QED  BY <1>1, <1>2, <1>3, <1>4, <1>5, <1>6 DEF Unlink

LEMMA UnlinkPlaced ==
  ASSUME Files, NEW u \in Upload, Unlink(u), UNCHANGED doomed, Placed(u)
  PROVE  Placed(u)'
  <1>1. dir[u] # "none"
    BY DEF Placed, Absent, Unlink
  <1> USE DEF Files, Placed
  <1>2. CASE UNCHANGED <<dir, chunk>>
    BY <1>1, <1>2
  <1>3. ASSUME NEW i \in Index, chunk' = [chunk EXCEPT ![u][i] = None],
               UNCHANGED <<dir, manifest, server, receipt, ack>>
        PROVE  Placed(u)'
    BY <1>1, <1>3
  <1>4. CASE /\ \A i \in Index : chunk[u][i] = None
             /\ dir' = [dir EXCEPT ![u] = "bare"] /\ UNCHANGED <<manifest, server, chunk, receipt, ack>>
    BY <1>1, <1>4
  <1> QED  BY <1>2, <1>3, <1>4 DEF Unlink

(* What it leaves is in order if it is doomed or was never sealed.           *)
LEMMA UnlinkGood ==
  ASSUME Files, NEW u \in Upload, Unlink(u), UNCHANGED doomed, Good(u),
         u \in doomed \/ (receipt[u] = None /\ u \notin ack)
  PROVE  Good(u)'
  <1>1. Placed(u)' /\ OneManifest(u)'
    BY UnlinkPlaced, UnlinkTakes DEF Good, OneManifest
  <1>2. CASE u \in doomed
    BY <1>1, <1>2 DEF Good, Described
  <1>3. CASE receipt[u] = None /\ u \notin ack
    BY <1>1, <1>3, UnlinkTakes DEF Good, Described
  <1> QED  BY <1>2, <1>3

LEMMA RmdirGood ==
  ASSUME Files, NEW u \in Upload, Emptied(u), Rmdir(u), Placed(u)
  PROVE  /\ Good(u)' /\ \A v \in Upload \ {u} : Untouched(v)
         /\ NoneReserved
  <1>1. /\ dir' = [dir EXCEPT ![u] = "none"] /\ doomed' = doomed \ {u}
        /\ UNCHANGED <<manifest, server, chunk, receipt, ack>>
    BY DEF Rmdir
  <1>2. /\ manifest[u] = None /\ server[u] = None /\ receipt[u] = None /\ u \notin ack
        /\ \A i \in Index : chunk[u][i] = None
    BY DEF Emptied, Placed
  <1>3. \A v \in Upload \ {u} : Untouched(v)
    BY <1>1 DEF Files, Untouched
  <1>4. Placed(u)' /\ OneManifest(u)' /\ Described(u)'
    BY <1>1, <1>2 DEF Placed, Absent, OneManifest, Described
  <1> QED  BY <1>1, <1>3, <1>4 DEF Good, NoneReserved

LEMMA RemoveFiles ==
  ASSUME IInv, FilesInv, NEW h \in Handler, RemoveFile(h) \/ RemoveDone(h) \/ RemoveFails(h)
  PROVE  FilesInv'
  <1>t. Files /\ Procs
    BY TypeParts DEF IInv
  <1>1. pc[h] \in {"remove", "cleanup"} /\ pc[h] \in Critical /\ UNCHANGED envVars
    BY DEF RemoveFile, RemoveDone, RemoveFails, Removing, Critical, procVars
  <1>j. job[h].u \in Upload
    BY <1>t, <1>1, UploadJob, BeginJob DEF AckStep, BeginStep
  <1>u. PICK u \in Upload : u = job[h].u
    BY <1>j
  <1>g. Good(u) /\ StillFinds(h)
    BY <1>u DEF FilesInv, Good
  <1>2. \/ u \in doomed /\ pc[h] = "remove"
        \/ /\ receipt[u] = None /\ u \notin ack
           /\ \A i \in Index : chunk[u][i] = None
    BY <1>u, <1>1, <1>g DEF StillFinds
  <1>3. CASE RemoveFile(h)
    <2>1. Unlink(u) /\ UNCHANGED <<doomed, pc, job, seen>>
      BY <1>u, <1>3 DEF RemoveFile, procVars
    <2>2. Good(u)' /\ NoneReserved /\ \A v \in Upload \ {u} : Untouched(v)
      BY <1>t, <1>g, <1>2, <2>1, UnlinkGood, UnlinkOne DEF Good
    <2>3. StillFinds(h)'
      <3>1. /\ receipt[u] = None => receipt'[u] = None
            /\ u \notin ack => u \notin ack'
            /\ \A i \in Index : chunk[u][i] = None => chunk'[u][i] = None
            /\ dir[u] # "none" => dir'[u] # "none"
        BY <1>t, <2>1, UnlinkTakes
      <3> QED  BY <1>u, <1>1, <1>g, <2>1, <3>1 DEF StillFinds, Creating
    <2>4. Moved(h)
      BY <1>1, <2>1, MovesAwake DEF Stays, envVars
    <2> QED  BY <1>1, <2>2, <2>3, <2>4, QuotaKept, FileStep
  <1>4. CASE RemoveDone(h)
    <2>1. Emptied(u) /\ Rmdir(u)
      BY <1>u, <1>4 DEF RemoveDone
    <2>2. Good(u)' /\ NoneReserved /\ \A v \in Upload \ {u} : Untouched(v)
      BY <1>t, <1>g, <2>1, RmdirGood DEF Good
    <2>3. PICK l \in Reply : Unlock(h, l)
      BY <1>4 DEF RemoveDone, Reply
    <2>4. (\A g \in Handler \ {h} : Stays(g)) /\ pc'[h] = l
      BY <1>t, <2>3, MovesOne
    <2>5. Moved(h) /\ StillFinds(h)'
      BY <1>1, <2>4, MovesAwake, NothingToFind, ReplyOutside DEF envVars
    <2> QED  BY <1>1, <2>2, <2>5, QuotaKept, FileStep
  <1>5. CASE RemoveFails(h)
    BY <1>1, <1>5, AnswerStep DEF RemoveFails, Reply
  <1> QED  BY <1>3, <1>4, <1>5

-----------------------------------------------------------------------------

LEMMA AckFiles ==
  ASSUME IInv, FilesInv, NEW h \in Handler, AckEnter(h) \/ AckWrite(h) \/ DeleteStart(h)
  PROVE  FilesInv'
  <1>t. Files /\ Procs
    BY TypeParts DEF IInv
  <1>0. pc[h] \in {"ack", "ackwrite", "delete"} /\ UNCHANGED envVars
    BY DEF AckEnter, AckWrite, DeleteStart, At
  <1>j. job[h].u \in Upload
    BY <1>t, <1>0, UploadJob DEF AckStep
  <1>u. PICK u \in Upload : u = job[h].u
    BY <1>j
  <1>g. Good(u) /\ StillFinds(h)
    BY <1>u DEF FilesInv, Good
  <1>1. CASE AckEnter(h)
    <2> DEFINE l == IF receipt[job[h].u] = None THEN "notfound" ELSE "ackwrite"
    <2>1. LockThen(h, l) /\ UNCHANGED <<uploadVars, doomed, envVars>>
      BY <1>1 DEF AckEnter
    <2>2. ASSUME l \notin Reply, job' = job, pc'[h] = l PROVE StillFinds(h)'
      <3>1. l = "ackwrite" /\ receipt[job[h].u] # None
        BY <2>2 DEF Reply
      <3>2. receipt' = receipt
        BY <2>1 DEF uploadVars
      <3> QED  BY <2>2, <3>1, <3>2 DEF StillFinds, Creating
    <2> HIDE DEF l
    <2> QED  BY <1>0, <2>1, <2>2, LockThenStep
  <1>2. CASE AckWrite(h)
    <2>1. /\ pc[h] = "ackwrite" /\ ack' = ack \cup {u}
          /\ UNCHANGED <<dir, manifest, server, chunk, receipt, doomed>>
      BY <1>u, <1>2 DEF AckWrite, At
    <2>2. receipt[u] # None
      BY <1>u, <1>g, <2>1 DEF StillFinds
    <2>3. Good(u)'
      BY <1>g, <2>1, <2>2 DEF Good, Placed, Absent, OneManifest, Described
    <2>4. \A v \in Upload \ {u} : Untouched(v)
      BY <2>1 DEF Untouched
    <2>5. QuotaRespected'
      BY <2>1, QuotaKept DEF NoneReserved
    <2>6. Moved(h) /\ StillFinds(h)'
      <3>1. CASE Goto(h, "delete")
        <4>1. Moved(h) /\ pc'[h] = "delete" /\ job' = job
          BY <1>0, <3>1, GoingOn DEF envVars, Goto
        <4> QED  BY <1>u, <2>1, <2>2, <4>1 DEF StillFinds, Creating
      <3>2. ASSUME NEW l \in Reply, Unlock(h, l) PROVE Moved(h) /\ StillFinds(h)'
        <4>1. (\A g \in Handler \ {h} : Stays(g)) /\ pc'[h] = l
          BY <1>t, <3>2, MovesOne
        <4> QED  BY <1>0, <4>1, MovesAwake, NothingToFind, ReplyOutside DEF envVars
      <3> QED  BY <1>2, <3>1, <3>2 DEF AckWrite, Reply
    <2>7. pc[h] \in Critical
      BY <2>1 DEF Critical
    <2> QED  BY <2>3, <2>4, <2>5, <2>6, <2>7, FileStep
  <1>3. CASE DeleteStart(h)
    <2>1. /\ pc[h] = "delete" /\ doomed' = doomed \cup {u} /\ Goto(h, "remove")
          /\ UNCHANGED uploadVars
      BY <1>u, <1>3 DEF DeleteStart, At
    <2>2. receipt[u] # None
      BY <1>u, <1>g, <2>1 DEF StillFinds
    <2>3. Good(u)'
      BY <1>g, <2>1, <2>2 DEF Good, Placed, Absent, OneManifest, Described, uploadVars
    <2>4. \A v \in Upload \ {u} : Untouched(v)
      BY <2>1 DEF Untouched, uploadVars
    <2>5. QuotaRespected'
      BY <2>1, QuotaKept DEF NoneReserved, uploadVars
    <2>6. Moved(h) /\ pc'[h] = "remove" /\ job' = job
      BY <1>0, <2>1, GoingOn DEF envVars, Goto
    <2>7. StillFinds(h)'
      BY <1>u, <2>1, <2>6 DEF StillFinds, Creating
    <2>8. pc[h] \in Critical
      BY <2>1 DEF Critical
    <2> QED  BY <2>3, <2>4, <2>5, <2>6, <2>7, <2>8, FileStep
  <1> QED  BY <1>1, <1>2, <1>3

LEMMA CloseFiles ==
  ASSUME IInv, FilesInv, NEW h \in Handler, CloseEnter(h) \/ CloseMark(h) \/ CloseMove(h)
  PROVE  FilesInv'
  <1>0. pc[h] \in {"close", "mark", "move"} /\ UNCHANGED <<uploadVars, doomed, envVars>>
    BY DEF CloseEnter, CloseMark, CloseMove, At
  <1>1. ASSUME NEW l \in Reply, Unlock(h, l) PROVE FilesInv'
    BY <1>0, <1>1, AnswerStep
  <1>2. ASSUME Goto(h, "move") PROVE FilesInv'
    <2>1. Moved(h) /\ pc'[h] = "move"
      BY <1>0, <1>2, GoingOn DEF envVars
    <2>2. StillFinds(h)'
      BY <2>1 DEF StillFinds, Creating
    <2> QED  BY <1>0, <2>1, <2>2, ControlStep
  <1>3. CASE CloseEnter(h)
    <2>1. LockThen(h, CloseVerdict)
      BY <1>3 DEF CloseEnter
    <2>2. ASSUME CloseVerdict \notin Reply, pc'[h] = CloseVerdict PROVE StillFinds(h)'
      <3>1. pc'[h] \in {"mark", "move"}
        BY <2>2 DEF CloseVerdict, Reply
      <3> QED  BY <3>1 DEF StillFinds, Creating
    <2>3. PICK l : l = CloseVerdict
      OBVIOUS
    <2> QED  BY <1>0, <2>1, <2>2, <2>3, LockThenStep
  <1>4. CASE CloseMark(h)
    BY <1>1, <1>2, <1>4 DEF CloseMark, Reply
  <1>5. CASE CloseMove(h)
    BY <1>1, <1>5 DEF CloseMove, WriteReply, Reply
  <1> QED  BY <1>3, <1>4, <1>5

(* A failing write answers, or goes on to the cleanup of what it began.      *)
LEMMA IOFailsFiles ==
  ASSUME IInv, FilesInv, NEW h \in Handler, IOFails(h)
  PROVE  FilesInv'
  <1>0. pc[h] # "idle" /\ UNCHANGED <<uploadVars, doomed, envVars>>
    BY DEF IOFails
  <1>1. CASE Unlock(h, "error")
    BY <1>0, <1>1, AnswerStep DEF Reply
  <1>2. CASE pc[h] \in {"chunks", "manifest", "server"} /\ Goto(h, "cleanup")
    <2>1. Moved(h) /\ pc'[h] = "cleanup" /\ job' = job
      BY <1>0, <1>2, GoingOn DEF envVars, Goto
    <2>2. /\ receipt[job[h].u] = None /\ job[h].u \notin ack \cup doomed
          /\ \A i \in Index : chunk[job[h].u][i] = None
          /\ dir[job[h].u] # "none"
      BY <1>2 DEF FilesInv, StillFinds
    <2>3. receipt' = receipt /\ ack' = ack /\ doomed' = doomed /\ chunk' = chunk /\ dir' = dir
      BY <1>0 DEF uploadVars
    <2>4. StillFinds(h)'
      BY <2>1, <2>2, <2>3 DEF StillFinds, Creating
    <2> QED  BY <1>0, <2>1, <2>4, ControlStep
  <1> QED  BY <1>1, <1>2 DEF IOFails

(* Everything that is not a handler: while purge removes, nobody is awake.   *)
LEMMA QuietFiles ==
  ASSUME IInv, FilesInv, \A h \in Handler : StillFinds(h)', Exclusive',
         UNCHANGED <<uploadVars, doomed>>
  PROVE  FilesInv'
  <1>1. \A u \in Upload : Good(u)'
    BY AllUntouched, UntouchedGood DEF FilesInv, Good
  <1>2. QuotaRespected'
    BY QuotaKept DEF NoneReserved, uploadVars
  <1> QED  BY <1>1, <1>2 DEF FilesInv, Good

LEMMA PurgingFiles ==
  ASSUME IInv, FilesInv, NEW u \in Upload, ~up, UNCHANGED <<pc, up>>,
         Good(u)', \A v \in Upload \ {u} : Untouched(v), NoneReserved,
         purging' # None => purging' \in doomed'
  PROVE  FilesInv'
  <1>1. \A v \in Upload : Good(v)'
    BY UntouchedGood DEF FilesInv, Good
  <1>2. \A h \in Handler : pc[h] = "idle"
    BY DEF FilesInv, Exclusive
  <1>3. \A h \in Handler : StillFinds(h)'
    BY <1>2 DEF StillFinds, Creating
  <1>4. Exclusive'
    BY <1>2 DEF Exclusive
  <1> QED  BY <1>1, <1>3, <1>4, QuotaKept DEF FilesInv, Good

LEMMA EnvironmentFiles ==
  ASSUME IInv, FilesInv, ImportRequest \/ Crash \/ Restart \/ Maintenance \/ Tick
  PROVE  FilesInv'
  <1>t. Files /\ Exclusive /\ \A u \in Upload : Placed(u) /\ Good(u)
    BY TypeParts DEF IInv, FilesInv, Good
  <1>1. CASE ImportRequest \/ Tick \/ Restart \/ PurgeStops
    <2>1. UNCHANGED <<uploadVars, doomed, pc, job, seen>>
      BY <1>1 DEF ImportRequest, Tick, Restart, PurgeStops, procVars
    <2>2. \A h \in Handler : StillFinds(h)'
      BY <2>1, FindsUnchanged DEF FilesInv, Stays
    <2>3. Exclusive'
      BY <1>1, <1>t, <2>1 DEF ImportRequest, Tick, Restart, PurgeStops, procVars, envVars, Exclusive
    <2> QED  BY <2>1, <2>2, <2>3, QuietFiles
  <1>2. CASE Crash
    <2>1. /\ UNCHANGED <<uploadVars, doomed>> /\ up /\ ~up' /\ purging' = purging
          /\ \A h \in Handler : pc'[h] = "idle"
      BY <1>2 DEF Crash
    <2>2. \A h \in Handler : StillFinds(h)'
      BY <2>1 DEF StillFinds, Creating
    <2>3. Exclusive'
      BY <1>t, <2>1 DEF Exclusive
    <2> QED  BY <2>1, <2>2, <2>3, QuietFiles
  <1>3. ASSUME NEW u \in Upload, PurgeStart(u) PROVE FilesInv'
    <2>1. /\ ~up /\ dir[u] # "none" /\ doomed' = doomed \cup {u} /\ purging' = u
          /\ UNCHANGED <<uploadVars, pc, up>>
      BY <1>3 DEF PurgeStart, procVars
    <2>2. Good(u)' /\ NoneReserved
      BY <1>t, <2>1 DEF Good, Placed, OneManifest, Described, NoneReserved, uploadVars
    <2>3. \A v \in Upload \ {u} : Untouched(v)
      BY <2>1 DEF Untouched, uploadVars
    <2> QED  BY <2>1, <2>2, <2>3, PurgingFiles
  <1>4. CASE PurgeFile
    <2>1. PICK u \in Upload : u = purging
      BY <1>4, <1>t DEF PurgeFile, Files
    <2>2. ~up /\ u \in doomed /\ Unlink(u) /\ UNCHANGED <<doomed, pc, up, purging>>
      BY <1>4, <1>t, <2>1 DEF PurgeFile, Exclusive, procVars, envVars
    <2>3. /\ Good(u)' /\ NoneReserved
          /\ \A v \in Upload \ {u} : Untouched(v)
      BY <1>t, <2>2, UnlinkGood, UnlinkOne DEF Good
    <2> QED  BY <2>1, <2>2, <2>3, PurgingFiles
  <1>5. CASE PurgeDone
    <2>1. PICK u \in Upload : u = purging
      BY <1>5, <1>t DEF PurgeDone, Files
    <2>2. ~up /\ Emptied(u) /\ Rmdir(u) /\ purging' = None /\ UNCHANGED <<pc, up>>
      BY <1>5, <1>t, <2>1 DEF PurgeDone, Exclusive, procVars
    <2>3. Good(u)' /\ NoneReserved /\ \A v \in Upload \ {u} : Untouched(v)
      BY <1>t, <2>2, RmdirGood
    <2> QED  BY <2>2, <2>3, PurgingFiles
  <1> QED  BY <1>1, <1>2, <1>3, <1>4, <1>5 DEF Maintenance

LEMMA FilesInit == Init => FilesInv
  <1> SUFFICES ASSUME Init PROVE FilesInv
    OBVIOUS
  <1>1. \A u \in Upload : Placed(u) /\ OneManifest(u) /\ Described(u)
    BY DEF Init, Placed, Absent, OneManifest, Described
  <1>2. \A h \in Handler : StillFinds(h)
    BY DEF Init, StillFinds, Creating
  <1>3. Reserved = {}
    BY DEF Init, Reserved
  <1>4. QuotaRespected
    <2>1. UsedBytes = 0
      BY <1>3, NoSize DEF UsedBytes
    <2> QED  BY <1>3, <2>1, FS_EmptySet, StoreAssumption DEF QuotaRespected
  <1> QED  BY <1>1, <1>2, <1>4 DEF Init, FilesInv, Exclusive

LEMMA FilesStep ==
  ASSUME IInv, FilesInv, [Next]_vars
  PROVE  FilesInv'
  <1>1. ASSUME NEW h \in Handler, Call(h) \/ Advance(h) \/ Fault(h) \/ Return(h)
        PROVE  FilesInv'
    BY <1>1, AuthorizeFiles, BeginEnterFiles, BeginWriteFiles, BeginServerFiles,
       PutControlFiles, PutBodyFiles, CompleteFiles, AckFiles, RemoveFiles, CloseFiles,
       IOFailsFiles
       DEF Advance, Fault
  <1>2. CASE ImportRequest \/ Crash \/ Restart \/ Maintenance \/ Tick
    BY <1>2, EnvironmentFiles
  <1>3. CASE UNCHANGED vars
    <2>1. UNCHANGED <<uploadVars, doomed>> /\ \A h \in Handler : Stays(h)
      BY <1>3 DEF vars, procVars, Stays
    <2>2. \A h \in Handler : StillFinds(h)'
      BY <2>1, FindsUnchanged DEF FilesInv
    <2>3. Exclusive'
      BY <1>3 DEF vars, procVars, envVars, FilesInv, Exclusive
    <2> QED  BY <2>1, <2>2, <2>3, QuietFiles
  <1> QED  BY <1>1, <1>2, <1>3 DEF Next

(* The inductive invariant holds in every reachable state.                   *)
THEOREM StrongInvariant == Spec => []Inv
  <1>1. IInv /\ FilesInv /\ [Next]_vars => FilesInv'
    BY FilesStep
  <1> QED  BY <1>1, FilesInit, Invariant, PTL DEF Spec, Inv

(* A receipt describes what is stored until a removal is decided, whatever   *)
(* handlers, failures and crashes come between.                              *)
THEOREM ReceiptsMatchStored == Spec => []ReceiptMatchesStored
  <1>1. Inv => ReceiptMatchesStored
    BY DEF Inv, FilesInv, Described, ReceiptMatchesStored
  <1> QED  BY <1>1, StrongInvariant, PTL

(* Racing BeginUpload calls never reserve more files or more bytes than the  *)
(* request allows.                                                           *)
THEOREM QuotaIsRespected == Spec => []QuotaRespected
  <1>1. Inv => QuotaRespected
    BY DEF Inv, FilesInv
  <1> QED  BY <1>1, StrongInvariant, PTL

-----------------------------------------------------------------------------
(* What a step may never do. *)

(* No file of any upload is replaced in this step. *)
NothingReplaced ==
  \A u \in Upload :
    /\ manifest[u] # None => manifest'[u] \in {manifest[u], None}
    /\ server[u] # None => server'[u] \in {server[u], None}
    /\ receipt[u] # None => receipt'[u] \in {receipt[u], None}
    /\ \A i \in Index : chunk[u][i] # None => chunk'[u][i] \in {chunk[u][i], None}

LEMMA UnlinkReplaces ==
  ASSUME Files, NEW u \in Upload, Unlink(u)
  PROVE  NothingReplaced
  <1> USE DEF NothingReplaced, Files
  <1>1. CASE manifest' = [manifest EXCEPT ![u] = None] /\ UNCHANGED <<server, chunk, receipt>>
    BY <1>1
  <1>2. CASE server' = [server EXCEPT ![u] = None] /\ UNCHANGED <<manifest, chunk, receipt>>
    BY <1>2
  <1>3. CASE receipt' = [receipt EXCEPT ![u] = None] /\ UNCHANGED <<manifest, server, chunk>>
    BY <1>3
  <1>4. ASSUME NEW i \in Index, chunk' = [chunk EXCEPT ![u][i] = None],
               UNCHANGED <<manifest, server, receipt>>
        PROVE  NothingReplaced
    BY <1>4
  <1>5. CASE UNCHANGED <<manifest, server, receipt, chunk>>
    BY <1>5
  <1> QED  BY <1>1, <1>2, <1>3, <1>4, <1>5 DEF Unlink

LEMMA ReplaceStep ==
  ASSUME IInv, FilesInv, [Next]_vars
  PROVE  NothingReplaced
  <1>t. Files /\ Procs
    BY TypeParts DEF IInv
  <1>s. \A h \in Handler : StillFinds(h)
    BY DEF FilesInv
  <1>1. CASE UNCHANGED <<manifest, server, receipt, chunk>>
    BY <1>1 DEF NothingReplaced
  <1>2. ASSUME NEW h \in Handler, BeginManifest(h) PROVE NothingReplaced
    <2>1. manifest[job[h].u] = None
      BY <1>2, <1>s DEF BeginManifest, At, StillFinds
    <2> QED  BY <1>2, <1>t, <2>1 DEF BeginManifest, NothingReplaced, Files
  <1>3. ASSUME NEW h \in Handler, BeginServer(h) PROVE NothingReplaced
    <2>1. server[job[h].u] = None
      BY <1>3, <1>s DEF BeginServer, At, StillFinds
    <2> QED  BY <1>3, <1>t, <2>1 DEF BeginServer, NothingReplaced, Files
  <1>4. ASSUME NEW h \in Handler, PutBody(h) PROVE NothingReplaced
    <2>1. chunk[job[h].u][job[h].i] = None
      BY <1>4, <1>s DEF PutBody, At, StillFinds
    <2>2. PICK c : chunk' = [chunk EXCEPT ![job[h].u][job[h].i] = c]
      BY <1>4 DEF PutBody
    <2>3. UNCHANGED <<manifest, server, receipt>>
      BY <1>4 DEF PutBody
    <2> QED  BY <1>t, <2>1, <2>2, <2>3 DEF NothingReplaced, Files
  <1>5. ASSUME NEW h \in Handler, WriteReceipt(h) PROVE NothingReplaced
    <2>1. receipt[job[h].u] = None
      BY <1>5, <1>s DEF WriteReceipt, At, StillFinds
    <2> QED  BY <1>5, <1>t, <2>1 DEF WriteReceipt, NothingReplaced, Files
  <1>6. ASSUME NEW h \in Handler, RemoveFile(h) PROVE NothingReplaced
    <2>1. pc[h] \in {"remove", "cleanup"}
      BY <1>6 DEF RemoveFile, Removing
    <2>2. job[h].u \in Upload
      BY <1>t, <2>1, UploadJob, BeginJob DEF AckStep, BeginStep
    <2> QED  BY <1>6, <1>t, <2>2, UnlinkReplaces DEF RemoveFile
  <1>7. CASE PurgeFile
    BY <1>7, <1>t, UnlinkReplaces DEF PurgeFile, Files
  <1>8. ASSUME NEW h \in Handler, Call(h) \/ Advance(h) \/ Fault(h) \/ Return(h),
               ~BeginManifest(h), ~BeginServer(h), ~PutBody(h), ~WriteReceipt(h), ~RemoveFile(h)
        PROVE  UNCHANGED <<manifest, server, receipt, chunk>>
    BY <1>8 DEF Advance, Fault, Call, AuthenticateClosed, Gate, Return,
       BeginTooLarge, BeginEnter, BeginMkdir, BeginChunks, PutRead, PutEnter, PutAborted,
       CompleteEnter, AckEnter, AckWrite, DeleteStart, RemoveDone, Rmdir, RemoveFails,
       CloseEnter, CloseMark, CloseMove, IOFails, uploadVars
  <1>9. CASE ImportRequest \/ Crash \/ Restart \/ (\E u \in Upload : PurgeStart(u))
               \/ PurgeDone \/ PurgeStops \/ Tick \/ UNCHANGED vars
    <2>1. UNCHANGED <<manifest, server, receipt, chunk>>
      BY <1>9 DEF ImportRequest, Crash, Restart, PurgeStart, PurgeDone, Rmdir, PurgeStops,
                  Tick, uploadVars, vars
    <2> QED  BY <1>1, <2>1
  <1> QED  BY <1>1, <1>2, <1>3, <1>4, <1>5, <1>6, <1>7, <1>8, <1>9 DEF Next, Maintenance

(* What is stored stays as written until it is removed, also where an upload *)
(* ID is used again and where requests race for one chunk.                   *)
THEOREM StoredFilesKept == Spec => NothingOverwritten
  <1>1. Inv /\ [Next]_vars => [NothingReplaced]_vars
    BY ReplaceStep DEF Inv
  <1>2. NothingOverwritten <=> [][NothingReplaced]_vars
    BY DEF NothingOverwritten, NothingReplaced
  <1> QED  BY <1>1, <1>2, StrongInvariant, PTL DEF Spec

(* No upload is given up in this step that is complete and still wanted.     *)
NothingGivenUp ==
  \A u \in doomed' \ doomed :
    \/ receipt[u] = None \/ server[u] = None
    \/ u \in ack \/ clock >= ExpiresAt

LEMMA GiveUpStep ==
  ASSUME IInv, FilesInv, [Next]_vars
  PROVE  NothingGivenUp
  <1>1. ASSUME NEW h \in Handler, DeleteStart(h) PROVE NothingGivenUp
    <2>1. doomed' = doomed \cup {job[h].u} /\ job[h].u \in ack
      BY <1>1 DEF DeleteStart, At, FilesInv, StillFinds
    <2> QED  BY <2>1 DEF NothingGivenUp
  <1>2. ASSUME NEW u \in Upload, PurgeStart(u) PROVE NothingGivenUp
    <2>1. active \/ closedBundle
      BY DEF IInv, ClosureInv, ClosureFailsClosed
    <2>2. doomed' = doomed \cup {u} /\ (BundleExpired \/ Stale(u))
      BY <1>2 DEF PurgeStart
    <2> QED  BY <2>1, <2>2 DEF NothingGivenUp, BundleExpired, Stale
  <1>3. ASSUME NEW h \in Handler, Call(h) \/ Advance(h) \/ Fault(h) \/ Return(h),
               ~DeleteStart(h)
        PROVE  doomed' \subseteq doomed
    BY <1>3 DEF Advance, Fault, Call, AuthenticateClosed, Gate, Return,
       BeginTooLarge, BeginEnter, BeginMkdir, BeginChunks, BeginManifest, BeginServer,
       PutRead, PutEnter, PutBody, PutAborted, CompleteEnter, WriteReceipt,
       AckEnter, AckWrite, RemoveFile, RemoveDone, Rmdir, RemoveFails,
       CloseEnter, CloseMark, CloseMove, IOFails
  <1>4. CASE ImportRequest \/ Crash \/ Restart \/ PurgeFile \/ PurgeDone \/ PurgeStops
               \/ Tick \/ UNCHANGED vars
    <2>1. doomed' \subseteq doomed
      BY <1>4 DEF ImportRequest, Crash, Restart, PurgeFile, PurgeDone, Rmdir, PurgeStops,
                  Tick, vars
    <2> QED  BY <2>1 DEF NothingGivenUp
  <1>5. CASE doomed' \subseteq doomed
    BY <1>5 DEF NothingGivenUp
  <1> QED  BY <1>1, <1>2, <1>3, <1>4, <1>5 DEF Next, Maintenance

(* A completed upload whose server.json was written is removed only once it  *)
(* is acknowledged or the request has expired.                               *)
THEOREM CompletedAreRetained == Spec => RetainedUntilReleased
  <1>1. Inv /\ [Next]_vars => [NothingGivenUp]_vars
    BY GiveUpStep DEF Inv
  <1>2. RetainedUntilReleased <=> [][NothingGivenUp]_vars
    BY DEF RetainedUntilReleased, NothingGivenUp
  <1> QED  BY <1>1, <1>2, StrongInvariant, PTL DEF Spec

-----------------------------------------------------------------------------
(* Successes are on disk when they are answered. *)

LEMMA Moving ==
  ASSUME Procs, NEW h \in Handler, NEW l
  PROVE  /\ Goto(h, l) => pc'[h] = l
         /\ Answer(h, l) => pc'[h] = l
         /\ Proceed(h, l) => pc'[h] = l
         /\ Unlock(h, l) => pc'[h] = l
         /\ LockThen(h, l) => pc'[h] = l
  BY DEF Goto, Answer, Proceed, Unlock, LockThen, Procs

LEMMA OthersStay ==
  ASSUME Procs, NEW g \in Handler, NEW h \in Handler \ {g},
         Call(g) \/ Advance(g) \/ Fault(g) \/ Return(g)
  PROVE  Stays(h)
  <1> USE DEF Procs, Goto, Answer, Proceed, Unlock, LockThen, Stays
  <1>1. CASE Call(g) \/ Return(g) \/ AuthenticateClosed(g) \/ Gate(g)
    BY <1>1 DEF Call, Return, AuthenticateClosed, Gate
  <1>2. CASE \/ BeginTooLarge(g) \/ BeginEnter(g) \/ BeginMkdir(g) \/ BeginChunks(g)
             \/ BeginManifest(g) \/ BeginServer(g)
    BY <1>2 DEF BeginTooLarge, BeginEnter, BeginMkdir, BeginChunks, BeginManifest, BeginServer
  <1>3. CASE PutRead(g) \/ PutEnter(g) \/ PutBody(g) \/ PutAborted(g)
    BY <1>3 DEF PutRead, PutEnter, PutBody, PutAborted
  <1>4. CASE CompleteEnter(g) \/ WriteReceipt(g)
    BY <1>4 DEF CompleteEnter, WriteReceipt
  <1>5. CASE AckEnter(g) \/ AckWrite(g) \/ DeleteStart(g)
    BY <1>5 DEF AckEnter, AckWrite, DeleteStart
  <1>6. CASE RemoveFile(g) \/ RemoveDone(g) \/ RemoveFails(g)
    BY <1>6 DEF RemoveFile, RemoveDone, RemoveFails, procVars
  <1>7. CASE CloseEnter(g) \/ CloseMark(g) \/ CloseMove(g)
    BY <1>7 DEF CloseEnter, CloseMark, CloseMove
  <1>8. CASE IOFails(g)
    BY <1>8 DEF IOFails
  <1> QED  BY <1>1, <1>2, <1>3, <1>4, <1>5, <1>6, <1>7, <1>8 DEF Advance, Fault

(* The steps that answer a success. *)
Succeeding(h) ==
  \/ BeginEnter(h) \/ BeginServer(h) \/ PutBody(h) \/ CompleteEnter(h) \/ WriteReceipt(h)
  \/ AckWrite(h) \/ RemoveDone(h) \/ CloseEnter(h) \/ CloseMark(h) \/ CloseMove(h)

LEMMA OnlySucceeding ==
  ASSUME IInv, NEW h \in Handler, pc[h] # "ok", pc'[h] = "ok",
         Call(h) \/ Advance(h) \/ Fault(h) \/ Return(h)
  PROVE  Succeeding(h)
  <1>t. Procs /\ Carries(pc[h], job[h], seen[h])
    BY TypeParts DEF IInv, Procs, CarriesMatchStep
  <1>1. ~Call(h)
    <2> SUFFICES ASSUME Call(h) PROVE FALSE
      OBVIOUS
    <2>1. PICK r \in Request : pc' = [pc EXCEPT ![h] = IF active THEN Admitted(r) ELSE "auth"]
      BY DEF Call
    <2> QED  BY <1>t, <2>1, RequestOps DEF Procs, Admitted
  <1>2. ~AuthenticateClosed(h)
    <2> SUFFICES ASSUME AuthenticateClosed(h) PROVE FALSE
      OBVIOUS
    <2>1. job[h] \in Request
      BY <1>t DEF AuthenticateClosed, At, Carries
    <2> QED  BY <1>t, <2>1, Moving, RequestOps DEF AuthenticateClosed, Admitted
  <1>3. ~Gate(h)
    <2> SUFFICES ASSUME Gate(h) PROVE FALSE
      OBVIOUS
    <2>1. job[h].op \in SubmitOp
      BY <1>t DEF Gate, At, Carries
    <2> QED  BY <1>t, <2>1, Moving DEF Gate, SubmitOp
  <1>4. ~Return(h) /\ ~BeginTooLarge(h) /\ ~PutAborted(h) /\ ~RemoveFails(h)
    BY <1>t, Moving DEF Return, BeginTooLarge, PutAborted, RemoveFails
  <1>5. ~BeginMkdir(h) /\ ~BeginChunks(h) /\ ~BeginManifest(h) /\ ~DeleteStart(h)
    BY <1>t, Moving DEF BeginMkdir, BeginChunks, BeginManifest, DeleteStart
  <1>6. ~PutRead(h)
    BY <1>t, Moving DEF PutRead
  <1>7. ~PutEnter(h)
    <2>1. PutVerdict(job[h].u, job[h].i) # "ok"
      BY DEF PutVerdict
    <2> QED  BY <1>t, <2>1, Moving DEF PutEnter
  <1>8. ~AckEnter(h)
    BY <1>t, Moving DEF AckEnter
  <1>9. ~RemoveFile(h) /\ ~IOFails(h)
    BY <1>t, Moving DEF RemoveFile, procVars, IOFails
  <1> QED  BY <1>1, <1>2, <1>3, <1>4, <1>5, <1>6, <1>7, <1>8, <1>9
           DEF Advance, Fault, Succeeding

LEMMA SucceedingDurable ==
  ASSUME IInv, FilesInv, NEW h \in Handler, pc[h] # "ok", pc'[h] = "ok", Succeeding(h),
         NEW r \in {job[h]}
  PROVE  Durable(r)'
  <1>t. Files /\ Procs /\ Carries(pc[h], job[h], seen[h]) /\ StillFinds(h)
    BY TypeParts DEF IInv, Procs, CarriesMatchStep, FilesInv
  <1>r. r = job[h]
    OBVIOUS
  <1>1. CASE BeginEnter(h)
    <2>1. r.op = "begin" /\ UNCHANGED uploadVars
      BY <1>1, <1>r, <1>t DEF BeginEnter, At, Carries, BeginStep
    <2>2. BeginVerdict(r.u, r.m) = "ok"
      BY <1>1, <1>r, <1>t, Moving DEF BeginEnter
    <2>3. SameUpload(r.u, r.m)
      BY <2>2 DEF BeginVerdict
    <2> QED  BY <2>1, <2>3 DEF SameUpload, Durable, uploadVars
  <1>2. CASE BeginServer(h)
    <2>1. /\ r.op = "begin" /\ r.u \in Upload /\ r.m \in Manifest
          /\ manifest[r.u] = r.m /\ dir[r.u] = "full"
      BY <1>2, <1>r, <1>t, BeginJob
         DEF BeginServer, At, Carries, BeginStep, Creating, StillFinds
    <2>2. /\ server' = [server EXCEPT ![r.u] = [m |-> r.m, at |-> clock]]
          /\ UNCHANGED <<manifest, dir>>
      BY <1>2, <1>r DEF BeginServer
    <2>3. [m |-> r.m, at |-> clock] \in ServerFile
      BY <1>t, <2>1 DEF ServerFile, Files
    <2>4. server'[r.u] # None
      BY <1>t, <2>1, <2>2, <2>3, StoreAssumption DEF Files
    <2> QED  BY <2>1, <2>2, <2>4 DEF Durable
  <1>3. CASE PutBody(h)
    <2>1. /\ r.op = "put" /\ r.u \in Upload /\ r.i \in Index /\ r.d \in Digest
          /\ seen[h] \in Manifest /\ r.i \in Indices(seen[h])
      BY <1>3, <1>r, <1>t, PutRequest DEF PutBody, At, Carries, PutStep
    <2>2. PICK c : c = [len |-> ExpectedLength(seen[h], r.i), dig |-> r.d]
      OBVIOUS
    <2>3. c \in ChunkFile /\ c.dig = r.d
      BY <2>1, <2>2, PutFile
    <2>4. chunk' = [chunk EXCEPT ![r.u][r.i] = c]
      BY <1>3, <1>r, <2>2 DEF PutBody
    <2>5. chunk'[r.u][r.i] = c
      BY <1>t, <2>1, <2>4 DEF Files
    <2> QED  BY <2>1, <2>3, <2>5, StoreAssumption DEF Durable
  <1>4. CASE CompleteEnter(h)
    <2>1. r.op = "complete" /\ receipt' = receipt
      BY <1>4, <1>r, <1>t DEF CompleteEnter, At, Carries, CompleteStep, uploadVars
    <2>2. CompleteVerdict(r.u) = "ok"
      BY <1>4, <1>r, <1>t, Moving DEF CompleteEnter, Procs
    <2>3. receipt[r.u] # None
      BY <2>2 DEF CompleteVerdict
    <2> QED  BY <2>1, <2>3 DEF Durable
  <1>5. CASE WriteReceipt(h)
    <2>1. r.op = "complete" /\ r.u \in Upload /\ seen[h] \in Receipt
      BY <1>5, <1>r, <1>t, UploadJob DEF WriteReceipt, At, Carries, CompleteStep
    <2>2. receipt'[r.u] = seen[h]
      BY <1>5, <1>r, <1>t, <2>1 DEF WriteReceipt, Files
    <2> QED  BY <2>1, <2>2, StoreAssumption DEF Durable
  <1>6. CASE AckWrite(h)
    <2>1. r.op = "ack" /\ ack' = ack \cup {r.u}
      BY <1>6, <1>r, <1>t DEF AckWrite, At, Carries, AckStep
    <2> QED  BY <2>1 DEF Durable
  <1>7. CASE RemoveDone(h)
    <2>1. pc[h] = "remove"
      BY <1>7, <1>t, Moving DEF RemoveDone, Removing
    <2>2. r.op = "ack" /\ r.u \in Upload
      BY <1>r, <1>t, <2>1, UploadJob DEF Carries, AckStep
    <2>3. dir'[r.u] = "none"
      BY <1>7, <1>r, <1>t, <2>2 DEF RemoveDone, Rmdir, Files
    <2> QED  BY <2>2, <2>3 DEF Durable
  <1>8. CASE CloseEnter(h)
    <2>1. r.op = "close" /\ UNCHANGED bundleVars
      BY <1>8, <1>r, <1>t DEF CloseEnter, At, Carries, CloseStep
    <2>2. CloseVerdict = "ok"
      BY <1>8, <1>t, Moving DEF CloseEnter
    <2> QED  BY <2>1, <2>2 DEF CloseVerdict, Durable, bundleVars
  <1>9. CASE CloseMark(h)
    <2>1. r.op = "close" /\ closure' = clock /\ UNCHANGED <<active, closedBundle>>
      BY <1>9, <1>r, <1>t DEF CloseMark, At, Carries, CloseStep
    <2>2. ~active
      BY <1>9, <1>t, Moving DEF CloseMark
    <2>3. closedBundle /\ clock # None
      BY <1>t, <2>2, StoreAssumption DEF IInv, ClosureInv, ClosureFailsClosed, Files
    <2> QED  BY <2>1, <2>2, <2>3 DEF Durable
  <1>10. CASE CloseMove(h)
    <2>1. r.op = "close" /\ ~active' /\ closedBundle' /\ closure' = closure
      BY <1>10, <1>r, <1>t DEF CloseMove, At, Carries, CloseStep
    <2>2. closure # None
      BY <1>10 DEF CloseMove, At, IInv, ClosureInv, ClosureSeen
    <2> QED  BY <2>1, <2>2 DEF Durable
  <1> QED  BY <1>1, <1>2, <1>3, <1>4, <1>5, <1>6, <1>7, <1>8, <1>9, <1>10 DEF Succeeding

AnswersDurable ==
  \A h \in Handler : pc[h] # "ok" /\ pc'[h] = "ok" =>
    \A r \in {job[h]} : Durable(r)'

LEMMA AnswerDurableStep ==
  ASSUME IInv, FilesInv, [Next]_vars
  PROVE  AnswersDurable
  <1>t. Procs
    BY TypeParts DEF IInv
  <1> SUFFICES ASSUME NEW h \in Handler, pc[h] # "ok", pc'[h] = "ok", NEW r \in {job[h]}
               PROVE  Durable(r)'
    BY DEF AnswersDurable
  <1>1. ASSUME NEW g \in Handler, Call(g) \/ Advance(g) \/ Fault(g) \/ Return(g)
        PROVE  Durable(r)'
    <2>1. g = h
      BY <1>1, <1>t, OthersStay DEF Stays
    <2> QED  BY <1>1, <2>1, OnlySucceeding, SucceedingDurable
  <1>2. CASE Crash
    BY <1>2 DEF Crash
  <1>3. CASE ImportRequest \/ Restart \/ Maintenance \/ Tick \/ UNCHANGED vars
    <2>1. pc' = pc
      BY <1>3 DEF ImportRequest, Restart, Maintenance, PurgeStart, PurgeFile, PurgeDone,
                  PurgeStops, Tick, vars, procVars
    <2> QED  BY <2>1
  <1> QED  BY <1>1, <1>2, <1>3 DEF Next

(* A success is answered only once all it promises is on disk, including     *)
(* what an earlier, interrupted call left half done.                         *)
THEOREM AnswersAreDurable == Spec => AnswerIsDurable
  <1>1. Inv /\ [Next]_vars => [AnswersDurable]_vars
    BY AnswerDurableStep DEF Inv
  <1>2. AnswerIsDurable <=> [][AnswersDurable]_vars
    BY DEF AnswerIsDurable, AnswersDurable
  <1> QED  BY <1>1, <1>2, StrongInvariant, PTL DEF Spec

-----------------------------------------------------------------------------
(* The store implements the intake ledger.  Each step of the store is one    *)
(* step of the ledger - seen from the ledger a file is there or it is not -  *)
(* or none at all.                                                           *)

(* The ledger's copies of the data operators are those of Manifests. *)
LEMMA SameData ==
  /\ \A m : Ledger!Indices(m) = Indices(m)
  /\ Ledger!ChunkFile = ChunkFile /\ Ledger!Receipt = Receipt
  /\ \A files, m : Ledger!AllFit(files, m) = AllFit(files, m)
  /\ \A files, m : Ledger!ReceiptOf(files, m) = ReceiptOf(files, m)
  /\ \A m : Ledger!TotalSize(m) = TotalSize(m)
  /\ \A S : Ledger!Cardinality(S) = Cardinality(S)
  <1>1. \A m : Ledger!Count(m) = Count(m)
    BY DEF Ledger!Count, Ledger!ChunkCountFor, Count, ChunkCountFor
  <1>2. \A m : Ledger!Indices(m) = Indices(m)
    BY <1>1 DEF Ledger!Indices, Indices
  <1>3. \A m, i : Ledger!ExpectedLength(m, i) = ExpectedLength(m, i)
    BY <1>1 DEF Ledger!ExpectedLength, Ledger!CipherLength, Ledger!PlainLength, Ledger!Overhead,
                ExpectedLength, CipherLength, PlainLength, Overhead
  <1>4. Ledger!Length = Length
    BY <1>2, <1>3 DEF Ledger!Length, Length
  <1>5. Ledger!ChunkFile = ChunkFile
    BY <1>4 DEF Ledger!ChunkFile, ChunkFile
  <1>6. Ledger!Receipt = Receipt
    BY <1>2 DEF Ledger!Receipt, Receipt
  <1>7. \A files, m : Ledger!AllFit(files, m) = AllFit(files, m)
    BY <1>2, <1>3, <1>5 DEF Ledger!AllFit, Ledger!Fits, AllFit, Fits
  <1>8. \A files, m : Ledger!ReceiptOf(files, m) = ReceiptOf(files, m)
    BY <1>2 DEF Ledger!ReceiptOf, ReceiptOf
  <1>c. \A S : Ledger!Cardinality(S) = Cardinality(S)
    BY DEF Ledger!Cardinality, Cardinality
  <1>9. \A m : Ledger!TotalSize(m) = TotalSize(m)
    BY <1>c DEF Ledger!TotalSize, Ledger!Bytes, TotalSize, Bytes
  <1> QED  BY <1>2, <1>5, <1>6, <1>7, <1>8, <1>9, <1>c

(* Upload u is in the ledger, and what the ledger holds of it. *)
InLedger(u) ==
  u \notin doomed /\ manifest[u] # None /\ server[u] # None /\ dir[u] = "full"
LedgerEntry(u) == [m |-> manifest[u], parts |-> [i \in Indices(manifest[u]) |-> chunk[u][i]],
             seal |-> receipt[u], acked |-> u \in ack]

LEMMA SlotCases ==
  ASSUME NEW u PROVE SlotOf(u) = IF InLedger(u) THEN LedgerEntry(u) ELSE None
  BY DEF SlotOf, InLedger, LedgerEntry

LEMMA EntryIsSlot ==
  ASSUME Files, NEW u \in Upload, InLedger(u)
  PROVE  LedgerEntry(u) \in Ledger!Slot /\ LedgerEntry(u) # None
  <1>1. manifest[u] \in Manifest
    BY DEF Files, InLedger
  <1>2. [i \in Indices(manifest[u]) |-> chunk[u][i]] \in [Indices(manifest[u]) -> ChunkFile \cup {None}]
    <2>1. Indices(manifest[u]) \subseteq Index
      BY <1>1 DEF Index
    <2>2. chunk[u] \in [Index -> ChunkFile \cup {None}]
      BY DEF Files
    <2> QED  BY <2>1, <2>2
  <1>3. receipt[u] \in Receipt \cup {None} /\ (u \in ack) \in BOOLEAN
    BY DEF Files
  <1>4. LedgerEntry(u) \in [m : {manifest[u]}, parts : [Indices(manifest[u]) -> ChunkFile \cup {None}],
                      seal : Receipt \cup {None}, acked : BOOLEAN]
    BY <1>2, <1>3 DEF LedgerEntry
  <1>5. LedgerEntry(u) \in Ledger!Slot
    BY <1>1, <1>4, SameData DEF Ledger!Slot
  <1> QED  BY <1>5, LedgerAssumption

LEMMA EntryFields ==
  ASSUME NEW u
  PROVE  /\ LedgerEntry(u).m = manifest[u] /\ LedgerEntry(u).seal = receipt[u]
         /\ LedgerEntry(u).acked = (u \in ack)
         /\ LedgerEntry(u).parts = [i \in Indices(manifest[u]) |-> chunk[u][i]]
  BY DEF LedgerEntry

(* An upload whose files stay keeps its slot. *)
LEMMA UntouchedSlot ==
  ASSUME NEW u, Untouched(u) PROVE SlotOf(u)' = SlotOf(u)
  BY DEF Untouched, SlotOf

LEMMA AllSlotsStay ==
  ASSUME \A u \in Upload : SlotOf(u)' = SlotOf(u) PROVE Slots' = Slots
  BY DEF Slots

LEMMA OneSlotChanges ==
  ASSUME NEW u \in Upload, \A v \in Upload \ {u} : Untouched(v), NEW x, SlotOf(u)' = x
  PROVE  Slots' = [Slots EXCEPT ![u] = x]
  <1>1. \A v \in Upload \ {u} : SlotOf(v)' = SlotOf(v)
    BY UntouchedSlot
  <1> QED  BY <1>1 DEF Slots

(* What a step of the store is in the ledger. *)
LedgerStep == Ledger!Next \/ UNCHANGED Ledger!vars

LEMMA QuietStep ==
  ASSUME UNCHANGED <<dir, manifest, server, chunk, receipt, ack, doomed, closure, clock>>
  PROVE  LedgerStep
  <1>1. Slots' = Slots
    BY DEF Slots, SlotOf
  <1> QED  BY <1>1 DEF LedgerStep, Ledger!vars

(* Upload u leaves the ledger, or was not in it and is not. *)
LEMMA LeavingStep ==
  ASSUME Files, NEW u \in Upload, \A v \in Upload \ {u} : Untouched(v), ~InLedger(u)',
         InLedger(u) => receipt[u] = None \/ u \in ack \/ clock >= ExpiresAt,
         UNCHANGED <<closure, clock>>
  PROVE  LedgerStep
  <1>1. SlotOf(u)' = None
    BY SlotCases DEF InLedger, SlotOf
  <1>2. CASE InLedger(u)
    <2>1. Slots[u] = LedgerEntry(u) /\ LedgerEntry(u) # None
      BY <1>2, SlotCases, EntryIsSlot DEF Slots
    <2>2. Slots' = [Slots EXCEPT ![u] = None]
      BY <1>1, OneSlotChanges
    <2>3. Ledger!Drop(u)
      <3>1. Slots[u].seal = receipt[u] /\ Slots[u].acked = (u \in ack)
        BY <2>1, EntryFields
      <3>2. Slots[u].seal = None \/ Slots[u].acked \/ clock >= ExpiresAt
        BY <1>2, <3>1
      <3> QED  BY <2>1, <2>2, <3>2 DEF Ledger!Drop
    <2> QED  BY <2>3 DEF LedgerStep, Ledger!Next
  <1>3. CASE ~InLedger(u)
    <2>1. \A v \in Upload : SlotOf(v)' = SlotOf(v)
      BY <1>1, <1>3, SlotCases, UntouchedSlot
    <2> QED  BY <2>1, AllSlotsStay DEF LedgerStep, Ledger!vars
  <1> QED  BY <1>2, <1>3

(* The bytes the ledger counts are among those the store has reserved. *)
LEMMA LedgerWithinQuota ==
  ASSUME IInv, FilesInv
  PROVE  /\ Cardinality(Ledger!Open) \in Nat /\ Cardinality(Ledger!Open) <= Cardinality(Reserved)
         /\ Ledger!OpenBytes \in Nat /\ Ledger!OpenBytes <= UsedBytes
  <1>t. Files /\ \A u \in Upload : OneManifest(u)
    BY TypeParts DEF IInv, FilesInv
  <1> DEFINE O == Ledger!Open
             w == [u \in O |-> Slots[u].m]
             d == [u \in Reserved |-> server[u].m]
  <1>1. \A u \in O : u \in Upload /\ InLedger(u) /\ Slots[u] = LedgerEntry(u)
    BY SlotCases DEF Ledger!Open, Slots
  <1>2. O \subseteq Reserved
    BY <1>1 DEF InLedger, Reserved
  <1>3. \A u \in O : w[u] = d[u]
    <2> SUFFICES ASSUME NEW u \in O PROVE Slots[u].m = server[u].m
      BY <1>2
    <2>1. u \in Upload /\ InLedger(u) /\ Slots[u] = LedgerEntry(u)
      BY <1>1
    <2> QED  BY <1>t, <2>1, EntryFields DEF InLedger, OneManifest
  <1>4. IsFiniteSet(Reserved) /\ d \in [Reserved -> Manifest]
    BY <1>t, ReservedSizes
  <1>5. w \in [O -> Manifest]
    BY <1>2, <1>3, <1>4
  <1>6. Ledger!OpenBytes = TotalSize(w) /\ UsedBytes = TotalSize(d)
    BY SameData DEF Ledger!OpenBytes, UsedBytes
  <1> HIDE DEF O, w, d
  <1>7. IsFiniteSet(O) /\ Cardinality(O) \in Nat /\ Cardinality(O) <= Cardinality(Reserved)
    BY <1>2, <1>4, FS_Subset, FS_CardinalityType
  <1>8. TotalSize(w) \in Nat /\ TotalSize(w) <= TotalSize(d)
    BY <1>2, <1>3, <1>4, <1>5, <1>7, BytesFinite, SmallerSize
  <1> QED  BY <1>6, <1>7, <1>8 DEF O

(* server.json makes the upload: the ledger begins it. *)
LEMMA BeginStepMaps ==
  ASSUME IInv, FilesInv, NEW h \in Handler, BeginServer(h)
  PROVE  LedgerStep
  <1>t. Files /\ Procs
    BY TypeParts DEF IInv
  <1>1. pc[h] = "server" /\ UNCHANGED <<dir, manifest, chunk, receipt, ack, doomed, closure, clock>>
    BY DEF BeginServer, At, bundleVars, envVars
  <1>j. job[h].u \in Upload /\ job[h].m \in Manifest
    BY <1>t, <1>1, BeginJob DEF BeginStep, Creating
  <1>u. PICK u \in Upload, m \in Manifest : u = job[h].u /\ m = job[h].m
    BY <1>j
  <1>2. /\ receipt[u] = None /\ u \notin ack \cup doomed
        /\ server[u] = None /\ manifest[u] = m /\ dir[u] = "full" /\ HasQuota(m)
        /\ \A i \in Index : chunk[u][i] = None
    BY <1>u, <1>1 DEF FilesInv, StillFinds, Creating
  <1>3. closure = None
    BY <1>1 DEF IInv, ClosureInv, ClosureSeen, Creating
  <1>4. PICK f \in ServerFile : server' = [server EXCEPT ![u] = f]
    <2>1. [m |-> m, at |-> clock] \in ServerFile
      BY <1>t DEF ServerFile, Files
    <2> QED  BY <1>u, <2>1 DEF BeginServer
  <1>5. \A v \in Upload \ {u} : Untouched(v)
    BY <1>t, <1>1, <1>4 DEF Untouched, Files
  <1>6. Slots[u] = None
    BY <1>2, SlotCases DEF Slots, InLedger
  <1>7. SlotOf(u)' = Ledger!Fresh(m)
    <2>1. Indices(m) \subseteq Index
      BY DEF Index
    <2>2. m # None /\ server'[u] # None
      BY <1>t, <1>4, StoreAssumption DEF Files
    <2>3. SlotOf(u)' = [m |-> m, parts |-> [i \in Indices(m) |-> chunk[u][i]],
                        seal |-> None, acked |-> FALSE]
      <3>1. (u \in ack') = FALSE
        BY <1>1, <1>2
      <3>2. InLedger(u)'
        BY <1>1, <1>2, <2>2 DEF InLedger
      <3>3. SlotOf(u)' = [m |-> manifest'[u], parts |-> [i \in Indices(manifest'[u]) |-> chunk'[u][i]],
                          seal |-> receipt'[u], acked |-> u \in ack']
        BY <3>2 DEF SlotOf, InLedger
      <3> QED  BY <1>1, <1>2, <3>1, <3>3
    <2>4. [i \in Indices(m) |-> chunk[u][i]] = [i \in Indices(m) |-> None]
      BY <1>2, <2>1
    <2> QED  BY <2>3, <2>4, SameData DEF Ledger!Fresh
  <1>8. Slots' = [Slots EXCEPT ![u] = Ledger!Fresh(m)]
    BY <1>5, <1>7, OneSlotChanges
  <1>9. /\ Ledger!Cardinality(Ledger!Open) < MaxFiles
        /\ Ledger!OpenBytes + PlainSize[m] <= MaxBytes
    <2>1. Cardinality(Reserved) < MaxFiles /\ PlainSize[m] <= MaxBytes - UsedBytes
      BY <1>2 DEF HasQuota
    <2>2. PlainSize[m] \in Nat
      BY SizesAssumption
    <2> QED  BY <1>t, <2>1, <2>2, LedgerWithinQuota, ReservedSizes, StoreAssumption, SameData
  <1>10. Ledger!Begin(u, m)
    BY <1>1, <1>3, <1>6, <1>8, <1>9 DEF Ledger!Begin
  <1> QED  BY <1>10 DEF LedgerStep, Ledger!Next

(* A chunk is put, and the ledger gains a part - unless the manifest the     *)
(* request read belonged to an earlier upload and the index lies outside     *)
(* this one, or the upload is not in the ledger.                             *)
LEMMA PutStepMaps ==
  ASSUME IInv, FilesInv, NEW h \in Handler, PutBody(h)
  PROVE  LedgerStep
  <1>t. Files /\ Procs /\ Carries(pc[h], job[h], seen[h])
    BY TypeParts DEF IInv, Procs, CarriesMatchStep
  <1>1. /\ pc[h] = "body"
        /\ UNCHANGED <<manifest, server, dir, receipt, ack, doomed, closure, clock>>
    BY DEF PutBody, At, bundleVars, envVars
  <1>2. /\ job[h].u \in Upload /\ job[h].i \in Index /\ job[h].d \in Digest
        /\ seen[h] \in Manifest /\ job[h].i \in Indices(seen[h])
    BY <1>1, <1>t, PutRequest DEF Carries, PutStep
  <1>u. PICK u \in Upload, i \in Index : u = job[h].u /\ i = job[h].i
    BY <1>2
  <1>3. PICK c : c = [len |-> ExpectedLength(seen[h], job[h].i), dig |-> job[h].d]
    OBVIOUS
  <1>4. c \in ChunkFile
    BY <1>2, <1>3, PutFile
  <1>5. chunk' = [chunk EXCEPT ![u][i] = c]
    BY <1>u, <1>3 DEF PutBody
  <1>6. closure = None /\ chunk[u][i] = None
    BY <1>u, <1>1 DEF IInv, ClosureInv, ClosureSeen, FilesInv, StillFinds
  <1>7. \A v \in Upload \ {u} : Untouched(v)
    BY <1>t, <1>1, <1>5 DEF Untouched, Files
  <1>8. chunk'[u] = [chunk[u] EXCEPT ![i] = c]
    BY <1>t, <1>5 DEF Files
  <1>9. CASE ~InLedger(u)
    BY <1>t, <1>1, <1>7, <1>9, LeavingStep DEF InLedger
  <1>10. CASE InLedger(u) /\ i \notin Indices(manifest[u])
    <2>1. \A k \in Indices(manifest[u]) : chunk'[u][k] = chunk[u][k]
      <3>1. manifest[u] \in Manifest
        BY <1>t, <1>10 DEF Files, InLedger
      <3>2. Indices(manifest[u]) \subseteq Index
        BY <3>1 DEF Index
      <3> QED  BY <1>t, <1>8, <1>10, <3>2 DEF Files
    <2>2. SlotOf(u)' = SlotOf(u)
      BY <1>1, <2>1 DEF SlotOf
    <2>3. \A v \in Upload : SlotOf(v)' = SlotOf(v)
      BY <1>7, <2>2, UntouchedSlot
    <2> QED  BY <1>1, <2>3, AllSlotsStay DEF LedgerStep, Ledger!vars
  <1>11. CASE InLedger(u) /\ i \in Indices(manifest[u])
    <2>1. PICK s : s = LedgerEntry(u)
      OBVIOUS
    <2>2. Slots[u] = s /\ s # None
      BY <1>t, <1>11, <2>1, SlotCases, EntryIsSlot DEF Slots
    <2>3. s = [m |-> manifest[u], parts |-> [k \in Indices(manifest[u]) |-> chunk[u][k]],
               seal |-> receipt[u], acked |-> u \in ack]
      BY <2>1 DEF LedgerEntry
    <2>4. /\ s.parts = [k \in Indices(manifest[u]) |-> chunk[u][k]] /\ i \in DOMAIN s.parts
          /\ s.parts[i] = None
      BY <1>6, <1>11, <2>3
    <2>5. PICK x : x = [s EXCEPT !.parts[i] = c]
      OBVIOUS
    <2>6. x = [m |-> manifest[u], parts |-> [s.parts EXCEPT ![i] = c],
               seal |-> receipt[u], acked |-> u \in ack]
      BY <2>3, <2>5
    <2>7. [s.parts EXCEPT ![i] = c] = [k \in Indices(manifest[u]) |-> chunk'[u][k]]
      <3>1. manifest[u] \in Manifest
        BY <1>t, <1>11 DEF Files, InLedger
      <3>2. Indices(manifest[u]) \subseteq Index
        BY <3>1 DEF Index
      <3>3. \A k \in Indices(manifest[u]) :
              chunk'[u][k] = IF k = i THEN c ELSE chunk[u][k]
        BY <1>t, <1>8, <3>2 DEF Files
      <3> QED  BY <1>11, <2>4, <3>3
    <2>8. SlotOf(u)' = x
      BY <1>1, <1>11, <2>6, <2>7 DEF SlotOf, InLedger
    <2>9. Slots' = [Slots EXCEPT ![u] = x]
      BY <1>7, <2>8, OneSlotChanges
    <2>10. Slots' = [Slots EXCEPT ![u].parts[i] = c]
      BY <2>2, <2>5, <2>9
    <2>11. Ledger!Put(u)
      BY <1>1, <1>4, <1>6, <2>2, <2>4, <2>10, SameData DEF Ledger!Put
    <2> QED  BY <2>11 DEF LedgerStep, Ledger!Next
  <1> QED  BY <1>9, <1>10, <1>11

(* complete.json appears: the ledger seals the upload. *)
LEMMA SealStepMaps ==
  ASSUME IInv, FilesInv, NEW h \in Handler, WriteReceipt(h)
  PROVE  LedgerStep
  <1>t. Files /\ Procs
    BY TypeParts DEF IInv
  <1>1. /\ pc[h] = "receipt" /\ receipt' = [receipt EXCEPT ![job[h].u] = seen[h]]
        /\ UNCHANGED <<dir, manifest, server, chunk, ack, doomed, closure, clock>>
    BY DEF WriteReceipt, At, bundleVars, envVars
  <1>j. job[h].u \in Upload
    BY <1>t, <1>1, UploadJob DEF CompleteStep
  <1>u. PICK u \in Upload : u = job[h].u
    BY <1>j
  <1>2. /\ closure = None /\ receipt[u] = None /\ AllFit(chunk[u], manifest[u])
        /\ seen[h] = ReceiptOf(chunk[u], manifest[u])
    BY <1>u, <1>1 DEF IInv, ClosureInv, ClosureSeen, FilesInv, StillFinds
  <1>3. \A v \in Upload \ {u} : Untouched(v)
    BY <1>t, <1>u, <1>1 DEF Untouched, Files
  <1>4. CASE ~InLedger(u)
    BY <1>t, <1>1, <1>3, <1>4, LeavingStep DEF InLedger
  <1>5. CASE InLedger(u)
    <2>1. PICK s : s = LedgerEntry(u)
      OBVIOUS
    <2>2. Slots[u] = s /\ s # None
      BY <1>t, <1>5, <2>1, SlotCases, EntryIsSlot DEF Slots
    <2>3. s = [m |-> manifest[u], parts |-> [k \in Indices(manifest[u]) |-> chunk[u][k]],
               seal |-> receipt[u], acked |-> u \in ack]
      BY <2>1 DEF LedgerEntry
    <2>4. AllFit(s.parts, s.m) /\ ReceiptOf(s.parts, s.m) = seen[h] /\ s.seal = None
      <3>1. s.m = manifest[u] /\ s.seal = receipt[u]
        BY <2>3
      <3>2. \A k \in Indices(manifest[u]) : s.parts[k] = chunk[u][k]
        BY <2>3
      <3> QED  BY <1>2, <3>1, <3>2 DEF AllFit, ReceiptOf
    <2>5. PICK x : x = [s EXCEPT !.seal = seen[h]]
      OBVIOUS
    <2>6. x = [m |-> manifest[u], parts |-> [k \in Indices(manifest[u]) |-> chunk[u][k]],
               seal |-> seen[h], acked |-> u \in ack]
      BY <2>3, <2>5
    <2>7. SlotOf(u)' = x
      BY <1>t, <1>u, <1>1, <1>5, <2>6 DEF SlotOf, InLedger, Files
    <2>8. Slots' = [Slots EXCEPT ![u] = x]
      BY <1>3, <2>7, OneSlotChanges
    <2>9. Slots' = [Slots EXCEPT ![u].seal = ReceiptOf(s.parts, s.m)]
      BY <2>2, <2>4, <2>5, <2>8
    <2>10. Ledger!Seal(u)
      BY <1>1, <1>2, <2>2, <2>4, <2>9, SameData DEF Ledger!Seal
    <2> QED  BY <2>10 DEF LedgerStep, Ledger!Next
  <1> QED  BY <1>4, <1>5

(* acknowledged.json appears, or is there already. *)
LEMMA AcknowledgeStepMaps ==
  ASSUME IInv, FilesInv, NEW h \in Handler, AckWrite(h)
  PROVE  LedgerStep
  <1>t. Files /\ Procs
    BY TypeParts DEF IInv
  <1>1. /\ pc[h] = "ackwrite" /\ ack' = ack \cup {job[h].u}
        /\ UNCHANGED <<dir, manifest, server, chunk, receipt, doomed, closure, clock>>
    BY DEF AckWrite, At, bundleVars, envVars
  <1>j. job[h].u \in Upload
    BY <1>t, <1>1, UploadJob DEF AckStep
  <1>u. PICK u \in Upload : u = job[h].u
    BY <1>j
  <1>2. receipt[u] # None
    BY <1>u, <1>1 DEF FilesInv, StillFinds
  <1>3. \A v \in Upload \ {u} : Untouched(v)
    BY <1>u, <1>1 DEF Untouched
  <1>4. CASE ~InLedger(u)
    BY <1>t, <1>1, <1>3, <1>4, LeavingStep DEF InLedger
  <1>5. CASE InLedger(u)
    <2>1. PICK s : s = LedgerEntry(u)
      OBVIOUS
    <2>2. Slots[u] = s /\ s # None /\ s.seal # None
      BY <1>t, <1>2, <1>5, <2>1, SlotCases, EntryIsSlot, EntryFields DEF Slots
    <2>3. s = [m |-> manifest[u], parts |-> [k \in Indices(manifest[u]) |-> chunk[u][k]],
               seal |-> receipt[u], acked |-> u \in ack]
      BY <2>1 DEF LedgerEntry
    <2>4. PICK yes \in BOOLEAN : yes = TRUE
      OBVIOUS
    <2>5. PICK x : x = [s EXCEPT !.acked = yes]
      OBVIOUS
    <2>6. x = [m |-> manifest[u], parts |-> [k \in Indices(manifest[u]) |-> chunk[u][k]],
               seal |-> receipt[u], acked |-> yes]
      BY <2>3, <2>5
    <2>7. SlotOf(u)' = x
      <3>1. (u \in ack') = yes
        BY <1>u, <1>1, <2>4
      <3>2. SlotOf(u)' = [m |-> manifest'[u], parts |-> [k \in Indices(manifest'[u]) |-> chunk'[u][k]],
                          seal |-> receipt'[u], acked |-> u \in ack']
        BY <1>1, <1>5 DEF SlotOf, InLedger
      <3> QED  BY <1>1, <2>6, <3>1, <3>2
    <2>8. Slots' = [Slots EXCEPT ![u] = x]
      BY <1>3, <2>7, OneSlotChanges
    <2>9. Slots' = [Slots EXCEPT ![u].acked = TRUE]
      BY <2>2, <2>4, <2>5, <2>8
    <2>10. Ledger!Acknowledge(u)
      BY <1>1, <2>2, <2>9 DEF Ledger!Acknowledge
    <2> QED  BY <2>10 DEF LedgerStep, Ledger!Next
  <1> QED  BY <1>4, <1>5

(* Without server.json an upload is not in the ledger yet. *)
LEMMA BeginDirectoriesMap ==
  ASSUME IInv, FilesInv, NEW h \in Handler, BeginMkdir(h) \/ BeginChunks(h)
  PROVE  LedgerStep
  <1>t. Files /\ Procs
    BY TypeParts DEF IInv
  <1>1. /\ pc[h] \in {"mkdir", "chunks"} /\ \E x : dir' = [dir EXCEPT ![job[h].u] = x]
        /\ UNCHANGED <<manifest, server, chunk, receipt, ack, doomed, closure, clock>>
    BY DEF BeginMkdir, BeginChunks, At, bundleVars, envVars
  <1>j. job[h].u \in Upload
    BY <1>t, <1>1, BeginJob DEF BeginStep, Creating
  <1>u. PICK u \in Upload : u = job[h].u
    BY <1>j
  <1>2. server[u] = None
    BY <1>u, <1>1 DEF FilesInv, StillFinds, Placed, Absent
  <1>3. \A v \in Upload \ {u} : Untouched(v)
    BY <1>t, <1>u, <1>1 DEF Untouched, Files
  <1>4. ~InLedger(u) /\ ~InLedger(u)'
    BY <1>1, <1>2 DEF InLedger
  <1> QED  BY <1>t, <1>1, <1>3, <1>4, LeavingStep

LEMMA BeginManifestMaps ==
  ASSUME IInv, FilesInv, NEW h \in Handler, BeginManifest(h)
  PROVE  LedgerStep
  <1>t. Files /\ Procs
    BY TypeParts DEF IInv
  <1>1. /\ pc[h] = "manifest" /\ manifest' = [manifest EXCEPT ![job[h].u] = job[h].m]
        /\ UNCHANGED <<dir, server, chunk, receipt, ack, doomed, closure, clock>>
    BY DEF BeginManifest, At, bundleVars, envVars
  <1>j. job[h].u \in Upload
    BY <1>t, <1>1, BeginJob DEF BeginStep, Creating
  <1>u. PICK u \in Upload : u = job[h].u
    BY <1>j
  <1>2. server[u] = None
    BY <1>u, <1>1 DEF FilesInv, StillFinds
  <1>3. \A v \in Upload \ {u} : Untouched(v)
    BY <1>t, <1>u, <1>1 DEF Untouched, Files
  <1>4. ~InLedger(u) /\ ~InLedger(u)'
    BY <1>1, <1>2 DEF InLedger
  <1> QED  BY <1>t, <1>1, <1>3, <1>4, LeavingStep

(* An acknowledged upload is dropped when its removal is decided. *)
LEMMA DeleteStartMaps ==
  ASSUME IInv, FilesInv, NEW h \in Handler, DeleteStart(h)
  PROVE  LedgerStep
  <1>t. Files /\ Procs
    BY TypeParts DEF IInv
  <1>1. /\ pc[h] = "delete" /\ doomed' = doomed \cup {job[h].u}
        /\ UNCHANGED <<dir, manifest, server, chunk, receipt, ack, closure, clock>>
    BY DEF DeleteStart, At, bundleVars, uploadVars, envVars
  <1>j. job[h].u \in Upload
    BY <1>t, <1>1, UploadJob DEF AckStep
  <1>u. PICK u \in Upload : u = job[h].u
    BY <1>j
  <1>2. u \in ack
    BY <1>u, <1>1 DEF FilesInv, StillFinds
  <1>3. \A v \in Upload \ {u} : Untouched(v)
    BY <1>u, <1>1 DEF Untouched
  <1>4. ~InLedger(u)'
    BY <1>u, <1>1 DEF InLedger
  <1> QED  BY <1>t, <1>1, <1>2, <1>3, <1>4, LeavingStep

(* What is removed of a doomed upload the ledger no longer sees. *)
LEMMA UnlinkDoomedMaps ==
  ASSUME Files, NEW u \in doomed, Unlink(u), UNCHANGED <<doomed, closure, clock>>
  PROVE  LedgerStep
  <1>1. u \in Upload
    BY DEF Files
  <1>2. \A v \in Upload \ {u} : Untouched(v)
    BY <1>1, UnlinkOne
  <1>3. ~InLedger(u) /\ ~InLedger(u)'
    BY DEF InLedger
  <1> QED  BY <1>1, <1>2, <1>3, LeavingStep

(* A begun upload whose last write failed is dropped with its first file. *)
LEMMA UnlinkUnsealedMaps ==
  ASSUME Files, NEW u \in Upload, Unlink(u), UNCHANGED <<doomed, closure, clock>>,
         receipt[u] = None, u \notin ack, \A i \in Index : chunk[u][i] = None
  PROVE  LedgerStep
  <1>1. \A v \in Upload \ {u} : Untouched(v)
    BY UnlinkOne
  <1>2. CASE manifest' = [manifest EXCEPT ![u] = None] \/ server' = [server EXCEPT ![u] = None]
    <2>1. ~InLedger(u)'
      BY <1>2 DEF InLedger, Files
    <2> QED  BY <1>1, <2>1, LeavingStep
  <1>3. CASE dir' = [dir EXCEPT ![u] = "bare"]
    <2>1. ~InLedger(u)'
      BY <1>3 DEF InLedger, Files
    <2> QED  BY <1>1, <2>1, LeavingStep
  <1> QED  BY <1>2, <1>3 DEF Unlink

LEMMA RmdirMaps ==
  ASSUME Files, NEW u \in Upload, Emptied(u), Rmdir(u), UNCHANGED <<closure, clock>>
  PROVE  LedgerStep
  <1>1. manifest[u] = None /\ manifest' = manifest
    BY DEF Emptied, Rmdir
  <1>2. \A v \in Upload \ {u} : Untouched(v)
    BY DEF Files, Rmdir, Untouched
  <1>3. ~InLedger(u) /\ ~InLedger(u)'
    BY <1>1 DEF InLedger
  <1> QED  BY <1>2, <1>3, LeavingStep

LEMMA RemoveStepsMap ==
  ASSUME IInv, FilesInv, NEW h \in Handler, RemoveFile(h) \/ RemoveDone(h)
  PROVE  LedgerStep
  <1>t. Files /\ Procs
    BY TypeParts DEF IInv
  <1>1. pc[h] \in {"remove", "cleanup"} /\ UNCHANGED <<closure, clock>>
    BY DEF RemoveFile, RemoveDone, Removing, bundleVars, envVars
  <1>j. job[h].u \in Upload
    BY <1>t, <1>1, UploadJob, BeginJob DEF AckStep, BeginStep
  <1>u. PICK u \in Upload : u = job[h].u
    BY <1>j
  <1>2. CASE RemoveFile(h)
    <2>1. Unlink(u) /\ doomed' = doomed
      BY <1>2, <1>u DEF RemoveFile
    <2>2. CASE pc[h] = "remove"
      <3>1. u \in doomed
        BY <1>u, <2>2 DEF FilesInv, StillFinds
      <3> QED  BY <1>t, <1>1, <2>1, <3>1, UnlinkDoomedMaps
    <2>3. CASE pc[h] = "cleanup"
      <3>1. receipt[u] = None /\ u \notin ack /\ \A i \in Index : chunk[u][i] = None
        BY <1>u, <2>3 DEF FilesInv, StillFinds
      <3> QED  BY <1>t, <1>1, <2>1, <3>1, UnlinkUnsealedMaps
    <2> QED  BY <1>1, <2>2, <2>3
  <1>3. CASE RemoveDone(h)
    <2>1. Emptied(u) /\ Rmdir(u)
      BY <1>3, <1>u DEF RemoveDone
    <2> QED  BY <1>t, <1>1, <2>1, RmdirMaps
  <1> QED  BY <1>2, <1>3

(* The marker closes the ledger. *)
LEMMA CloseMarkMaps ==
  ASSUME IInv, NEW h \in Handler, CloseMark(h)
  PROVE  LedgerStep
  <1>1. /\ pc[h] = "mark" /\ closure' = clock
        /\ UNCHANGED <<dir, manifest, server, chunk, receipt, ack, doomed, clock>>
    BY DEF CloseMark, At, uploadVars, envVars
  <1>2. closure = None /\ clock \in Time
    BY <1>1, TypeParts DEF IInv, ClosureInv, ClosureSeen, Files
  <1>3. Slots' = Slots
    BY <1>1 DEF Slots, SlotOf
  <1>4. Ledger!Close
    BY <1>1, <1>2, <1>3 DEF Ledger!Close
  <1> QED  BY <1>4 DEF LedgerStep, Ledger!Next

(* Reaching the expiry is a step of the ledger; the hours before are not. *)
LEMMA TickMaps ==
  ASSUME Files, Tick
  PROVE  LedgerStep
  <1>1. clock \in Nat /\ clock' = clock + 1 /\ ExpiresAt \in Nat
    BY StoreAssumption DEF Files, Tick, Time
  <1>2. closure' = closure /\ Slots' = Slots
    BY DEF Tick, bundleVars, uploadVars, Slots, SlotOf
  <1>3. CASE clock' >= ExpiresAt
    BY <1>2, <1>3 DEF LedgerStep, Ledger!Next, Ledger!Expire
  <1>4. CASE ~(clock' >= ExpiresAt)
    <2>1. (clock' >= ExpiresAt) <=> (clock >= ExpiresAt)
      BY <1>1, <1>4
    <2> QED  BY <1>2, <2>1 DEF LedgerStep, Ledger!vars
  <1> QED  BY <1>3, <1>4

(* purge drops what has expired, and what was never sealed. *)
LEMMA PurgeStartMaps ==
  ASSUME IInv, NEW u \in Upload, PurgeStart(u)
  PROVE  LedgerStep
  <1>t. Files
    BY TypeParts DEF IInv
  <1>1. /\ doomed' = doomed \cup {u}
        /\ UNCHANGED <<dir, manifest, server, chunk, receipt, ack, closure, clock>>
    BY DEF PurgeStart, bundleVars, uploadVars
  <1>2. \A v \in Upload \ {u} : Untouched(v)
    BY <1>1 DEF Untouched
  <1>3. ~InLedger(u)'
    BY <1>1 DEF InLedger
  <1>4. InLedger(u) => receipt[u] = None \/ clock >= ExpiresAt
    BY DEF PurgeStart, BundleExpired, Stale, InLedger, IInv, ClosureInv, ClosureFailsClosed
  <1> QED  BY <1>t, <1>1, <1>2, <1>3, <1>4, LeavingStep

LEMMA PurgeStepsMap ==
  ASSUME IInv, FilesInv, PurgeFile \/ PurgeDone
  PROVE  LedgerStep
  <1>t. Files
    BY TypeParts DEF IInv
  <1>1. purging \in doomed /\ purging \in Upload /\ UNCHANGED <<closure, clock>>
    BY <1>t DEF Files, FilesInv, Exclusive, PurgeFile, PurgeDone, bundleVars, envVars
  <1>u. PICK u \in Upload : u = purging
    BY <1>1
  <1>2. CASE PurgeFile
    BY <1>t, <1>1, <1>u, <1>2, UnlinkDoomedMaps DEF PurgeFile
  <1>3. CASE PurgeDone
    BY <1>t, <1>1, <1>u, <1>3, RmdirMaps DEF PurgeDone
  <1> QED  BY <1>2, <1>3

(* All else is the store's own affair. *)
LEMMA QuietHandlerSteps ==
  ASSUME NEW h \in Handler,
         \/ Call(h) \/ AuthenticateClosed(h) \/ Gate(h) \/ Return(h)
         \/ BeginTooLarge(h) \/ BeginEnter(h)
         \/ PutRead(h) \/ PutEnter(h) \/ PutAborted(h)
         \/ CompleteEnter(h) \/ AckEnter(h)
         \/ CloseEnter(h) \/ CloseMove(h) \/ IOFails(h) \/ RemoveFails(h)
  PROVE  LedgerStep
  <1> USE DEF bundleVars, uploadVars, envVars
  <1>1. CASE Call(h) \/ AuthenticateClosed(h) \/ Gate(h) \/ Return(h)
    BY <1>1, QuietStep DEF Call, AuthenticateClosed, Gate, Return
  <1>2. CASE BeginTooLarge(h) \/ BeginEnter(h)
    BY <1>2, QuietStep DEF BeginTooLarge, BeginEnter
  <1>3. CASE PutRead(h) \/ PutEnter(h) \/ PutAborted(h)
    BY <1>3, QuietStep DEF PutRead, PutEnter, PutAborted
  <1>4. CASE CompleteEnter(h) \/ AckEnter(h)
    BY <1>4, QuietStep DEF CompleteEnter, AckEnter
  <1>5. CASE CloseEnter(h) \/ CloseMove(h) \/ IOFails(h) \/ RemoveFails(h)
    BY <1>5, QuietStep DEF CloseEnter, CloseMove, IOFails, RemoveFails
  <1> QED  BY <1>1, <1>2, <1>3, <1>4, <1>5

LEMMA QuietEnvironmentSteps ==
  ASSUME ImportRequest \/ Crash \/ Restart \/ PurgeStops \/ UNCHANGED vars
  PROVE  LedgerStep
  <1> USE DEF bundleVars, uploadVars, envVars
  <1>1. CASE ImportRequest \/ Crash \/ Restart
    BY <1>1, QuietStep DEF ImportRequest, Crash, Restart
  <1>2. CASE PurgeStops \/ UNCHANGED vars
    BY <1>2, QuietStep DEF PurgeStops, vars
  <1> QED  BY <1>1, <1>2

LEMMA LedgerInit == Init => Ledger!Init
  <1> SUFFICES ASSUME Init PROVE Ledger!Init
    OBVIOUS
  <1>1. closure = None /\ manifest = [u \in Upload |-> None]
    BY DEF Init
  <1>2. Slots = [u \in Upload |-> None]
    BY <1>1 DEF Slots, SlotOf
  <1> QED  BY <1>1, <1>2 DEF Ledger!Init

LEMMA StepIsLedgerStep ==
  ASSUME IInv, FilesInv, [Next]_vars
  PROVE  LedgerStep
  <1>t. Files
    BY TypeParts DEF IInv
  <1>1. ASSUME NEW h \in Handler, Call(h) \/ Advance(h) \/ Fault(h) \/ Return(h)
        PROVE  LedgerStep
    <2>1. CASE BeginMkdir(h) \/ BeginChunks(h) \/ BeginManifest(h) \/ BeginServer(h)
      BY <2>1, BeginDirectoriesMap, BeginManifestMaps, BeginStepMaps
    <2>2. CASE PutBody(h) \/ WriteReceipt(h) \/ AckWrite(h)
      BY <2>2, PutStepMaps, SealStepMaps, AcknowledgeStepMaps
    <2>3. CASE DeleteStart(h) \/ RemoveFile(h) \/ RemoveDone(h)
      BY <2>3, DeleteStartMaps, RemoveStepsMap
    <2>4. CASE CloseMark(h)
      BY <2>4, CloseMarkMaps
    <2> QED  BY <1>1, <2>1, <2>2, <2>3, <2>4, QuietHandlerSteps DEF Advance, Fault
  <1>2. CASE Maintenance
    BY <1>2, PurgeStartMaps, PurgeStepsMap, QuietEnvironmentSteps DEF Maintenance
  <1>3. CASE Tick
    BY <1>t, <1>3, TickMaps
  <1>4. CASE ImportRequest \/ Crash \/ Restart \/ UNCHANGED vars
    BY <1>4, QuietEnvironmentSteps
  <1> QED  BY <1>1, <1>2, <1>3, <1>4 DEF Next

(* Seen upload by upload, the store - with its handlers, lock, files,        *)
(* failures and crashes - does what the ledger allows and nothing else.      *)
THEOREM StoreImplementsIntake == Spec => ImplementsIntake
  <1>1. Inv /\ [Next]_vars => [Ledger!Next]_(Ledger!vars)
    BY StepIsLedgerStep DEF Inv, LedgerStep
  <1> QED  BY <1>1, LedgerInit, StrongInvariant, PTL DEF Spec, ImplementsIntake, Ledger!Spec

-----------------------------------------------------------------------------
(* Why a call ends: the mutex is at work, and no step leads back. *)

Held == mu # None => up /\ pc[mu] \in Critical

(* What a step of h may do to the mutex. *)
MutexStep(h) ==
  \/ mu' = None
  \/ mu' = h /\ pc'[h] \in Critical
  \/ mu' = mu /\ pc[h] \notin Critical

LEMMA GotoMutex ==
  ASSUME IInv, NEW h \in Handler, NEW l \in Critical, pc[h] \in Critical,
         Goto(h, l), UNCHANGED mu
  PROVE  MutexStep(h)
  <1>1. Procs /\ mu = h
    BY TypeParts, HoldsLock DEF IInv
  <1> QED  BY <1>1, Moving DEF MutexStep

LEMMA LockThenMutex ==
  ASSUME IInv, NEW h \in Handler, NEW l \in Reply \cup Critical, LockThen(h, l)
  PROVE  MutexStep(h)
  <1>1. pc'[h] = l
    BY TypeParts, Moving DEF IInv
  <1> QED  BY <1>1 DEF MutexStep, LockThen

LEMMA UnlockMutex ==
  ASSUME NEW h \in Handler, NEW l, Unlock(h, l) PROVE MutexStep(h)
  BY DEF Unlock, MutexStep

LEMMA HandlerMutex ==
  ASSUME IInv, NEW h \in Handler, Call(h) \/ Advance(h) \/ Fault(h) \/ Return(h)
  PROVE  MutexStep(h)
  <1>t. Procs
    BY TypeParts DEF IInv
  <1>1. CASE Call(h) \/ AuthenticateClosed(h) \/ Gate(h) \/ Return(h) \/ BeginTooLarge(h)
             \/ PutRead(h)
    BY <1>1 DEF Call, AuthenticateClosed, Gate, Return, BeginTooLarge, PutRead, At, MutexStep,
                Critical, Creating, Reply
  <1>2. CASE BeginEnter(h)
    <2>1. BeginVerdict(job[h].u, job[h].m) \in Reply \cup Critical
      BY DEF BeginVerdict, Reply, Critical, Creating
    <2> QED  BY <1>2, <2>1, LockThenMutex DEF BeginEnter
  <1>3. CASE BeginMkdir(h) \/ BeginChunks(h) \/ BeginManifest(h)
    <2>1. PICK l \in Critical : Goto(h, l) /\ UNCHANGED mu
      BY <1>3 DEF BeginMkdir, BeginChunks, BeginManifest, Critical, Creating
    <2>2. pc[h] \in Critical
      BY <1>3 DEF BeginMkdir, BeginChunks, BeginManifest, At, Critical, Creating
    <2> QED  BY <2>1, <2>2, GotoMutex
  <1>4. CASE BeginServer(h)
    <2>1. pc[h] \in Critical /\ "cleanup" \in Critical
      BY <1>4 DEF BeginServer, At, Critical, Creating
    <2> QED  BY <1>4, <2>1, GotoMutex, UnlockMutex DEF BeginServer
  <1>5. CASE PutEnter(h)
    <2>1. PutVerdict(job[h].u, job[h].i) \in Reply \cup Critical
      BY DEF PutVerdict, Reply, Critical
    <2> QED  BY <1>5, <2>1, LockThenMutex DEF PutEnter
  <1>6. CASE PutBody(h) \/ PutAborted(h) \/ WriteReceipt(h) \/ CloseMove(h)
             \/ RemoveDone(h) \/ RemoveFails(h)
    BY <1>6, UnlockMutex
       DEF PutBody, PutAborted, WriteReceipt, CloseMove, RemoveDone, RemoveFails
  <1>7. CASE CompleteEnter(h)
    <2>1. pc[h] \notin Critical /\ "receipt" \in Critical
      BY <1>7 DEF CompleteEnter, At, Critical, Creating
    <2> QED  BY <1>7, <1>t, <2>1 DEF CompleteEnter, MutexStep, Procs
  <1>8. CASE AckEnter(h)
    <2>1. (IF receipt[job[h].u] = None THEN "notfound" ELSE "ackwrite") \in Reply \cup Critical
      BY DEF Reply, Critical
    <2> QED  BY <1>8, <2>1, LockThenMutex DEF AckEnter
  <1>9. CASE AckWrite(h) \/ DeleteStart(h)
    <2>1. pc[h] \in Critical /\ {"delete", "remove"} \subseteq Critical
      BY <1>9 DEF AckWrite, DeleteStart, At, Critical
    <2> QED  BY <1>9, <2>1, GotoMutex, UnlockMutex DEF AckWrite, DeleteStart
  <1>10. CASE RemoveFile(h)
    <2>1. pc[h] \in Critical /\ UNCHANGED <<pc, mu>>
      BY <1>10 DEF RemoveFile, Removing, Critical, procVars
    <2> QED  BY <2>1, HoldsLock DEF MutexStep, IInv
  <1>11. CASE CloseEnter(h)
    <2>1. CloseVerdict \in Reply \cup Critical
      BY DEF CloseVerdict, Reply, Critical
    <2> QED  BY <1>11, <2>1, LockThenMutex DEF CloseEnter
  <1>12. CASE CloseMark(h)
    <2>1. pc[h] \in Critical /\ "move" \in Critical
      BY <1>12 DEF CloseMark, At, Critical
    <2> QED  BY <1>12, <2>1, GotoMutex, UnlockMutex DEF CloseMark
  <1>13. CASE IOFails(h)
    <2>1. pc[h] \in Critical /\ "cleanup" \in Critical
      BY <1>13 DEF IOFails, Critical, Creating
    <2> QED  BY <1>13, <2>1, GotoMutex, UnlockMutex DEF IOFails
  <1> QED  BY <1>1, <1>2, <1>3, <1>4, <1>5, <1>6, <1>7, <1>8, <1>9, <1>10, <1>11, <1>12, <1>13
           DEF Advance, Fault

LEMMA HeldStep ==
  ASSUME IInv, FilesInv, Held, [Next]_vars
  PROVE  Held'
  <1>t. Procs /\ mu \in Handler \cup {None}
    BY TypeParts DEF IInv, Files
  <1>1. ASSUME NEW h \in Handler, Call(h) \/ Advance(h) \/ Fault(h) \/ Return(h)
        PROVE  Held'
    <2>1. MutexStep(h)
      BY <1>1, HandlerMutex
    <2>2. \A g \in Handler \ {h} : pc'[g] = pc[g]
      BY <1>1, <1>t, OthersStay DEF Stays
    <2>3. up' = up
      BY <1>1 DEF Call, Return, Advance, Fault, AuthenticateClosed, Gate, BeginTooLarge,
         BeginEnter, BeginMkdir, BeginChunks, BeginManifest, BeginServer, PutRead, PutEnter,
         PutBody, PutAborted, CompleteEnter, WriteReceipt, AckEnter, AckWrite, DeleteStart,
         RemoveFile, RemoveDone, RemoveFails, CloseEnter, CloseMark, CloseMove, IOFails, envVars
    <2>4. CASE mu' = h /\ pc'[h] \in Critical
      <3>1. up
        <4>1. CASE pc[h] # "idle"
          BY <4>1, Awake
        <4>2. CASE pc[h] = "idle"
          BY <1>1, <4>2 DEF Call, Return, Advance, Fault, AuthenticateClosed, Gate, BeginTooLarge,
             BeginEnter, BeginMkdir, BeginChunks, BeginManifest, BeginServer, PutRead, PutEnter,
             PutBody, PutAborted, CompleteEnter, WriteReceipt, AckEnter, AckWrite, DeleteStart,
             RemoveFile, RemoveDone, RemoveFails, CloseEnter, CloseMark, CloseMove, IOFails,
             Removing, At, Reply
        <4> QED  BY <4>1, <4>2
      <3> QED  BY <2>3, <2>4, <3>1 DEF Held
    <2>5. CASE mu' = mu /\ pc[h] \notin Critical /\ mu # None
      <3>1. mu \in Handler \ {h}
        BY <1>t, <2>5 DEF Held
      <3> QED  BY <2>2, <2>3, <2>5, <3>1 DEF Held
    <2> QED  BY <2>1, <2>4, <2>5 DEF MutexStep, Held
  <1>2. CASE ImportRequest \/ Crash \/ Maintenance \/ Tick \/ Restart \/ UNCHANGED vars
    <2>1. \/ mu' = None
          \/ UNCHANGED <<mu, pc>> /\ (up => up')
      BY <1>2 DEF ImportRequest, Crash, Maintenance, PurgeStart, PurgeFile, PurgeDone,
         PurgeStops, Tick, Restart, vars, procVars, envVars
    <2> QED  BY <2>1 DEF Held
  <1> QED  BY <1>1, <1>2 DEF Next

LEMMA HeldIsAtWork ==
  ASSUME IInv, FilesInv, Held PROVE HolderAtWork
  <1> SUFFICES ASSUME mu # None, Removing(mu) PROVE dir[job[mu].u] # "none"
    BY DEF Held, HolderAtWork
  <1>t. Procs /\ mu \in Handler
    BY TypeParts DEF IInv, Files
  <1>1. job[mu].u \in Upload
    BY <1>t, UploadJob, BeginJob DEF Removing, AckStep, BeginStep
  <1> QED  BY <1>t, <1>1 DEF FilesInv, StillFinds, Placed, Absent, Removing

(* The mutex never stays behind with nobody at work under it. *)
THEOREM MutexIsAtWork == Spec => []HolderAtWork
  <1>1. Init => Held
    BY DEF Init, Held
  <1>2. Inv /\ Held /\ [Next]_vars => Held'
    BY HeldStep DEF Inv
  <1>3. Inv /\ Held => HolderAtWork
    BY HeldIsAtWork DEF Inv
  <1> QED  BY <1>1, <1>2, <1>3, StrongInvariant, PTL DEF Spec
(* What ends a handler's request is the last stage of all. *)
LEMMA StageOf ==
  /\ \A l \in Reply \cup {"idle"} : Stage(l) = 9
  /\ \A l \in Label \ (Reply \cup {"idle"}) : Stage(l) \in 1..8
  BY DEF Label, Reply, Stage

Serving(h) == pc[h] \notin Reply \cup {"idle"}

LEMMA EndingNearer ==
  ASSUME Procs, NEW h \in Handler, Serving(h), pc'[h] \in Reply \cup {"idle"}
  PROVE  Nearer(h)
  <1>1. Stage(pc[h]) \in 1..8 /\ Stage(pc'[h]) = 9
    BY StageOf DEF Procs, Serving
  <1> QED  BY <1>1 DEF Nearer

(* Only under the mutex does a handler change a file of an upload. *)
LEMMA OnlyHoldersWrite ==
  ASSUME NEW h \in Handler, pc[h] \notin Critical,
         Call(h) \/ Advance(h) \/ Fault(h) \/ Return(h)
  PROVE  UNCHANGED uploadVars
  BY DEF Call, Return, Advance, Fault, AuthenticateClosed, Gate, BeginTooLarge,
     BeginEnter, BeginMkdir, BeginChunks, BeginManifest, BeginServer, PutRead, PutEnter,
     PutBody, PutAborted, CompleteEnter, WriteReceipt, AckEnter, AckWrite, DeleteStart,
     RemoveFile, RemoveDone, RemoveFails, CloseEnter, CloseMark, CloseMove, IOFails,
     Removing, At, Critical, Creating

LEMMA SameLeft ==
  ASSUME UNCHANGED uploadVars PROVE \A u \in Upload : Left(u)' = Left(u)
  BY DEF uploadVars, Left

LEMMA UnlinkShrinks ==
  ASSUME Files, NEW u \in Upload, Unlink(u)
  PROVE  Shrinks(u)
  <1>t. /\ chunk \in [Upload -> [Index -> ChunkFile \cup {None}]]
        /\ manifest \in [Upload -> Manifest \cup {None}]
        /\ server \in [Upload -> ServerFile \cup {None}]
        /\ receipt \in [Upload -> Receipt \cup {None}]
        /\ dir \in [Upload -> {"none", "bare", "full"}]
    BY DEF Files
  <1>1. PICK C, D, F, G : /\ C = Left(u).chunks /\ D = Left(u)'.chunks
                          /\ F = Left(u).files /\ G = Left(u)'.files
    OBVIOUS
  <1>c. /\ \A i : i \in C <=> i \in Index /\ chunk[u][i] # None
        /\ \A i : i \in D <=> i \in Index /\ chunk'[u][i] # None
    BY <1>1 DEF Left
  <1>f. /\ "manifest" \in F <=> manifest[u] # None
        /\ "manifest" \in G <=> manifest'[u] # None
        /\ "server" \in F <=> server[u] # None
        /\ "server" \in G <=> server'[u] # None
        /\ "receipt" \in F <=> receipt[u] # None
        /\ "receipt" \in G <=> receipt'[u] # None
        /\ "ack" \in F <=> u \in ack
        /\ "ack" \in G <=> u \in ack'
        /\ "chunks" \in F <=> dir[u] = "full"
        /\ "chunks" \in G <=> dir'[u] = "full"
    BY <1>1 DEF Left
  <1>g. F \cup G \subseteq {"manifest", "server", "receipt", "ack", "chunks"}
    BY <1>1 DEF Left
  <1>2. D \subseteq C
    BY <1>c, UnlinkTakes
  <1>3. G \subseteq F
    <2>1. "chunks" \in G => "chunks" \in F
      BY <1>f, UnlinkTakes
    <2>2. \A f \in {"manifest", "server", "receipt", "ack"} : f \in G => f \in F
      BY <1>f, UnlinkTakes
    <2> QED  BY <1>g, <2>1, <2>2
  <1>4. C # D \/ F # G
    <2>1. CASE manifest[u] # None /\ manifest' = [manifest EXCEPT ![u] = None]
      BY <1>t, <1>f, <2>1
    <2>2. CASE server[u] # None /\ server' = [server EXCEPT ![u] = None]
      BY <1>t, <1>f, <2>2
    <2>3. CASE receipt[u] # None /\ receipt' = [receipt EXCEPT ![u] = None]
      BY <1>t, <1>f, <2>3
    <2>4. CASE u \in ack /\ ack' = ack \ {u}
      BY <1>f, <2>4
    <2>5. ASSUME NEW i \in Index, chunk[u][i] # None, chunk' = [chunk EXCEPT ![u][i] = None]
          PROVE  C # D
      <3>1. i \in C
        BY <1>c, <2>5
      <3>2. i \notin D
        BY <1>t, <1>c, <2>5
      <3> QED  BY <3>1, <3>2
    <2>6. CASE dir[u] = "full" /\ dir' = [dir EXCEPT ![u] = "bare"]
      BY <1>t, <1>f, <2>6
    <2> QED  BY <2>1, <2>2, <2>3, <2>4, <2>5, <2>6 DEF Unlink
  <1>5. Left(u)' # Left(u)
    BY <1>1, <1>4
  <1> QED  BY <1>1, <1>2, <1>3, <1>5 DEF Shrinks

LEMMA OwnStepNearer ==
  ASSUME IInv, NEW h \in Handler, Serving(h), Call(h) \/ Advance(h) \/ Fault(h) \/ Return(h)
  PROVE  Nearer(h)
  <1>t. Files /\ Procs /\ Carries(pc[h], job[h], seen[h])
    BY TypeParts DEF IInv, Procs, CarriesMatchStep
  <1>r. ASSUME NEW l \in Reply, Answer(h, l) \/ Unlock(h, l) \/ Proceed(h, l) \/ LockThen(h, l)
        PROVE  Nearer(h)
    <2>1. pc'[h] = l
      BY <1>t, <1>r, Moving
    <2> QED  BY <1>t, <2>1, EndingNearer
  <1>g. ASSUME NEW l, Stage(pc[h]) < Stage(l), Goto(h, l) \/ Proceed(h, l) \/ LockThen(h, l)
        PROVE  Nearer(h)
    <2>1. pc'[h] = l
      BY <1>t, <1>g, Moving
    <2> QED  BY <1>g, <2>1 DEF Nearer
  <1>1. CASE Call(h) \/ Return(h)
    BY <1>1 DEF Call, Return, At, Serving
  <1>2. CASE AuthenticateClosed(h)
    <2>1. pc[h] = "auth" /\ job[h] \in Request /\ Stage("auth") = 1
      BY <1>2, <1>t DEF AuthenticateClosed, At, Carries, Stage
    <2>2. Admitted(job[h]) \in {"gate", "begin", "put", "complete", "ack", "close"}
      BY <2>1, RequestOps DEF Admitted
    <2>3. Stage(pc[h]) < Stage(Admitted(job[h]))
      BY <2>1, <2>2 DEF Stage
    <2> QED  BY <1>2, <1>r, <1>g, <2>3 DEF AuthenticateClosed, Reply
  <1>3. CASE Gate(h)
    <2>1. pc[h] = "gate" /\ job[h].op \in SubmitOp
      BY <1>3, <1>t DEF Gate, At, Carries
    <2>2. Stage(pc[h]) < Stage(job[h].op)
      BY <2>1 DEF SubmitOp, Stage
    <2> QED  BY <1>3, <1>r, <1>g, <2>2 DEF Gate, Reply
  <1>4. CASE BeginTooLarge(h) \/ PutBody(h) \/ PutAborted(h) \/ WriteReceipt(h)
             \/ RemoveDone(h) \/ RemoveFails(h) \/ CloseMove(h)
    BY <1>4, <1>r DEF BeginTooLarge, PutBody, PutAborted, WriteReceipt, RemoveDone,
       RemoveFails, CloseMove, WriteReply, Reply
  <1>5. CASE BeginEnter(h)
    <2>1. BeginVerdict(job[h].u, job[h].m) \in Reply \cup {"mkdir"}
      BY DEF BeginVerdict, Reply
    <2>2. Stage(pc[h]) < Stage("mkdir")
      BY <1>5 DEF BeginEnter, At, Stage
    <2> QED  BY <1>5, <1>r, <1>g, <2>1, <2>2 DEF BeginEnter
  <1>6. CASE BeginMkdir(h) \/ BeginChunks(h) \/ BeginManifest(h) \/ BeginServer(h)
    <2>1. PICK l : \/ l \in Reply /\ Unlock(h, l)
                   \/ Goto(h, l) /\ Stage(pc[h]) < Stage(l)
      BY <1>6 DEF BeginMkdir, BeginChunks, BeginManifest, BeginServer, At, Stage, Reply
    <2> QED  BY <1>r, <1>g, <2>1
  <1>7. CASE PutRead(h)
    <2>1. CASE seen[h] = None /\ manifest[job[h].u] # None /\ UNCHANGED <<pc, job>>
               /\ seen' = [seen EXCEPT ![h] = manifest[job[h].u]]
      BY <1>t, <2>1 DEF Nearer, Procs
    <2> QED  BY <1>7, <1>r, <2>1 DEF PutRead, Reply
  <1>8. CASE PutEnter(h)
    <2>1. PutVerdict(job[h].u, job[h].i) \in Reply \cup {"body"}
      BY DEF PutVerdict, Reply
    <2>2. Stage(pc[h]) < Stage("body")
      BY <1>8 DEF PutEnter, At, Stage
    <2> QED  BY <1>8, <1>r, <1>g, <2>1, <2>2 DEF PutEnter
  <1>9. CASE CompleteEnter(h)
    <2>1. CompleteVerdict(job[h].u) \in Reply \cup {"receipt"}
      BY DEF CompleteVerdict, Reply
    <2>2. CASE pc' = [pc EXCEPT ![h] = "receipt"]
      <3>1. pc'[h] = "receipt" /\ pc[h] = "complete"
        BY <1>t, <1>9, <2>2 DEF CompleteEnter, At, Procs
      <3> QED  BY <3>1 DEF Nearer, Stage
    <2> QED  BY <1>9, <1>r, <2>1, <2>2 DEF CompleteEnter
  <1>10. CASE AckEnter(h) \/ AckWrite(h) \/ DeleteStart(h)
    <2>1. PICK l : \/ l \in Reply /\ (Unlock(h, l) \/ LockThen(h, l))
                   \/ (Goto(h, l) \/ LockThen(h, l)) /\ Stage(pc[h]) < Stage(l)
      BY <1>10 DEF AckEnter, AckWrite, DeleteStart, At, Stage, Reply
    <2> QED  BY <1>r, <1>g, <2>1
  <1>11. CASE RemoveFile(h)
    <2>1. Removing(h) /\ job[h].u \in Upload
      BY <1>t, <1>11, UploadJob, BeginJob DEF RemoveFile, Removing, AckStep, BeginStep
    <2>2. Shrinks(job[h].u) /\ pc' = pc
      <3>1. PICK u \in Upload : u = job[h].u
        BY <2>1
      <3>2. Unlink(u) /\ pc' = pc /\ job' = job
        BY <1>11, <3>1 DEF RemoveFile, procVars
      <3>3. Shrinks(u)
        BY <1>t, <3>2, UnlinkShrinks
      <3> QED  BY <3>1, <3>2, <3>3
    <2> QED  BY <2>1, <2>2 DEF Nearer
  <1>12. CASE CloseEnter(h) \/ CloseMark(h)
    <2>1. PICK l : \/ l \in Reply /\ (Unlock(h, l) \/ LockThen(h, l))
                   \/ (Goto(h, l) \/ LockThen(h, l)) /\ Stage(pc[h]) < Stage(l)
      BY <1>12 DEF CloseEnter, CloseVerdict, CloseMark, At, Stage, Reply
    <2> QED  BY <1>r, <1>g, <2>1
  <1>13. CASE IOFails(h)
    BY <1>13, <1>r, <1>g DEF IOFails, Stage, Reply
  <1> QED  BY <1>1, <1>2, <1>3, <1>4, <1>5, <1>6, <1>7, <1>8, <1>9, <1>10, <1>11, <1>12, <1>13
           DEF Advance, Fault

LEMMA OthersLeave ==
  ASSUME IInv, NEW g \in Handler, NEW h \in Handler \ {g},
         Call(g) \/ Advance(g) \/ Fault(g) \/ Return(g)
  PROVE  Undisturbed(h)
  <1>1. Stays(h)
    BY OthersStay, TypeParts DEF IInv
  <1>2. ASSUME Removing(h) PROVE \A u \in Upload : Left(u)' = Left(u)
    <2>1. pc[h] \in Critical
      BY <1>2 DEF Removing, Critical
    <2>2. pc[g] \notin Critical
      BY <2>1, NotHolding
    <2> QED  BY <2>2, OnlyHoldersWrite, SameLeft
  <1> QED  BY <1>1, <1>2 DEF Undisturbed, Stays

AllAdvance == \A h \in Handler : pc[h] \notin Reply \cup {"idle"} => Undisturbed(h) \/ Nearer(h)

LEMMA AdvanceStep ==
  ASSUME IInv, FilesInv, Next
  PROVE  AllAdvance
  <1> SUFFICES ASSUME NEW h \in Handler, Serving(h) PROVE Undisturbed(h) \/ Nearer(h)
    BY DEF AllAdvance, Serving
  <1>1. ASSUME NEW g \in Handler, Call(g) \/ Advance(g) \/ Fault(g) \/ Return(g)
        PROVE  Undisturbed(h) \/ Nearer(h)
    BY <1>1, OwnStepNearer, OthersLeave
  <1>2. CASE Crash
    <2>1. pc'[h] = "idle"
      BY <1>2 DEF Crash
    <2> QED  BY <2>1, EndingNearer, TypeParts DEF IInv
  <1>3. CASE ImportRequest \/ Restart \/ Tick
    <2>1. UNCHANGED <<uploadVars, pc, job, seen>>
      BY <1>3 DEF ImportRequest, Restart, Tick, procVars
    <2> QED  BY <2>1, SameLeft DEF Undisturbed
  <1>4. CASE Maintenance
    <2>1. up
      BY Awake DEF Serving
    <2> QED  BY <1>4, <2>1 DEF Maintenance, PurgeStart, PurgeFile, PurgeDone, PurgeStops,
             FilesInv, Exclusive
  <1> QED  BY <1>1, <1>2, <1>3, <1>4 DEF Next

(* Every step of a handler brings it nearer to its answer, and nobody else's *)
(* sets it back.                                                             *)
THEOREM HandlersGoForward == Spec => HandlersAdvance
  <1>1. Inv /\ [Next]_vars => [AllAdvance]_vars
    BY AdvanceStep DEF Inv
  <1>2. HandlersAdvance <=> [][AllAdvance]_vars
    BY DEF HandlersAdvance, AllAdvance
  <1> QED  BY <1>1, <1>2, StrongInvariant, PTL DEF Spec
=============================================================================
