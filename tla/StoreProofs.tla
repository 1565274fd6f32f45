---------------------------- MODULE StoreProofs ----------------------------
(***************************************************************************)
(* Proofs about Store for every set of handlers, uploads and manifests and *)
(* every quota, expiry and clock bound: its types, then what closing a     *)
(* request guarantees.                                                     *)
(***************************************************************************)
EXTENDS StoreInvariant, TLAPS

-----------------------------------------------------------------------------
(* The requests' fields. *)

LEMMA BeginRequest ==
  ASSUME NEW r \in Request, r.op = "begin" PROVE r.u \in Upload /\ r.m \in Manifest
  BY DEF Request

LEMMA PutRequest ==
  ASSUME NEW r \in Request, r.op = "put"
  PROVE  r.u \in Upload /\ r.i \in Index /\ r.d \in Digest
  BY DEF Request

LEMMA UploadRequest ==
  ASSUME NEW r \in Request, r.op \in {"complete", "ack"} PROVE r.u \in Upload
  BY DEF Request

LEMMA RequestOps ==
  ASSUME NEW r \in Request
  PROVE  r.op \in {"begin", "put", "complete", "ack", "close"}
  BY DEF Request

(* What the values the handlers write are. *)

LEMMA CountIsInteger == \A m \in Manifest : Count(m) \in Int
  BY SizesAssumption DEF Count, ChunkCountFor

LEMMA PutFile ==
  ASSUME NEW m \in Manifest, NEW i \in Indices(m), NEW d \in Digest
  PROVE  [len |-> ExpectedLength(m, i), dig |-> d] \in ChunkFile
  BY DEF ChunkFile, Length

LEMMA IndexBelowCount ==
  ASSUME NEW m \in Manifest, NEW i \in Index, i < Count(m)
  PROVE  i \in Indices(m)
  BY CountIsInteger DEF Index, Indices

LEMMA FullReceipt ==
  ASSUME NEW files, NEW m \in Manifest, AllFit(files, m)
  PROVE  ReceiptOf(files, m) \in Receipt
  <1>1. \A i \in Indices(m) : files[i].dig \in Digest
    BY DEF AllFit, Fits, ChunkFile
  <1>2. ReceiptOf(files, m) \in [m : {m}, root : [Indices(m) -> Digest]]
    BY <1>1 DEF ReceiptOf
  <1> QED  BY <1>2 DEF Receipt

-----------------------------------------------------------------------------
(* How the control steps keep the handlers' own state well typed. *)

Procs ==
  /\ pc \in [Handler -> Label]
  /\ job \in [Handler -> Request \cup {None}]
  /\ seen \in [Handler -> Manifest \cup Receipt \cup {None}]
  /\ CarriesMatchStep

LEMMA StepKeepsProcs ==
  ASSUME Procs, NEW h \in Handler, NEW l \in Label, NEW j \in Request \cup {None},
         NEW s \in Manifest \cup Receipt \cup {None}, Carries(l, j, s),
         pc' = [pc EXCEPT ![h] = l], job' = [job EXCEPT ![h] = j],
         seen' = [seen EXCEPT ![h] = s]
  PROVE  Procs'
  <1>1. ASSUME NEW g \in Handler PROVE Carries(pc'[g], job'[g], seen'[g])
    <2>1. CASE g = h
      BY <2>1 DEF Procs
    <2>2. CASE g # h
      <3>1. pc'[g] = pc[g] /\ job'[g] = job[g] /\ seen'[g] = seen[g]
        BY <2>2 DEF Procs
      <3> QED  BY <3>1 DEF Procs, CarriesMatchStep
    <2> QED  BY <2>1, <2>2
  <1>2. CarriesMatchStep'
    BY <1>1 DEF CarriesMatchStep, Carries
  <1> QED  BY <1>2 DEF Procs

LEMMA GotoKeepsProcs ==
  ASSUME Procs, NEW h \in Handler, NEW l \in Label, Goto(h, l), Carries(l, job[h], seen[h])
  PROVE  Procs'
  <1>1. job' = [job EXCEPT ![h] = job[h]] /\ seen' = [seen EXCEPT ![h] = seen[h]]
    BY DEF Goto, Procs
  <1>2. job[h] \in Request \cup {None} /\ seen[h] \in Manifest \cup Receipt \cup {None}
    BY DEF Procs
  <1>3. pc' = [pc EXCEPT ![h] = l]
    BY DEF Goto
  <1> QED  BY <1>1, <1>2, <1>3, StepKeepsProcs

LEMMA AnswerKeepsProcs ==
  ASSUME Procs, NEW h \in Handler, NEW l \in Reply, Answer(h, l)
  PROVE  Procs'
  <1>1. l \in Label /\ Carries(l, None, None)
    BY DEF Label, Reply, Carries, BeginStep, PutStep, CompleteStep, AckStep, CloseStep, Creating
  <1> QED  BY <1>1, StepKeepsProcs DEF Answer

LEMMA ProceedKeepsProcs ==
  ASSUME Procs, NEW h \in Handler, NEW l \in Label, Proceed(h, l),
         l \in Reply \/ Carries(l, job[h], seen[h])
  PROVE  Procs'
  BY GotoKeepsProcs, AnswerKeepsProcs DEF Proceed

-----------------------------------------------------------------------------
(* Types. *)

Files ==
  /\ active \in BOOLEAN /\ closedBundle \in BOOLEAN
  /\ closure \in Time \cup {None}
  /\ dir \in [Upload -> {"none", "bare", "full"}]
  /\ manifest \in [Upload -> Manifest \cup {None}]
  /\ server \in [Upload -> ServerFile \cup {None}]
  /\ chunk \in [Upload -> [Index -> ChunkFile \cup {None}]]
  /\ receipt \in [Upload -> Receipt \cup {None}]
  /\ ack \subseteq Upload /\ doomed \subseteq Upload
  /\ mu \in Handler \cup {None}
  /\ up \in BOOLEAN /\ purging \in Upload \cup {None} /\ clock \in Time

LEMMA TypeParts == TypeInv <=> Files /\ Procs
  BY DEF TypeInv, TypeOK, Files, Procs

LEMMA TypeInit == Init => TypeInv
  <1> SUFFICES ASSUME Init PROVE TypeInv
    OBVIOUS
  <1>1. Files
    <2>1. clock \in Time
      BY StoreAssumption DEF Init, Time
    <2> QED  BY <2>1 DEF Init, Files
  <1>2. Procs
    BY DEF Init, Procs, CarriesMatchStep, Carries, Label,
           BeginStep, PutStep, CompleteStep, AckStep, CloseStep, Creating
  <1> QED  BY <1>1, <1>2, TypeParts

(* RemoveAll's single unlinks and its final rmdir. *)
LEMMA UnlinkTypes ==
  ASSUME Files, NEW u \in Upload, Unlink(u),
         UNCHANGED <<bundleVars, doomed, mu, envVars>>
  PROVE  Files'
  <1> USE DEF Files, bundleVars, envVars
  <1>1. CASE manifest' = [manifest EXCEPT ![u] = None] /\ UNCHANGED <<dir, server, chunk, receipt, ack>>
    BY <1>1
  <1>2. CASE server' = [server EXCEPT ![u] = None] /\ UNCHANGED <<dir, manifest, chunk, receipt, ack>>
    BY <1>2
  <1>3. CASE receipt' = [receipt EXCEPT ![u] = None] /\ UNCHANGED <<dir, manifest, server, chunk, ack>>
    BY <1>3
  <1>4. CASE ack' = ack \ {u} /\ UNCHANGED <<dir, manifest, server, chunk, receipt>>
    BY <1>4
  <1>5. ASSUME NEW i \in Index, chunk' = [chunk EXCEPT ![u][i] = None],
               UNCHANGED <<dir, manifest, server, receipt, ack>>
        PROVE  Files'
    BY <1>5
  <1>6. CASE dir' = [dir EXCEPT ![u] = "bare"] /\ UNCHANGED <<manifest, server, chunk, receipt, ack>>
    BY <1>6
  <1> QED  BY <1>1, <1>2, <1>3, <1>4, <1>5, <1>6 DEF Unlink

LEMMA RmdirTypes ==
  ASSUME Files, NEW u \in Upload, Rmdir(u), UNCHANGED <<bundleVars, up, clock>>,
         mu' \in Handler \cup {None}, purging' \in Upload \cup {None}
  PROVE  Files'
  BY DEF Rmdir, Files, bundleVars

(* A step that leaves the files alone. *)
LEMMA FilesFrame ==
  ASSUME Files, UNCHANGED <<bundleVars, uploadVars, doomed, envVars>>,
         mu' \in Handler \cup {None}
  PROVE  Files'
  BY DEF Files, bundleVars, uploadVars, envVars

LEMMA LockThenTypes ==
  ASSUME Files, Procs, NEW h \in Handler, NEW l \in Label, LockThen(h, l),
         l \in Reply \/ Carries(l, job[h], seen[h]),
         UNCHANGED <<bundleVars, uploadVars, doomed, envVars>>
  PROVE  Files' /\ Procs'
  <1>1. Procs'
    BY ProceedKeepsProcs DEF LockThen
  <1>2. mu' \in Handler \cup {None}
    BY DEF LockThen
  <1> QED  BY <1>1, <1>2, FilesFrame

LEMMA UnlockTypes ==
  ASSUME Procs, NEW h \in Handler, NEW l \in Reply, Unlock(h, l)
  PROVE  Procs' /\ mu' = None
  BY AnswerKeepsProcs DEF Unlock

(* The steps of one handler, operation by operation. *)

LEMMA AuthorizeTypes ==
  ASSUME Files, Procs, NEW h \in Handler,
         Call(h) \/ AuthenticateClosed(h) \/ Gate(h) \/ Return(h)
  PROVE  Files' /\ Procs'
  <1> USE DEF BeginStep, PutStep, CompleteStep, AckStep, CloseStep, Creating
  <1>c. Carries(pc[h], job[h], seen[h])
    BY DEF Procs, CarriesMatchStep
  <1>1. Files'
    BY FilesFrame DEF Files, Call, AuthenticateClosed, Gate, Return
  <1>2. ASSUME Call(h) PROVE Procs'
    <2>1. PICK r \in Request : /\ job' = [job EXCEPT ![h] = r]
                              /\ pc' = [pc EXCEPT ![h] = IF active THEN Admitted(r) ELSE "auth"]
      BY <1>2 DEF Call
    <2> DEFINE l == IF active THEN Admitted(r) ELSE "auth"
    <2>2. seen[h] = None /\ seen' = [seen EXCEPT ![h] = None]
      BY <1>2, <1>c DEF Call, At, Carries, Procs
    <2>3. l \in Label /\ Carries(l, r, None)
      BY RequestOps DEF Admitted, SubmitOp, Label, Carries
    <2> QED  BY <2>1, <2>2, <2>3, StepKeepsProcs
  <1>3. ASSUME AuthenticateClosed(h) PROVE Procs'
    <2> DEFINE l == IF closedBundle THEN Admitted(job[h]) ELSE "unauthorized"
    <2>1. job[h] \in Request /\ seen[h] = None
      BY <1>3, <1>c DEF AuthenticateClosed, At, Carries
    <2>2. l \in Label /\ (l \in Reply \/ Carries(l, job[h], seen[h]))
      BY <2>1, RequestOps DEF Admitted, SubmitOp, Label, Reply, Carries
    <2> QED  BY <1>3, <2>2, ProceedKeepsProcs DEF AuthenticateClosed
  <1>4. ASSUME Gate(h) PROVE Procs'
    <2> DEFINE l == IF closure # None THEN "closed" ELSE job[h].op
    <2>1. job[h] \in Request /\ job[h].op \in SubmitOp /\ seen[h] = None
      BY <1>4, <1>c DEF Gate, At, Carries
    <2>2. l \in Label /\ (l \in Reply \/ Carries(l, job[h], seen[h]))
      BY <2>1 DEF SubmitOp, Label, Reply, Carries
    <2> QED  BY <1>4, <2>2, ProceedKeepsProcs DEF Gate
  <1>5. ASSUME Return(h) PROVE Procs'
    <2>1. seen[h] = None
      BY <1>5, <1>c DEF Return, Reply, Carries
    <2>2. "idle" \in Label /\ Carries("idle", job[h], seen[h])
      BY <2>1 DEF Label, Carries
    <2> QED  BY <1>5, <2>2, GotoKeepsProcs DEF Return
  <1> QED  BY <1>1, <1>2, <1>3, <1>4, <1>5

LEMMA BeginTypes ==
  ASSUME Files, Procs, NEW h \in Handler,
         \/ BeginTooLarge(h) \/ BeginEnter(h) \/ BeginMkdir(h) \/ BeginChunks(h)
         \/ BeginManifest(h) \/ BeginServer(h)
  PROVE  Files' /\ Procs'
  <1> USE DEF BeginStep, PutStep, CompleteStep, AckStep, CloseStep, Creating
  <1>c. Carries(pc[h], job[h], seen[h])
    BY DEF Procs, CarriesMatchStep
  <1>b. ASSUME pc[h] \in BeginStep
        PROVE  /\ job[h].u \in Upload /\ job[h].m \in Manifest
               /\ \A l \in BeginStep : l \in Label /\ Carries(l, job[h], seen[h])
    <2>1. job[h] \in Request /\ job[h].op = "begin" /\ seen[h] = None
      BY <1>b, <1>c DEF Carries
    <2> QED  BY <2>1, BeginRequest DEF Label, Carries
  <1>1. ASSUME BeginTooLarge(h) PROVE Files' /\ Procs'
    <2>1. Procs'
      BY <1>1, AnswerKeepsProcs DEF BeginTooLarge, Reply
    <2> QED  BY <1>1, <2>1, FilesFrame DEF BeginTooLarge, Files
  <1>2. ASSUME BeginEnter(h) PROVE Files' /\ Procs'
    <2> DEFINE l == BeginVerdict(job[h].u, job[h].m)
    <2>1. l \in Label /\ (l \in Reply \/ Carries(l, job[h], seen[h]))
      BY <1>2, <1>b DEF BeginEnter, At, BeginVerdict, Reply, Label
    <2> QED  BY <1>2, <2>1, LockThenTypes DEF BeginEnter
  <1>3. ASSUME BeginMkdir(h) PROVE Files' /\ Procs'
    <2>1. Procs'
      BY <1>3, <1>b, GotoKeepsProcs DEF BeginMkdir, At
    <2> QED  BY <1>3, <1>b, <2>1 DEF BeginMkdir, At, Files, bundleVars, envVars
  <1>4. ASSUME BeginChunks(h) PROVE Files' /\ Procs'
    <2>1. Procs'
      BY <1>4, <1>b, GotoKeepsProcs DEF BeginChunks, At
    <2> QED  BY <1>4, <1>b, <2>1 DEF BeginChunks, At, Files, bundleVars, envVars
  <1>5. ASSUME BeginManifest(h) PROVE Files' /\ Procs'
    <2>1. Procs'
      BY <1>5, <1>b, GotoKeepsProcs DEF BeginManifest, At
    <2> QED  BY <1>5, <1>b, <2>1 DEF BeginManifest, At, Files, bundleVars, envVars
  <1>6. ASSUME BeginServer(h) PROVE Files' /\ Procs'
    <2>1. Procs' /\ mu' \in Handler \cup {None}
      <3>1. CASE Unlock(h, "ok")
        BY <3>1, UnlockTypes DEF Reply
      <3>2. CASE Goto(h, "cleanup") /\ UNCHANGED mu
        BY <1>6, <1>b, <3>2, GotoKeepsProcs DEF BeginServer, At, Files
      <3> QED  BY <1>6, <3>1, <3>2 DEF BeginServer
    <2>2. job[h].u \in Upload /\ [m |-> job[h].m, at |-> clock] \in ServerFile
      BY <1>6, <1>b DEF BeginServer, At, ServerFile, Files
    <2> QED  BY <1>6, <2>1, <2>2 DEF BeginServer, Files, bundleVars, envVars
  <1> QED  BY <1>1, <1>2, <1>3, <1>4, <1>5, <1>6

LEMMA PutTypes ==
  ASSUME Files, Procs, NEW h \in Handler,
         PutRead(h) \/ PutEnter(h) \/ PutBody(h) \/ PutAborted(h)
  PROVE  Files' /\ Procs'
  <1> USE DEF BeginStep, PutStep, CompleteStep, AckStep, CloseStep, Creating
  <1>c. Carries(pc[h], job[h], seen[h])
    BY DEF Procs, CarriesMatchStep
  <1>b. ASSUME pc[h] \in PutStep
        PROVE  /\ job[h] \in Request /\ job[h].op = "put"
               /\ job[h].u \in Upload /\ job[h].i \in Index /\ job[h].d \in Digest
    <2>1. job[h] \in Request /\ job[h].op = "put"
      BY <1>b, <1>c DEF Carries
    <2> QED  BY <2>1, PutRequest
  <1>1. ASSUME PutRead(h) PROVE Files' /\ Procs'
    <2>1. Files'
      BY <1>1, FilesFrame DEF PutRead, Files
    <2>2. CASE Answer(h, "notfound") \/ Answer(h, "invalid")
      BY <2>1, <2>2, AnswerKeepsProcs DEF Reply
    <2>3. CASE /\ manifest[job[h].u] # None /\ job[h].i < Count(manifest[job[h].u])
               /\ seen' = [seen EXCEPT ![h] = manifest[job[h].u]] /\ UNCHANGED <<pc, job>>
      <3>0. pc[h] = "put" /\ manifest[job[h].u] \in Manifest
        BY <1>1, <1>b, <2>3 DEF PutRead, At, Files
      <3>1. PICK m \in Manifest : m = manifest[job[h].u]
        BY <3>0
      <3>2. job[h].i \in Indices(m)
        BY <1>b, <2>3, <3>0, <3>1, IndexBelowCount
      <3>3. Carries("put", job[h], m) /\ "put" \in Label
        BY <1>b, <3>0, <3>2 DEF Carries, Label
      <3>4. /\ pc' = [pc EXCEPT ![h] = "put"] /\ job' = [job EXCEPT ![h] = job[h]]
            /\ seen' = [seen EXCEPT ![h] = m]
        BY <2>3, <3>0, <3>1 DEF Procs
      <3>6. job[h] \in Request
        BY <1>b, <3>0
      <3>5. Procs'
        BY <3>3, <3>4, <3>6, StepKeepsProcs
      <3> QED  BY <2>1, <3>5
    <2> QED  BY <1>1, <2>2, <2>3 DEF PutRead
  <1>2. ASSUME PutEnter(h) PROVE Files' /\ Procs'
    <2> DEFINE l == PutVerdict(job[h].u, job[h].i)
    <2>1. Carries("body", job[h], seen[h])
      BY <1>2, <1>c DEF PutEnter, At, Carries
    <2>2. l \in Label /\ (l \in Reply \/ l = "body")
      BY DEF PutVerdict, Reply, Label
    <2> QED  BY <1>2, <2>1, <2>2, LockThenTypes DEF PutEnter
  <1>3. ASSUME PutBody(h) PROVE Files' /\ Procs'
    <2> DEFINE c == [len |-> ExpectedLength(seen[h], job[h].i), dig |-> job[h].d]
    <2>1. Procs' /\ mu' = None
      BY <1>3, UnlockTypes DEF PutBody, Reply
    <2>2. seen[h] \in Manifest /\ job[h].i \in Indices(seen[h])
      BY <1>3, <1>c DEF PutBody, At, Carries
    <2>3. c \in ChunkFile /\ job[h].u \in Upload /\ job[h].i \in Index
      BY <1>3, <1>b, <2>2, PutFile DEF PutBody, At
    <2>4. chunk' = [chunk EXCEPT ![job[h].u][job[h].i] = c]
      BY <1>3 DEF PutBody
    <2>5. chunk' \in [Upload -> [Index -> ChunkFile \cup {None}]]
      BY <2>3, <2>4 DEF Files
    <2> QED  BY <1>3, <2>1, <2>5 DEF PutBody, Files, bundleVars, envVars
  <1>4. ASSUME PutAborted(h) PROVE Files' /\ Procs'
    <2>1. Procs' /\ mu' = None
      BY <1>4, UnlockTypes DEF PutAborted, Reply
    <2> QED  BY <1>4, <2>1, FilesFrame DEF PutAborted
  <1> QED  BY <1>1, <1>2, <1>3, <1>4

LEMMA CompleteTypes ==
  ASSUME Files, Procs, NEW h \in Handler, CompleteEnter(h) \/ WriteReceipt(h)
  PROVE  Files' /\ Procs'
  <1> USE DEF BeginStep, PutStep, CompleteStep, AckStep, CloseStep, Creating
  <1>c. Carries(pc[h], job[h], seen[h])
    BY DEF Procs, CarriesMatchStep
  <1>b. ASSUME pc[h] \in CompleteStep
        PROVE  job[h] \in Request /\ job[h].op = "complete" /\ job[h].u \in Upload
    <2>1. job[h] \in Request /\ job[h].op = "complete"
      BY <1>b, <1>c DEF Carries
    <2> QED  BY <2>1, UploadRequest
  <1>1. ASSUME CompleteEnter(h) PROVE Files' /\ Procs'
    <2> DEFINE u == job[h].u
               v == CompleteVerdict(u)
    <2>0. pc[h] = "complete" /\ u \in Upload
      BY <1>1, <1>b DEF CompleteEnter, At
    <2>1. CASE v # "receipt" /\ Answer(h, v) /\ UNCHANGED mu
      <3>1. v \in Reply
        BY <2>1 DEF CompleteVerdict, Reply
      <3> QED  BY <1>1, <2>1, <3>1, AnswerKeepsProcs, FilesFrame DEF CompleteEnter, Files
    <2>2. CASE /\ v = "receipt" /\ mu' = h /\ pc' = [pc EXCEPT ![h] = "receipt"]
               /\ seen' = [seen EXCEPT ![h] = ReceiptOf(chunk[u], manifest[u])]
               /\ UNCHANGED job
      <3>1. manifest[u] \in Manifest /\ AllFit(chunk[u], manifest[u])
        BY <2>0, <2>2 DEF CompleteVerdict, Files
      <3>2. ReceiptOf(chunk[u], manifest[u]) \in Receipt
        BY <3>1, FullReceipt
      <3>3. "receipt" \in Label /\ Carries("receipt", job[h], ReceiptOf(chunk[u], manifest[u]))
        BY <1>b, <2>0, <3>2 DEF Carries, Label
      <3>4. job' = [job EXCEPT ![h] = job[h]]
        BY <2>2 DEF Procs
      <3>5. Procs'
        BY <1>b, <2>0, <2>2, <3>2, <3>3, <3>4, StepKeepsProcs
      <3> QED  BY <1>1, <2>2, <3>5, FilesFrame DEF CompleteEnter
    <2> QED  BY <1>1, <2>1, <2>2 DEF CompleteEnter
  <1>2. ASSUME WriteReceipt(h) PROVE Files' /\ Procs'
    <2>1. Procs' /\ mu' = None
      BY <1>2, UnlockTypes DEF WriteReceipt, WriteReply, Reply
    <2>2. seen[h] \in Receipt /\ job[h].u \in Upload
      BY <1>2, <1>b, <1>c DEF WriteReceipt, At, Carries
    <2> QED  BY <1>2, <2>1, <2>2 DEF WriteReceipt, Files, bundleVars, envVars
  <1> QED  BY <1>1, <1>2

LEMMA AckTypes ==
  ASSUME Files, Procs, NEW h \in Handler, AckEnter(h) \/ AckWrite(h) \/ DeleteStart(h)
  PROVE  Files' /\ Procs'
  <1> USE DEF BeginStep, PutStep, CompleteStep, AckStep, CloseStep, Creating
  <1>c. Carries(pc[h], job[h], seen[h])
    BY DEF Procs, CarriesMatchStep
  <1>b. ASSUME pc[h] \in AckStep
        PROVE  /\ job[h].u \in Upload
               /\ \A l \in AckStep : l \in Label /\ Carries(l, job[h], seen[h])
    <2>1. job[h] \in Request /\ job[h].op = "ack" /\ seen[h] = None
      BY <1>b, <1>c DEF Carries
    <2> QED  BY <2>1, UploadRequest DEF Label, Carries
  <1>1. ASSUME AckEnter(h) PROVE Files' /\ Procs'
    <2> DEFINE l == IF receipt[job[h].u] = None THEN "notfound" ELSE "ackwrite"
    <2>1. l \in Label /\ (l \in Reply \/ Carries(l, job[h], seen[h]))
      BY <1>1, <1>b DEF AckEnter, At, Reply, Label
    <2> QED  BY <1>1, <2>1, LockThenTypes DEF AckEnter
  <1>2. ASSUME AckWrite(h) PROVE Files' /\ Procs'
    <2>1. job[h].u \in Upload
      BY <1>2, <1>b DEF AckWrite, At
    <2>2. Procs' /\ mu' \in Handler \cup {None}
      <3>1. CASE Goto(h, "delete") /\ UNCHANGED mu
        BY <1>2, <1>b, <3>1, GotoKeepsProcs DEF AckWrite, At, Files
      <3>2. CASE Unlock(h, "ok") \/ Unlock(h, "error")
        BY <3>2, UnlockTypes DEF Reply
      <3> QED  BY <1>2, <3>1, <3>2 DEF AckWrite
    <2> QED  BY <1>2, <2>1, <2>2 DEF AckWrite, Files, bundleVars, envVars
  <1>3. ASSUME DeleteStart(h) PROVE Files' /\ Procs'
    <2>1. Procs'
      BY <1>3, <1>b, GotoKeepsProcs DEF DeleteStart, At
    <2> QED  BY <1>3, <1>b, <2>1 DEF DeleteStart, At, Files, bundleVars, uploadVars, envVars
  <1> QED  BY <1>1, <1>2, <1>3

LEMMA RemoveTypes ==
  ASSUME Files, Procs, NEW h \in Handler, RemoveFile(h) \/ RemoveDone(h) \/ RemoveFails(h)
  PROVE  Files' /\ Procs'
  <1>1. job[h].u \in Upload
    <2>1. pc[h] \in {"remove", "cleanup"} /\ Carries(pc[h], job[h], seen[h])
      BY DEF RemoveFile, RemoveDone, RemoveFails, Removing, Procs, CarriesMatchStep
    <2>2. job[h] \in Request /\ job[h].op \in {"begin", "ack"}
      BY <2>1 DEF Carries, BeginStep, AckStep
    <2> QED  BY <2>2, BeginRequest, UploadRequest
  <1>2. CASE RemoveFile(h)
    <2>1. Files'
      BY <1>1, <1>2, UnlinkTypes DEF RemoveFile, procVars
    <2> QED  BY <1>2, <2>1 DEF RemoveFile, procVars, Procs, CarriesMatchStep, Carries
  <1>3. CASE RemoveDone(h)
    <2>1. Procs' /\ mu' = None
      BY <1>3, UnlockTypes DEF RemoveDone, Reply
    <2>2. Files'
      BY <1>1, <1>3, <2>1, RmdirTypes DEF RemoveDone, envVars, Files
    <2> QED  BY <2>1, <2>2
  <1>4. CASE RemoveFails(h)
    <2>1. Procs' /\ mu' = None
      BY <1>4, UnlockTypes DEF RemoveFails, Reply
    <2> QED  BY <1>4, <2>1, FilesFrame DEF RemoveFails
  <1> QED  BY <1>2, <1>3, <1>4

LEMMA CloseTypes ==
  ASSUME Files, Procs, NEW h \in Handler, CloseEnter(h) \/ CloseMark(h) \/ CloseMove(h)
  PROVE  Files' /\ Procs'
  <1> USE DEF BeginStep, PutStep, CompleteStep, AckStep, CloseStep, Creating
  <1>b. ASSUME pc[h] \in CloseStep
        PROVE  \A l \in CloseStep : l \in Label /\ Carries(l, job[h], seen[h])
    <2>1. job[h] \in Request /\ job[h].op = "close" /\ seen[h] = None
      BY <1>b DEF Procs, CarriesMatchStep, Carries
    <2> QED  BY <2>1 DEF Label, Carries
  <1>1. ASSUME CloseEnter(h) PROVE Files' /\ Procs'
    <2>1. CloseVerdict \in Label /\ (CloseVerdict \in Reply \/ Carries(CloseVerdict, job[h], seen[h]))
      BY <1>1, <1>b DEF CloseEnter, At, CloseVerdict, Reply, Label
    <2> QED  BY <1>1, <2>1, LockThenTypes DEF CloseEnter
  <1>2. ASSUME CloseMark(h) PROVE Files' /\ Procs'
    <2>1. Procs' /\ mu' \in Handler \cup {None}
      <3>1. CASE Goto(h, "move") /\ UNCHANGED mu
        BY <1>2, <1>b, <3>1, GotoKeepsProcs DEF CloseMark, At, Files
      <3>2. CASE Unlock(h, "ok") \/ Unlock(h, "error")
        BY <3>2, UnlockTypes DEF Reply
      <3> QED  BY <1>2, <3>1, <3>2 DEF CloseMark
    <2> QED  BY <1>2, <2>1 DEF CloseMark, Files, uploadVars, envVars
  <1>3. ASSUME CloseMove(h) PROVE Files' /\ Procs'
    <2>1. Procs' /\ mu' = None
      BY <1>3, UnlockTypes DEF CloseMove, WriteReply, Reply
    <2> QED  BY <1>3, <2>1 DEF CloseMove, Files, uploadVars, envVars
  <1> QED  BY <1>1, <1>2, <1>3

LEMMA IOFailsTypes ==
  ASSUME Files, Procs, NEW h \in Handler, IOFails(h)
  PROVE  Files' /\ Procs'
  <1>1. CASE Unlock(h, "error")
    <2>1. Procs' /\ mu' = None
      BY <1>1, UnlockTypes DEF Reply
    <2> QED  BY <2>1, FilesFrame DEF IOFails
  <1>2. CASE pc[h] \in {"chunks", "manifest", "server"} /\ Goto(h, "cleanup") /\ UNCHANGED mu
    <2>1. "cleanup" \in Label /\ Carries("cleanup", job[h], seen[h])
      BY <1>2 DEF Procs, CarriesMatchStep, Carries, Label,
                  BeginStep, PutStep, CompleteStep, AckStep, CloseStep, Creating
    <2>2. Procs'
      BY <1>2, <2>1, GotoKeepsProcs
    <2> QED  BY <1>2, <2>2, FilesFrame DEF IOFails, Files
  <1> QED  BY <1>1, <1>2 DEF IOFails

(* The steps of the environment: other processes, crashes, time. *)
LEMMA EnvironmentTypes ==
  ASSUME Files, Procs, ImportRequest \/ Crash \/ Restart \/ Maintenance \/ Tick
  PROVE  Files' /\ Procs'
  <1>1. CASE Crash
    <2>1. Files'
      BY <1>1 DEF Crash, Files, bundleVars, uploadVars
    <2>2. \A h \in Handler : Carries("idle", None, None)
      BY DEF Carries, BeginStep, PutStep, CompleteStep, AckStep, CloseStep, Creating
    <2>3. /\ pc' = [h \in Handler |-> "idle"]
          /\ job' = [h \in Handler |-> None] /\ seen' = [h \in Handler |-> None]
      BY <1>1 DEF Crash
    <2>4. \A h \in Handler : Carries(pc'[h], job'[h], seen'[h])
      BY <2>2, <2>3
    <2>5. CarriesMatchStep'
      BY <2>4 DEF CarriesMatchStep, Carries
    <2> QED  BY <2>1, <2>3, <2>5 DEF Procs, Label
  <1>2. CASE ~Crash
    <2>1. UNCHANGED procVars
      BY <1>2 DEF ImportRequest, Restart, Maintenance, PurgeStart, PurgeFile, PurgeDone,
                  PurgeStops, Tick
    <2>2. Procs'
      BY <2>1 DEF procVars, Procs, CarriesMatchStep, Carries
    <2>3. CASE ImportRequest \/ Restart
      BY <2>1, <2>2, <2>3 DEF ImportRequest, Restart, Files, bundleVars, uploadVars, envVars, procVars
    <2>4. CASE Tick
      <3>1. clock' \in Time
        BY <2>4, StoreAssumption DEF Tick, Files, Time
      <3> QED  BY <2>1, <2>2, <2>4, <3>1 DEF Tick, Files, bundleVars, uploadVars, procVars
    <2>5. ASSUME NEW u \in Upload, PurgeStart(u) PROVE Files'
      BY <2>1, <2>5 DEF PurgeStart, Files, bundleVars, uploadVars, procVars
    <2>6. CASE PurgeFile
      <3>1. purging \in Upload
        BY <2>6 DEF PurgeFile, Files
      <3> QED  BY <2>1, <2>2, <2>6, <3>1, UnlinkTypes DEF PurgeFile, procVars
    <2>7. CASE PurgeDone
      <3>1. purging \in Upload
        BY <2>7 DEF PurgeDone, Files
      <3>2. mu' \in Handler \cup {None}
        BY <2>1 DEF procVars, Files
      <3> QED  BY <2>2, <2>7, <3>1, <3>2, RmdirTypes DEF PurgeDone
    <2>8. CASE PurgeStops
      BY <2>1, <2>2, <2>8 DEF PurgeStops, Files, bundleVars, uploadVars, procVars
    <2> QED  BY <1>2, <2>2, <2>3, <2>4, <2>5, <2>6, <2>7, <2>8 DEF Maintenance
  <1> QED  BY <1>1, <1>2

LEMMA TypeStep == TypeInv /\ [Next]_vars => TypeInv'
  <1> SUFFICES ASSUME TypeInv, [Next]_vars PROVE TypeInv'
    OBVIOUS
  <1>0. Files /\ Procs
    BY TypeParts
  <1> SUFFICES Files' /\ Procs'
    BY DEF TypeInv, TypeOK, Files, Procs
  <1>1. ASSUME NEW h \in Handler, Call(h) \/ Advance(h) \/ Fault(h) \/ Return(h)
        PROVE  Files' /\ Procs'
    BY <1>0, <1>1, AuthorizeTypes, BeginTypes, PutTypes, CompleteTypes, AckTypes,
       RemoveTypes, CloseTypes, IOFailsTypes DEF Advance, Fault
  <1>2. CASE ImportRequest \/ Crash \/ Restart \/ Maintenance \/ Tick
    BY <1>0, <1>2, EnvironmentTypes
  <1>3. CASE UNCHANGED vars
    BY <1>0, <1>3 DEF vars, bundleVars, uploadVars, procVars, envVars, Files, Procs,
                      CarriesMatchStep, Carries
  <1> QED  BY <1>1, <1>2, <1>3 DEF Next

LEMMA TypeInvariant == Spec => []TypeInv
  BY TypeInit, TypeStep, PTL DEF Spec

(* In every reachable state every file, handler and lock is well typed; in   *)
(* particular a chunk has a length some manifest declares.                   *)
THEOREM TypeCorrect == Spec => []TypeOK
  BY TypeInvariant, PTL DEF TypeInv

-----------------------------------------------------------------------------
(* One handler's step.  It may move h to the step l when it takes the lock   *)
(* it needs, leaves the lock of others alone and has looked at the closure   *)
(* it relies on.                                                             *)
Lawful(h, l) ==
  /\ l # "unauthorized"
  /\ l \in Critical => mu' = h
  /\ mu' = mu \/ mu \in {h, None}
  /\ l \in Creating \cup {"body", "receipt", "mark"} => closure' = None
  /\ l = "move" => closure' # None
  /\ l = "auth" => closedBundle'

Moves(h, l) == pc' = [pc EXCEPT ![h] = l]

LEMMA LawfulStep ==
  ASSUME Procs, ClosureInv, NEW h \in Handler, NEW l, Moves(h, l), Lawful(h, l),
         UNCHANGED bundleVars
  PROVE  ClosureInv'
  <1>1. pc'[h] = l /\ \A g \in Handler \ {h} : pc'[g] = pc[g]
    BY DEF Moves, Procs
  <1>2. LockDiscipline'
    BY <1>1, StoreAssumption DEF ClosureInv, LockDiscipline, Lawful
  <1>3. ClosureSeen'
    BY <1>1 DEF ClosureInv, ClosureSeen, Lawful, bundleVars
  <1>4. ClosureFailsClosed' /\ ValidCapabilityAccepted'
    BY <1>1 DEF ClosureInv, ClosureFailsClosed, ValidCapabilityAccepted, Lawful, bundleVars
  <1> QED  BY <1>2, <1>3, <1>4 DEF ClosureInv

(* An answer, and a step that stays inside the critical section it is in.    *)
LEMMA AnswerLawful ==
  ASSUME ClosureInv, NEW h \in Handler, NEW l \in Reply \ {"unauthorized"},
         mu' = mu \/ mu \in {h, None}
  PROVE  Lawful(h, l)
  BY DEF Lawful, Reply, Critical, Creating

LEMMA HoldsLock ==
  ASSUME ClosureInv, NEW h \in Handler, pc[h] \in Critical
  PROVE  mu = h
  BY DEF ClosureInv, LockDiscipline

LEMMA ProceedMoves ==
  ASSUME NEW h \in Handler, NEW l, Proceed(h, l) \/ Answer(h, l) \/ Goto(h, l)
  PROVE  Moves(h, l)
  BY DEF Proceed, Answer, Goto, Moves

(* Taking the lock for the verdict l of what the lock holder sees.           *)
LEMMA LockThenLawful ==
  ASSUME Procs, ClosureInv, NEW h \in Handler, NEW l, LockThen(h, l),
         UNCHANGED bundleVars,
         l \in Reply => l # "unauthorized",
         l \notin Reply => l \in Critical,
         l \in Creating \cup {"body", "receipt", "mark"} => closure = None,
         l = "move" => closure # None
  PROVE  ClosureInv'
  <1>1. Moves(h, l)
    BY ProceedMoves DEF LockThen
  <1>2. Lawful(h, l)
    BY DEF LockThen, Free, Lawful, bundleVars, Reply, Critical, Creating
  <1> QED  BY <1>1, <1>2, LawfulStep

LEMMA UnlockLawful ==
  ASSUME Procs, ClosureInv, NEW h \in Handler, NEW l \in Reply \ {"unauthorized"},
         pc[h] \in Critical, Unlock(h, l), UNCHANGED bundleVars
  PROVE  ClosureInv'
  <1>1. Moves(h, l)
    BY ProceedMoves DEF Unlock
  <1>2. Lawful(h, l)
    BY HoldsLock, AnswerLawful DEF Unlock
  <1> QED  BY <1>1, <1>2, LawfulStep

-----------------------------------------------------------------------------
(* The steps of one handler, operation by operation. *)

(* Between opening the active bundle and opening the closed one the bundle   *)
(* may move; that the closed one is then found is what ClosureSeen and       *)
(* ClosureFailsClosed carry across the gap.                                  *)
LEMMA AuthorizeClosure ==
  ASSUME Procs, ClosureInv, NEW h \in Handler,
         Call(h) \/ AuthenticateClosed(h) \/ Gate(h) \/ Return(h)
  PROVE  ClosureInv'
  <1>c. Carries(pc[h], job[h], seen[h])
    BY DEF Procs, CarriesMatchStep
  <1>1. ASSUME Call(h) PROVE ClosureInv'
    <2>1. PICK r \in Request : pc' = [pc EXCEPT ![h] = IF active THEN Admitted(r) ELSE "auth"]
      BY <1>1 DEF Call
    <2>2. active \/ closedBundle
      BY DEF ClosureInv, ClosureFailsClosed
    <2> DEFINE l == IF active THEN Admitted(r) ELSE "auth"
    <2>3. l \in {"auth", "gate", "begin", "put", "complete", "ack", "close"}
      BY RequestOps DEF Admitted
    <2>4. (l = "auth" => closedBundle) /\ UNCHANGED mu /\ UNCHANGED bundleVars
      BY <1>1, <2>2, RequestOps DEF Call, Admitted
    <2>5. Lawful(h, l)
      BY <2>3, <2>4 DEF Lawful, Critical, Creating, bundleVars
    <2> QED  BY <2>1, <2>4, <2>5, LawfulStep DEF Moves
  <1>2. ASSUME AuthenticateClosed(h) PROVE ClosureInv'
    <2> DEFINE l == Admitted(job[h])
    <2>1. closedBundle /\ job[h] \in Request
      BY <1>2, <1>c DEF AuthenticateClosed, At, ClosureInv, ClosureSeen, Carries
    <2>2. Moves(h, l) /\ UNCHANGED mu /\ UNCHANGED bundleVars
      BY <1>2, <2>1, ProceedMoves DEF AuthenticateClosed
    <2>3. l \in {"gate", "begin", "put", "complete", "ack", "close"}
      BY <2>1, RequestOps DEF Admitted
    <2>4. Lawful(h, l)
      BY <2>2, <2>3 DEF Lawful, Critical, Creating
    <2> QED  BY <2>2, <2>4, LawfulStep
  <1>3. ASSUME Gate(h) PROVE ClosureInv'
    <2> DEFINE l == IF closure # None THEN "closed" ELSE job[h].op
    <2>1. l \in {"closed", "begin", "put", "complete"}
      BY <1>3, <1>c DEF Gate, At, Carries, SubmitOp
    <2>2. Moves(h, l) /\ UNCHANGED mu /\ UNCHANGED bundleVars
      BY <1>3, ProceedMoves DEF Gate
    <2>3. Lawful(h, l)
      BY <2>1, <2>2 DEF Lawful, Critical, Creating
    <2> QED  BY <2>2, <2>3, LawfulStep
  <1>4. ASSUME Return(h) PROVE ClosureInv'
    <2>1. Moves(h, "idle") /\ UNCHANGED mu /\ UNCHANGED bundleVars
      BY <1>4, ProceedMoves DEF Return
    <2>2. Lawful(h, "idle")
      BY <2>1 DEF Lawful, Critical, Creating
    <2> QED  BY <2>1, <2>2, LawfulStep
  <1> QED  BY <1>1, <1>2, <1>3, <1>4

LEMMA BeginClosure ==
  ASSUME Procs, ClosureInv, NEW h \in Handler,
         \/ BeginTooLarge(h) \/ BeginEnter(h) \/ BeginMkdir(h) \/ BeginChunks(h)
         \/ BeginManifest(h) \/ BeginServer(h)
  PROVE  ClosureInv'
  <1>1. ASSUME BeginTooLarge(h) PROVE ClosureInv'
    <2>1. Moves(h, "quota") /\ Lawful(h, "quota") /\ UNCHANGED bundleVars
      BY <1>1, ProceedMoves, AnswerLawful DEF BeginTooLarge, Reply
    <2> QED  BY <2>1, LawfulStep
  <1>2. ASSUME BeginEnter(h) PROVE ClosureInv'
    <2> DEFINE l == BeginVerdict(job[h].u, job[h].m)
    <2>1. LockThen(h, l) /\ UNCHANGED bundleVars
      BY <1>2 DEF BeginEnter
    <2>2. l \in Reply \ {"unauthorized"} \/ (l = "mkdir" /\ closure = None)
      BY DEF BeginVerdict, Reply
    <2>3. "mkdir" \in Critical /\ Reply \cap (Creating \cup {"body", "receipt", "mark", "move"}) = {}
      BY DEF Critical, Creating, Reply
    <2> QED  BY <2>1, <2>2, <2>3, LockThenLawful
  <1>3. ASSUME NEW l \in {"chunks", "manifest", "server", "cleanup"}, Goto(h, l), pc[h] \in Creating,
               UNCHANGED mu, UNCHANGED bundleVars
        PROVE  ClosureInv'
    <2>1. mu = h /\ closure = None
      BY <1>3, HoldsLock DEF Critical, ClosureInv, ClosureSeen
    <2>2. Moves(h, l) /\ Lawful(h, l)
      BY <1>3, <2>1, ProceedMoves DEF Lawful, bundleVars
    <2> QED  BY <1>3, <2>2, LawfulStep
  <1>4. CASE BeginMkdir(h)
    BY <1>3, <1>4 DEF BeginMkdir, At, Creating
  <1>5. CASE BeginChunks(h)
    BY <1>3, <1>5 DEF BeginChunks, At, Creating
  <1>6. CASE BeginManifest(h)
    BY <1>3, <1>6 DEF BeginManifest, At, Creating
  <1>7. CASE BeginServer(h)
    <2>1. CASE Unlock(h, "ok")
      BY <1>7, <2>1, UnlockLawful DEF BeginServer, At, Reply, Critical, Creating
    <2>2. CASE Goto(h, "cleanup") /\ UNCHANGED mu
      BY <1>3, <1>7, <2>2 DEF BeginServer, At, Creating
    <2> QED  BY <1>7, <2>1, <2>2 DEF BeginServer
  <1> QED  BY <1>1, <1>2, <1>4, <1>5, <1>6, <1>7

LEMMA PutClosure ==
  ASSUME Procs, ClosureInv, NEW h \in Handler,
         PutRead(h) \/ PutEnter(h) \/ PutBody(h) \/ PutAborted(h)
  PROVE  ClosureInv'
  <1>1. ASSUME PutRead(h) PROVE ClosureInv'
    <2>1. pc[h] = "put" /\ UNCHANGED mu /\ UNCHANGED bundleVars
      BY <1>1 DEF PutRead, At
    <2>2. \E l \in {"put", "notfound", "invalid"} : Moves(h, l)
      BY <1>1, <2>1, ProceedMoves DEF PutRead, Moves, Procs
    <2>3. \A l \in {"put", "notfound", "invalid"} : Lawful(h, l)
      BY <2>1 DEF Lawful, Critical, Creating
    <2> QED  BY <2>1, <2>2, <2>3, LawfulStep
  <1>2. ASSUME PutEnter(h) PROVE ClosureInv'
    <2> DEFINE l == PutVerdict(job[h].u, job[h].i)
    <2>1. LockThen(h, l) /\ UNCHANGED bundleVars
      BY <1>2 DEF PutEnter
    <2>2. l \in Reply \ {"unauthorized"} \/ (l = "body" /\ closure = None)
      BY DEF PutVerdict, Reply
    <2>3. "body" \in Critical /\ Reply \cap (Creating \cup {"body", "receipt", "mark", "move"}) = {}
      BY DEF Critical, Creating, Reply
    <2> QED  BY <2>1, <2>2, <2>3, LockThenLawful
  <1>3. CASE PutBody(h)
    BY <1>3, UnlockLawful DEF PutBody, At, Reply, Critical
  <1>4. CASE PutAborted(h)
    BY <1>4, UnlockLawful DEF PutAborted, At, Reply, Critical
  <1> QED  BY <1>1, <1>2, <1>3, <1>4

LEMMA CompleteClosure ==
  ASSUME Procs, ClosureInv, NEW h \in Handler, CompleteEnter(h) \/ WriteReceipt(h)
  PROVE  ClosureInv'
  <1>1. ASSUME CompleteEnter(h) PROVE ClosureInv'
    <2> DEFINE v == CompleteVerdict(job[h].u)
    <2>1. UNCHANGED bundleVars /\ mu = None
      BY <1>1 DEF CompleteEnter, Free
    <2>2. CASE v # "receipt"
      <3>1. v \in Reply \ {"unauthorized"}
        BY <2>2 DEF CompleteVerdict, Reply
      <3>2. Moves(h, v) /\ Lawful(h, v)
        BY <1>1, <2>1, <2>2, <3>1, ProceedMoves, AnswerLawful DEF CompleteEnter
      <3> QED  BY <2>1, <3>2, LawfulStep
    <2>3. CASE v = "receipt"
      <3>1. closure = None
        BY <2>3 DEF CompleteVerdict
      <3>2. Moves(h, "receipt") /\ Lawful(h, "receipt")
        BY <1>1, <2>1, <2>3, <3>1 DEF CompleteEnter, Moves, Lawful, bundleVars
      <3> QED  BY <2>1, <3>2, LawfulStep
    <2> QED  BY <2>2, <2>3
  <1>2. CASE WriteReceipt(h)
    BY <1>2, UnlockLawful DEF WriteReceipt, WriteReply, At, Reply, Critical
  <1> QED  BY <1>1, <1>2

LEMMA AckClosure ==
  ASSUME Procs, ClosureInv, NEW h \in Handler, AckEnter(h) \/ AckWrite(h) \/ DeleteStart(h)
  PROVE  ClosureInv'
  <1>1. ASSUME AckEnter(h) PROVE ClosureInv'
    <2> DEFINE l == IF receipt[job[h].u] = None THEN "notfound" ELSE "ackwrite"
    <2>1. LockThen(h, l) /\ UNCHANGED bundleVars
      BY <1>1 DEF AckEnter
    <2>2. l \in Reply \ {"unauthorized"} \/ l = "ackwrite"
      BY DEF Reply
    <2>3. /\ "ackwrite" \in Critical
          /\ (Reply \cup {"ackwrite"}) \cap (Creating \cup {"body", "receipt", "mark", "move"}) = {}
      BY DEF Critical, Creating, Reply
    <2> QED  BY <2>1, <2>2, <2>3, LockThenLawful
  <1>2. ASSUME NEW l \in {"delete", "remove"}, Goto(h, l), pc[h] \in Critical,
               UNCHANGED mu, UNCHANGED bundleVars
        PROVE  ClosureInv'
    <2>1. mu = h
      BY <1>2, HoldsLock
    <2>2. Moves(h, l) /\ Lawful(h, l)
      BY <1>2, <2>1, ProceedMoves DEF Lawful, Creating
    <2> QED  BY <1>2, <2>2, LawfulStep
  <1>3. CASE AckWrite(h)
    <2>1. pc[h] \in Critical /\ UNCHANGED bundleVars
      BY <1>3 DEF AckWrite, At, Critical
    <2>2. CASE Goto(h, "delete") /\ UNCHANGED mu
      BY <1>2, <2>1, <2>2
    <2>3. CASE Unlock(h, "ok") \/ Unlock(h, "error")
      BY <2>1, <2>3, UnlockLawful DEF Reply
    <2> QED  BY <1>3, <2>2, <2>3 DEF AckWrite
  <1>4. CASE DeleteStart(h)
    BY <1>2, <1>4 DEF DeleteStart, At, Critical
  <1> QED  BY <1>1, <1>3, <1>4

LEMMA RemoveClosure ==
  ASSUME Procs, ClosureInv, NEW h \in Handler, RemoveFile(h) \/ RemoveDone(h) \/ RemoveFails(h)
  PROVE  ClosureInv'
  <1>1. pc[h] \in Critical
    BY DEF RemoveFile, RemoveDone, RemoveFails, Removing, Critical
  <1>2. CASE RemoveFile(h)
    BY <1>2 DEF RemoveFile, bundleVars, procVars, ClosureInv, LockDiscipline,
                ClosureFailsClosed, ValidCapabilityAccepted, ClosureSeen
  <1>3. CASE RemoveDone(h)
    BY <1>1, <1>3, UnlockLawful DEF RemoveDone, Reply
  <1>4. CASE RemoveFails(h)
    BY <1>1, <1>4, UnlockLawful DEF RemoveFails, Reply
  <1> QED  BY <1>2, <1>3, <1>4

(* The two steps that change the closure hold the lock, so nobody else is    *)
(* past a check of it; and the marker precedes the move.                     *)
LEMMA CloseClosure ==
  ASSUME Files, Procs, ClosureInv, NEW h \in Handler,
         CloseEnter(h) \/ CloseMark(h) \/ CloseMove(h)
  PROVE  ClosureInv'
  <1>1. ASSUME CloseEnter(h) PROVE ClosureInv'
    <2> DEFINE l == CloseVerdict
    <2>1. LockThen(h, l) /\ UNCHANGED bundleVars
      BY <1>1 DEF CloseEnter
    <2>2. \/ l \in Reply \ {"unauthorized"}
          \/ l = "mark" /\ closure = None
          \/ l = "move" /\ closure # None
      BY DEF CloseVerdict, Reply
    <2>3. /\ {"mark", "move"} \subseteq Critical /\ "move" \notin Creating
          /\ Reply \cap (Creating \cup {"body", "receipt", "mark", "move"}) = {}
      BY DEF Critical, Creating, Reply
    <2> QED  BY <2>1, <2>2, <2>3, LockThenLawful
  <1>2. ASSUME CloseMark(h) \/ CloseMove(h)
        PROVE  \A g \in Handler \ {h} : pc[g] \notin Critical /\ pc'[g] = pc[g]
    <2>1. mu = h
      BY <1>2, HoldsLock DEF CloseMark, CloseMove, At, Critical
    <2>2. \E l : Moves(h, l)
      BY <1>2, ProceedMoves DEF CloseMark, CloseMove, Unlock
    <2> QED  BY <2>1, <2>2 DEF ClosureInv, LockDiscipline, Moves, Procs
  <1>3. ASSUME CloseMark(h) PROVE ClosureInv'
    <2>1. closure' # None
      BY <1>3, StoreAssumption DEF CloseMark, Files
    <2>2. UNCHANGED <<active, closedBundle>>
      BY <1>3 DEF CloseMark
    <2>3. (pc'[h] = "move" /\ mu' = h) \/ pc'[h] \in WriteReply
      <3>1. mu = h
        BY <1>3, HoldsLock DEF CloseMark, At, Critical
      <3>2. (Moves(h, "move") /\ mu' = mu) \/ Moves(h, "ok") \/ Moves(h, "error")
        BY <1>3, ProceedMoves DEF CloseMark, Unlock
      <3> QED  BY <3>1, <3>2 DEF Moves, Procs, WriteReply
    <2>4. LockDiscipline'
      BY <1>2, <1>3, <2>3 DEF LockDiscipline, Critical, Creating, WriteReply
    <2>5. ClosureSeen'
      BY <1>2, <1>3, <2>1, <2>2, <2>3 DEF ClosureInv, ClosureSeen, Critical, Creating, WriteReply
    <2>6. ClosureFailsClosed' /\ ValidCapabilityAccepted'
      BY <1>2, <1>3, <2>1, <2>2, <2>3
      DEF ClosureInv, ClosureFailsClosed, ValidCapabilityAccepted, WriteReply
    <2> QED  BY <2>4, <2>5, <2>6 DEF ClosureInv
  <1>4. ASSUME CloseMove(h) PROVE ClosureInv'
    <2>1. closure # None /\ closure' = closure /\ closedBundle'
      BY <1>4 DEF CloseMove, At, ClosureInv, ClosureSeen
    <2>2. pc'[h] \in WriteReply
      BY <1>4, ProceedMoves DEF CloseMove, Unlock, Moves, Procs, WriteReply
    <2>3. LockDiscipline'
      BY <1>2, <1>4, <2>2 DEF LockDiscipline, Critical, Creating, WriteReply
    <2>4. ClosureSeen'
      BY <1>2, <1>4, <2>1, <2>2 DEF ClosureInv, ClosureSeen, Critical, Creating, WriteReply
    <2>5. ClosureFailsClosed' /\ ValidCapabilityAccepted'
      BY <1>2, <1>4, <2>1, <2>2 DEF ClosureInv, ClosureFailsClosed, ValidCapabilityAccepted, WriteReply
    <2> QED  BY <2>3, <2>4, <2>5 DEF ClosureInv
  <1> QED  BY <1>1, <1>3, <1>4

LEMMA IOFailsClosure ==
  ASSUME Procs, ClosureInv, NEW h \in Handler, IOFails(h)
  PROVE  ClosureInv'
  <1>1. pc[h] \in Critical /\ mu = h /\ UNCHANGED bundleVars
    BY HoldsLock DEF IOFails, Critical, Creating
  <1>2. CASE Unlock(h, "error")
    BY <1>1, <1>2, UnlockLawful DEF Reply
  <1>3. CASE Goto(h, "cleanup") /\ UNCHANGED mu
    <2>1. Moves(h, "cleanup") /\ Lawful(h, "cleanup")
      BY <1>1, <1>3, ProceedMoves DEF Lawful, Creating
    <2> QED  BY <1>1, <2>1, LawfulStep
  <1> QED  BY <1>2, <1>3 DEF IOFails

LEMMA EnvironmentClosure ==
  ASSUME Procs, ClosureInv, ImportRequest \/ Crash \/ Restart \/ Maintenance \/ Tick
  PROVE  ClosureInv'
  <1> USE DEF ClosureInv, LockDiscipline, ClosureFailsClosed, ValidCapabilityAccepted,
              ClosureSeen, bundleVars, procVars
  <1>1. CASE Crash
    BY <1>1 DEF Crash, Critical, Creating
  <1>2. CASE ImportRequest
    BY <1>2 DEF ImportRequest
  <1>3. CASE Restart \/ Maintenance \/ Tick
    <2>1. UNCHANGED bundleVars /\ UNCHANGED procVars
      BY <1>3 DEF Restart, Maintenance, PurgeStart, PurgeFile, PurgeDone, PurgeStops, Tick
    <2> QED  BY <2>1
  <1> QED  BY <1>1, <1>2, <1>3

-----------------------------------------------------------------------------
LEMMA ClosureInit == Init => ClosureInv
  BY DEF Init, ClosureInv, LockDiscipline, ClosureFailsClosed, ValidCapabilityAccepted,
         ClosureSeen, Critical, Creating

LEMMA ClosureStep == TypeInv /\ ClosureInv /\ [Next]_vars => ClosureInv'
  <1> SUFFICES ASSUME TypeInv, ClosureInv, [Next]_vars PROVE ClosureInv'
    OBVIOUS
  <1>0. Files /\ Procs
    BY TypeParts
  <1>1. ASSUME NEW h \in Handler, Call(h) \/ Advance(h) \/ Fault(h) \/ Return(h)
        PROVE  ClosureInv'
    BY <1>0, <1>1, AuthorizeClosure, BeginClosure, PutClosure, CompleteClosure, AckClosure,
       RemoveClosure, CloseClosure, IOFailsClosure DEF Advance, Fault
  <1>2. CASE ImportRequest \/ Crash \/ Restart \/ Maintenance \/ Tick
    BY <1>0, <1>2, EnvironmentClosure
  <1>3. CASE UNCHANGED vars
    BY <1>3 DEF vars, bundleVars, procVars, ClosureInv, LockDiscipline, ClosureFailsClosed,
                ValidCapabilityAccepted, ClosureSeen
  <1> QED  BY <1>1, <1>2, <1>3 DEF Next

(* The inductive invariant holds in every reachable state.                   *)
THEOREM Invariant == Spec => []IInv
  BY TypeInit, TypeStep, ClosureInit, ClosureStep, PTL DEF Spec, IInv

(* The marker is never missing from a moved bundle and the bundle is never   *)
(* lost, over every interleaving, failure and crash of CloseRequest.         *)
THEOREM FailsClosed == Spec => []ClosureFailsClosed
  BY Invariant, PTL DEF IInv, ClosureInv

(* Authenticate's two unlocked reads never miss the bundle that CloseRequest *)
(* is moving: a valid capability is never refused as invalid.                *)
THEOREM CapabilityAccepted == Spec => []ValidCapabilityAccepted
  BY Invariant, PTL DEF IInv, ClosureInv

-----------------------------------------------------------------------------
(* Only the lock holder at "mark" writes the marker, and it has seen none.   *)
LEMMA ClosureKept ==
  ASSUME IInv, [Next]_vars
  PROVE  (closure # None => closure' = closure) /\ (closedBundle => closedBundle')
  <1>1. CASE UNCHANGED bundleVars
    BY <1>1 DEF bundleVars
  <1>2. ASSUME NEW h \in Handler, CloseMark(h)
        PROVE  closure = None /\ closedBundle' = closedBundle
    BY <1>2 DEF CloseMark, At, IInv, ClosureInv, ClosureSeen
  <1>3. ASSUME NEW h \in Handler, CloseMove(h)
        PROVE  closure' = closure /\ closedBundle'
    BY <1>3 DEF CloseMove
  <1>4. CASE ImportRequest
    BY <1>4 DEF ImportRequest
  <1>5. ASSUME NEW h \in Handler, Call(h) \/ Advance(h) \/ Fault(h) \/ Return(h),
               ~CloseMark(h), ~CloseMove(h)
        PROVE  UNCHANGED bundleVars
    BY <1>5 DEF Advance, Fault, Call, AuthenticateClosed, Gate, Return,
       BeginTooLarge, BeginEnter, BeginMkdir, BeginChunks, BeginManifest, BeginServer,
       PutRead, PutEnter, PutBody, PutAborted, CompleteEnter, WriteReceipt,
       AckEnter, AckWrite, DeleteStart, RemoveFile, RemoveDone, RemoveFails,
       CloseEnter, IOFails
  <1>6. CASE Crash \/ Restart \/ Maintenance \/ Tick
    BY <1>1, <1>6 DEF Crash, Restart, Maintenance, PurgeStart, PurgeFile, PurgeDone,
                      PurgeStops, Tick
  <1> QED  BY <1>1, <1>2, <1>3, <1>4, <1>5, <1>6 DEF Next, vars

(* A closure's time never changes and a closed request is never reopened,    *)
(* whatever retries, races and crashes CloseRequest goes through.            *)
THEOREM ClosureIsStable == Spec => ClosureStable
  <1>1. IInv /\ [Next]_vars =>
          [(closure # None => closure' = closure) /\ (closedBundle => closedBundle')]_vars
    BY ClosureKept
  <1> QED  BY <1>1, Invariant, PTL DEF Spec, ClosureStable

-----------------------------------------------------------------------------
(* No file of any upload appears in this step.                               *)
NothingAppears ==
  \A u \in Upload :
    /\ ~Appears(manifest[u], manifest'[u]) /\ ~Appears(server[u], server'[u])
    /\ ~Appears(receipt[u], receipt'[u])
    /\ \A i \in Index : ~Appears(chunk[u][i], chunk'[u][i])

LEMMA UnlinkAppears ==
  ASSUME TypeInv, NEW u \in Upload, Unlink(u)
  PROVE  NothingAppears
  <1> USE DEF NothingAppears, Appears, TypeInv, TypeOK
  <1>1. CASE manifest' = [manifest EXCEPT ![u] = None] /\ UNCHANGED <<server, chunk, receipt>>
    BY <1>1
  <1>2. CASE server' = [server EXCEPT ![u] = None] /\ UNCHANGED <<manifest, chunk, receipt>>
    BY <1>2
  <1>3. CASE receipt' = [receipt EXCEPT ![u] = None] /\ UNCHANGED <<manifest, server, chunk>>
    BY <1>3
  <1>4. ASSUME NEW i \in Index, chunk' = [chunk EXCEPT ![u][i] = None],
               UNCHANGED <<manifest, server, receipt>>
        PROVE  NothingAppears
    BY <1>4
  <1>5. CASE UNCHANGED <<manifest, server, receipt, chunk>>
    BY <1>5
  <1> QED  BY <1>1, <1>2, <1>3, <1>4, <1>5 DEF Unlink

LEMMA SubmissionStep ==
  ASSUME IInv, [Next]_vars, closure # None
  PROVE  NothingAppears
  <1>t. TypeInv /\ Files /\ Procs
    BY TypeParts DEF IInv
  <1>s. ClosureSeen
    BY DEF IInv, ClosureInv
  <1>1. CASE UNCHANGED <<manifest, server, receipt, chunk>>
    BY <1>1 DEF NothingAppears, Appears
  <1>2. ASSUME NEW h \in Handler,
               BeginManifest(h) \/ BeginServer(h) \/ PutBody(h) \/ WriteReceipt(h)
        PROVE  FALSE
    BY <1>2, <1>s DEF BeginManifest, BeginServer, PutBody, WriteReceipt, At, ClosureSeen, Creating
  <1>3. ASSUME NEW h \in Handler, RemoveFile(h) PROVE NothingAppears
    <2>1. pc[h] \in {"remove", "cleanup"} /\ Carries(pc[h], job[h], seen[h])
      BY <1>3, <1>t DEF RemoveFile, Removing, Procs, CarriesMatchStep
    <2>2. job[h] \in Request /\ job[h].op \in {"begin", "ack"}
      BY <2>1 DEF Carries, BeginStep, AckStep
    <2>3. job[h].u \in Upload
      BY <2>2, BeginRequest, UploadRequest
    <2> QED  BY <1>3, <1>t, <2>3, UnlinkAppears DEF RemoveFile
  <1>4. CASE PurgeFile
    <2>1. purging \in Upload
      BY <1>4, <1>t DEF PurgeFile, Files
    <2> QED  BY <1>4, <1>t, <2>1, UnlinkAppears DEF PurgeFile
  <1>5. ASSUME NEW h \in Handler, Call(h) \/ Advance(h) \/ Fault(h) \/ Return(h),
               ~BeginManifest(h), ~BeginServer(h), ~PutBody(h), ~WriteReceipt(h), ~RemoveFile(h)
        PROVE  UNCHANGED <<manifest, server, receipt, chunk>>
    BY <1>5 DEF Advance, Fault, Call, AuthenticateClosed, Gate, Return,
       BeginTooLarge, BeginEnter, BeginMkdir, BeginChunks, PutRead, PutEnter, PutAborted,
       CompleteEnter, AckEnter, AckWrite, DeleteStart, RemoveDone, Rmdir, RemoveFails,
       CloseEnter, CloseMark, CloseMove, IOFails, uploadVars
  <1>6. CASE ImportRequest \/ Crash \/ Restart \/ (\E u \in Upload : PurgeStart(u))
               \/ PurgeDone \/ PurgeStops \/ Tick
    <2>1. UNCHANGED <<manifest, server, receipt, chunk>>
      BY <1>6 DEF ImportRequest, Crash, Restart, PurgeStart, PurgeDone, Rmdir, PurgeStops,
                  Tick, uploadVars
    <2> QED  BY <1>1, <2>1
  <1>7. CASE UNCHANGED vars
    BY <1>1, <1>7 DEF vars, uploadVars
  <1> QED  BY <1>1, <1>2, <1>3, <1>4, <1>5, <1>6, <1>7 DEF Next, Maintenance

(* After the marker nothing is submitted any more: not by a new request, and *)
(* not by a handler that passed the gate before the request was closed.      *)
THEOREM ClosedStopsSubmissions == Spec => ClosureStopsSubmissions
  <1>1. IInv /\ [Next]_vars => [closure # None => NothingAppears]_vars
    BY SubmissionStep
  <1>2. ClosureStopsSubmissions <=> [][closure # None => NothingAppears]_vars
    BY DEF ClosureStopsSubmissions, NothingAppears
  <1> QED  BY <1>1, <1>2, Invariant, PTL DEF Spec

=============================================================================
