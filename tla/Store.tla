-------------------------------- MODULE Store --------------------------------
(***************************************************************************)
(* The file store of one upload request, as the HTTP handlers of a running *)
(* server drive it: begin an upload, put its chunks, complete it, let the  *)
(* recipient acknowledge it, close the request.  Handlers run              *)
(* concurrently.  A Go mutex guards the mutating operations, but the       *)
(* capability check, the submit gate and PutChunk's first manifest read    *)
(* happen outside it.  Any write may fail, the server may be killed        *)
(* between any two file operations, and `purge' runs while it is down.     *)
(***************************************************************************)
EXTENDS Manifests, FiniteSets

CONSTANTS
  Handler,             \* concurrent HTTP handlers
  Upload,              \* upload IDs clients may choose
  MaxFiles, MaxBytes,  \* the request's quotas
  ExpiresAt,           \* the request's expiry
  StaleAfter,          \* purge's age limit for incomplete uploads
  MaxClock,            \* bound on the modelled time
  DeleteAfterCollect,  \* remove ciphertext once acknowledged?
  None                 \* no such file

Time == 0 .. MaxClock
ServerFile == [m : Manifest, at : Time]

ASSUME StoreAssumption ==
  /\ MaxFiles \in Nat /\ MaxBytes \in Nat
  /\ ExpiresAt \in Nat /\ StaleAfter \in Nat /\ MaxClock \in Nat
  /\ DeleteAfterCollect \in BOOLEAN
  /\ IsFiniteSet(Upload)
  /\ None \notin Handler \cup Upload \cup Manifest \cup Time
  /\ None \notin ChunkFile \cup ServerFile \cup Receipt

(* Requests whose capability is valid; the rest never reach the store. *)
Request ==
  [op : {"begin"}, u : Upload, m : Manifest]
    \cup [op : {"put"}, u : Upload, i : Index, d : Digest]
    \cup [op : {"complete", "ack"}, u : Upload]
    \cup [op : {"close"}]
SubmitOp == {"begin", "put", "complete"}

VARIABLES
  active, closedBundle,  \* requests/ID.json and closed-requests/ID.json exist
  closure,               \* closed-requests/ID.closure.json: its time, or None
  dir,                   \* the upload directory, without or with chunks/
  manifest, server,      \* its manifest.json and server.json
  chunk,                 \* chunks/I.bin
  receipt, ack,          \* complete.json and acknowledged.json
  doomed,                \* history: uploads whose removal was decided
  mu,                    \* the handler holding the store mutex
  pc, job, seen,         \* per handler: where it is, its request, what it read
  up, purging,           \* server running; upload `purge' is removing
  clock

bundleVars == <<active, closedBundle, closure>>
uploadVars == <<dir, manifest, server, chunk, receipt, ack>>
procVars   == <<mu, pc, job, seen>>
envVars    == <<up, purging, clock>>
vars == <<bundleVars, uploadVars, doomed, procVars, envVars>>

Reply == {"ok", "unauthorized", "closed", "expired", "quota", "conflict",
          "notfound", "invalid", "error"}

Label ==
  Reply \cup {"idle", "auth", "gate", "begin", "mkdir", "chunks", "manifest", "server",
             "put", "body", "complete", "receipt", "ack", "ackwrite", "delete",
             "remove", "cleanup", "close", "mark", "move"}

Init ==
  /\ active = TRUE /\ closedBundle = FALSE /\ closure = None
  /\ dir = [u \in Upload |-> "none"]
  /\ manifest = [u \in Upload |-> None] /\ server = [u \in Upload |-> None]
  /\ chunk = [u \in Upload |-> [i \in Index |-> None]]
  /\ receipt = [u \in Upload |-> None] /\ ack = {} /\ doomed = {}
  /\ mu = None
  /\ pc = [h \in Handler |-> "idle"]
  /\ job = [h \in Handler |-> None] /\ seen = [h \in Handler |-> None]
  /\ up = TRUE /\ purging = None /\ clock = 0

-----------------------------------------------------------------------------
(* A handler's control steps. *)

At(h, label) == pc[h] = label
Goto(h, label) == pc' = [pc EXCEPT ![h] = label] /\ UNCHANGED <<job, seen>>
(* With its answer a handler has forgotten its request. *)
Answer(h, reply) ==
  /\ pc' = [pc EXCEPT ![h] = reply]
  /\ job' = [job EXCEPT ![h] = None] /\ seen' = [seen EXCEPT ![h] = None]
Proceed(h, label) == IF label \in Reply THEN Answer(h, label) ELSE Goto(h, label)
Free == mu = None
Unlock(h, reply) == mu' = None /\ Answer(h, reply)
(* writeNew, and the close of a bundle, rename the file into place before a  *)
(* last chmod: should that fail, the write is reported failed all the same.  *)
WriteReply == {"ok", "error"}
\* Fault: the lock is not kept across the operation.
LockThenReleased(h, verdict) == Free /\ Proceed(h, verdict) /\ UNCHANGED mu

(* Takes the lock and, when the verdict is a reply, releases it at once. *)
LockThen(h, verdict) ==
  /\ Free
  /\ Proceed(h, verdict)
  /\ mu' = IF verdict \in Reply THEN None ELSE h

(* Authenticate opens the active bundle first, then the closed one. *)
Admitted(r) == IF r.op \in SubmitOp THEN "gate" ELSE r.op

Call(h) ==
  /\ up /\ At(h, "idle")
  /\ \E r \in Request :
       /\ job' = [job EXCEPT ![h] = r]
       /\ pc' = [pc EXCEPT ![h] = IF active THEN Admitted(r) ELSE "auth"]
  /\ UNCHANGED <<bundleVars, uploadVars, doomed, mu, seen, envVars>>

\* Fault: Request is used where RequestIncludingClosed is meant.
AuthenticateActiveOnly(h) ==
  /\ At(h, "auth") /\ Answer(h, "unauthorized")
  /\ UNCHANGED <<bundleVars, uploadVars, doomed, mu, envVars>>

AuthenticateClosed(h) ==
  /\ At(h, "auth")
  /\ Proceed(h, IF closedBundle THEN Admitted(job[h]) ELSE "unauthorized")
  /\ UNCHANGED <<bundleVars, uploadVars, doomed, mu, envVars>>

(* The lockless closure check every submit route makes. *)
Gate(h) ==
  /\ At(h, "gate")
  /\ Proceed(h, IF closure # None THEN "closed" ELSE job[h].op)
  /\ UNCHANGED <<bundleVars, uploadVars, doomed, mu, envVars>>

(* The response is written and the handler ends. *)
Return(h) ==
  /\ pc[h] \in Reply
  /\ Goto(h, "idle")
  /\ UNCHANGED <<bundleVars, uploadVars, doomed, mu, envVars>>

-----------------------------------------------------------------------------
(* BeginUpload *)

Reserved == {u \in Upload : server[u] # None}
UsedBytes == TotalSize([u \in Reserved |-> server[u].m])
HasQuota(m) ==
  /\ Cardinality(Reserved) < MaxFiles
  /\ PlainSize[m] <= MaxBytes - UsedBytes

(* The directory already holds exactly this upload. *)
SameUpload(u, m) ==
  /\ manifest[u] = m
  /\ server[u] # None
  /\ PlainSize[server[u].m] = PlainSize[m] /\ ChunkSize[server[u].m] = ChunkSize[m]
  /\ dir[u] = "full"

\* Fault: an existing directory is reused.
BeginVerdictReusing(u, m) ==
  IF closure # None THEN "closed"
  ELSE IF clock >= ExpiresAt THEN "expired"
  ELSE IF HasQuota(m) THEN "mkdir" ELSE "quota"

BeginVerdict(u, m) ==
  IF closure # None THEN "closed"
  ELSE IF clock >= ExpiresAt THEN "expired"
  ELSE IF dir[u] # "none" THEN IF SameUpload(u, m) THEN "ok" ELSE "conflict"
  ELSE IF HasQuota(m) THEN "mkdir" ELSE "quota"

BeginTooLarge(h) ==
  /\ At(h, "begin") /\ PlainSize[job[h].m] > MaxBytes
  /\ Answer(h, "quota")
  /\ UNCHANGED <<bundleVars, uploadVars, doomed, mu, envVars>>

BeginEnter(h) ==
  /\ At(h, "begin") /\ PlainSize[job[h].m] <= MaxBytes
  /\ LockThen(h, BeginVerdict(job[h].u, job[h].m))
  /\ UNCHANGED <<bundleVars, uploadVars, doomed, envVars>>

BeginMkdir(h) ==
  /\ At(h, "mkdir")
  /\ dir' = [dir EXCEPT ![job[h].u] = "bare"]
  /\ Goto(h, "chunks")
  /\ UNCHANGED <<bundleVars, manifest, server, chunk, receipt, ack, doomed, mu, envVars>>

BeginChunks(h) ==
  /\ At(h, "chunks")
  /\ dir' = [dir EXCEPT ![job[h].u] = "full"]
  /\ Goto(h, "manifest")
  /\ UNCHANGED <<bundleVars, manifest, server, chunk, receipt, ack, doomed, mu, envVars>>

BeginManifest(h) ==
  /\ At(h, "manifest")
  /\ manifest' = [manifest EXCEPT ![job[h].u] = job[h].m]
  /\ \E label \in {"server", "cleanup"} : Goto(h, label)
  /\ UNCHANGED <<bundleVars, dir, server, chunk, receipt, ack, doomed, mu, envVars>>

BeginServer(h) ==
  /\ At(h, "server")
  /\ server' = [server EXCEPT ![job[h].u] = [m |-> job[h].m, at |-> clock]]
  /\ Unlock(h, "ok") \/ (Goto(h, "cleanup") /\ UNCHANGED mu)
  /\ UNCHANGED <<bundleVars, dir, manifest, chunk, receipt, ack, doomed, envVars>>

-----------------------------------------------------------------------------
(* PutChunk: the manifest is read, and the length fixed, before the lock. *)

PutRead(h) ==
  LET m == manifest[job[h].u] IN
  /\ At(h, "put") /\ seen[h] = None
  /\ \/ m = None /\ Answer(h, "notfound")
     \/ m # None /\ Answer(h, "invalid")      \* chunk index, or Content-Length
     \/ /\ m # None /\ job[h].i < Count(m)
        /\ seen' = [seen EXCEPT ![h] = m] /\ UNCHANGED <<pc, job>>
  /\ UNCHANGED <<bundleVars, uploadVars, doomed, mu, envVars>>

\* Fault: the closure check is left to the gate.
PutVerdictUngated(u, i) ==
  IF chunk[u][i] # None THEN "conflict"
  ELSE IF dir[u] = "full" THEN "body" ELSE "error"

PutVerdict(u, i) ==
  IF closure # None THEN "closed"
  ELSE IF chunk[u][i] # None THEN "conflict"
  ELSE IF dir[u] = "full" THEN "body" ELSE "error"

PutEnter(h) ==
  /\ At(h, "put") /\ seen[h] # None
  /\ LockThen(h, PutVerdict(job[h].u, job[h].i))
  /\ UNCHANGED <<bundleVars, uploadVars, doomed, envVars>>

(* The body arrived with exactly the expected length; it is renamed in. *)
PutBody(h) ==
  LET c == [len |-> ExpectedLength(seen[h], job[h].i), dig |-> job[h].d] IN
  /\ At(h, "body")
  /\ chunk' = [chunk EXCEPT ![job[h].u][job[h].i] = c]
  /\ Unlock(h, "ok")
  /\ UNCHANGED <<bundleVars, dir, manifest, server, receipt, ack, doomed, envVars>>

\* Fault: the error path keeps the lock.
PutAbortedLocked(h) ==
  /\ At(h, "body") /\ Answer(h, "invalid")
  /\ UNCHANGED <<bundleVars, uploadVars, doomed, mu, envVars>>

(* The body was short, long or cut off: the temporary file is dropped. *)
PutAborted(h) ==
  /\ At(h, "body")
  /\ Unlock(h, "invalid")
  /\ UNCHANGED <<bundleVars, uploadVars, doomed, envVars>>

-----------------------------------------------------------------------------
(* Complete *)

\* Fault: completion forgets the closure check.
CompleteVerdictUngated(u) ==
  IF receipt[u] # None THEN "ok"
  ELSE IF manifest[u] = None THEN "notfound"
  ELSE IF AllFit(chunk[u], manifest[u]) THEN "receipt" ELSE "conflict"

CompleteVerdict(u) ==
  IF closure # None THEN "closed"
  ELSE IF receipt[u] # None THEN "ok"
  ELSE IF manifest[u] = None THEN "notfound"
  ELSE IF AllFit(chunk[u], manifest[u]) THEN "receipt" ELSE "conflict"

CompleteEnter(h) ==
  LET u == job[h].u IN
  /\ At(h, "complete") /\ Free
  /\ \/ /\ CompleteVerdict(u) # "receipt"
        /\ Answer(h, CompleteVerdict(u)) /\ UNCHANGED mu
     \/ /\ CompleteVerdict(u) = "receipt"
        /\ mu' = h /\ pc' = [pc EXCEPT ![h] = "receipt"]
        /\ seen' = [seen EXCEPT ![h] = ReceiptOf(chunk[u], manifest[u])]
        /\ UNCHANGED job
  /\ UNCHANGED <<bundleVars, uploadVars, doomed, envVars>>

WriteReceipt(h) ==
  /\ At(h, "receipt")
  /\ receipt' = [receipt EXCEPT ![job[h].u] = seen[h]]
  /\ \E reply \in WriteReply : Unlock(h, reply)
  /\ UNCHANGED <<bundleVars, dir, manifest, server, chunk, ack, doomed, envVars>>

-----------------------------------------------------------------------------
(* Acknowledge, and the file-by-file removal RemoveAll performs. *)

\* Fault: an upload is acknowledged by its directory alone.
AckEnterUnreceipted(h) ==
  /\ At(h, "ack")
  /\ LockThen(h, IF dir[job[h].u] = "none" THEN "notfound" ELSE "ackwrite")
  /\ UNCHANGED <<bundleVars, uploadVars, doomed, envVars>>

AckEnter(h) ==
  /\ At(h, "ack")
  /\ LockThen(h, IF receipt[job[h].u] = None THEN "notfound" ELSE "ackwrite")
  /\ UNCHANGED <<bundleVars, uploadVars, doomed, envVars>>

AckWrite(h) ==
  /\ At(h, "ackwrite")
  /\ ack' = ack \cup {job[h].u}
  /\ \/ DeleteAfterCollect /\ Goto(h, "delete") /\ UNCHANGED mu
     \/ ~DeleteAfterCollect /\ Unlock(h, "ok")
     \/ job[h].u \notin ack /\ Unlock(h, "error")
  /\ UNCHANGED <<bundleVars, dir, manifest, server, chunk, receipt, doomed, envVars>>

DeleteStart(h) ==
  /\ At(h, "delete")
  /\ doomed' = doomed \cup {job[h].u}
  /\ Goto(h, "remove")
  /\ UNCHANGED <<bundleVars, uploadVars, mu, envVars>>

(* RemoveAll unlinks the files in no particular order, then the directories. *)
Unlink(u) ==
  \/ /\ manifest[u] # None /\ manifest' = [manifest EXCEPT ![u] = None]
     /\ UNCHANGED <<dir, server, chunk, receipt, ack>>
  \/ /\ server[u] # None /\ server' = [server EXCEPT ![u] = None]
     /\ UNCHANGED <<dir, manifest, chunk, receipt, ack>>
  \/ /\ receipt[u] # None /\ receipt' = [receipt EXCEPT ![u] = None]
     /\ UNCHANGED <<dir, manifest, server, chunk, ack>>
  \/ /\ u \in ack /\ ack' = ack \ {u}
     /\ UNCHANGED <<dir, manifest, server, chunk, receipt>>
  \/ \E i \in Index :
       /\ chunk[u][i] # None /\ chunk' = [chunk EXCEPT ![u][i] = None]
       /\ UNCHANGED <<dir, manifest, server, receipt, ack>>
  \/ /\ dir[u] = "full" /\ \A i \in Index : chunk[u][i] = None
     /\ dir' = [dir EXCEPT ![u] = "bare"]
     /\ UNCHANGED <<manifest, server, chunk, receipt, ack>>

Emptied(u) ==
  /\ dir[u] = "bare" /\ u \notin ack
  /\ manifest[u] = None /\ server[u] = None /\ receipt[u] = None

Rmdir(u) ==
  /\ dir' = [dir EXCEPT ![u] = "none"]
  /\ doomed' = doomed \ {u}
  /\ UNCHANGED <<manifest, server, chunk, receipt, ack>>

(* BeginUpload's deferred cleanup still reports the error that caused it. *)
Removing(h) == pc[h] \in {"remove", "cleanup"}
RemoveFile(h) ==
  /\ Removing(h) /\ Unlink(job[h].u)
  /\ UNCHANGED <<bundleVars, doomed, procVars, envVars>>
RemoveDone(h) ==
  /\ Removing(h) /\ Emptied(job[h].u)
  /\ Rmdir(job[h].u)
  /\ Unlock(h, IF pc[h] = "remove" THEN "ok" ELSE "error")
  /\ UNCHANGED <<bundleVars, envVars>>
RemoveFails(h) ==
  /\ Removing(h)
  /\ Unlock(h, "error")
  /\ UNCHANGED <<bundleVars, uploadVars, doomed, envVars>>

-----------------------------------------------------------------------------
(* CloseRequest: the marker first, then the move of the bundle. *)

\* Fault: the bundle is moved before the marker is written.
CloseVerdictMoveFirst ==
  IF active THEN "move" ELSE IF closure = None THEN "mark" ELSE "ok"
\* Fault: a close that finds an interrupted one starts over.
CloseVerdictRestart ==
  IF active /\ closedBundle THEN "conflict" ELSE IF active THEN "mark" ELSE "ok"
\* Fault: the marker alone counts as closed.
CloseVerdictMarked == IF closure = None THEN "mark" ELSE "ok"

CloseVerdict ==
  IF ~active /\ ~closedBundle THEN "notfound"
  ELSE IF active /\ closedBundle THEN "conflict"
  ELSE IF closure = None THEN "mark"
  ELSE IF active THEN "move" ELSE "ok"

CloseEnter(h) ==
  /\ At(h, "close")
  /\ LockThen(h, CloseVerdict)
  /\ UNCHANGED <<bundleVars, uploadVars, doomed, envVars>>

CloseMark(h) ==
  /\ At(h, "mark")
  /\ closure' = clock
  /\ \/ active /\ Goto(h, "move") /\ UNCHANGED mu
     \/ ~active /\ Unlock(h, "ok")
     \/ Unlock(h, "error")
  /\ UNCHANGED <<active, closedBundle, uploadVars, doomed, envVars>>

CloseMove(h) ==
  /\ At(h, "move")
  /\ active' = FALSE /\ closedBundle' = TRUE
  /\ \E reply \in WriteReply : Unlock(h, reply)
  /\ UNCHANGED <<closure, uploadVars, doomed, envVars>>

-----------------------------------------------------------------------------
\* Fault: a failed write takes the file that was there with it.
IOFailsRemoving(h) ==
  /\ At(h, "ackwrite") /\ ack' = ack \ {job[h].u}
  /\ Unlock(h, "error")
  /\ UNCHANGED <<bundleVars, dir, manifest, server, chunk, receipt, doomed, envVars>>

(* A failing write: before the upload directory exists, or inside it. *)
IOFails(h) ==
  /\ \/ /\ pc[h] \in {"mkdir", "body", "receipt", "ackwrite", "mark", "move"}
        /\ Unlock(h, "error")
     \/ /\ pc[h] \in {"chunks", "manifest", "server"}
        /\ Goto(h, "cleanup") /\ UNCHANGED mu
  /\ UNCHANGED <<bundleVars, uploadVars, doomed, envVars>>

(* `request import' finds no active bundle and writes one. *)
ImportRequest ==
  /\ ~active /\ active' = TRUE
  /\ UNCHANGED <<closedBundle, closure, uploadVars, doomed, procVars, envVars>>

(* The server process is killed: its handlers vanish, its files stay. *)
Crash ==
  /\ up /\ up' = FALSE
  /\ mu' = None
  /\ pc' = [h \in Handler |-> "idle"]
  /\ job' = [h \in Handler |-> None] /\ seen' = [h \in Handler |-> None]
  /\ UNCHANGED <<bundleVars, uploadVars, doomed, purging, clock>>

Restart ==
  /\ ~up /\ purging = None /\ up' = TRUE
  /\ UNCHANGED <<bundleVars, uploadVars, doomed, procVars, purging, clock>>

(* `purge --apply', run as the only writer while the server is down. *)
BundleExpired == (~active /\ ~closedBundle) \/ clock >= ExpiresAt
\* Fault: age alone makes an upload stale.
StaleByAge(u) == server[u] # None => clock - server[u].at > StaleAfter
Stale(u) ==
  server[u] # None => (clock - server[u].at > StaleAfter /\ receipt[u] = None)

PurgeStart(u) ==
  /\ ~up /\ purging = None /\ dir[u] # "none"
  /\ BundleExpired \/ Stale(u)
  /\ purging' = u /\ doomed' = doomed \cup {u}
  /\ UNCHANGED <<bundleVars, uploadVars, procVars, up, clock>>

PurgeFile ==
  /\ purging # None /\ Unlink(purging)
  /\ UNCHANGED <<bundleVars, doomed, procVars, envVars>>

PurgeDone ==
  /\ purging # None /\ Emptied(purging) /\ Rmdir(purging)
  /\ purging' = None
  /\ UNCHANGED <<bundleVars, procVars, up, clock>>

PurgeStops ==
  /\ purging # None /\ purging' = None
  /\ UNCHANGED <<bundleVars, uploadVars, doomed, procVars, up, clock>>

Tick ==
  /\ clock < MaxClock /\ clock' = clock + 1
  /\ UNCHANGED <<bundleVars, uploadVars, doomed, procVars, up, purging>>

(* What a handler does unless the file system fails it. *)
Advance(h) ==
  \/ AuthenticateClosed(h) \/ Gate(h)
  \/ BeginTooLarge(h) \/ BeginEnter(h) \/ BeginMkdir(h) \/ BeginChunks(h)
  \/ BeginManifest(h) \/ BeginServer(h)
  \/ PutRead(h) \/ PutEnter(h) \/ PutBody(h) \/ PutAborted(h)
  \/ CompleteEnter(h) \/ WriteReceipt(h)
  \/ AckEnter(h) \/ AckWrite(h) \/ DeleteStart(h)
  \/ RemoveFile(h) \/ RemoveDone(h)
  \/ CloseEnter(h) \/ CloseMark(h) \/ CloseMove(h)

Fault(h) == IOFails(h) \/ RemoveFails(h)

Maintenance == (\E u \in Upload : PurgeStart(u)) \/ PurgeFile \/ PurgeDone \/ PurgeStops

Next ==
  \/ \E h \in Handler : Call(h) \/ Advance(h) \/ Fault(h) \/ Return(h)
  \/ ImportRequest \/ Crash \/ Restart \/ Maintenance \/ Tick

Spec == Init /\ [][Next]_vars

(* The Go scheduler runs every goroutine; sync.Mutex hands over a contended *)
(* lock after 1 ms, so a handler that keeps finding it free now and then    *)
(* gets it.  A body is the client's: it may stall for ever (no ReadTimeout), *)
(* a manifest, read before the mutex is taken, as well as a chunk.           *)
ReadsBody(h) == At(h, "begin") \/ At(h, "body")
Fairness == \A h \in Handler : SF_vars(Advance(h) /\ ~ReadsBody(h))
FairSpec == Spec /\ Fairness

-----------------------------------------------------------------------------
(* Every variable stays in its type. *)
TypeOK ==
  /\ active \in BOOLEAN /\ closedBundle \in BOOLEAN
  /\ closure \in Time \cup {None}
  /\ dir \in [Upload -> {"none", "bare", "full"}]
  /\ manifest \in [Upload -> Manifest \cup {None}]
  /\ server \in [Upload -> ServerFile \cup {None}]
  /\ chunk \in [Upload -> [Index -> ChunkFile \cup {None}]]
  /\ receipt \in [Upload -> Receipt \cup {None}]
  /\ ack \subseteq Upload /\ doomed \subseteq Upload
  /\ mu \in Handler \cup {None}
  /\ pc \in [Handler -> Label]
  /\ job \in [Handler -> Request \cup {None}]
  /\ seen \in [Handler -> Manifest \cup Receipt \cup {None}]
  /\ up \in BOOLEAN /\ purging \in Upload \cup {None} /\ clock \in Time

(* An issued receipt describes what is stored - this manifest, every chunk   *)
(* present, of its declared length and of the receipted content - from the   *)
(* moment it is written until a removal is decided; only receipted uploads   *)
(* are acknowledged (Complete, PutChunk, Acknowledge, over crashes).         *)
ReceiptMatchesStored ==
  \A u \in Upload \ doomed :
    /\ u \in ack => receipt[u] # None
    /\ receipt[u] # None =>
         /\ manifest[u] = receipt[u].m
         /\ AllFit(chunk[u], manifest[u])
         /\ receipt[u] = ReceiptOf(chunk[u], manifest[u])

(* Reservations never exceed the request's file and byte quotas, however     *)
(* many BeginUpload calls race.                                              *)
QuotaRespected == Cardinality(Reserved) <= MaxFiles /\ UsedBytes <= MaxBytes

(* A moved bundle always has its marker, so a request that looks closed to   *)
(* Authenticate is closed to every submit gate; the bundle is never lost.    *)
ClosureFailsClosed == (closedBundle => closure # None) /\ (active \/ closedBundle)

(* A holder of a valid capability is never told it is invalid, although      *)
(* Authenticate reads two files without the lock while CloseRequest moves    *)
(* the bundle from one to the other.                                         *)
ValidCapabilityAccepted == \A h \in Handler : pc[h] # "unauthorized"

Appears(before, after) == after # before /\ after # None

(* Once the marker exists no manifest, server state, chunk or receipt        *)
(* appears any more, also through handlers that passed the gate before.      *)
ClosureStopsSubmissions ==
  [][closure # None => \A u \in Upload :
       /\ ~Appears(manifest[u], manifest'[u]) /\ ~Appears(server[u], server'[u])
       /\ ~Appears(receipt[u], receipt'[u])
       /\ \A i \in Index : ~Appears(chunk[u][i], chunk'[u][i])]_vars

(* No stored file is ever replaced: it stays as written or is removed.       *)
NothingOverwritten ==
  [][\A u \in Upload :
       /\ manifest[u] # None => manifest'[u] \in {manifest[u], None}
       /\ server[u] # None => server'[u] \in {server[u], None}
       /\ receipt[u] # None => receipt'[u] \in {receipt[u], None}
       /\ \A i \in Index :
            chunk[u][i] # None => chunk'[u][i] \in {chunk[u][i], None}]_vars

(* The close time of the first closure survives retries, racing closes and   *)
(* crashes between the marker and the move; closure is never undone.         *)
ClosureStable ==
  [][(closure # None => closure' = closure) /\ (closedBundle => closedBundle')]_vars

Durable(r) ==
  \/ r.op = "begin" /\ manifest[r.u] = r.m /\ server[r.u] # None /\ dir[r.u] = "full"
  \/ r.op = "put" /\ chunk[r.u][r.i] # None /\ chunk[r.u][r.i].dig = r.d
  \/ r.op = "complete" /\ receipt[r.u] # None
  \/ r.op = "ack" /\ (r.u \in ack \/ dir[r.u] = "none")
  \/ r.op = "close" /\ closure # None /\ closedBundle /\ ~active

(* A success is answered only when all it promises is on disk, including     *)
(* what an earlier, interrupted call left half done.                         *)
AnswerIsDurable ==
  [][\A h \in Handler : pc[h] # "ok" /\ pc'[h] = "ok" =>
       \A r \in {job[h]} : Durable(r)']_vars

(* A completed upload is given up only once acknowledged or expired - purge  *)
(* never takes it for a stale one - provided its server.json was written.    *)
RetainedUntilReleased ==
  [][\A u \in doomed' \ doomed :
       \/ receipt[u] = None \/ server[u] = None
       \/ u \in ack \/ clock >= ExpiresAt]_vars

(* Every request is answered or dies with the server, whatever fails while   *)
(* the mutex is held, unless its own manifest stalls - or a chunk's body     *)
(* does, which PutChunk awaits with the mutex held: that alone can hold      *)
(* everybody up.                                                             *)
BodyStalls == \E h \in Handler : <>[]At(h, "body")
EveryCallAnswered ==
  \/ \A h \in Handler :
       \/ pc[h] \notin Reply \cup {"idle"} ~> pc[h] \in Reply \cup {"idle"}
       \/ <>[]At(h, "begin")
  \/ BodyStalls

(* The store keeps the promises of the intake ledger, where an upload stands *)
(* as long as its begin, repeated, finds it.                                 *)
SlotOf(u) ==
  IF u \in doomed \/ manifest[u] = None \/ server[u] = None \/ dir[u] # "full" THEN None
  ELSE [m |-> manifest[u],
        parts |-> [i \in Indices(manifest[u]) |-> chunk[u][i]],
        seal |-> receipt[u], acked |-> u \in ack]
Slots == [u \in Upload |-> SlotOf(u)]
Ledger == INSTANCE Intake WITH
  closed <- closure, slot <- Slots, expired <- clock >= ExpiresAt
ImplementsIntake == Ledger!Spec

ASSUME LedgerAssumption == None \notin Ledger!Slot

-----------------------------------------------------------------------------
(* What the documentation says and the code does not hold to. *)

(* "Expiry is the automatic end of an intake": an upload whose completion is *)
(* considered after the expiry does not complete.                            *)
ExpiryEndsIntake ==
  [][\A h \in Handler : clock >= ExpiresAt /\ pc[h] = "complete" => pc'[h] # "receipt"]_vars

(* purge takes expired requests and incomplete uploads, not a completed      *)
(* upload of a request that has not expired.                                 *)
PurgeSparesCompleted ==
  [][\A u \in doomed' \ doomed : receipt[u] = None \/ u \in ack \/ clock >= ExpiresAt]_vars

(* Closing is safe to repeat: a closed request never answers a conflict.     *)
CloseRepeatable ==
  [][\A h \in Handler : closure # None /\ pc[h] = "close" => pc'[h] # "conflict"]_vars
=============================================================================
