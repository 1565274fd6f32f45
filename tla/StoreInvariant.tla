--------------------------- MODULE StoreInvariant ---------------------------
(***************************************************************************)
(* The inductive invariant behind the store's theorems: what a handler at  *)
(* each step carries, who holds the mutex, what the lock holder may still  *)
(* assume of the closure and of the files it found, and what the files of  *)
(* an upload say of each other.                                            *)
(***************************************************************************)
EXTENDS Store

Creating == {"mkdir", "chunks", "manifest", "server"}
BeginStep == {"begin", "cleanup"} \cup Creating
PutStep == {"put", "body"}
CompleteStep == {"complete", "receipt"}
AckStep == {"ack", "ackwrite", "delete", "remove"}
CloseStep == {"close", "mark", "move"}

(* The steps between taking the store mutex and releasing it. *)
Critical == Creating \cup {"cleanup", "body", "receipt", "ackwrite", "delete", "remove",
                           "mark", "move"}

(* A handler at step l has a request j of that operation, and has read s:    *)
(* nothing, a manifest with the chunk it puts, or a receipt to write.        *)
Carries(l, j, s) ==
  /\ l \in {"auth", "gate"} => j \in Request
  /\ l = "gate" => j.op \in SubmitOp
  /\ l \in BeginStep => j \in Request /\ j.op = "begin"
  /\ l \in PutStep => j \in Request /\ j.op = "put"
  /\ l \in CompleteStep => j \in Request /\ j.op = "complete"
  /\ l \in AckStep => j \in Request /\ j.op = "ack"
  /\ l \in CloseStep => j \in Request /\ j.op = "close"
  /\ (l = "put" /\ s # None) \/ l = "body" => s \in Manifest /\ j.i \in Indices(s)
  /\ l = "receipt" => s \in Receipt
  /\ l \notin {"put", "body", "receipt"} => s = None

CarriesMatchStep == \A h \in Handler : Carries(pc[h], job[h], seen[h])

LockDiscipline == \A h \in Handler : pc[h] \in Critical => mu = h

(* Whoever holds the mutex to add something holds an open request. *)
ClosureSeen ==
  \A h \in Handler :
    /\ pc[h] \in Creating \cup {"body", "receipt", "mark"} => closure = None
    /\ pc[h] = "move" => closure # None
    /\ pc[h] = "auth" => closedBundle

TypeInv == TypeOK /\ CarriesMatchStep

ClosureInv == LockDiscipline /\ ClosureFailsClosed /\ ValidCapabilityAccepted /\ ClosureSeen

IInv == TypeInv /\ ClosureInv

-----------------------------------------------------------------------------
(* What is stored of an upload, and what the lock holder knows of it. *)

Absent(u) ==
  /\ manifest[u] = None /\ server[u] = None /\ receipt[u] = None
  /\ u \notin ack \cup doomed
  /\ \A i \in Index : chunk[u][i] = None

(* Nothing outlives its directory, which is what lets an ID be used again.   *)
Placed(u) ==
  /\ dir[u] = "none" => Absent(u)
  /\ \A i \in Index : chunk[u][i] # None => dir[u] = "full"

(* server.json was made from the manifest beside it.                         *)
OneManifest(u) == manifest[u] # None /\ server[u] # None => server[u].m = manifest[u]

Described(u) ==
  u \notin doomed =>
    /\ u \in ack => receipt[u] # None
    /\ receipt[u] # None =>
         /\ manifest[u] = receipt[u].m
         /\ AllFit(chunk[u], manifest[u])
         /\ receipt[u] = ReceiptOf(chunk[u], manifest[u])

(* Handler h still finds on disk what it found when it took the mutex, and   *)
(* what it has written since.                                                *)
StillFinds(h) ==
  LET l == pc[h]  u == job[h].u IN
  /\ l = "mkdir" => dir[u] = "none"
  /\ l = "chunks" => dir[u] = "bare"
  /\ l \in {"manifest", "server", "body"} => dir[u] = "full"
  /\ l = "cleanup" => dir[u] # "none"
  /\ l \in {"chunks", "manifest"} => manifest[u] = None
  /\ l = "server" => manifest[u] = job[h].m
  /\ l \in {"chunks", "manifest", "server"} => server[u] = None
  /\ l \in {"chunks", "manifest", "server", "cleanup"} =>
       /\ receipt[u] = None /\ u \notin ack \cup doomed
       /\ \A i \in Index : chunk[u][i] = None
  /\ l \in Creating => HasQuota(job[h].m)
  /\ l = "body" => chunk[u][job[h].i] = None
  /\ l = "receipt" =>
       /\ receipt[u] = None /\ manifest[u] # None
       /\ AllFit(chunk[u], manifest[u])
       /\ seen[h] = ReceiptOf(chunk[u], manifest[u])
  /\ l \in {"ackwrite", "delete"} => receipt[u] # None
  /\ l = "delete" => u \in ack
  /\ l = "remove" => u \in doomed

(* purge and the server take turns. *)
Exclusive ==
  /\ ~up => \A h \in Handler : pc[h] = "idle"
  /\ purging # None => ~up /\ purging \in doomed

FilesInv ==
  /\ \A u \in Upload : Placed(u) /\ OneManifest(u) /\ Described(u)
  /\ \A h \in Handler : StillFinds(h)
  /\ Exclusive
  /\ QuotaRespected

Inv == IInv /\ FilesInv

-----------------------------------------------------------------------------
(* Why every call ends: somebody works while the mutex is held, and no step  *)
(* leads back.                                                               *)

(* The mutex is never left behind: whoever holds it is a handler of the      *)
(* running server inside an operation - whatever fails there, and over       *)
(* crashes - and a removal it is in still has its directory to remove        *)
(* (the deferred unlocks of store.go, PutChunk's error paths).               *)
HolderAtWork ==
  mu # None =>
    /\ up /\ pc[mu] \in Critical
    /\ Removing(mu) => dir[job[mu].u] # "none"

(* How far a handler is on its way to an answer. *)
Stage(l) ==
  CASE l = "auth" -> 1
    [] l = "gate" -> 2
    [] l \in {"begin", "put", "complete", "ack", "close"} -> 3
    [] l \in {"mkdir", "body", "receipt", "ackwrite", "mark"} -> 4
    [] l \in {"chunks", "delete", "move"} -> 5
    [] l \in {"manifest", "remove"} -> 6
    [] l = "server" -> 7
    [] l = "cleanup" -> 8
    [] OTHER -> 9

(* What RemoveAll still finds of an upload. *)
Left(u) ==
  [chunks |-> {i \in Index : chunk[u][i] # None},
   files |-> {f \in {"manifest", "server", "receipt", "ack", "chunks"} :
                \/ f = "manifest" /\ manifest[u] # None
                \/ f = "server" /\ server[u] # None
                \/ f = "receipt" /\ receipt[u] # None
                \/ f = "ack" /\ u \in ack
                \/ f = "chunks" /\ dir[u] = "full"}]
Shrinks(u) ==
  /\ Left(u)' # Left(u)
  /\ Left(u)'.chunks \subseteq Left(u).chunks /\ Left(u)'.files \subseteq Left(u).files

Undisturbed(h) ==
  /\ pc'[h] = pc[h] /\ job'[h] = job[h] /\ seen'[h] = seen[h]
  /\ Removing(h) => \A u \in Upload : u = job[h].u => Left(u)' = Left(u)
Nearer(h) ==
  \/ Stage(pc[h]) < Stage(pc'[h])
  \/ pc'[h] = pc[h] /\ seen[h] = None /\ seen'[h] # None
  \/ /\ pc'[h] = pc[h] /\ Removing(h)
     /\ \E u \in Upload : u = job[h].u /\ Shrinks(u)

(* Each step of a handler brings it nearer to its answer, and no step of     *)
(* another handler, of purge or of the clock sets it back: what it removes,  *)
(* nobody puts back meanwhile.                                               *)
HandlersAdvance ==
  [][\A h \in Handler : pc[h] \notin Reply \cup {"idle"} => Undisturbed(h) \/ Nearer(h)]_vars
=============================================================================
