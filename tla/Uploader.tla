------------------------------ MODULE Uploader ------------------------------
(***************************************************************************)
(* The upload page sending a batch of files to a server whose state keeps  *)
(* the promises of Intake (Store is shown to) and whose answers are those  *)
(* of its handlers.  A request may be lost, answered in vain, or handled   *)
(* long after the page gave up on it; each operation is retried.  Other    *)
(* senders, the recipient and purge act at any time, under the page's      *)
(* upload IDs too, and what a removal leaves is still served.              *)
(***************************************************************************)
EXTENDS Manifests, FiniteSets, Sequences

CONSTANTS
  Upload, MaxFiles, MaxBytes, Time, None,   \* as in Intake
  Batch,      \* the manifests of the chosen files, in order
  IdOf,       \* IdOf[m]: the upload ID drawn for manifest m
  Content,    \* Content[m][i]: what chunk i of m is encrypted to
  Attempts,   \* tries of one operation
  MaxLate     \* bound on the requests still under way that the page gave up

ASSUME UploaderAssumption ==
  /\ Batch \in Seq(Manifest) /\ Batch # <<>>
  /\ \A j, k \in DOMAIN Batch : j # k => IdOf[Batch[j]] # IdOf[Batch[k]]
  /\ IdOf \in [Manifest -> Upload]
  /\ \A m \in Manifest : Content[m] \in [Indices(m) -> Digest]
  /\ Attempts \in Nat \ {0} /\ MaxLate \in Nat
  /\ None \notin Manifest \cup ChunkFile \cup Receipt

VARIABLES
  closed, slot, expired,   \* the server's ledger
  remains,    \* files in upload directories that are off the ledger
  page,       \* the page: file number, step, chunk index, attempt
  flight,     \* requests no handler has finished
  reported    \* files shown as verified and stored
ledgerVars == <<closed, slot, expired>>
vars == <<ledgerVars, remains, page, flight, reported>>

Ledger == INSTANCE Intake
ASSUME SlotsAreNotNone == None \notin Ledger!Slot

(* The files of an upload that Put, Head and Complete look at.  Once its      *)
(* manifest is gone nothing looks at its chunks any more.                    *)
Files == [m : Manifest \cup {None}, parts : [Index -> ChunkFile \cup {None}],
          seal : Receipt \cup {None}]
NoParts == [i \in Index |-> None]
Gone == [m |-> None, parts |-> NoParts, seal |-> None]
FilesOf(s) ==
  [m |-> s.m, parts |-> [i \in Index |-> IF i \in Indices(s.m) THEN s.parts[i] ELSE None],
   seal |-> s.seal]

Step == {"begin", "put", "head", "complete"}
Ending == {"done", "refused", "exhausted", "conflict", "mismatch"}
HttpRequest == [op : Step, m : Manifest, i : Index, n : 1 .. Attempts]
Answer == {"ok", "conflict", "temporary", "refused"}

Mine(p) == Batch[p.k]
RequestOf(p) == [op |-> p.pc, m |-> Mine(p), i |-> p.i, n |-> p.attempt]
OwnReceipt(m) == [m |-> m, root |-> Content[m]]
OwnFile(m, i) == [len |-> ExpectedLength(m, i), dig |-> Content[m][i]]
Open(p) == p.pc \in Step

StartOf(k) == [k |-> k, pc |-> "begin", i |-> 0, attempt |-> 1]

Init ==
  /\ Ledger!Init
  /\ remains = [u \in Upload |-> Gone]
  /\ page = StartOf(1) /\ flight = {RequestOf(page)} /\ reported = {}

-----------------------------------------------------------------------------
(* What the page does on an answer: its next state.  *)

Stop(p, why) == [p EXCEPT !.pc = why, !.i = 0, !.attempt = 1]
GoOn(p, step, i) == [p EXCEPT !.pc = step, !.i = i, !.attempt = 1]
NextFile(p) == IF p.k = Len(Batch) THEN Stop(p, "done") ELSE StartOf(p.k + 1)

\* Fault: one attempt too many.
TryAgainOnceMore(p) ==
  IF p.attempt > Attempts THEN Stop(p, "exhausted")
  ELSE [p EXCEPT !.attempt = @ + 1, !.pc = IF p.pc = "head" THEN "put" ELSE p.pc]
\* Fault: asking for a stored chunk's digest starts the attempts over.
TryAgainAfresh(p) ==
  IF p.attempt = Attempts THEN Stop(p, "exhausted")
  ELSE IF p.pc = "head" THEN GoOn(p, "put", p.i) ELSE [p EXCEPT !.attempt = @ + 1]
(* run: again, unless it was the last attempt; putChunk starts with the PUT. *)
TryAgain(p) ==
  IF p.attempt = Attempts THEN Stop(p, "exhausted")
  ELSE [p EXCEPT !.attempt = @ + 1, !.pc = IF p.pc = "head" THEN "put" ELSE p.pc]

ChunkDone(p) ==
  IF p.i + 1 < Count(Mine(p)) THEN GoOn(p, "put", p.i + 1) ELSE GoOn(p, "complete", 0)

\* Fault: a stored chunk is not asked for.
OnConflictAtOnce(p) == Stop(p, "conflict")
(* 409 on a chunk asks for the stored digest within the same attempt. *)
OnConflict(p) == IF p.pc = "put" THEN [p EXCEPT !.pc = "head"] ELSE Stop(p, "conflict")

\* Fault: the server's receipt is believed.
OnOkTrusting(p, said) ==
  CASE p.pc = "begin" -> GoOn(p, "put", 0)
    [] p.pc = "put" -> ChunkDone(p)
    [] p.pc = "head" -> IF said = Content[Mine(p)][p.i] THEN ChunkDone(p) ELSE Stop(p, "mismatch")
    [] p.pc = "complete" -> NextFile(p)

(* `said' is what the answer carries: a chunk's digest, or the receipt. *)
OnOk(p, said) ==
  CASE p.pc = "begin" -> GoOn(p, "put", 0)
    [] p.pc = "put" -> ChunkDone(p)
    [] p.pc = "head" -> IF said = Content[Mine(p)][p.i] THEN ChunkDone(p) ELSE Stop(p, "mismatch")
    [] p.pc = "complete" -> IF said = OwnReceipt(Mine(p)) THEN NextFile(p) ELSE Stop(p, "mismatch")

React(p, answer, said) ==
  CASE answer = "ok" -> OnOk(p, said)
    [] answer = "conflict" -> OnConflict(p)
    [] answer = "temporary" -> TryAgain(p)
    [] answer = "refused" -> Stop(p, "refused")

(* The page in its new state has sent the request that state calls for. *)
Sends(p, left) == flight' = left \cup (IF Open(p) THEN {RequestOf(p)} ELSE {})
Shown(p) == IF p.k > page.k \/ p.pc = "done" THEN reported \cup {Mine(page)} ELSE reported
Becomes(p, left) == page' = p /\ reported' = Shown(p) /\ Sends(p, left)

-----------------------------------------------------------------------------
(* What a handler of the server does to the upload, and answers.             *)

Kept == UNCHANGED <<ledgerVars, remains>>

(* A removal takes the upload off the ledger at once, its files one by one;  *)
(* only when the last of them is gone is its ID free again.                  *)
Leave ==
  /\ remains' = [u \in Upload |->
       IF slot[u] # None /\ slot'[u] = None THEN FilesOf(slot[u]) ELSE remains[u]]
  /\ \A u \in Upload : slot[u] = None /\ slot'[u] # None => remains[u] = Gone

(* What a handler finds in the directory of u: it never asks for server.json *)
(* there, nor whether a removal was begun.                                   *)
Found(u) == IF slot[u] # None THEN slot[u] ELSE remains[u]

HeldFor(m) == slot[IdOf[m]] # None /\ slot[IdOf[m]].m = m

(* Off the ledger server.json and chunks/ may be there still, or be missing. *)
BeginServed(q, answer) ==
  LET u == IdOf[q.m] IN
  /\ closed = None /\ ~expired
  /\ \/ HeldFor(q.m) /\ answer = "ok" /\ Kept
     \/ ~HeldFor(q.m) /\ answer = "conflict" /\ Kept
     \/ slot[u] = None /\ remains[u].m = q.m /\ answer = "ok" /\ Kept
     \/ Ledger!Begin(u, q.m) /\ Leave /\ answer \in {"ok", "temporary"}

ChunkStored(u, i, file) ==
  \/ /\ slot[u] # None /\ slot' = [slot EXCEPT ![u].parts[i] = file]
     /\ UNCHANGED <<closed, expired, remains>>
  \/ /\ slot[u] = None /\ remains' = [remains EXCEPT ![u].parts[i] = file]
     /\ UNCHANGED ledgerVars

(* Index and length are checked against a manifest read before the lock: the *)
(* file may land in a later upload of the ID, or where nothing looks for it. *)
PutServed(q, answer) ==
  LET u == IdOf[q.m]
      f == Found(u)
      Wanted == f.m # None /\ q.i \in Indices(f.m) IN
  /\ closed = None
  /\ \/ Wanted /\ f.parts[q.i] # None /\ answer = "conflict" /\ Kept
     \/ Wanted /\ f.parts[q.i] = None /\ answer = "ok" /\ ChunkStored(u, q.i, OwnFile(q.m, q.i))
     \/ ~Wanted /\ answer \in {"ok", "conflict"} /\ Kept

HeadServed(q, answer, said) ==
  LET f == Found(IdOf[q.m]) IN
  /\ closed = None /\ f.m # None /\ q.i \in Indices(f.m) /\ f.parts[q.i] # None
  /\ answer = "ok" /\ said = f.parts[q.i].dig /\ Kept

Completable(u) ==
  /\ closed = None
  /\ Found(u).seal = None /\ Found(u).m # None /\ AllFit(Found(u).parts, Found(u).m)
Completed(u) ==
  LET r == ReceiptOf(Found(u).parts, Found(u).m) IN
  \/ slot[u] # None /\ slot' = [slot EXCEPT ![u].seal = r] /\ UNCHANGED <<closed, expired, remains>>
  \/ slot[u] = None /\ remains' = [remains EXCEPT ![u].seal = r] /\ UNCHANGED ledgerVars
CompleteServed(q, answer, said) ==
  LET u == IdOf[q.m]
      f == Found(u) IN
  /\ closed = None
  /\ \/ f.seal # None /\ said = f.seal /\ answer = "ok" /\ Kept
     \/ /\ f.seal = None /\ f.m # None /\ ~AllFit(f.parts, f.m)
        /\ said = None /\ answer = "conflict" /\ Kept
     \/ /\ Completable(u) /\ Completed(u)
        /\ said = ReceiptOf(f.parts, f.m) /\ answer \in {"ok", "temporary"}

(* Anything may also fail without effect, for the moment or for good:        *)
(* closed, expired, over quota, not found, rate-limited, an I/O error.       *)
Served(q, answer, said) ==
  \/ answer \in {"temporary", "refused"} /\ said = None /\ Kept
  \/ q.op = "begin" /\ said = None /\ BeginServed(q, answer)
  \/ q.op = "put" /\ said = None /\ PutServed(q, answer)
  \/ q.op = "head" /\ HeadServed(q, answer, said)
  \/ q.op = "complete" /\ CompleteServed(q, answer, said)

Handle(q) ==
  \E answer \in Answer, said \in Digest \cup Receipt \cup {None} :
    /\ Served(q, answer, said)
    /\ \/ UNCHANGED <<page, reported>> /\ flight' = flight \ {q}
       \/ /\ Open(page) /\ q = RequestOf(page)
          /\ Becomes(React(page, answer, said), flight \ {q})

(* No answer, or one that broke off; the request is lost, or comes late. *)
NetworkFails ==
  /\ Open(page)
  /\ \/ Becomes(TryAgain(page), flight \ {RequestOf(page)})
     \/ Cardinality(flight) <= MaxLate /\ Becomes(TryAgain(page), flight)
  /\ Kept

(* Off the ledger a begin may leave a manifest behind, chunks and completions *)
(* may come from others, and the files go, in no particular order.           *)
OffLedger(u) ==
  LET f == remains[u] IN
  /\ slot[u] = None
  /\ \/ /\ closed = None /\ ~expired /\ f = Gone
        /\ \E m \in Manifest : remains' = [remains EXCEPT ![u].m = m]
        /\ UNCHANGED ledgerVars
     \/ /\ closed = None /\ f.m # None
        /\ \E i \in Indices(f.m), file \in ChunkFile : f.parts[i] = None /\ ChunkStored(u, i, file)
     \/ Completable(u) /\ Completed(u)
     \/ /\ UNCHANGED ledgerVars
        /\ \/ f.m # None /\ remains' = [remains EXCEPT ![u].m = None, ![u].parts = NoParts]
           \/ \E i \in Index : f.parts[i] # None /\ remains' = [remains EXCEPT ![u].parts[i] = None]
           \/ f.seal # None /\ remains' = [remains EXCEPT ![u].seal = None]

Others ==
  /\ (Ledger!Next /\ Leave) \/ \E u \in Upload : OffLedger(u)
  /\ UNCHANGED <<page, flight, reported>>

Next == (\E q \in flight : Handle(q)) \/ NetworkFails \/ Others

Spec == Init /\ [][Next]_vars

-----------------------------------------------------------------------------
(* Every variable stays in its type. *)
TypeOK ==
  /\ closed \in Time \cup {None} /\ expired \in BOOLEAN
  /\ slot \in [Upload -> Ledger!Slot \cup {None}]
  /\ page \in [k : DOMAIN Batch, pc : Step \cup Ending, i : Index, attempt : 1 .. Attempts]
  /\ page.i \in Indices(Mine(page))
  /\ flight \subseteq HttpRequest /\ reported \subseteq Manifest
  /\ remains \in [Upload -> Files]

Stored(m) ==
  LET u == IdOf[m] IN
  \/ /\ slot[u] # None /\ slot[u].m = m /\ slot[u].seal = OwnReceipt(m)
     /\ \A i \in Indices(m) : slot[u].parts[i] = OwnFile(m, i)
  \/ slot[u] = None /\ remains[u].seal = OwnReceipt(m)

(* A file is shown as verified and stored only when, as its completion was   *)
(* answered, the server had on disk a receipt for exactly the bytes this     *)
(* page encrypted, and had them all if the upload was on the ledger; off it, *)
(* Complete still answers from the files that are left - whatever was lost,  *)
(* replayed, removed or sent by others meanwhile.                            *)
ReportedIsStored == [][\A m \in reported' \ reported : Stored(m)']_vars

(* All the page has sent of its file so far is there, unchanged. *)
AsSent(p) ==
  LET s == slot[IdOf[Mine(p)]]
      n == IF p.pc = "complete" THEN Count(Mine(p)) ELSE IF p.pc = "begin" THEN 0 ELSE p.i + 1
  IN s # None /\ s.m = Mine(p) /\ \A i \in 0 .. n - 1 : s.parts[i] = OwnFile(Mine(p), i)

(* The page does not trip over its own lost or late requests: it stops with  *)
(* a conflict only if something it has sent is not, or no more, there.       *)
ConflictHasCause ==
  [][Open(page) /\ page'.pc \in {"conflict", "mismatch"} => ~AsSent(page)]_vars

Phase(l) == CASE l = "begin" -> 1 [] l \in {"put", "head"} -> 2 [] l = "complete" -> 3

(* q is further on than p: it has stopped, or is at a later file, operation, *)
(* chunk or attempt, or asks within its attempt for what is stored.          *)
Further(p, q) ==
  \/ q.pc \in Ending
  \/ p.k < q.k
  \/ /\ p.k = q.k
     /\ \/ Phase(p.pc) < Phase(q.pc)
        \/ Phase(p.pc) = Phase(q.pc) /\ p.i < q.i
        \/ Phase(p.pc) = Phase(q.pc) /\ p.i = q.i /\ p.attempt < q.attempt
        \/ p.i = q.i /\ p.attempt = q.attempt /\ p.pc = "put" /\ q.pc = "head"

(* The page never sends the same request for the same attempt twice: every   *)
(* answer, or its absence, takes it further, so that a batch takes a bounded *)
(* number of requests, whatever is lost and whatever conflicts it meets      *)
(* (retry.js's run, putChunk's question within an attempt).                  *)
PageGoesOn == [][Open(page) /\ page' # page => Further(page, page')]_vars
=============================================================================
