------------------------------ MODULE Collector ------------------------------
(***************************************************************************)
(* `opaquedrop collect' commands that save uploads of one request into one *)
(* output directory: wait for receipts, then for each one fetch, verify,   *)
(* publish under a free name and acknowledge.  A command may be cancelled  *)
(* or killed anywhere; reads may fail and are retried; an acknowledgement  *)
(* is sent once, may arrive long after the command gave up on it, and may  *)
(* remove the upload, whose ID a sender may then use again.                *)
(***************************************************************************)
EXTENDS Integers, FiniteSets

CONSTANTS
  Collector,     \* commands, each one run of `collect'
  Upload,        \* upload IDs
  Body,          \* what senders upload: a manifest with its chunks
  Sent,          \* Sent[u]: the bodies sent under the ID u
  Chunks,        \* Chunks[x]: how many chunks body x has
  Name,          \* Name[x]: the file name sealed in it
  Damaged,       \* bodies that do not authenticate
  MaxSuffix,     \* maxNameCollisions
  ReadRetries,   \* retries of one read
  PollInterval,  \* time between two polls of a waiting command
  Option,        \* the options commands may be given
  None

Receipt == [u : Upload, x : Body]
FileName == {Name[x] : x \in Body} \X (1 .. MaxSuffix)   \* name, suffix
Saved == [receipt : Receipt, at : FileName]
Ending == {"ok", "partial", "stopped", "killed"}
Label == Ending \cup {"idle", "list", "sleep", "next", "manifest", "prepare", "chunk",
                      "verify", "publish", "ack", "acking"}

(* ids = {}: every unacknowledged upload.  wait = 0: list once. *)
ASSUME CollectorAssumption ==
  /\ Sent \in [Upload -> SUBSET Body]
  /\ \A u, v \in Upload : u # v => Sent[u] \cap Sent[v] = {}
  /\ Chunks \in [Body -> Nat \ {0}] /\ Damaged \subseteq Body
  /\ MaxSuffix \in Nat \ {0} /\ ReadRetries \in Nat /\ PollInterval \in Nat \ {0}
  /\ Option \subseteq [ids : SUBSET Upload, acknowledge : BOOLEAN, failFast : BOOLEAN, wait : Nat]
  /\ None \notin Body \cup Receipt \cup Option

VARIABLES
  stored,   \* completed uploads on the server: a body, or None
  acked,    \* acknowledged uploads
  freed,    \* history: bodies an acknowledgement removed
  posts,    \* acknowledgements on their way to the server
  out,      \* the output directory
  run       \* run[c]: the state of command c
serverVars == <<stored, acked, freed>>
vars == <<serverVars, posts, out, run>>

Waiting(o) == [pc |-> "list", opt |-> o, cancelled |-> FALSE, left |-> o.wait,
               attempt |-> 1, want |-> {}, todo |-> {}, item |-> None,
               manifest |-> None, got |-> 0, failed |-> {}, saved |-> {}]
NotStarted(o) == [Waiting(o) EXCEPT !.pc = "idle"]

Init ==
  /\ stored = [u \in Upload |-> None] /\ acked = {} /\ freed = {} /\ posts = {}
  /\ out = [f \in FileName |-> None]
  /\ run \in [Collector -> {NotStarted(o) : o \in Option}]

-----------------------------------------------------------------------------
(* A command's control steps. *)

At(c, label) == run[c].pc = label
Becomes(c, r) == run' = [run EXCEPT ![c] = r]
Goto(c, label) == Becomes(c, [run[c] EXCEPT !.pc = label, !.attempt = 1])
Running(c) == run[c].pc \notin Ending \cup {"idle"}

Closed(r, ending) == [r EXCEPT !.pc = ending, !.attempt = 1, !.todo = {}, !.item = None,
                               !.manifest = None, !.got = 0, !.left = 0, !.cancelled = FALSE]
Ended(c, ending) == Becomes(c, Closed(run[c], ending))
ItemDone(r) == [r EXCEPT !.pc = "next", !.attempt = 1, !.item = None, !.manifest = None, !.got = 0]
\* Fault: a failed receipt is put back to be tried again.
ItemPutBack(r) == [r EXCEPT !.failed = @ \cup {r.item}, !.todo = @ \cup {r.item}]
ItemFailed(r) == [r EXCEPT !.failed = @ \cup {r.item}]

(* Collect's loop on an error: it ends the batch when told to, or cancelled. *)
Fail(c) ==
  LET r == ItemFailed(run[c]) IN
  Becomes(c, IF r.opt.failFast \/ r.cancelled THEN Closed(r, "stopped") ELSE ItemDone(r))
(* An outputError always ends the batch. *)
OutputError(c) == Becomes(c, Closed(ItemFailed(run[c]), "stopped"))

Start(c) ==
  /\ At(c, "idle") /\ Goto(c, "list")
  /\ UNCHANGED <<serverVars, posts, out>>

-----------------------------------------------------------------------------
(* List, WaitForReceipts, selectReceipts *)

Listed == {r \in Receipt : stored[r.u] = r.x}
Unacknowledged == {r \in Listed : r.u \notin acked}
Named(o) == {r \in Listed : r.u \in o.ids}
Ready(o) ==
  IF o.ids = {} THEN Unacknowledged # {}
  ELSE \A u \in o.ids : \E r \in Listed : r.u = u
Selected(o) == IF o.ids = {} THEN Unacknowledged ELSE Named(o)
Absent(o) == {u \in o.ids : stored[u] = None}

ListRead(c) ==
  LET o == run[c].opt
      chosen == [run[c] EXCEPT !.pc = "next", !.attempt = 1, !.left = 0,
                               !.want = Selected(o), !.todo = Selected(o),
                               !.failed = {[u |-> u, x |-> None] : u \in Absent(o)}]
  IN
  /\ At(c, "list") /\ ~run[c].cancelled
  /\ \/ /\ o.wait = 0 \/ Ready(o)
        /\ Becomes(c, IF o.failFast /\ Absent(o) # {} THEN Closed(chosen, "stopped") ELSE chosen)
     \/ o.wait # 0 /\ ~Ready(o) /\ run[c].left # 0 /\ Goto(c, "sleep")
     \/ o.wait # 0 /\ ~Ready(o) /\ run[c].left = 0 /\ Ended(c, "stopped")
  /\ UNCHANGED <<serverVars, posts, out>>

\* Fault: the poll delay is not taken off the time left.
SleepUncounted(c) ==
  /\ At(c, "sleep") /\ ~run[c].cancelled
  /\ Goto(c, "list")
  /\ UNCHANGED <<serverVars, posts, out>>

(* The next poll comes after the poll interval or what is left, or later. *)
Sleep(c) ==
  /\ At(c, "sleep") /\ ~run[c].cancelled
  /\ \E left \in 0 .. run[c].left :
       /\ left = 0 \/ left + PollInterval <= run[c].left
       /\ Becomes(c, [run[c] EXCEPT !.pc = "list", !.left = left])
  /\ UNCHANGED <<serverVars, posts, out>>

Verdict(r) == IF r.failed = {} THEN "ok" ELSE "partial"

(* The next receipt, or the end of the batch. *)
NextItem(c) ==
  /\ At(c, "next")
  /\ \/ run[c].todo = {} /\ Ended(c, Verdict(run[c]))
     \/ \E r \in run[c].todo :
          Becomes(c, [run[c] EXCEPT !.pc = "manifest", !.item = r, !.todo = @ \ {r}])
  /\ UNCHANGED <<serverVars, posts, out>>

-----------------------------------------------------------------------------
(* bytesRequest: a read of the list, a manifest or a chunk.  What is read   *)
(* is what the server holds at that moment.                                 *)

Reading(c) == run[c].pc \in {"list", "manifest", "chunk"}

\* Fault: one attempt too many.
RetryOnceMore(c) ==
  /\ Reading(c) /\ ~run[c].cancelled
  /\ run[c].attempt <= ReadRetries + 1
  /\ Becomes(c, [run[c] EXCEPT !.attempt = @ + 1])
  /\ UNCHANGED <<serverVars, posts, out>>

(* A temporary failure: the next attempt follows. *)
Retry(c) ==
  /\ Reading(c) /\ ~run[c].cancelled
  /\ run[c].attempt <= ReadRetries
  /\ Becomes(c, [run[c] EXCEPT !.attempt = @ + 1])
  /\ UNCHANGED <<serverVars, posts, out>>

(* A lasting failure, or the last attempt's, or the wait's deadline. *)
ReadFails(c) ==
  /\ Reading(c)
  /\ IF At(c, "list") THEN Ended(c, "stopped") ELSE Fail(c)
  /\ UNCHANGED <<serverVars, posts, out>>

(* manifestMetadata: it agrees with the receipt, its metadata opens. *)
Agrees(x, r) == Chunks[x] = Chunks[r.x]
ManifestRead(c) ==
  LET x == stored[run[c].item.u] IN
  /\ At(c, "manifest") /\ ~run[c].cancelled
  /\ x # None /\ Agrees(x, run[c].item)
  /\ Becomes(c, [run[c] EXCEPT !.pc = "prepare", !.attempt = 1, !.manifest = x])
  /\ UNCHANGED <<serverVars, posts, out>>

(* The probe of the output directory and the temporary file. *)
Prepare(c) ==
  /\ At(c, "prepare") /\ Goto(c, "chunk")
  /\ UNCHANGED <<serverVars, posts, out>>

(* A chunk opens under the key of the manifest it was sealed for, only. *)
Opens(r, x) == x = r.manifest /\ x \notin Damaged

ChunkRead(c) ==
  LET x == stored[run[c].item.u] IN
  /\ At(c, "chunk") /\ ~run[c].cancelled
  /\ x # None /\ Opens(run[c], x)
  /\ Becomes(c, [run[c] EXCEPT !.got = @ + 1, !.attempt = 1,
                   !.pc = IF run[c].got + 1 = Chunks[run[c].manifest] THEN "verify" ELSE "chunk"])
  /\ UNCHANGED <<serverVars, posts, out>>

-----------------------------------------------------------------------------
(* The receipt is recomputed from what was read; then sync, then publish. *)

\* Fault: the receipt the server listed is not compared.
ReceiptUnchecked(r) == TRUE
ReceiptHolds(r) == r.manifest = r.item.x

\* Fault: a verified upload is acknowledged before it is published.
VerifyThenAck(c) ==
  /\ At(c, "verify") /\ ~run[c].cancelled
  /\ IF ReceiptHolds(run[c]) THEN Goto(c, "ack") ELSE Fail(c)
  /\ UNCHANGED <<serverVars, posts, out>>

Verify(c) ==
  /\ At(c, "verify") /\ ~run[c].cancelled
  /\ IF ReceiptHolds(run[c]) THEN Goto(c, "publish") ELSE Fail(c)
  /\ UNCHANGED <<serverVars, posts, out>>

Candidate(r) == <<Name[r.manifest], r.attempt>>
Published(r, f) ==
  LET s == [r EXCEPT !.saved = @ \cup {[receipt |-> r.item, at |-> f]}] IN
  IF r.opt.acknowledge THEN [s EXCEPT !.pc = "ack", !.attempt = 1] ELSE ItemDone(s)

\* Fault: a rename, which replaces.
LinkReplacing(c) ==
  /\ At(c, "publish")
  /\ out' = [out EXCEPT ![Candidate(run[c])] = run[c].manifest]
  /\ Becomes(c, Published(run[c], Candidate(run[c])))
  /\ UNCHANGED <<serverVars, posts>>

(* os.Link fails on an existing name. *)
Link(c) ==
  /\ At(c, "publish") /\ out[Candidate(run[c])] = None
  /\ out' = [out EXCEPT ![Candidate(run[c])] = run[c].manifest]
  /\ Becomes(c, Published(run[c], Candidate(run[c])))
  /\ UNCHANGED <<serverVars, posts>>

NameTaken(c) ==
  /\ At(c, "publish") /\ out[Candidate(run[c])] # None
  /\ IF run[c].attempt = MaxSuffix THEN OutputError(c)
     ELSE Becomes(c, [run[c] EXCEPT !.attempt = @ + 1])
  /\ UNCHANGED <<serverVars, posts, out>>

OutputFails(c) ==
  /\ run[c].pc \in {"prepare", "chunk", "verify", "publish"}
  /\ OutputError(c)
  /\ UNCHANGED <<serverVars, posts, out>>

-----------------------------------------------------------------------------
(* The acknowledgement names the upload only. *)

SendAck(c) ==
  /\ At(c, "ack") /\ ~run[c].cancelled
  /\ posts' = posts \cup {[by |-> c, u |-> run[c].item.u]}
  /\ Goto(c, "acking")
  /\ UNCHANGED <<serverVars, out>>

\* Fault: a failed acknowledgement is passed over.
AckPassedOver(c) ==
  /\ run[c].pc \in {"ack", "acking"}
  /\ Becomes(c, ItemDone(run[c]))
  /\ UNCHANGED <<serverVars, posts, out>>

(* Not sent, refused, or its answer lost: "file saved but ...". *)
AckFails(c) ==
  /\ run[c].pc \in {"ack", "acking"}
  /\ Fail(c)
  /\ UNCHANGED <<serverVars, posts, out>>

(* The server's handler: it may or may not remove the upload. *)
AckArrives(p) ==
  /\ posts' = posts \ {p}
  /\ stored[p.u] # None
  /\ \/ acked' = acked \cup {p.u} /\ UNCHANGED <<stored, freed>>
     \/ /\ stored' = [stored EXCEPT ![p.u] = None]
        /\ acked' = acked \ {p.u} /\ freed' = freed \cup {stored[p.u]}
  /\ \/ UNCHANGED run
     \/ /\ At(p.by, "acking") /\ run[p.by].item.u = p.u /\ ~run[p.by].cancelled
        /\ Becomes(p.by, ItemDone(run[p.by]))
  /\ UNCHANGED out

AckRefused(p) == posts' = posts \ {p} /\ UNCHANGED <<serverVars, out, run>>

-----------------------------------------------------------------------------
Cancel(c) ==
  /\ Running(c) /\ ~run[c].cancelled
  /\ Becomes(c, [run[c] EXCEPT !.cancelled = TRUE])
  /\ UNCHANGED <<serverVars, posts, out>>

(* The context's error: while it waits there is no item to fail. *)
Interrupted(c) ==
  /\ run[c].cancelled /\ run[c].pc \in {"sleep", "verify"}
  /\ IF At(c, "sleep") THEN Ended(c, "stopped") ELSE Fail(c)
  /\ UNCHANGED <<serverVars, posts, out>>

Kill(c) ==
  /\ Running(c) /\ Ended(c, "killed")
  /\ UNCHANGED <<serverVars, posts, out>>

(* A sender completes an upload; no body is sent twice. *)
Submit(u) ==
  /\ stored[u] = None
  /\ \E x \in Sent[u] \ freed : stored' = [stored EXCEPT ![u] = x]
  /\ UNCHANGED <<acked, freed, posts, out, run>>

Step(c) ==
  \/ ListRead(c) \/ Sleep(c) \/ NextItem(c) \/ Retry(c) \/ ReadFails(c)
  \/ ManifestRead(c) \/ Prepare(c) \/ ChunkRead(c) \/ Verify(c)
  \/ Link(c) \/ NameTaken(c) \/ OutputFails(c)
  \/ SendAck(c) \/ AckFails(c) \/ Interrupted(c)

Next ==
  \/ \E c \in Collector : Start(c) \/ Step(c) \/ Cancel(c) \/ Kill(c)
  \/ \E p \in posts : AckArrives(p) \/ AckRefused(p)
  \/ \E u \in Upload : Submit(u)

(* The client has no timeout but for dialling and for response headers: an   *)
(* answer whose body stalls is awaited for ever, unless a context ends it -  *)
(* the one of the wait bounds its lists, a cancelled one ends any request.   *)
OnNetwork(c) ==
  /\ run[c].pc \in {"list", "manifest", "chunk", "acking"} /\ ~run[c].cancelled
  /\ At(c, "list") => run[c].opt.wait = 0

(* A started command goes on by itself where it does not await the network.  *)
Spec == Init /\ [][Next]_vars /\ \A c \in Collector : WF_vars(Step(c) /\ ~OnNetwork(c))

-----------------------------------------------------------------------------
(* Every variable stays in its type. *)
TypeOK ==
  /\ stored \in [Upload -> Body \cup {None}]
  /\ acked \subseteq Upload /\ freed \subseteq Body
  /\ posts \subseteq [by : Collector, u : Upload]
  /\ out \in [FileName -> Body \cup {None}]
  /\ \A c \in Collector :
       /\ run[c].pc \in Label /\ run[c].opt \in Option /\ run[c].cancelled \in BOOLEAN
       /\ run[c].left \in 0 .. run[c].opt.wait
       /\ run[c].attempt \in 1 .. IF At(c, "publish") THEN MaxSuffix ELSE ReadRetries + 1
       /\ run[c].want \subseteq Receipt /\ run[c].todo \subseteq run[c].want
       /\ run[c].item \in run[c].want \cup {None} /\ run[c].manifest \in Body \cup {None}
       /\ run[c].got \in Nat /\ run[c].saved \subseteq Saved
       /\ run[c].failed \subseteq [u : Upload, x : Body \cup {None}]

(* What a command reports as saved under an upload ID is, for good, the body *)
(* whose receipt it listed, authenticated - although manifest and chunks     *)
(* are read one by one while the upload may be removed and its ID used for   *)
(* another body, and although other commands publish the same names.         *)
SavedAsReceipted ==
  \A c \in Collector : \A s \in run[c].saved :
    out[s.at] = s.receipt.x /\ s.receipt.x \notin Damaged

(* A published file is never replaced, whoever publishes under its name.     *)
PublishedKept == [][\A f \in FileName : out[f] # None => out'[f] = out[f]]_vars

(* The ID stands for another body than the one a command may have saved.     *)
Reused(u) == Sent[u] \cap freed # {}

(* The server hears that an upload was collected, and may remove it, only    *)
(* once it has been published, however late an acknowledgement arrives;      *)
(* that of an ID used again may hit the wrong body.                          *)
ReleasedOnlyPublished ==
  [][\A u \in Upload :
       u \in acked' \ acked \/ stored[u] \notin {None, stored'[u]} =>
         Reused(u) \/ \E f \in FileName : out[f] = stored[u]]_vars

ReceiptsOf(r) == {s.receipt : s \in r.saved}
AckHeard(r) == r.u \in acked \/ stored[r.u] # r.x

(* A batch that ran to its end has saved or reported each receipt it         *)
(* selected, one failure not hiding another's success; reported whole, it    *)
(* saved them all and the server knows.                                      *)
BatchAccounted ==
  \A c \in Collector :
    LET r == run[c] IN
    /\ r.pc \in {"ok", "partial"} => r.want = ReceiptsOf(r) \cup (r.failed \cap Receipt)
    /\ r.pc = "ok" =>
         /\ r.want = ReceiptsOf(r)
         /\ \A u \in r.opt.ids : \E w \in r.want : w.u = u
         /\ r.opt.acknowledge => \A w \in r.want : AckHeard(w)

Polling(r) == r.pc \in {"list", "sleep"}
Stage(l) ==
  CASE l = "list" -> 1 [] l = "sleep" -> 2 [] l = "manifest" -> 3 [] l = "prepare" -> 4
    [] l = "chunk" -> 5 [] l = "verify" -> 6 [] l = "publish" -> 7 [] l = "ack" -> 8
    [] l = "acking" -> 9 [] OTHER -> 10

(* Within a stage: a further chunk of the manifest, a further attempt at a   *)
(* read or a name, or the signal noticed; each of them is bounded.           *)
WithinStage(r, s) ==
  /\ s.pc = r.pc /\ s.manifest = r.manifest
  /\ \/ r.got < s.got /\ s.got <= Chunks[s.manifest]
     \/ s.got = r.got /\ r.attempt < s.attempt
     \/ s.got = r.got /\ s.attempt = r.attempt /\ ~r.cancelled /\ s.cancelled

(* s is closer to the command's end than r: it has ended, or waits no more;  *)
(* or it has less time left to wait; or fewer receipts to do; or it is at a  *)
(* later stage of the one in hand, or further within it.                     *)
Closer(r, s) ==
  \/ s.pc \in Ending
  \/ Polling(r) /\ ~Polling(s)
  \/ /\ Polling(r) <=> Polling(s)
     /\ \/ s.left < r.left
        \/ s.left = r.left /\ s.todo \subseteq r.todo /\ s.todo # r.todo
        \/ s.left = r.left /\ s.todo = r.todo /\ Stage(r.pc) < Stage(s.pc)
        \/ s.left = r.left /\ s.todo = r.todo /\ WithinStage(r, s)

(* Every step of a running command brings it closer to its end, whatever the *)
(* server, the network and other commands do: no error path, retry, poll or  *)
(* taken name leads back to where it was, and one failed receipt leaves      *)
(* fewer to do (Collect, bytesRequest, WaitForReceipts, publishOutput).      *)
CommandsAdvance ==
  [][\A c \in Collector :
       Running(c) /\ run'[c] # run[c] => Closer(run[c], run'[c])]_vars

(* A command ends, or hangs in one single request the network never ends: no *)
(* wait outlives its deadline, no retry goes on for ever, and a cancelled    *)
(* command ends whatever the network does.                                   *)
Hangs(c) == <>[]OnNetwork(c) /\ <>[][run'[c] = run[c]]_vars
CommandEnds == \A c \in Collector : (Running(c) ~> ~Running(c)) \/ Hangs(c)
=============================================================================
