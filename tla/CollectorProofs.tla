-------------------------- MODULE CollectorProofs --------------------------
(***************************************************************************)
(* Proofs about Collector, for any commands, options, uploads and limits.  *)
(* A command's record says enough to type it and to know, before it        *)
(* publishes, that what it holds is what the receipt names (Good); what it *)
(* listed stays stored until an acknowledgement frees it (Traced).         *)
(***************************************************************************)
EXTENDS Collector, TLAPS

Failure == [u : Upload, x : Body \cup {None}]
Run == [pc : Label, opt : Option, cancelled : BOOLEAN, left : Nat, attempt : Nat,
        want : SUBSET Receipt, todo : SUBSET Receipt, item : Receipt \cup {None},
        manifest : Body \cup {None}, got : Nat, failed : SUBSET Failure, saved : SUBSET Saved]

WithItem == {"manifest", "prepare", "chunk", "verify", "publish", "ack", "acking"}
WithManifest == {"prepare", "chunk", "verify", "publish"}
LastAttempt(label) == IF label = "publish" THEN MaxSuffix ELSE ReadRetries + 1

Good(r) ==
  /\ r \in Run
  /\ r.left <= r.opt.wait
  /\ 1 <= r.attempt /\ r.attempt <= LastAttempt(r.pc)
  /\ r.todo \subseteq r.want /\ r.item \in r.want \cup {None}
  /\ IF r.pc \in WithItem THEN r.item \in Receipt ELSE r.item = None
  /\ r.pc \in WithManifest => r.manifest \in Body
  /\ r.pc \in {"verify", "publish"} => r.manifest \notin Damaged
  /\ r.pc = "publish" => r.manifest = r.item.x

RunsGood == run \in [Collector -> Run] /\ \A c \in Collector : Good(run[c])
ServerTyped ==
  /\ stored \in [Upload -> Body \cup {None}] /\ acked \subseteq Upload /\ freed \subseteq Body
  /\ posts \subseteq [by : Collector, u : Upload]
  /\ out \in [FileName -> Body \cup {None}]

TypeInv == RunsGood /\ ServerTyped

LEMMA Labels ==
  /\ \A r \in Receipt : r \in Failure /\ r # None /\ r.u \in Upload /\ r.x \in Body /\ r.x # None
  /\ \A o \in Option : o.wait \in Nat /\ o.ids \subseteq Upload
  /\ \A l \in Label : LastAttempt(l) \in Nat \ {0}
  BY CollectorAssumption DEF Receipt, Failure, LastAttempt

LEMMA TypeOKFollows == TypeInv => TypeOK
  <1> SUFFICES ASSUME TypeInv PROVE TypeOK
    OBVIOUS
  <1>1. ASSUME NEW c \in Collector
        PROVE  /\ run[c].pc \in Label /\ run[c].opt \in Option /\ run[c].cancelled \in BOOLEAN
               /\ run[c].left \in 0 .. run[c].opt.wait
               /\ run[c].attempt \in 1 .. IF At(c, "publish") THEN MaxSuffix ELSE ReadRetries + 1
               /\ run[c].want \subseteq Receipt /\ run[c].todo \subseteq run[c].want
               /\ run[c].item \in run[c].want \cup {None} /\ run[c].manifest \in Body \cup {None}
               /\ run[c].got \in Nat /\ run[c].saved \subseteq Saved
               /\ run[c].failed \subseteq Failure
    <2>1. Good(run[c])
      BY DEF TypeInv, RunsGood
    <2> QED  BY <2>1, Labels, CollectorAssumption DEF Good, Run, At, LastAttempt
  <1> QED  BY <1>1 DEF TypeInv, ServerTyped, TypeOK, Failure

(* Closing a batch, leaving an item and noting its failure keep a record good. *)
LEMMA ClosedGood ==
  ASSUME NEW r, Good(r), NEW e \in Ending
  PROVE  Good(Closed(r, e)) /\ Closed(r, e).saved = r.saved
  <1> DEFINE q == Closed(r, e)
  <1>0. e \in Label /\ r \in Run
    BY DEF Good, Label
  <1>1. q.pc = e /\ q.left = 0 /\ q.attempt = 1 /\ q.todo = {} /\ q.item = None
        /\ q.opt = r.opt /\ q.want = r.want /\ q.saved = r.saved
    BY <1>0 DEF Closed, Run
  <1>4. q \in Run
    BY <1>0 DEF Closed, Run
  <1>2. q.opt \in Option
    BY <1>4 DEF Run
  <1>3. e \notin WithItem /\ e \notin WithManifest /\ e \in Label
    BY DEF Ending, WithItem, WithManifest, Label
  <1> QED  BY <1>1, <1>2, <1>3, <1>4, Labels DEF Good, WithItem, WithManifest

LEMMA ItemDoneGood ==
  ASSUME NEW r, Good(r)
  PROVE  Good(ItemDone(r)) /\ ItemDone(r).saved = r.saved
  <1> DEFINE q == ItemDone(r)
  <1>1. q \in Run /\ q.pc = "next" /\ q.left = r.left /\ q.attempt = 1 /\ q.todo = r.todo
        /\ q.item = None /\ q.opt = r.opt /\ q.want = r.want /\ q.saved = r.saved
    BY DEF Good, ItemDone, Run, Label
  <1> QED  BY <1>1, Labels DEF Good, WithItem, WithManifest, Label

LEMMA ItemFailedGood ==
  ASSUME NEW r, Good(r), r.item \in Receipt
  PROVE  /\ Good(ItemFailed(r)) /\ ItemFailed(r).saved = r.saved
         /\ ItemFailed(r).opt = r.opt /\ ItemFailed(r).cancelled = r.cancelled
  <1> DEFINE q == ItemFailed(r)
  <1>1. r.item \in Failure
    BY Labels
  <1>2. q \in Run /\ q = [r EXCEPT !.failed = @ \cup {r.item}]
    BY <1>1 DEF Good, ItemFailed, Run
  <1>3. /\ q.pc = r.pc /\ q.left = r.left /\ q.attempt = r.attempt /\ q.todo = r.todo
        /\ q.item = r.item /\ q.opt = r.opt /\ q.want = r.want /\ q.saved = r.saved
        /\ q.manifest = r.manifest /\ q.cancelled = r.cancelled
    BY <1>2 DEF Good, Run
  <1> QED  BY <1>2, <1>3 DEF Good

-----------------------------------------------------------------------------
(* Every step of a command but Link leaves its record good and saves nothing. *)
Quiet(c) == \E r : Good(r) /\ r.saved = run[c].saved /\ Becomes(c, r)

LEMMA GoodRun ==
  ASSUME TypeInv, NEW c \in Collector
  PROVE  Good(run[c]) /\ run[c] \in Run /\ run[c].opt \in Option /\ run[c].opt.wait \in Nat
  <1>1. Good(run[c])
    BY DEF TypeInv, RunsGood
  <1> QED  BY <1>1, Labels DEF Good, Run

LEMMA FailQuiet ==
  ASSUME TypeInv, NEW c \in Collector, run[c].item \in Receipt, Fail(c) \/ OutputError(c)
  PROVE  Quiet(c)
  <1> DEFINE r == ItemFailed(run[c])
  <1>1. Good(r) /\ r.saved = run[c].saved
    BY GoodRun, ItemFailedGood
  <1>2. "stopped" \in Ending
    BY DEF Ending
  <1>3. Good(Closed(r, "stopped")) /\ Closed(r, "stopped").saved = run[c].saved
    BY <1>1, <1>2, ClosedGood
  <1>4. Good(ItemDone(r)) /\ ItemDone(r).saved = run[c].saved
    BY <1>1, ItemDoneGood
  <1>5. Becomes(c, Closed(r, "stopped")) \/ Becomes(c, ItemDone(r))
    BY DEF Fail, OutputError
  <1> QED  BY <1>3, <1>4, <1>5 DEF Quiet

LEMMA EndedQuiet ==
  ASSUME TypeInv, NEW c \in Collector, NEW e \in Ending, Ended(c, e)
  PROVE  Quiet(c)
  BY GoodRun, ClosedGood DEF Ended, Quiet

(* A step to a label that what the command holds entitles it to. *)
MovedTo(r, l, k) == [r EXCEPT !.pc = l, !.attempt = k]
LEMMA GotoGood ==
  ASSUME NEW r, Good(r), NEW l \in Label, l \notin {"verify", "publish"},
         IF l \in WithItem THEN r.item \in Receipt ELSE r.item = None, l \in WithManifest => r.manifest \in Body,
         NEW k \in Nat, 1 <= k, k <= LastAttempt(l)
  PROVE  Good(MovedTo(r, l, k)) /\ MovedTo(r, l, k).saved = r.saved
  <1> DEFINE q == MovedTo(r, l, k)
  <1>1. r \in Run
    BY DEF Good
  <1>2. q \in Run
    BY <1>1, Zenon DEF Run, MovedTo
  <1>3. /\ q.pc = l /\ q.attempt = k /\ q.opt = r.opt /\ q.left = r.left /\ q.todo = r.todo
        /\ q.want = r.want /\ q.item = r.item /\ q.manifest = r.manifest /\ q.saved = r.saved
    BY <1>1 DEF Run, MovedTo
  <1> QED  BY <1>2, <1>3 DEF Good

LEMMA GotoQuiet ==
  ASSUME TypeInv, NEW c \in Collector, NEW l \in Label, l \notin {"verify", "publish"}, Goto(c, l),
         IF l \in WithItem THEN run[c].item \in Receipt ELSE run[c].item = None,
         l \in WithManifest => run[c].manifest \in Body
  PROVE  Quiet(c)
  <1>1. 1 <= LastAttempt(l)
    BY Labels
  <1>2. Good(run[c])
    BY GoodRun
  <1>3. Good(MovedTo(run[c], l, 1)) /\ MovedTo(run[c], l, 1).saved = run[c].saved
    BY <1>1, <1>2, GotoGood
  <1> QED  BY <1>3 DEF Goto, Quiet, MovedTo

LEMMA ListReadQuiet ==
  ASSUME TypeInv, NEW c \in Collector, ListRead(c)
  PROVE  Quiet(c)
  <1> DEFINE o == run[c].opt
             chosen == [run[c] EXCEPT !.pc = "next", !.attempt = 1, !.left = 0,
                               !.want = Selected(o), !.todo = Selected(o),
                               !.failed = {[u |-> u, x |-> None] : u \in Absent(o)}]
  <1>0. run[c].pc = "list"
    BY DEF ListRead, At
  <1>1. Selected(o) \subseteq Receipt
    BY DEF Selected, Unacknowledged, Named, Listed
  <1>2. {[u |-> u, x |-> None] : u \in Absent(o)} \subseteq Failure
    BY GoodRun, Labels DEF Absent, Failure
  <1>3. "next" \in Label /\ "sleep" \in Label /\ "stopped" \in Ending
    BY DEF Label, Ending
  <1>4. chosen \in Run
    BY <1>1, <1>2, <1>3, GoodRun, Zenon DEF Run
  <1>5. /\ chosen.pc = "next" /\ chosen.attempt = 1 /\ chosen.left = 0 /\ chosen.opt = o
        /\ chosen.want = Selected(o) /\ chosen.todo = Selected(o)
        /\ chosen.item = run[c].item /\ chosen.saved = run[c].saved
    BY GoodRun DEF Run
  <1>6. run[c].item = None
    BY <1>0, GoodRun DEF Good, WithItem
  <1>7. Good(chosen)
    BY <1>3, <1>4, <1>5, <1>6, GoodRun, Labels DEF Good, WithItem, WithManifest
  <1>8. CASE Becomes(c, chosen)
    BY <1>5, <1>7, <1>8 DEF Quiet
  <1>9. CASE Becomes(c, Closed(chosen, "stopped"))
    BY <1>3, <1>5, <1>7, <1>9, ClosedGood DEF Quiet
  <1>10. CASE Goto(c, "sleep")
    BY <1>3, <1>6, <1>10, GotoQuiet DEF WithItem, WithManifest
  <1>11. CASE Ended(c, "stopped")
    BY <1>3, <1>11, EndedQuiet
  <1> QED  BY <1>8, <1>9, <1>10, <1>11 DEF ListRead

LEMMA SleepQuiet ==
  ASSUME TypeInv, NEW c \in Collector, Sleep(c)
  PROVE  Quiet(c)
  <1>1. PICK left \in 0 .. run[c].left : Becomes(c, [run[c] EXCEPT !.pc = "list", !.left = left])
    BY DEF Sleep
  <1> DEFINE q == [run[c] EXCEPT !.pc = "list", !.left = left]
  <1>2. run[c].pc = "sleep" /\ Good(run[c]) /\ run[c] \in Run
    BY GoodRun DEF Sleep, At
  <1>3. left \in Nat /\ left <= run[c].opt.wait
    BY <1>1, <1>2, GoodRun DEF Good, Run
  <1>4. "list" \in Label
    BY DEF Label
  <1>5. q \in Run
    BY <1>2, <1>3, <1>4, Zenon DEF Run
  <1>6. /\ q.pc = "list" /\ q.left = left /\ q.attempt = run[c].attempt /\ q.opt = run[c].opt
        /\ q.todo = run[c].todo /\ q.want = run[c].want /\ q.item = run[c].item /\ q.saved = run[c].saved
    BY <1>2 DEF Run
  <1>7. Good(q)
    BY <1>2, <1>3, <1>5, <1>6 DEF Good, WithItem, WithManifest, LastAttempt
  <1> QED  BY <1>1, <1>6, <1>7 DEF Quiet

LEMMA NextItemQuiet ==
  ASSUME TypeInv, NEW c \in Collector, NextItem(c)
  PROVE  Quiet(c)
  <1>1. run[c].pc = "next" /\ Good(run[c]) /\ run[c] \in Run
    BY GoodRun DEF NextItem, At
  <1>2. ASSUME NEW r \in run[c].todo,
               Becomes(c, [run[c] EXCEPT !.pc = "manifest", !.item = r, !.todo = @ \ {r}])
        PROVE  Quiet(c)
    <2> DEFINE q == [run[c] EXCEPT !.pc = "manifest", !.item = r, !.todo = @ \ {r}]
    <2>1. r \in Receipt /\ r \in run[c].want /\ run[c].todo \ {r} \in SUBSET Receipt
      BY <1>1 DEF Good, Run
    <2>2. "manifest" \in Label
      BY DEF Label
    <2>3. q \in Run
      BY <1>1, <2>1, <2>2, Zenon DEF Run
    <2>4. /\ q.pc = "manifest" /\ q.left = run[c].left /\ q.attempt = run[c].attempt /\ q.opt = run[c].opt
          /\ q.todo = run[c].todo \ {r} /\ q.want = run[c].want /\ q.item = r /\ q.saved = run[c].saved
      BY <1>1 DEF Run
    <2>5. Good(q)
      BY <1>1, <2>1, <2>3, <2>4 DEF Good, WithItem, WithManifest, LastAttempt
    <2> QED  BY <1>2, <2>4, <2>5 DEF Quiet
  <1>3. CASE Ended(c, Verdict(run[c]))
    <2>1. Verdict(run[c]) \in Ending
      BY DEF Verdict, Ending
    <2> QED  BY <1>3, <2>1, EndedQuiet
  <1> QED  BY <1>2, <1>3 DEF NextItem

(* Another attempt, of a read or of a name. *)
LEMMA AttemptQuiet ==
  ASSUME TypeInv, NEW c \in Collector, run[c].attempt < LastAttempt(run[c].pc),
         Becomes(c, [run[c] EXCEPT !.attempt = @ + 1])
  PROVE  Quiet(c)
  <1> DEFINE k == run[c].attempt + 1
             q == [run[c] EXCEPT !.attempt = k]
  <1>1. Good(run[c]) /\ run[c] \in Run /\ run[c].pc \in Label
    BY GoodRun DEF Run
  <1>2. k \in Nat /\ 1 <= k /\ k <= LastAttempt(run[c].pc)
    BY <1>1, Labels DEF Run
  <1>3. q \in Run
    BY <1>1, <1>2, Zenon DEF Run
  <1>4. /\ q.pc = run[c].pc /\ q.left = run[c].left /\ q.attempt = k /\ q.opt = run[c].opt
        /\ q.todo = run[c].todo /\ q.want = run[c].want /\ q.item = run[c].item
        /\ q.manifest = run[c].manifest /\ q.saved = run[c].saved
    BY <1>1 DEF Run
  <1>5. Good(q)
    BY <1>1, <1>2, <1>3, <1>4 DEF Good
  <1>6. Becomes(c, q)
    BY <1>1
  <1> QED  BY <1>4, <1>5, <1>6 DEF Quiet

LEMMA ReadsQuiet ==
  ASSUME TypeInv, NEW c \in Collector, Retry(c) \/ ReadFails(c)
  PROVE  Quiet(c)
  <1>1. Good(run[c]) /\ run[c] \in Run /\ run[c].pc \in {"list", "manifest", "chunk"}
    BY GoodRun DEF Retry, ReadFails, Reading
  <1>2. CASE Retry(c)
    <2>1. run[c].attempt < LastAttempt(run[c].pc)
      BY <1>1, <1>2, CollectorAssumption DEF Retry, LastAttempt, Run
    <2> QED  BY <1>2, <2>1, AttemptQuiet DEF Retry
  <1>3. CASE ReadFails(c)
    <2>1. "stopped" \in Ending
      BY DEF Ending
    <2>2. run[c].pc # "list" => run[c].item \in Receipt
      BY <1>1 DEF Good, WithItem
    <2> QED  BY <1>3, <2>1, <2>2, EndedQuiet, FailQuiet DEF ReadFails, At
  <1> QED  BY <1>2, <1>3

LEMMA ManifestReadQuiet ==
  ASSUME TypeInv, NEW c \in Collector, ManifestRead(c)
  PROVE  Quiet(c)
  <1> DEFINE x == stored[run[c].item.u]
             q == [run[c] EXCEPT !.pc = "prepare", !.attempt = 1, !.manifest = x]
  <1>1. Good(run[c]) /\ run[c] \in Run /\ run[c].pc = "manifest" /\ run[c].item \in Receipt
    BY GoodRun DEF ManifestRead, At, Good, WithItem
  <1>2. x \in Body
    BY <1>1, Labels DEF ManifestRead, TypeInv, ServerTyped
  <1>3. "prepare" \in Label
    BY DEF Label
  <1>4. q \in Run
    BY <1>1, <1>2, <1>3, Zenon DEF Run
  <1>5. /\ q.pc = "prepare" /\ q.left = run[c].left /\ q.attempt = 1 /\ q.opt = run[c].opt
        /\ q.todo = run[c].todo /\ q.want = run[c].want /\ q.item = run[c].item
        /\ q.manifest = x /\ q.saved = run[c].saved
    BY <1>1 DEF Run
  <1>6. Good(q)
    BY <1>1, <1>2, <1>3, <1>4, <1>5, Labels DEF Good, WithItem, WithManifest
  <1> QED  BY <1>5, <1>6 DEF ManifestRead, Quiet

(* A chunk that opens shows the manifest to be authentic. *)
LEMMA ChunkReadQuiet ==
  ASSUME TypeInv, NEW c \in Collector, ChunkRead(c)
  PROVE  Quiet(c)
  <1> DEFINE l == IF run[c].got + 1 = Chunks[run[c].manifest] THEN "verify" ELSE "chunk"
             k == run[c].got + 1
             q == [run[c] EXCEPT !.got = k, !.attempt = 1, !.pc = l]
  <1>1. Good(run[c]) /\ run[c] \in Run /\ run[c].pc = "chunk"
    BY GoodRun DEF ChunkRead, At
  <1>2. run[c].manifest \in Body \ Damaged /\ run[c].item \in Receipt
    BY <1>1 DEF ChunkRead, Opens, Good, WithItem, WithManifest
  <1>3. l \in Label /\ k \in Nat /\ l \in {"verify", "chunk"}
    BY <1>1 DEF Label, Run
  <1>4. q \in Run
    BY <1>1, <1>3, Zenon DEF Run
  <1>5. /\ q.pc = l /\ q.left = run[c].left /\ q.attempt = 1 /\ q.opt = run[c].opt
        /\ q.todo = run[c].todo /\ q.want = run[c].want /\ q.item = run[c].item
        /\ q.manifest = run[c].manifest /\ q.saved = run[c].saved
    BY <1>1 DEF Run
  <1>6. Good(q)
    BY <1>1, <1>2, <1>3, <1>4, <1>5, Labels DEF Good, WithItem, WithManifest
  <1>7. Becomes(c, q)
    BY DEF ChunkRead
  <1> QED  BY <1>5, <1>6, <1>7 DEF Quiet

(* Only what the receipt names goes on to be published. *)
LEMMA VerifyQuiet ==
  ASSUME TypeInv, NEW c \in Collector, Verify(c)
  PROVE  Quiet(c)
  <1>1. Good(run[c]) /\ run[c] \in Run /\ run[c].pc = "verify"
    BY GoodRun DEF Verify, At
  <1>2. run[c].item \in Receipt /\ run[c].manifest \in Body \ Damaged
    BY <1>1 DEF Good, WithItem, WithManifest
  <1>3. CASE ReceiptHolds(run[c]) /\ Goto(c, "publish")
    <2> DEFINE q == [run[c] EXCEPT !.pc = "publish", !.attempt = 1]
    <2>1. "publish" \in Label
      BY DEF Label
    <2>2. q \in Run
      BY <1>1, <2>1, Zenon DEF Run
    <2>3. /\ q.pc = "publish" /\ q.left = run[c].left /\ q.attempt = 1 /\ q.opt = run[c].opt
          /\ q.todo = run[c].todo /\ q.want = run[c].want /\ q.item = run[c].item
          /\ q.manifest = run[c].manifest /\ q.saved = run[c].saved
      BY <1>1 DEF Run
    <2>4. q.manifest = q.item.x
      BY <1>3, <2>3 DEF ReceiptHolds
    <2>5. Good(q)
      BY <1>1, <1>2, <2>1, <2>2, <2>3, <2>4, Labels DEF Good, WithItem, WithManifest
    <2> QED  BY <1>3, <2>3, <2>5 DEF Goto, Quiet
  <1> QED  BY <1>2, <1>3, FailQuiet DEF Verify

LEMMA OutputQuiet ==
  ASSUME TypeInv, NEW c \in Collector, Prepare(c) \/ NameTaken(c) \/ OutputFails(c)
  PROVE  Quiet(c)
  <1>1. Good(run[c]) /\ run[c] \in Run /\ run[c].pc \in {"prepare", "chunk", "verify", "publish"}
    BY GoodRun DEF Prepare, NameTaken, OutputFails, At
  <1>2. run[c].item \in Receipt /\ run[c].manifest \in Body
    BY <1>1 DEF Good, WithItem, WithManifest
  <1>3. CASE Prepare(c)
    <2>1. "chunk" \in Label
      BY DEF Label
    <2> QED  BY <1>2, <1>3, <2>1, GotoQuiet DEF Prepare, WithItem, WithManifest
  <1>4. ASSUME NameTaken(c), run[c].attempt # MaxSuffix
        PROVE  Quiet(c)
    <2>1. run[c].attempt < LastAttempt(run[c].pc)
      BY <1>1, <1>4, CollectorAssumption DEF NameTaken, At, Good, Run, LastAttempt
    <2> QED  BY <1>4, <2>1, AttemptQuiet DEF NameTaken
  <1> QED  BY <1>2, <1>3, <1>4, FailQuiet DEF NameTaken, OutputFails

LEMMA AckQuiet ==
  ASSUME TypeInv, NEW c \in Collector, SendAck(c) \/ AckFails(c) \/ Interrupted(c)
  PROVE  Quiet(c)
  <1>1. Good(run[c]) /\ run[c] \in Run /\ run[c].pc \in {"ack", "acking", "verify", "sleep"}
    BY GoodRun DEF SendAck, AckFails, Interrupted, At
  <1>2. run[c].pc # "sleep" => run[c].item \in Receipt
    BY <1>1 DEF Good, WithItem
  <1>3. "acking" \in Label /\ "stopped" \in Ending
    BY DEF Label, Ending
  <1>4. CASE SendAck(c)
    BY <1>2, <1>3, <1>4, GotoQuiet DEF SendAck, At, WithItem, WithManifest
  <1> QED  BY <1>2, <1>3, <1>4, FailQuiet, EndedQuiet DEF AckFails, Interrupted, At

(* Start, Cancel and Kill come from outside the command. *)
LEMMA OutsideQuiet ==
  ASSUME TypeInv, NEW c \in Collector, Start(c) \/ Cancel(c) \/ Kill(c)
  PROVE  Quiet(c)
  <1>1. Good(run[c]) /\ run[c] \in Run
    BY GoodRun
  <1>2. CASE Start(c)
    <2>1. "list" \in Label /\ run[c].pc = "idle"
      BY <1>2 DEF Label, Start, At
    <2>2. run[c].item = None
      BY <1>1, <2>1 DEF Good, WithItem
    <2> QED  BY <1>2, <2>1, <2>2, GotoQuiet DEF Start, WithItem, WithManifest
  <1>3. CASE Cancel(c)
    <2> DEFINE q == [run[c] EXCEPT !.cancelled = TRUE]
    <2>1. q \in Run
      BY <1>1, Zenon DEF Run
    <2>2. /\ q.pc = run[c].pc /\ q.left = run[c].left /\ q.attempt = run[c].attempt /\ q.opt = run[c].opt
          /\ q.todo = run[c].todo /\ q.want = run[c].want /\ q.item = run[c].item
          /\ q.manifest = run[c].manifest /\ q.saved = run[c].saved
      BY <1>1 DEF Run
    <2>3. Good(q)
      BY <1>1, <2>1, <2>2 DEF Good
    <2> QED  BY <1>3, <2>2, <2>3 DEF Cancel, Quiet
  <1>4. CASE Kill(c)
    BY <1>4, EndedQuiet DEF Kill, Ending
  <1> QED  BY <1>2, <1>3, <1>4

(* The one step that saves: a new name comes to hold what the receipt names. *)
LEMMA LinkSaves ==
  ASSUME TypeInv, NEW c \in Collector, Link(c)
  PROVE  \E f \in FileName : \E r :
           /\ Good(r) /\ Becomes(c, r)
           /\ r.saved = run[c].saved \cup {[receipt |-> run[c].item, at |-> f]}
           /\ run[c].item \in Receipt /\ run[c].item.x \in Body \ Damaged
           /\ out[f] = None /\ out' = [out EXCEPT ![f] = run[c].item.x]
  <1> DEFINE f == Candidate(run[c])
             t == run[c].saved \cup {[receipt |-> run[c].item, at |-> f]}
             s == [run[c] EXCEPT !.saved = t]
             q == [s EXCEPT !.pc = "ack", !.attempt = 1]
             r == Published(run[c], f)
  <1>1. Good(run[c]) /\ run[c] \in Run /\ run[c].pc = "publish"
    BY GoodRun DEF Link, At
  <1>2. /\ run[c].item \in Receipt /\ run[c].manifest = run[c].item.x
        /\ run[c].item.x \in Body \ Damaged /\ run[c].attempt \in 1 .. MaxSuffix
    BY <1>1, CollectorAssumption DEF Good, WithItem, WithManifest, LastAttempt, Run
  <1>3. f \in FileName
    BY <1>2 DEF Candidate, FileName
  <1>4. t \in SUBSET Saved
    BY <1>1, <1>2, <1>3 DEF Saved, Run
  <1>5. s \in Run
    BY <1>1, <1>4, Zenon DEF Run
  <1>6. /\ s.pc = "publish" /\ s.left = run[c].left /\ s.attempt = run[c].attempt /\ s.opt = run[c].opt
        /\ s.todo = run[c].todo /\ s.want = run[c].want /\ s.item = run[c].item
        /\ s.manifest = run[c].manifest /\ s.saved = t
    BY <1>1 DEF Run
  <1>7. Good(s)
    BY <1>1, <1>5, <1>6 DEF Good
  <1>8. Good(ItemDone(s)) /\ ItemDone(s).saved = t
    BY <1>6, <1>7, ItemDoneGood
  <1>9. Good(q) /\ q.saved = t
    <2>1. "ack" \in Label /\ 1 <= LastAttempt("ack")
      BY CollectorAssumption DEF Label, LastAttempt
    <2> HIDE DEF s, t
    <2>2. Good(MovedTo(s, "ack", 1)) /\ MovedTo(s, "ack", 1).saved = s.saved
      BY <1>2, <1>6, <1>7, <2>1, GotoGood DEF WithItem, WithManifest
    <2> QED  BY <1>6, <2>2 DEF MovedTo
  <1>10. Good(r) /\ r.saved = t
    BY <1>8, <1>9 DEF Published
  <1>11. Becomes(c, r) /\ out[f] = None /\ out' = [out EXCEPT ![f] = run[c].item.x]
    BY <1>2 DEF Link
  <1> QED  BY <1>2, <1>3, <1>10, <1>11

-----------------------------------------------------------------------------
(* A step publishes, or changes at most one command's record, quietly. *)
LEMMA StepKinds ==
  ASSUME TypeInv, [Next]_vars
  PROVE  \/ \E c \in Collector : Link(c)
         \/ UNCHANGED out /\ (UNCHANGED run \/ \E c \in Collector : Quiet(c))
  <1>1. ASSUME NEW c \in Collector, Step(c)
        PROVE  Link(c) \/ (UNCHANGED out /\ Quiet(c))
    <2>1. CASE ListRead(c)
      BY <2>1, ListReadQuiet DEF ListRead
    <2>2. CASE Sleep(c)
      BY <2>2, SleepQuiet DEF Sleep
    <2>3. CASE NextItem(c)
      BY <2>3, NextItemQuiet DEF NextItem
    <2>4. CASE Retry(c) \/ ReadFails(c)
      BY <2>4, ReadsQuiet DEF Retry, ReadFails
    <2>5. CASE ManifestRead(c)
      BY <2>5, ManifestReadQuiet DEF ManifestRead
    <2>6. CASE ChunkRead(c)
      BY <2>6, ChunkReadQuiet DEF ChunkRead
    <2>7. CASE Verify(c)
      BY <2>7, VerifyQuiet DEF Verify
    <2>8. CASE Prepare(c) \/ NameTaken(c) \/ OutputFails(c)
      BY <2>8, OutputQuiet DEF Prepare, NameTaken, OutputFails
    <2>9. CASE SendAck(c) \/ AckFails(c) \/ Interrupted(c)
      BY <2>9, AckQuiet DEF SendAck, AckFails, Interrupted
    <2> QED  BY <1>1, <2>1, <2>2, <2>3, <2>4, <2>5, <2>6, <2>7, <2>8, <2>9 DEF Step
  <1>2. ASSUME NEW c \in Collector, Start(c) \/ Cancel(c) \/ Kill(c)
        PROVE  UNCHANGED out /\ Quiet(c)
    BY <1>2, OutsideQuiet DEF Start, Cancel, Kill
  <1>3. ASSUME NEW p \in posts, AckArrives(p) \/ AckRefused(p)
        PROVE  UNCHANGED out /\ (UNCHANGED run \/ \E c \in Collector : Quiet(c))
    <2>1. p.by \in Collector
      BY DEF TypeInv, ServerTyped
    <2>2. ASSUME Becomes(p.by, ItemDone(run[p.by]))
          PROVE  Quiet(p.by)
      BY <2>1, <2>2, GoodRun, ItemDoneGood DEF Quiet
    <2> QED  BY <1>3, <2>1, <2>2 DEF AckArrives, AckRefused
  <1>4. ASSUME NEW u \in Upload, Submit(u)
        PROVE  UNCHANGED <<out, run>>
    BY <1>4 DEF Submit
  <1> QED  BY <1>1, <1>2, <1>3, <1>4 DEF Next, vars

LEMMA QuietRuns ==
  ASSUME TypeInv, NEW c \in Collector, Quiet(c)
  PROVE  RunsGood' /\ \A d \in Collector : run'[d].saved = run[d].saved
  <1>1. PICK r : Good(r) /\ r.saved = run[c].saved /\ run' = [run EXCEPT ![c] = r]
    BY DEF Quiet, Becomes
  <1>2. r \in Run
    BY <1>1 DEF Good
  <1>3. run' \in [Collector -> Run] /\ \A d \in Collector : run'[d] = IF d = c THEN r ELSE run[d]
    BY <1>1, <1>2 DEF TypeInv, RunsGood
  <1>4. \A d \in Collector : Good(run'[d])
    BY <1>1, <1>3 DEF TypeInv, RunsGood
  <1> QED  BY <1>1, <1>3, <1>4 DEF RunsGood

LEMMA ServerStep ==
  ASSUME TypeInv, [Next]_vars
  PROVE  /\ stored' \in [Upload -> Body \cup {None}] /\ acked' \subseteq Upload /\ freed' \subseteq Body
         /\ posts' \subseteq [by : Collector, u : Upload]
  <1> USE DEF TypeInv, ServerTyped
  <1>1. ASSUME NEW c \in Collector, Step(c) \/ Start(c) \/ Cancel(c) \/ Kill(c)
        PROVE  /\ UNCHANGED serverVars
               /\ posts' = posts \/ (run[c].pc = "ack" /\ posts' = posts \cup {[by |-> c, u |-> run[c].item.u]})
    BY <1>1 DEF Step, ListRead, Sleep, NextItem, Retry, ReadFails, ManifestRead, Prepare, ChunkRead,
         Verify, Link, NameTaken, OutputFails, SendAck, AckFails, Interrupted, Start, Cancel, Kill, At
  <1>2. ASSUME NEW c \in Collector, Step(c) \/ Start(c) \/ Cancel(c) \/ Kill(c)
        PROVE  posts' \subseteq [by : Collector, u : Upload]
    <2>1. run[c].pc = "ack" => run[c].item.u \in Upload
      BY GoodRun, Labels DEF Good, WithItem
    <2> QED  BY <1>1, <1>2, <2>1
  <1>3. ASSUME NEW p \in posts, AckArrives(p) \/ AckRefused(p)
        PROVE  /\ stored' \in [Upload -> Body \cup {None}] /\ acked' \subseteq Upload /\ freed' \subseteq Body
               /\ posts' \subseteq posts
    BY <1>3 DEF AckArrives, AckRefused, serverVars
  <1>4. ASSUME NEW u \in Upload, Submit(u)
        PROVE  /\ stored' \in [Upload -> Body \cup {None}] /\ UNCHANGED <<acked, freed, posts>>
    BY <1>4, CollectorAssumption DEF Submit
  <1> QED  BY <1>1, <1>2, <1>3, <1>4 DEF Next, vars, serverVars

LEMMA TypeInit == Init => TypeInv
  <1> SUFFICES ASSUME Init PROVE TypeInv
    OBVIOUS
  <1>1. ASSUME NEW o \in Option
        PROVE  Good(NotStarted(o)) /\ NotStarted(o).saved = {}
    <2> DEFINE r == NotStarted(o)
    <2>1. /\ r.pc = "idle" /\ r.opt = o /\ r.cancelled = FALSE /\ r.left = o.wait /\ r.attempt = 1
          /\ r.want = {} /\ r.todo = {} /\ r.item = None /\ r.manifest = None /\ r.got = 0
          /\ r.failed = {} /\ r.saved = {}
      BY DEF NotStarted, Waiting
    <2>2. "idle" \in Label /\ o.wait \in Nat
      BY Labels DEF Label
    <2>3. r \in Run
      BY <2>2 DEF NotStarted, Waiting, Run
    <2> QED  BY <2>1, <2>2, <2>3, Labels DEF Good, WithItem, WithManifest
  <1>2. \A c \in Collector : Good(run[c]) /\ run[c] \in Run
    BY <1>1 DEF Init, Good
  <1>3. run \in [Collector -> Run]
    BY <1>2 DEF Init
  <1> QED  BY <1>2, <1>3 DEF Init, TypeInv, RunsGood, ServerTyped

LEMMA TypeStep ==
  ASSUME TypeInv, [Next]_vars
  PROVE  TypeInv'
  <1>1. ASSUME NEW c \in Collector, Link(c)
        PROVE  RunsGood' /\ out' \in [FileName -> Body \cup {None}]
    <2>0. PICK f \in FileName : \E r :
            /\ Good(r) /\ Becomes(c, r) /\ run[c].item.x \in Body
            /\ out' = [out EXCEPT ![f] = run[c].item.x]
      BY <1>1, LinkSaves
    <2>1. PICK r :
            /\ Good(r) /\ Becomes(c, r) /\ run[c].item.x \in Body
            /\ out' = [out EXCEPT ![f] = run[c].item.x]
      BY <2>0
    <2>2. r \in Run
      BY <2>1 DEF Good
    <2>3. run' \in [Collector -> Run] /\ \A d \in Collector : run'[d] = IF d = c THEN r ELSE run[d]
      BY <2>1, <2>2 DEF Becomes, TypeInv, RunsGood
    <2>4. RunsGood'
      BY <2>1, <2>3 DEF TypeInv, RunsGood
    <2> QED  BY <2>1, <2>4 DEF TypeInv, ServerTyped
  <1>2. RunsGood' /\ out' \in [FileName -> Body \cup {None}]
    BY <1>1, StepKinds, QuietRuns DEF TypeInv, RunsGood, ServerTyped
  <1> QED  BY <1>2, ServerStep DEF TypeInv, ServerTyped

(* Types are kept by every command, whatever its options and whatever fails. *)
THEOREM TypeCorrect == Spec => []TypeOK
  <1>1. TypeInv /\ [Next]_vars => TypeInv'
    BY TypeStep
  <1> QED  BY <1>1, TypeInit, TypeOKFollows, PTL DEF Spec

(* A name, once taken, keeps what it holds: only Link writes, to a free one. *)
LEMMA OutKept ==
  ASSUME TypeInv, [Next]_vars, NEW f \in FileName, out[f] # None
  PROVE  out'[f] = out[f]
  <1>1. ASSUME NEW c \in Collector, Link(c)
        PROVE  out'[f] = out[f]
    BY <1>1, LinkSaves DEF TypeInv, ServerTyped
  <1> QED  BY <1>1, StepKinds

(* No command replaces a published file, its own or another's.             *)
THEOREM NothingReplaced == Spec => PublishedKept
  <1>1. TypeInv /\ [Next]_vars => TypeInv'
    BY TypeStep
  <1>2. TypeInv /\ [Next]_vars => [\A f \in FileName : out[f] # None => out'[f] = out[f]]_vars
    BY OutKept
  <1> QED  BY <1>1, <1>2, TypeInit, PTL DEF Spec, PublishedKept

LEMMA SavedStep ==
  ASSUME TypeInv, SavedAsReceipted, [Next]_vars
  PROVE  SavedAsReceipted'
  <1>1. ASSUME NEW d \in Collector, NEW s \in run[d].saved
        PROVE  out'[s.at] = s.receipt.x /\ s.receipt.x \notin Damaged
    <2>1. s.at \in FileName /\ s.receipt \in Receipt
      BY GoodRun DEF Run, Saved
    <2>2. out[s.at] = s.receipt.x /\ s.receipt.x \notin Damaged
      BY DEF SavedAsReceipted
    <2> QED  BY <2>1, <2>2, OutKept, Labels
  <1>2. ASSUME NEW c \in Collector, Link(c), NEW d \in Collector, NEW s \in run'[d].saved
        PROVE  out'[s.at] = s.receipt.x /\ s.receipt.x \notin Damaged
    <2>1. PICK f \in FileName : \E r :
            /\ Good(r) /\ Becomes(c, r)
            /\ r.saved = run[c].saved \cup {[receipt |-> run[c].item, at |-> f]}
            /\ run[c].item.x \in Body \ Damaged
            /\ out' = [out EXCEPT ![f] = run[c].item.x]
      BY <1>2, LinkSaves
    <2>2. run'[d].saved \subseteq run[d].saved \cup {[receipt |-> run[c].item, at |-> f]}
      BY <2>1 DEF Becomes, TypeInv, RunsGood
    <2>3. out'[f] = run[c].item.x
      BY <2>1 DEF TypeInv, ServerTyped
    <2>4. CASE s = [receipt |-> run[c].item, at |-> f]
      BY <2>1, <2>3, <2>4
    <2> QED  BY <1>1, <1>2, <2>2, <2>4
  <1>3. ASSUME UNCHANGED out, UNCHANGED run \/ \E c \in Collector : Quiet(c),
               NEW d \in Collector, NEW s \in run'[d].saved
        PROVE  out'[s.at] = s.receipt.x /\ s.receipt.x \notin Damaged
    <2>1. run'[d].saved = run[d].saved
      BY <1>3, QuietRuns
    <2> QED  BY <1>1, <1>3, <2>1
  <1> QED  BY <1>2, <1>3, StepKinds DEF SavedAsReceipted

(* Whatever a command reports as saved is, under the name it reports, the   *)
(* authentic body of the receipt it listed, although the server's uploads   *)
(* may have been replaced between any two of its reads.                     *)
THEOREM SavedIsReceipted == Spec => []SavedAsReceipted
  <1>1. Init => SavedAsReceipted
    <2> SUFFICES ASSUME Init, NEW c \in Collector PROVE run[c].saved = {}
      BY DEF SavedAsReceipted
    <2>1. PICK o \in Option : run[c] = NotStarted(o)
      BY DEF Init
    <2> QED  BY <2>1 DEF NotStarted, Waiting
  <1>2. TypeInv /\ SavedAsReceipted /\ [Next]_vars => TypeInv' /\ SavedAsReceipted'
    BY TypeStep, SavedStep
  <1> QED  BY <1>1, <1>2, TypeInit, PTL DEF Spec

-----------------------------------------------------------------------------
(* Where a listed receipt's body is: stored under its ID, or freed; and an  *)
(* acknowledgement is sent only for one that is published.                  *)
Traceable(r) == r.x \in Sent[r.u] /\ (stored[r.u] = r.x \/ r.x \in freed)
IsPublished(x) == \E f \in FileName : out[f] = x
(* The same of the next state, for values of this one. *)
StillTraceable(r) == r.x \in Sent[r.u] /\ (stored'[r.u] = r.x \/ r.x \in freed')
NowPublished(x) == \E f \in FileName : out'[f] = x

StoredSent == \A u \in Upload : stored[u] = None \/ stored[u] \in Sent[u]
WantTraceable == \A c \in Collector : \A r \in run[c].want : Traceable(r)
AckPublished ==
  /\ \A c \in Collector : run[c].pc \in {"ack", "acking"} => IsPublished(run[c].item.x)
  /\ \A p \in posts : \E r \in Receipt : r.u = p.u /\ Traceable(r) /\ IsPublished(r.x)
Traced == StoredSent /\ WantTraceable /\ AckPublished

LEMMA ServerKept ==
  ASSUME TypeInv, Traced, [Next]_vars
  PROVE  StoredSent' /\ \A r \in Receipt : Traceable(r) => StillTraceable(r)
  <1> USE DEF TypeInv, ServerTyped
  <1>1. CASE UNCHANGED <<stored, freed>>
    BY <1>1 DEF Traced, StoredSent, Traceable, StillTraceable
  <1>2. ASSUME NEW p \in posts, AckArrives(p), ~UNCHANGED stored
        PROVE  StoredSent' /\ \A r \in Receipt : Traceable(r) => StillTraceable(r)
    <2>1. /\ p.u \in Upload /\ stored' = [stored EXCEPT ![p.u] = None]
          /\ freed' = freed \cup {stored[p.u]}
      BY <1>2 DEF AckArrives
    <2> QED  BY <2>1, Labels DEF Traced, StoredSent, Traceable, StillTraceable
  <1>3. ASSUME NEW u \in Upload, Submit(u)
        PROVE  StoredSent' /\ \A r \in Receipt : Traceable(r) => StillTraceable(r)
    <2>1. PICK x \in Sent[u] \ freed : stored' = [stored EXCEPT ![u] = x]
      BY <1>3 DEF Submit
    <2>2. stored[u] = None /\ freed' = freed
      BY <1>3 DEF Submit
    <2> QED  BY <2>1, <2>2, Labels DEF Traced, StoredSent, Traceable, StillTraceable
  <1>4. CASE UNCHANGED vars
    BY <1>1, <1>4 DEF vars, serverVars
  <1>5. ASSUME NEW c \in Collector, Step(c) \/ Start(c) \/ Cancel(c) \/ Kill(c)
        PROVE  UNCHANGED <<stored, freed>>
    BY <1>5 DEF Step, ListRead, Sleep, NextItem, Retry, ReadFails, ManifestRead, Prepare, ChunkRead,
         Verify, Link, NameTaken, OutputFails, SendAck, AckFails, Interrupted, Start, Cancel, Kill, serverVars
  <1>6. ASSUME NEW p \in posts, AckRefused(p) \/ (AckArrives(p) /\ UNCHANGED stored)
        PROVE  StoredSent' /\ \A r \in Receipt : Traceable(r) => StillTraceable(r)
    <2>1. UNCHANGED stored /\ freed \subseteq freed'
      BY <1>6 DEF AckRefused, AckArrives, serverVars
    <2> QED  BY <2>1 DEF Traced, StoredSent, Traceable, StillTraceable
  <1> QED  BY <1>1, <1>2, <1>3, <1>4, <1>5, <1>6 DEF Next

(* A command's list is kept, and only a command that acknowledges goes on to; *)
(* ListRead and Link are the two exceptions.                                  *)
Acks == {"ack", "acking"}
Keeps(c) ==
  \E r : /\ Becomes(c, r) /\ r.want = run[c].want
         /\ r.pc \in Acks => run[c].pc \in Acks /\ r.item = run[c].item

LEMMA ClosedKeeps ==
  ASSUME NEW r, NEW q \in Run, NEW e \in Ending, q.want = r.want
  PROVE  /\ Closed(q, e).want = r.want /\ Closed(q, e).pc \notin Acks
         /\ ItemDone(q).want = r.want /\ ItemDone(q).pc \notin Acks
  BY DEF Closed, ItemDone, Run, Ending, Acks

LEMMA StepKeeps ==
  ASSUME TypeInv, NEW c \in Collector,
         \/ Step(c) /\ ~ListRead(c) /\ ~Link(c)
         \/ Start(c) \/ Cancel(c) \/ Kill(c)
  PROVE  Keeps(c)
  <1> DEFINE q == ItemFailed(run[c])
  <1>0. run[c] \in Run /\ Good(run[c]) /\ {"stopped", "killed", "ok", "partial"} \subseteq Ending
    BY GoodRun DEF Ending
  <1>1. ASSUME NEW e \in Ending, Ended(c, e)
        PROVE  Keeps(c)
    BY <1>0, <1>1, ClosedKeeps DEF Ended, Keeps
  <1>2. ASSUME run[c].item \in Receipt, Fail(c) \/ OutputError(c)
        PROVE  Keeps(c)
    <2>1. q \in Run /\ q.want = run[c].want
      <3>1. Good(q)
        BY <1>0, <1>2, ItemFailedGood
      <3> QED  BY <1>0, <3>1 DEF Good, ItemFailed, Run
    <2> HIDE DEF q
    <2>2. Closed(q, "stopped").want = run[c].want /\ Closed(q, "stopped").pc \notin Acks
          /\ ItemDone(q).want = run[c].want /\ ItemDone(q).pc \notin Acks
      BY <1>0, <2>1, ClosedKeeps
    <2>3. Becomes(c, Closed(q, "stopped")) \/ Becomes(c, ItemDone(q))
      BY <1>2 DEF Fail, OutputError, q
    <2> QED  BY <2>2, <2>3 DEF Keeps
  <1>3. ASSUME NEW l \in Label \ Acks, Goto(c, l)
        PROVE  Keeps(c)
    <2> DEFINE r == [run[c] EXCEPT !.pc = l, !.attempt = 1]
    <2>1. r.want = run[c].want /\ r.pc = l
      BY <1>0 DEF Run
    <2> QED  BY <1>3, <2>1 DEF Goto, Keeps
  <1>4. run[c].pc \in WithItem => run[c].item \in Receipt
    BY <1>0 DEF Good
  <1>5. CASE Sleep(c)
    <2>1. PICK left \in 0 .. run[c].left : Becomes(c, [run[c] EXCEPT !.pc = "list", !.left = left])
      BY <1>5 DEF Sleep
    <2> DEFINE r == [run[c] EXCEPT !.pc = "list", !.left = left]
    <2>2. r.want = run[c].want /\ r.pc = "list"
      BY <1>0 DEF Run
    <2> QED  BY <2>1, <2>2 DEF Keeps, Acks
  <1>6. CASE NextItem(c)
    <2>1. Verdict(run[c]) \in Ending
      BY DEF Verdict, Ending
    <2>2. ASSUME NEW r \in run[c].todo,
                 Becomes(c, [run[c] EXCEPT !.pc = "manifest", !.item = r, !.todo = @ \ {r}])
          PROVE  Keeps(c)
      <3> DEFINE q1 == [run[c] EXCEPT !.pc = "manifest", !.item = r, !.todo = @ \ {r}]
      <3>1. q1.want = run[c].want /\ q1.pc = "manifest"
        BY <1>0 DEF Run
      <3> QED  BY <2>2, <3>1 DEF Keeps, Acks
    <2> QED  BY <1>1, <1>6, <2>1, <2>2 DEF NextItem
  <1>7. ASSUME Becomes(c, [run[c] EXCEPT !.attempt = @ + 1])
        PROVE  Keeps(c)
    <2> DEFINE r == [run[c] EXCEPT !.attempt = @ + 1]
    <2>1. r.want = run[c].want /\ r.pc = run[c].pc /\ r.item = run[c].item
      BY <1>0 DEF Run
    <2> QED  BY <1>7, <2>1 DEF Keeps
  <1>8. CASE Retry(c)
    BY <1>7, <1>8 DEF Retry
  <1>9. CASE ReadFails(c)
    BY <1>0, <1>1, <1>2, <1>4, <1>9 DEF ReadFails, Reading, At, WithItem
  <1>10. CASE ManifestRead(c) \/ ChunkRead(c)
    <2> DEFINE r == [run[c] EXCEPT !.pc = "prepare", !.attempt = 1, !.manifest = stored[run[c].item.u]]
               l == IF run[c].got + 1 = Chunks[run[c].manifest] THEN "verify" ELSE "chunk"
               s == [run[c] EXCEPT !.got = @ + 1, !.attempt = 1, !.pc = l]
    <2>1. r.want = run[c].want /\ r.pc = "prepare" /\ s.want = run[c].want /\ s.pc = l
      BY <1>0 DEF Run
    <2>2. Becomes(c, r) \/ Becomes(c, s)
      BY <1>10 DEF ManifestRead, ChunkRead
    <2>3. "prepare" \notin Acks /\ l \notin Acks
      BY DEF Acks
    <2> HIDE DEF r, s, l
    <2> QED  BY <2>1, <2>2, <2>3 DEF Keeps
  <1>11. CASE Verify(c) \/ Prepare(c) \/ Start(c)
    <2>1. {"publish", "chunk", "list"} \subseteq Label \ Acks
      BY DEF Label, Acks
    <2> QED  BY <1>2, <1>3, <1>4, <1>11, <2>1 DEF Verify, Prepare, Start, At, WithItem
  <1>12. CASE NameTaken(c) \/ OutputFails(c)
    BY <1>0, <1>2, <1>4, <1>7, <1>12 DEF NameTaken, OutputFails, At, WithItem, Good, WithManifest
  <1>13. CASE SendAck(c)
    <2> DEFINE r == [run[c] EXCEPT !.pc = "acking", !.attempt = 1]
    <2>1. r.want = run[c].want /\ r.item = run[c].item
      BY <1>0 DEF Run
    <2> QED  BY <1>13, <2>1 DEF SendAck, Goto, Keeps, Acks, At
  <1>14. CASE AckFails(c) \/ Interrupted(c) \/ Kill(c)
    BY <1>0, <1>1, <1>2, <1>4, <1>14 DEF AckFails, Interrupted, Kill, At, WithItem
  <1>15. CASE Cancel(c)
    <2> DEFINE r == [run[c] EXCEPT !.cancelled = TRUE]
    <2>1. r.want = run[c].want /\ r.pc = run[c].pc /\ r.item = run[c].item
      BY <1>0 DEF Run
    <2> QED  BY <1>15, <2>1 DEF Cancel, Keeps
  <1> QED  BY <1>5, <1>6, <1>8, <1>9, <1>10, <1>11, <1>12, <1>13, <1>14, <1>15 DEF Step

LEMMA PublishedStays ==
  ASSUME TypeInv, [Next]_vars, NEW x \in Body, IsPublished(x)
  PROVE  NowPublished(x)
  BY OutKept, Labels, CollectorAssumption DEF IsPublished, NowPublished

(* The two conditions on a command's record that Traced makes. *)
Fine(r) ==
  /\ \A w \in r.want : Traceable(w)
  /\ r.pc \in Acks => IsPublished(r.item.x)

LEMMA FineStays ==
  ASSUME TypeInv, Traced, [Next]_vars, NEW r \in Run, Fine(r), r.pc \in Acks => r.item \in Receipt
  PROVE  /\ \A w \in r.want : StillTraceable(w)
         /\ r.pc \in Acks => NowPublished(r.item.x)
  <1>1. \A w \in r.want : StillTraceable(w)
    BY ServerKept DEF Fine, Run
  <1>2. r.pc \in Acks => NowPublished(r.item.x)
    BY PublishedStays, Labels DEF Fine
  <1> QED  BY <1>1, <1>2

LEMMA TracedFine ==
  ASSUME TypeInv, Traced, NEW c \in Collector
  PROVE  Fine(run[c]) /\ (run[c].pc \in Acks => run[c].item \in Receipt)
  BY GoodRun DEF Traced, WantTraceable, AckPublished, Fine, Acks, Good, WithItem

(* What a command comes to hold is still traceable, and published if it acknowledges. *)
RecordTraced(r) ==
  /\ \A w \in r.want : StillTraceable(w)
  /\ r.pc \in Acks => NowPublished(r.item.x)

LEMMA CommandTraced ==
  ASSUME TypeInv, Traced, [Next]_vars, NEW c \in Collector, Step(c) \/ Start(c) \/ Cancel(c) \/ Kill(c)
  PROVE  \E r : Becomes(c, r) /\ RecordTraced(r)
  <1> DEFINE o == run[c].opt
  <1>1. RecordTraced(run[c]) /\ run[c] \in Run /\ Good(run[c])
    BY TracedFine, FineStays, GoodRun DEF RecordTraced
  <1>2. CASE Keeps(c)
    <2>1. PICK r : /\ Becomes(c, r) /\ r.want = run[c].want
                   /\ r.pc \in Acks => run[c].pc \in Acks /\ r.item = run[c].item
      BY <1>2 DEF Keeps
    <2>2. RecordTraced(r)
      BY <1>1, <2>1 DEF RecordTraced
    <2> QED  BY <2>1, <2>2
  <1>3. CASE ListRead(c)
    <2> DEFINE q == [run[c] EXCEPT !.pc = "next", !.attempt = 1, !.left = 0,
                               !.want = Selected(o), !.todo = Selected(o),
                               !.failed = {[u |-> u, x |-> None] : u \in Absent(o)}]
    <2>1. \A w \in Selected(o) : w \in Receipt /\ Traceable(w)
      BY Labels DEF Selected, Unacknowledged, Named, Listed, Traced, StoredSent, Traceable
    <2>2. \A w \in Selected(o) : StillTraceable(w)
      BY <2>1, ServerKept
    <2>3. q.want = Selected(o) /\ q.pc = "next"
      BY <1>1 DEF Run
    <2>4. Closed(q, "stopped").want = Selected(o) /\ Closed(q, "stopped").pc = "stopped"
      BY <1>1 DEF Run, Closed
    <2>5. CASE Becomes(c, q)
      BY <2>2, <2>3, <2>5 DEF RecordTraced, Acks
    <2>6. CASE Becomes(c, Closed(q, "stopped"))
      BY <2>2, <2>4, <2>6 DEF RecordTraced, Acks
    <2>7. CASE Goto(c, "sleep")
      <3>1. MovedTo(run[c], "sleep", 1).want = run[c].want /\ MovedTo(run[c], "sleep", 1).pc = "sleep"
        BY <1>1 DEF Run, MovedTo
      <3> QED  BY <1>1, <2>7, <3>1 DEF Goto, MovedTo, RecordTraced, Acks
    <2>8. CASE Ended(c, "stopped")
      <3>1. Closed(run[c], "stopped").want = run[c].want /\ Closed(run[c], "stopped").pc = "stopped"
        BY <1>1 DEF Run, Closed
      <3> QED  BY <1>1, <2>8, <3>1 DEF Ended, RecordTraced, Acks
    <2> QED  BY <1>3, <2>5, <2>6, <2>7, <2>8 DEF ListRead
  <1>4. CASE Link(c)
    <2> DEFINE f == Candidate(run[c])
               s == [run[c] EXCEPT !.saved = @ \cup {[receipt |-> run[c].item, at |-> f]}]
               q == [s EXCEPT !.pc = "ack", !.attempt = 1]
    <2>1. Becomes(c, q) \/ Becomes(c, ItemDone(s))
      BY <1>4 DEF Link, Published
    <2>2. q.want = run[c].want /\ q.item = run[c].item
      BY <1>1 DEF Run
    <2>3. ItemDone(s).want = run[c].want /\ ItemDone(s).pc = "next"
      BY <1>1 DEF Run, ItemDone
    <2>4. NowPublished(run[c].item.x)
      BY <1>4, LinkSaves DEF NowPublished, TypeInv, ServerTyped
    <2> QED  BY <1>1, <2>1, <2>2, <2>3, <2>4 DEF RecordTraced, Acks
  <1> QED  BY <1>2, <1>3, <1>4, StepKeeps

LEMMA TracedStep ==
  ASSUME TypeInv, Traced, [Next]_vars
  PROVE  Traced'
  <1>1. \A c \in Collector : RecordTraced(run[c])
    BY TracedFine, FineStays, GoodRun DEF RecordTraced
  <1>2. ASSUME \/ UNCHANGED run
               \/ \E c \in Collector : \E r : Becomes(c, r) /\ RecordTraced(r)
        PROVE  \A c \in Collector : RecordTraced(run'[c])
    BY <1>1, <1>2 DEF Becomes, TypeInv, RunsGood
  <1>3. ASSUME NEW p \in posts
        PROVE  \E r \in Receipt : r.u = p.u /\ StillTraceable(r) /\ NowPublished(r.x)
    BY ServerKept, PublishedStays, Labels DEF Traced, AckPublished
  <1>4. CASE \E c \in Collector : Step(c) \/ Start(c) \/ Cancel(c) \/ Kill(c)
    <2>1. PICK c \in Collector : Step(c) \/ Start(c) \/ Cancel(c) \/ Kill(c)
      BY <1>4
    <2>2. \A d \in Collector : RecordTraced(run'[d])
      BY <1>2, <2>1, CommandTraced
    <2>3. posts' = posts \/ (run[c].pc = "ack" /\ posts' = posts \cup {[by |-> c, u |-> run[c].item.u]})
      BY <2>1 DEF Step, ListRead, Sleep, NextItem, Retry, ReadFails, ManifestRead, Prepare, ChunkRead,
         Verify, Link, NameTaken, OutputFails, SendAck, AckFails, Interrupted, Start, Cancel, Kill, At
    <2>4. ASSUME run[c].pc = "ack"
          PROVE  run[c].item \in Receipt /\ StillTraceable(run[c].item) /\ NowPublished(run[c].item.x)
      <3>1. run[c].item \in Receipt /\ run[c].item \in run[c].want
        BY <2>4, GoodRun, Labels DEF Good, WithItem
      <3> QED  BY <1>1, <2>4, <3>1 DEF RecordTraced, Acks
    <2>5. \A p \in posts' : \E r \in Receipt : r.u = p.u /\ StillTraceable(r) /\ NowPublished(r.x)
      BY <1>3, <2>3, <2>4
    <2> QED  BY <2>2, <2>5, ServerKept DEF Traced, WantTraceable, AckPublished, RecordTraced, Acks, Traceable,
         IsPublished, StillTraceable, NowPublished
  <1>5. ASSUME posts' \subseteq posts, \A c \in Collector : RecordTraced(run'[c])
        PROVE  Traced'
    BY <1>3, <1>5, ServerKept DEF Traced, WantTraceable, AckPublished, RecordTraced, Acks, Traceable,
         IsPublished, StillTraceable, NowPublished
  <1>6. CASE \E p \in posts : AckArrives(p) \/ AckRefused(p)
    <2>1. PICK p \in posts : AckArrives(p) \/ AckRefused(p)
      BY <1>6
    <2>2. p.by \in Collector /\ posts' \subseteq posts
      BY <2>1 DEF AckArrives, AckRefused, TypeInv, ServerTyped
    <2>3. RecordTraced(ItemDone(run[p.by]))
      BY <1>1, <2>2, GoodRun DEF RecordTraced, ItemDone, Run, Acks
    <2>4. UNCHANGED run \/ Becomes(p.by, ItemDone(run[p.by]))
      BY <2>1 DEF AckArrives, AckRefused
    <2> QED  BY <1>2, <1>5, <2>2, <2>3, <2>4
  <1>7. CASE UNCHANGED vars \/ \E u \in Upload : Submit(u)
    <2>1. UNCHANGED <<posts, run>>
      BY <1>7 DEF Submit, vars
    <2> QED  BY <1>2, <1>5, <2>1
  <1> QED  BY <1>4, <1>6, <1>7 DEF Next

LEMMA TracedInit == Init => Traced
  <1> SUFFICES ASSUME Init PROVE Traced
    OBVIOUS
  <1>1. ASSUME NEW c \in Collector
        PROVE  run[c].want = {} /\ run[c].pc = "idle"
    <2>1. PICK o \in Option : run[c] = NotStarted(o)
      BY DEF Init
    <2> QED  BY <2>1 DEF NotStarted, Waiting
  <1> QED  BY <1>1 DEF Init, Traced, StoredSent, WantTraceable, AckPublished

(* An acknowledgement that takes effect finds the body it was sent for, or   *)
(* another under an ID whose earlier body was freed.                         *)
LEMMA ReleaseStep ==
  ASSUME TypeInv, Traced, [Next]_vars, NEW u \in Upload,
         u \in acked' \ acked \/ stored[u] \notin {None, stored'[u]}
  PROVE  Reused(u) \/ \E f \in FileName : out[f] = stored[u]
  <1>1. PICK p \in posts : AckArrives(p) /\ p.u = u
    <2>1. ASSUME NEW c \in Collector, Step(c) \/ Start(c) \/ Cancel(c) \/ Kill(c)
          PROVE  UNCHANGED serverVars
      BY <2>1 DEF Step, ListRead, Sleep, NextItem, Retry, ReadFails, ManifestRead, Prepare, ChunkRead,
         Verify, Link, NameTaken, OutputFails, SendAck, AckFails, Interrupted, Start, Cancel, Kill
    <2>2. ASSUME NEW v \in Upload, Submit(v)
          PROVE  acked' = acked /\ (v = u => stored[u] = None) /\ (v # u => stored'[u] = stored[u])
      BY <2>2 DEF Submit, TypeInv, ServerTyped
    <2>3. ASSUME NEW p \in posts, AckRefused(p)
          PROVE  UNCHANGED serverVars
      BY <2>3 DEF AckRefused
    <2>4. ASSUME NEW p \in posts, AckArrives(p), p.u # u
          PROVE  stored'[u] = stored[u] /\ (u \in acked' => u \in acked)
      BY <2>4 DEF AckArrives, TypeInv, ServerTyped
    <2> QED  BY <2>1, <2>2, <2>3, <2>4 DEF Next, vars, serverVars
  <1>2. PICK r \in Receipt : r.u = u /\ Traceable(r) /\ IsPublished(r.x)
    BY <1>1 DEF Traced, AckPublished
  <1>3. CASE stored[u] = r.x
    BY <1>2, <1>3 DEF IsPublished
  <1>4. CASE r.x \in freed
    BY <1>2, <1>4 DEF Traceable, Reused
  <1> QED  BY <1>2, <1>3, <1>4 DEF Traceable

(* The server never hears of, nor removes, an upload that was not published, *)
(* unless its ID had been used again: with deletion on, the order publish    *)
(* then acknowledge keeps a copy of everything, over lost and late requests, *)
(* cancelled and killed commands.                                            *)
THEOREM ReleasedIsPublished == Spec => ReleasedOnlyPublished
  <1>1. TypeInv /\ Traced /\ [Next]_vars => TypeInv' /\ Traced'
    BY TypeStep, TracedStep
  <1>2. TypeInv /\ Traced /\ [Next]_vars =>
          [\A u \in Upload :
             u \in acked' \ acked \/ stored[u] \notin {None, stored'[u]} =>
               Reused(u) \/ \E f \in FileName : out[f] = stored[u]]_vars
    BY ReleaseStep
  <1> QED  BY <1>1, <1>2, TypeInit, TracedInit, PTL DEF Spec, ReleasedOnlyPublished

-----------------------------------------------------------------------------
(* What becomes of each receipt a command selected. *)
Before == {"idle", "list", "sleep"}
InBatch == {"next"} \cup WithItem
Through == {"ok", "partial"}

(* Selected is what is saved, failed, still to do or in hand; each upload    *)
(* asked for is selected or has failed.                                      *)
Split(r) ==
  /\ r.want = ReceiptsOf(r) \cup (r.failed \cap Receipt) \cup r.todo \cup ({r.item} \cap Receipt)
  /\ r.failed = {} => \A u \in r.opt.ids : \E w \in r.want : w.u = u

(* The server holding st, of which ak is acknowledged, heard of w (AckHeard). *)
Heard(w, st, ak) == w.u \in ak \/ st[w.u] # w.x

(* A saved upload is acknowledged, is being acknowledged, or has failed.     *)
AckDue(r, st, ak) ==
  r.opt.acknowledge =>
    \A w \in ReceiptsOf(r) : Heard(w, st, ak) \/ w = r.item \/ w \in r.failed

Accounted(r, st, ak) ==
  /\ r.pc \in Before => r.saved = {}
  /\ r.pc \in InBatch \cup Through => Split(r) /\ AckDue(r, st, ak)
  /\ r.pc \in Acks => r.item \in ReceiptsOf(r)
  /\ r.pc \in Through => r.todo = {}
  /\ r.pc = "ok" => r.failed = {}

AllAccounted == \A c \in Collector : Accounted(run[c], stored, acked)

LEMMA Stages ==
  /\ Before \cap (InBatch \cup Through) = {} /\ InBatch \cap Through = {}
  /\ {"stopped", "killed"} \cap (Before \cup InBatch \cup Through) = {}
  BY DEF Before, InBatch, Through, WithItem

(* Moving on within a stage changes nothing of this. *)
SameBatch(q, r) ==
  /\ q.opt = r.opt /\ q.want = r.want /\ q.saved = r.saved /\ q.failed = r.failed
  /\ q.todo = r.todo /\ q.item = r.item

LEMMA SameStage ==
  ASSUME NEW st, NEW ak, NEW q, NEW r, SameBatch(q, r), Accounted(r, st, ak),
         \/ q.pc \in Before /\ r.pc \in Before
         \/ q.pc \in InBatch /\ r.pc \in InBatch,
         q.pc \in Acks => r.item \in ReceiptsOf(r)
  PROVE  Accounted(q, st, ak)
  <1>1. ReceiptsOf(q) = ReceiptsOf(r)
    BY DEF ReceiptsOf, SameBatch
  <1>2. Split(r) => Split(q)
    BY <1>1 DEF Split, SameBatch
  <1>3. AckDue(r, st, ak) => AckDue(q, st, ak)
    BY <1>1 DEF AckDue, SameBatch
  <1>4. q.pc \notin Through /\ q.pc # "ok"
    BY Stages DEF Through
  <1>7. q.pc \in Acks => q.item \in ReceiptsOf(q)
    BY <1>1 DEF SameBatch
  <1>5. CASE q.pc \in Before /\ r.pc \in Before
    <2>1. q.pc \notin InBatch
      BY <1>5, Stages
    <2> QED  BY <1>4, <1>5, <1>7, <2>1 DEF Accounted, SameBatch
  <1>6. CASE q.pc \in InBatch /\ r.pc \in InBatch
    <2>1. q.pc \notin Before
      BY <1>6, Stages
    <2> QED  BY <1>2, <1>3, <1>4, <1>6, <1>7, <2>1 DEF Accounted
  <1> QED  BY <1>5, <1>6

LEMMA StoppedAccounted ==
  ASSUME NEW st, NEW ak, NEW r \in Run, NEW e \in {"stopped", "killed"}
  PROVE  Accounted(Closed(r, e), st, ak)
  <1>1. Closed(r, e).pc = e
    BY DEF Closed, Run
  <1>2. e \notin Before /\ e \notin InBatch \cup Through /\ e \notin Acks /\ e # "ok"
    BY DEF Before, InBatch, Through, WithItem, Acks
  <1> QED  BY <1>1, <1>2 DEF Accounted, Through

(* An item that failed is reported instead of in hand. *)
LEMMA FailedAccounted ==
  ASSUME NEW st, NEW ak, NEW r, Good(r), Accounted(r, st, ak), r.pc \in WithItem
  PROVE  Accounted(ItemDone(ItemFailed(r)), st, ak)
  <1>1. r \in Run /\ r.item \in Receipt /\ r.item \in Failure
    BY Labels DEF Good
  <1>2. PICK q : q = ItemDone(ItemFailed(r))
    OBVIOUS
  <1>3. /\ q.pc = "next" /\ q.opt = r.opt /\ q.want = r.want /\ q.saved = r.saved
        /\ q.failed = r.failed \cup {r.item} /\ q.todo = r.todo /\ q.item = None
    BY <1>1, <1>2 DEF ItemDone, ItemFailed, Run
  <1>4. Split(r) /\ AckDue(r, st, ak)
    BY DEF Accounted, InBatch
  <1>5. ReceiptsOf(q) = ReceiptsOf(r)
    BY <1>3 DEF ReceiptsOf
  <1>6. Split(q)
    <2>1. None \notin Receipt
      BY CollectorAssumption
    <2> QED  BY <1>1, <1>3, <1>4, <1>5, <2>1 DEF Split
  <1>7. AckDue(q, st, ak)
    BY <1>3, <1>4, <1>5 DEF AckDue
  <1>8. "next" \in InBatch /\ "next" \notin Before /\ "next" \notin Through /\ "next" \notin Acks
    BY DEF InBatch, Before, Through, WithItem, Acks
  <1> QED  BY <1>2, <1>3, <1>6, <1>7, <1>8 DEF Accounted

(* An item that is saved, and acknowledged if it had to be, is done with. *)
LEMMA DoneAccounted ==
  ASSUME NEW st, NEW ak, NEW r, r \in Run, r.pc \in InBatch, Split(r), AckDue(r, st, ak), r.item \in ReceiptsOf(r),
         r.opt.acknowledge => Heard(r.item, st, ak)
  PROVE  Accounted(ItemDone(r), st, ak)
  <1>2. PICK q : q = ItemDone(r)
    OBVIOUS
  <1>3. /\ q.pc = "next" /\ q.opt = r.opt /\ q.want = r.want /\ q.saved = r.saved
        /\ q.failed = r.failed /\ q.todo = r.todo /\ q.item = None
    BY <1>2 DEF ItemDone, Run
  <1>5. ReceiptsOf(q) = ReceiptsOf(r)
    BY <1>3 DEF ReceiptsOf
  <1>6. Split(q)
    <2>1. None \notin Receipt
      BY CollectorAssumption
    <2> QED  BY <1>3, <1>5, <2>1 DEF Split
  <1>7. AckDue(q, st, ak)
    BY <1>3, <1>5 DEF AckDue
  <1>8. "next" \in InBatch /\ "next" \notin Before /\ "next" \notin Through /\ "next" \notin Acks
    BY DEF InBatch, Before, Through, WithItem, Acks
  <1> QED  BY <1>2, <1>3, <1>6, <1>7, <1>8 DEF Accounted

LEMMA ListReadAccounted ==
  ASSUME TypeInv, AllAccounted, NEW c \in Collector, ListRead(c)
  PROVE  \E r : Becomes(c, r) /\ Accounted(r, stored, acked)
  <1> DEFINE o == run[c].opt
             failures == {[u |-> u, x |-> None] : u \in Absent(o)}
             q == [run[c] EXCEPT !.pc = "next", !.attempt = 1, !.left = 0,
                                 !.want = Selected(o), !.todo = Selected(o), !.failed = failures]
  <1>0. run[c] \in Run /\ Good(run[c]) /\ o \in Option
    BY GoodRun
  <1>1. run[c].pc = "list" /\ run[c].saved = {} /\ run[c].item = None
    BY <1>0 DEF ListRead, At, AllAccounted, Accounted, Before, Good, WithItem
  <1>2. Accounted(q, stored, acked)
    <2>1. PICK r : r = q
      OBVIOUS
    <2>2. /\ r.pc = "next" /\ r.opt = o /\ r.want = Selected(o) /\ r.todo = Selected(o)
          /\ r.failed = failures /\ r.saved = {} /\ r.item = None
      BY <1>0, <1>1, <2>1 DEF Run
    <2>3. failures \cap Receipt = {} /\ None \notin Receipt
      BY CollectorAssumption DEF Receipt
    <2>4. ReceiptsOf(r) = {}
      BY <2>2 DEF ReceiptsOf
    <2>5. ASSUME NEW u \in o.ids, failures = {} PROVE \E w \in Selected(o) : w.u = u
      <3>0. u \in Upload
        BY <1>0, <2>5, Labels
      <3>1. u \notin Absent(o)
        BY <2>5
      <3>4. stored[u] # None /\ stored[u] \in Body
        BY <2>5, <3>0, <3>1 DEF Absent, TypeInv, ServerTyped
      <3>2. PICK w : w = [u |-> u, x |-> stored[u]]
        OBVIOUS
      <3>3. w \in Receipt /\ w.u = u /\ w.x = stored[u]
        BY <3>0, <3>4, <3>2 DEF Receipt
      <3> QED  BY <2>5, <3>3 DEF Selected, Named, Listed
    <2>6. Split(r)
      BY <2>2, <2>3, <2>4, <2>5 DEF Split
    <2>7. AckDue(r, stored, acked)
      BY <2>4 DEF AckDue
    <2>8. "next" \notin Before /\ "next" \notin Through /\ "next" \notin Acks
      BY DEF Before, Through, Acks
    <2> QED  BY <2>1, <2>2, <2>6, <2>7, <2>8 DEF Accounted
  <1>3. q \in Run
    <2>1. Selected(o) \subseteq Receipt
      BY DEF Selected, Unacknowledged, Named, Listed
    <2>2. failures \subseteq Failure
      BY <1>0, Labels DEF Absent, Failure
    <2>3. "next" \in Label
      BY DEF Label
    <2> QED  BY <1>0, <2>1, <2>2, <2>3 DEF Run
  <1>4. Accounted(Closed(q, "stopped"), stored, acked) /\ Accounted(Closed(run[c], "stopped"), stored, acked)
    BY <1>0, <1>3, StoppedAccounted
  <1>5. CASE Goto(c, "sleep")
    <2>1. PICK r : r = [run[c] EXCEPT !.pc = "sleep", !.attempt = 1]
      OBVIOUS
    <2>2. r.pc = "sleep" /\ SameBatch(r, run[c])
      BY <1>0, <2>1 DEF Run, SameBatch
    <2>3. Accounted(r, stored, acked)
      BY <1>1, <2>2, SameStage DEF AllAccounted, Before, Acks
    <2> QED  BY <1>5, <2>1, <2>3 DEF Goto
  <1>6. \/ Goto(c, "sleep") \/ Becomes(c, q) \/ Becomes(c, Closed(q, "stopped"))
        \/ Becomes(c, Closed(run[c], "stopped"))
    BY DEF ListRead, Ended
  <1> HIDE DEF q
  <1> QED  BY <1>2, <1>4, <1>5, <1>6

LEMMA NextItemAccounted ==
  ASSUME TypeInv, AllAccounted, NEW c \in Collector, NextItem(c)
  PROVE  \E r : Becomes(c, r) /\ Accounted(r, stored, acked)
  <1>0. run[c] \in Run /\ Good(run[c]) /\ Accounted(run[c], stored, acked) /\ run[c].pc = "next"
    BY GoodRun DEF AllAccounted, NextItem, At
  <1>1. Split(run[c]) /\ AckDue(run[c], stored, acked) /\ run[c].item = None /\ None \notin Receipt
    BY <1>0, CollectorAssumption DEF Accounted, InBatch, Good, WithItem
  <1>2. ASSUME run[c].todo = {}, Ended(c, Verdict(run[c]))
        PROVE  \E r : Becomes(c, r) /\ Accounted(r, stored, acked)
    <2>1. PICK r : r = Closed(run[c], Verdict(run[c]))
      OBVIOUS
    <2>2. /\ r.pc = Verdict(run[c]) /\ r.opt = run[c].opt /\ r.want = run[c].want
          /\ r.saved = run[c].saved /\ r.failed = run[c].failed /\ r.todo = {} /\ r.item = None
      BY <1>0, <2>1 DEF Closed, Run
    <2>3. ReceiptsOf(r) = ReceiptsOf(run[c])
      BY <2>2 DEF ReceiptsOf
    <2>4. Split(r) /\ AckDue(r, stored, acked)
      BY <1>1, <1>2, <2>2, <2>3 DEF Split, AckDue
    <2>5. r.pc \in Through /\ r.pc \notin Before \cup Acks /\ (r.pc = "ok" => r.failed = {})
      BY <2>2 DEF Verdict, Through, Before, Acks
    <2>6. Accounted(r, stored, acked)
      BY <2>2, <2>4, <2>5 DEF Accounted
    <2> QED  BY <1>2, <2>1, <2>6 DEF Ended
  <1>3. ASSUME NEW w \in run[c].todo,
               Becomes(c, [run[c] EXCEPT !.pc = "manifest", !.item = w, !.todo = @ \ {w}])
        PROVE  \E r : Becomes(c, r) /\ Accounted(r, stored, acked)
    <2>1. PICK r : r = [run[c] EXCEPT !.pc = "manifest", !.item = w, !.todo = @ \ {w}]
      OBVIOUS
    <2>2. /\ r.pc = "manifest" /\ r.opt = run[c].opt /\ r.want = run[c].want
          /\ r.saved = run[c].saved /\ r.failed = run[c].failed
          /\ r.todo = run[c].todo \ {w} /\ r.item = w
      BY <1>0, <2>1 DEF Run
    <2>3. ReceiptsOf(r) = ReceiptsOf(run[c]) /\ w \in Receipt
      BY <1>0, <2>2 DEF ReceiptsOf, Good, Run
    <2>4. Split(r)
      BY <1>1, <2>2, <2>3 DEF Split
    <2>5. AckDue(r, stored, acked)
      <3>1. \A v \in ReceiptsOf(run[c]) : v # None
        <4>1. run[c].saved \subseteq Saved
          BY <1>0 DEF Run
        <4> QED  BY <1>1, <4>1 DEF ReceiptsOf, Saved
      <3> QED  BY <1>1, <2>2, <2>3, <3>1 DEF AckDue
    <2>6. "manifest" \notin Before /\ "manifest" \notin Through /\ "manifest" \notin Acks
      BY DEF Before, Through, Acks
    <2>7. Accounted(r, stored, acked)
      BY <2>2, <2>4, <2>5, <2>6 DEF Accounted
    <2> QED  BY <1>3, <2>1, <2>7
  <1> QED  BY <1>2, <1>3 DEF NextItem

LEMMA LinkAccounted ==
  ASSUME TypeInv, AllAccounted, NEW c \in Collector, Link(c)
  PROVE  \E r : Becomes(c, r) /\ Accounted(r, stored, acked)
  <1> DEFINE f == Candidate(run[c])
             s == [run[c] EXCEPT !.saved = @ \cup {[receipt |-> run[c].item, at |-> f]}]
             q == [s EXCEPT !.pc = "ack", !.attempt = 1]
  <1>0. run[c] \in Run /\ Good(run[c]) /\ Accounted(run[c], stored, acked) /\ run[c].pc = "publish"
    BY GoodRun DEF AllAccounted, Link, At
  <1>1. Split(run[c]) /\ AckDue(run[c], stored, acked) /\ run[c].item \in Receipt
    BY <1>0 DEF Accounted, InBatch, WithItem, Good
  <1>2. f \in FileName
    <2>1. run[c].manifest \in Body
      BY <1>0 DEF Good, WithManifest
    <2>2. run[c].attempt \in 1 .. MaxSuffix
      BY <1>0, CollectorAssumption DEF Good, LastAttempt, Run
    <2> QED  BY <2>1, <2>2 DEF Candidate, FileName
  <1>3. [receipt |-> run[c].item, at |-> f] \in Saved
    BY <1>1, <1>2 DEF Saved
  <1>4. /\ s \in Run /\ s.pc = "publish" /\ s.opt = run[c].opt /\ s.want = run[c].want
        /\ s.failed = run[c].failed /\ s.todo = run[c].todo /\ s.item = run[c].item
        /\ s.saved = run[c].saved \cup {[receipt |-> run[c].item, at |-> f]}
    BY <1>0, <1>3 DEF Run
  <1>5. ReceiptsOf(s) = ReceiptsOf(run[c]) \cup {run[c].item}
    <2>1. PICK new : new = [receipt |-> run[c].item, at |-> f]
      OBVIOUS
    <2>2. s.saved = run[c].saved \cup {new} /\ new.receipt = run[c].item
      BY <1>4, <2>1
    <2> QED  BY <2>2, Zenon DEF ReceiptsOf
  <1>6. Split(s) /\ AckDue(s, stored, acked)
    BY <1>1, <1>4, <1>5 DEF Split, AckDue
  <1>7. Accounted(s, stored, acked)
    BY <1>4, <1>6 DEF Accounted, Before, Through, Acks
  <1>8. q.pc = "ack" /\ SameBatch(q, s)
    BY <1>4 DEF Run, SameBatch
  <1>9. Becomes(c, IF s.opt.acknowledge THEN q ELSE ItemDone(s))
    BY DEF Link, Published
  <1> HIDE DEF s, q
  <1>10. Accounted(q, stored, acked)
    BY <1>4, <1>5, <1>7, <1>8, SameStage DEF InBatch, WithItem
  <1>11. CASE ~s.opt.acknowledge
    <2>1. Accounted(ItemDone(s), stored, acked)
      BY <1>4, <1>5, <1>6, <1>11, DoneAccounted DEF InBatch, WithItem
    <2> QED  BY <1>9, <1>11, <2>1
  <1> QED  BY <1>9, <1>10, <1>11

LEMMA BatchStep ==
  ASSUME TypeInv, AllAccounted, NEW c \in Collector, Step(c) \/ Start(c) \/ Cancel(c) \/ Kill(c)
  PROVE  \E r : Becomes(c, r) /\ Accounted(r, stored, acked)
  <1> DEFINE q == ItemFailed(run[c])
             Done == \E r : Becomes(c, r) /\ Accounted(r, stored, acked)
  <1>0. run[c] \in Run /\ Good(run[c]) /\ Accounted(run[c], stored, acked)
    BY GoodRun DEF AllAccounted
  <1>1. ASSUME NEW e \in {"stopped", "killed"}, Ended(c, e) PROVE Done
    BY <1>0, <1>1, StoppedAccounted DEF Ended
  <1>2. ASSUME run[c].pc \in WithItem, Fail(c) \/ OutputError(c) PROVE Done
    <2>1. Good(q) /\ q \in Run
      BY <1>0, <1>2, ItemFailedGood DEF Good
    <2>2. Accounted(ItemDone(q), stored, acked)
      BY <1>0, <1>2, FailedAccounted
    <2>3. Accounted(Closed(q, "stopped"), stored, acked)
      BY <2>1, StoppedAccounted
    <2> HIDE DEF q
    <2>4. Becomes(c, ItemDone(q)) \/ Becomes(c, Closed(q, "stopped"))
      BY <1>2 DEF Fail, OutputError, q
    <2> QED  BY <2>2, <2>3, <2>4
  <1>3. ASSUME NEW r, Becomes(c, r), SameBatch(r, run[c]),
               \/ r.pc \in Before /\ run[c].pc \in Before
               \/ r.pc \in InBatch /\ run[c].pc \in InBatch,
               r.pc \in Acks => run[c].pc \in Acks
        PROVE  Done
    <2>1. run[c].pc \in Acks => run[c].item \in ReceiptsOf(run[c])
      BY <1>0 DEF Accounted
    <2> QED  BY <1>0, <1>3, <2>1, SameStage
  <1>4. ASSUME NEW l \in Label, NEW k, Becomes(c, [run[c] EXCEPT !.pc = l, !.attempt = k]),
               \/ l \in Before /\ run[c].pc \in Before
               \/ l \in InBatch /\ run[c].pc \in InBatch,
               l \in Acks => run[c].pc \in Acks
        PROVE  Done
    <2>1. PICK r : r = [run[c] EXCEPT !.pc = l, !.attempt = k]
      OBVIOUS
    <2>2. SameBatch(r, run[c]) /\ r.pc = l
      BY <1>0, <2>1 DEF SameBatch, Run
    <2> QED  BY <1>3, <1>4, <2>1, <2>2
  <1>5. CASE Start(c)
    BY <1>4, <1>5 DEF Start, Goto, At, Before, Label, Acks
  <1>6. CASE Sleep(c)
    <2>1. PICK left \in 0 .. run[c].left : Becomes(c, [run[c] EXCEPT !.pc = "list", !.left = left])
      BY <1>6 DEF Sleep
    <2>2. PICK r : r = [run[c] EXCEPT !.pc = "list", !.left = left]
      OBVIOUS
    <2>3. SameBatch(r, run[c]) /\ r.pc = "list" /\ run[c].pc = "sleep"
      BY <1>0, <1>6, <2>2 DEF SameBatch, Run, Sleep, At
    <2> QED  BY <1>3, <2>1, <2>2, <2>3 DEF Before, Acks
  <1>7. ASSUME Becomes(c, [run[c] EXCEPT !.attempt = @ + 1]),
               run[c].pc \in Before \cup InBatch
        PROVE  Done
    <2>1. PICK r : r = [run[c] EXCEPT !.attempt = @ + 1]
      OBVIOUS
    <2>2. SameBatch(r, run[c]) /\ r.pc = run[c].pc
      BY <1>0, <2>1 DEF SameBatch, Run
    <2> QED  BY <1>3, <1>7, <2>1, <2>2
  <1>8. CASE Retry(c)
    BY <1>7, <1>8 DEF Retry, Reading, Before, InBatch, WithItem
  <1>9. CASE ReadFails(c)
    BY <1>1, <1>2, <1>9 DEF ReadFails, Reading, At, WithItem
  <1>10. CASE ManifestRead(c)
    <2>1. PICK r : r = [run[c] EXCEPT !.pc = "prepare", !.attempt = 1,
                                     !.manifest = stored[run[c].item.u]]
      OBVIOUS
    <2>2. SameBatch(r, run[c]) /\ r.pc = "prepare" /\ run[c].pc = "manifest" /\ Becomes(c, r)
      BY <1>0, <1>10, <2>1 DEF SameBatch, Run, ManifestRead, At
    <2> QED  BY <1>3, <2>2 DEF InBatch, WithItem, Acks
  <1>11. CASE ChunkRead(c)
    <2>1. PICK l : l = IF run[c].got + 1 = Chunks[run[c].manifest] THEN "verify" ELSE "chunk"
      OBVIOUS
    <2>2. PICK r : r = [run[c] EXCEPT !.got = @ + 1, !.attempt = 1, !.pc = l]
      OBVIOUS
    <2>3. SameBatch(r, run[c]) /\ r.pc = l /\ run[c].pc = "chunk"
      BY <1>0, <1>11, <2>2 DEF SameBatch, Run, ChunkRead, At
    <2>4. Becomes(c, r)
      BY <1>11, <2>1, <2>2 DEF ChunkRead
    <2> QED  BY <1>3, <2>1, <2>3, <2>4 DEF InBatch, WithItem, Acks
  <1>12. CASE Prepare(c)
    BY <1>4, <1>12 DEF Prepare, Goto, At, InBatch, WithItem, Label, Acks
  <1>13. CASE Verify(c)
    BY <1>2, <1>4, <1>13 DEF Verify, Goto, At, InBatch, WithItem, Label, Acks
  <1>14. CASE NameTaken(c)
    BY <1>2, <1>7, <1>14 DEF NameTaken, At, InBatch, WithItem
  <1>15. CASE OutputFails(c)
    BY <1>2, <1>15 DEF OutputFails, WithItem
  <1>16. CASE SendAck(c)
    BY <1>4, <1>16 DEF SendAck, Goto, At, InBatch, WithItem, Label, Acks
  <1>17. CASE AckFails(c)
    BY <1>2, <1>17 DEF AckFails, WithItem
  <1>18. CASE Interrupted(c)
    BY <1>1, <1>2, <1>18 DEF Interrupted, At, WithItem
  <1>19. CASE Kill(c)
    BY <1>1, <1>19 DEF Kill
  <1>20. CASE Cancel(c)
    <2>1. PICK r : r = [run[c] EXCEPT !.cancelled = TRUE]
      OBVIOUS
    <2>2. SameBatch(r, run[c]) /\ r.pc = run[c].pc /\ Becomes(c, r)
      BY <1>0, <1>20, <2>1 DEF SameBatch, Run, Cancel
    <2>3. run[c].pc \in Before \cup InBatch
      BY <1>0, <1>20 DEF Cancel, Running, Run, Label, Ending, Before, InBatch, WithItem
    <2> QED  BY <1>3, <2>2, <2>3
  <1> QED  BY <1>5, <1>6, <1>8, <1>9, <1>10, <1>11, <1>12, <1>13, <1>14, <1>15, <1>16, <1>17,
              <1>18, <1>19, <1>20, ListReadAccounted, NextItemAccounted, LinkAccounted
           DEF Step

(* What the server has heard of a receipt that a command listed, it does not *)
(* forget: a body that is gone never comes back under its ID.                *)
LEMMA HeardStays ==
  ASSUME TypeInv, Traced, [Next]_vars, NEW w \in Receipt, Traceable(w), Heard(w, stored, acked)
  PROVE  Heard(w, stored', acked')
  <1> USE DEF Heard, TypeInv, ServerTyped
  <1>0. w.u \in Upload /\ w.x # None
    BY Labels
  <1>1. CASE UNCHANGED serverVars
    BY <1>1 DEF serverVars
  <1>2. ASSUME NEW p \in posts, AckArrives(p) PROVE Heard(w, stored', acked')
    <2>1. CASE acked' = acked \cup {p.u} /\ UNCHANGED stored
      BY <2>1
    <2>2. CASE stored' = [stored EXCEPT ![p.u] = None] /\ acked' = acked \ {p.u}
      BY <1>0, <2>2
    <2> QED  BY <1>2, <2>1, <2>2 DEF AckArrives
  <1>3. ASSUME NEW u \in Upload, Submit(u) PROVE Heard(w, stored', acked')
    <2>1. PICK x \in Sent[u] \ freed : stored' = [stored EXCEPT ![u] = x]
      BY <1>3 DEF Submit
    <2>2. stored[u] = None /\ acked' = acked
      BY <1>3 DEF Submit
    <2> QED  BY <1>0, <2>1, <2>2 DEF Traceable
  <1>4. ASSUME NEW c \in Collector, Step(c) \/ Start(c) \/ Cancel(c) \/ Kill(c)
        PROVE  UNCHANGED serverVars
    BY <1>4 DEF Step, ListRead, Sleep, NextItem, Retry, ReadFails, ManifestRead, Prepare, ChunkRead,
         Verify, Link, NameTaken, OutputFails, SendAck, AckFails, Interrupted, Start, Cancel, Kill
  <1>5. CASE \E p \in posts : AckRefused(p)
    BY <1>1, <1>5 DEF AckRefused
  <1> QED  BY <1>1, <1>2, <1>3, <1>4, <1>5 DEF Next, vars

LEMMA AccountedStays ==
  ASSUME TypeInv, Traced, [Next]_vars, NEW r \in Run, \A w \in r.want : Traceable(w),
         Accounted(r, stored, acked)
  PROVE  Accounted(r, stored', acked')
  <1>1. ASSUME Split(r), AckDue(r, stored, acked) PROVE AckDue(r, stored', acked')
    <2>1. ReceiptsOf(r) \subseteq r.want /\ r.want \subseteq Receipt
      BY <1>1 DEF Split, Run
    <2>2. \A w \in ReceiptsOf(r) : Heard(w, stored, acked) => Heard(w, stored', acked')
      BY <2>1, HeardStays
    <2> QED  BY <1>1, <2>2 DEF AckDue
  <1> QED  BY <1>1 DEF Accounted

LEMMA AccountedStep ==
  ASSUME TypeInv, Traced, AllAccounted, [Next]_vars
  PROVE  AllAccounted'
  <1>1. \A c \in Collector : Accounted(run[c], stored', acked')
    <2>1. ASSUME NEW c \in Collector PROVE Accounted(run[c], stored', acked')
      <3>1. run[c] \in Run /\ \A w \in run[c].want : Traceable(w)
        BY GoodRun DEF Traced, WantTraceable
      <3>2. Accounted(run[c], stored, acked)
        BY DEF AllAccounted
      <3> QED  BY <3>1, <3>2, AccountedStays
    <2> QED  BY <2>1
  <1>2. CASE UNCHANGED run
    BY <1>1, <1>2 DEF AllAccounted
  <1>3. ASSUME NEW c \in Collector, NEW r, Becomes(c, r), Accounted(r, stored', acked')
        PROVE  AllAccounted'
    <2>1. run'[c] = r /\ \A d \in Collector \ {c} : run'[d] = run[d]
      BY <1>3 DEF Becomes, TypeInv, RunsGood
    <2>2. \A d \in Collector : Accounted(run'[d], stored', acked')
      BY <1>1, <1>3, <2>1
    <2> QED  BY <2>2 DEF AllAccounted
  <1>4. ASSUME NEW c \in Collector, Step(c) \/ Start(c) \/ Cancel(c) \/ Kill(c)
        PROVE  AllAccounted'
    <2>1. stored' = stored /\ acked' = acked
      BY <1>4 DEF Step, ListRead, Sleep, NextItem, Retry, ReadFails, ManifestRead, Prepare, ChunkRead,
         Verify, Link, NameTaken, OutputFails, SendAck, AckFails, Interrupted, Start, Cancel, Kill, serverVars
    <2>2. PICK r : Becomes(c, r) /\ Accounted(r, stored, acked)
      BY <1>4, BatchStep
    <2> QED  BY <1>3, <2>1, <2>2
  <1>5. ASSUME NEW p \in posts, AckArrives(p), ~UNCHANGED run PROVE AllAccounted'
    <2> DEFINE r == run[p.by]
    <2>1. p.by \in Collector /\ p.u \in Upload
      BY DEF TypeInv, ServerTyped
    <2>2. r.pc = "acking" /\ r.item.u = p.u /\ Becomes(p.by, ItemDone(r))
      BY <1>5 DEF AckArrives, At
    <2>3. r \in Run /\ Good(r) /\ r.item \in Receipt
      BY <2>1, <2>2, GoodRun DEF Good, WithItem
    <2>4. Heard(r.item, stored', acked')
      BY <1>5, <2>1, <2>2, <2>3, Labels DEF AckArrives, Heard, TypeInv, ServerTyped
    <2>5. Split(r) /\ AckDue(r, stored', acked') /\ r.pc \in InBatch
      BY <1>1, <2>1, <2>2 DEF Accounted, InBatch, WithItem
    <2>6. r.item \in ReceiptsOf(r)
      BY <1>1, <2>1, <2>2 DEF Accounted, Acks
    <2> HIDE DEF r
    <2>7. Accounted(ItemDone(r), stored', acked')
      BY <2>3, <2>4, <2>5, <2>6, DoneAccounted
    <2> QED  BY <1>3, <2>1, <2>2, <2>7
  <1>6. CASE \E p \in posts : AckRefused(p)
    BY <1>2, <1>6 DEF AckRefused
  <1>7. CASE UNCHANGED vars \/ \E u \in Upload : Submit(u)
    BY <1>2, <1>7 DEF vars, Submit
  <1> QED  BY <1>2, <1>4, <1>5, <1>6, <1>7 DEF Next

LEMMA AccountedInit == Init => AllAccounted
  <1> SUFFICES ASSUME Init, NEW c \in Collector PROVE Accounted(run[c], stored, acked)
    BY DEF AllAccounted
  <1>1. PICK o \in Option : run[c] = NotStarted(o)
    BY DEF Init
  <1>2. run[c].pc = "idle" /\ run[c].saved = {}
    BY <1>1 DEF NotStarted, Waiting
  <1>3. "idle" \notin InBatch \cup Through \cup Acks
    BY DEF InBatch, Through, WithItem, Acks
  <1> QED  BY <1>2, <1>3 DEF Accounted, Through

LEMMA AccountedFollows ==
  ASSUME TypeInv, AllAccounted
  PROVE  BatchAccounted
  <1> SUFFICES ASSUME NEW c \in Collector, run[c].pc \in Through
               PROVE  /\ run[c].want = ReceiptsOf(run[c]) \cup (run[c].failed \cap Receipt)
                      /\ run[c].pc = "ok" =>
                           /\ run[c].want = ReceiptsOf(run[c])
                           /\ \A u \in run[c].opt.ids : \E w \in run[c].want : w.u = u
                           /\ run[c].opt.acknowledge => \A w \in run[c].want : AckHeard(w)
    BY DEF BatchAccounted, Through
  <1>1. PICK r : r = run[c]
    OBVIOUS
  <1>2. Split(r) /\ AckDue(r, stored, acked) /\ r.todo = {} /\ (r.pc = "ok" => r.failed = {})
    BY <1>1 DEF AllAccounted, Accounted
  <1>3. r \in Run /\ r.item = None /\ None \notin Receipt
    BY <1>1, GoodRun, CollectorAssumption DEF Good, Through, WithItem
  <1>4. r.want = ReceiptsOf(r) \cup (r.failed \cap Receipt)
    BY <1>2, <1>3 DEF Split
  <1>5. ASSUME r.pc = "ok", r.opt.acknowledge, NEW w \in r.want PROVE AckHeard(w)
    <2>1. w \in ReceiptsOf(r) /\ w # r.item /\ w \notin r.failed
      BY <1>2, <1>3, <1>4, <1>5 DEF Run
    <2> QED  BY <1>2, <1>5, <2>1 DEF AckDue, Heard, AckHeard
  <1> QED  BY <1>1, <1>2, <1>4, <1>5 DEF Split

(* A batch that ran to its end accounts for every receipt it selected; one   *)
(* reported whole saved them all, and the server has heard of each.          *)
THEOREM BatchesAccounted == Spec => []BatchAccounted
  <1>1. TypeInv /\ Traced /\ AllAccounted /\ [Next]_vars => (TypeInv /\ Traced /\ AllAccounted)'
    BY TypeStep, TracedStep, AccountedStep
  <1>2. Init => TypeInv /\ Traced /\ AllAccounted
    BY TypeInit, TracedInit, AccountedInit
  <1>3. TypeInv /\ AllAccounted => BatchAccounted
    BY AccountedFollows
  <1> QED  BY <1>1, <1>2, <1>3, PTL DEF Spec

-----------------------------------------------------------------------------
(* Every step of a command leads on.  A poll is only waited for while there  *)
(* is time left, and chunks are counted from none to the manifest's number.  *)

Paced(r) ==
  /\ r.pc = "sleep" => r.left # 0
  /\ r.pc \in {"idle", "list", "sleep", "next", "manifest", "prepare"} => r.got = 0
  /\ r.pc = "chunk" => r.got < Chunks[r.manifest]
AllPaced == \A c \in Collector : Paced(run[c])

Onward(c) == \E r : Becomes(c, r) /\ Paced(r) /\ (Running(c) => Closer(run[c], r))

LEMMA EndsOnward ==
  ASSUME NEW c \in Collector, NEW r, NEW e \in Ending, Becomes(c, Closed(r, e)), r \in Run
  PROVE  Onward(c)
  <1>1. PICK q : q = Closed(r, e)
    OBVIOUS
  <1>2. q.pc = e
    BY <1>1 DEF Closed, Run
  <1>3. Paced(q) /\ Closer(run[c], q)
    BY <1>2 DEF Paced, Closer, Ending
  <1> QED  BY <1>1, <1>3 DEF Onward

(* A step to a later stage that leaves the time and the batch alone.        *)
LEMMA LaterOnward ==
  ASSUME TypeInv, NEW c \in Collector, NEW q, Becomes(c, q), Paced(q),
         q.left = run[c].left, q.todo = run[c].todo,
         Stage(run[c].pc) < Stage(q.pc), Polling(run[c]) <=> Polling(q)
  PROVE  Onward(c)
  BY DEF Onward, Closer

LEMMA FailOnward ==
  ASSUME TypeInv, NEW c \in Collector, run[c].pc \in WithItem, Fail(c) \/ OutputError(c)
  PROVE  Onward(c)
  <1>1. run[c] \in Run /\ Good(run[c])
    BY GoodRun
  <1>2. PICK r : r = ItemFailed(run[c])
    OBVIOUS
  <1>3. r \in Run /\ r.left = run[c].left /\ r.todo = run[c].todo
    <2>1. Good(r)
      BY <1>1, <1>2, ItemFailedGood DEF Good
    <2> QED  BY <1>1, <1>2, <2>1 DEF Good, ItemFailed, Run
  <1>4. CASE Becomes(c, Closed(r, "stopped"))
    BY <1>3, <1>4, EndsOnward DEF Ending
  <1>5. CASE Becomes(c, ItemDone(r))
    <2>1. PICK q : q = ItemDone(r)
      OBVIOUS
    <2>2. q.pc = "next" /\ q.got = 0 /\ q.left = r.left /\ q.todo = r.todo
      BY <1>3, <2>1 DEF ItemDone, Run
    <2>3. Paced(q) /\ Stage(run[c].pc) < Stage(q.pc) /\ (Polling(run[c]) <=> Polling(q))
      BY <2>2 DEF Paced, Stage, Polling, WithItem
    <2> QED  BY <1>3, <1>5, <2>1, <2>2, <2>3, LaterOnward
  <1> QED  BY <1>2, <1>4, <1>5 DEF Fail, OutputError

(* The moves along a batch in hand, and from list to sleep. *)
LEMMA MovesOnward ==
  ASSUME TypeInv, AllPaced, NEW c \in Collector, NEW l \in Label, NEW k,
         Becomes(c, [run[c] EXCEPT !.pc = l, !.attempt = k]),
         \/ run[c].pc = "list" /\ l = "sleep" /\ run[c].left # 0
         \/ run[c].pc = "prepare" /\ l = "chunk"
         \/ run[c].pc = "verify" /\ l = "publish"
         \/ run[c].pc = "ack" /\ l = "acking"
         \/ run[c].pc = "idle" /\ l = "list"
  PROVE  Onward(c)
  <1>1. run[c] \in Run /\ Good(run[c]) /\ Paced(run[c])
    BY GoodRun DEF AllPaced
  <1>2. PICK q : q = [run[c] EXCEPT !.pc = l, !.attempt = k]
    OBVIOUS
  <1>3. /\ q.pc = l /\ q.left = run[c].left /\ q.todo = run[c].todo /\ q.got = run[c].got
        /\ q.manifest = run[c].manifest
    BY <1>1, <1>2 DEF Run
  <1>4. Paced(q)
    <2>1. run[c].pc = "prepare" => run[c].manifest \in Body
      BY <1>1 DEF Good, WithManifest
    <2>2. run[c].pc = "prepare" => 0 < Chunks[run[c].manifest]
      BY <2>1, CollectorAssumption
    <2> QED  BY <1>1, <1>3, <2>2 DEF Paced
  <1>5. run[c].pc # "idle" => Stage(run[c].pc) < Stage(l)
    BY DEF Stage
  <1>6. run[c].pc # "idle" => (Polling(run[c]) <=> Polling(q))
    BY <1>3 DEF Polling
  <1>7. CASE run[c].pc = "idle"
    BY <1>2, <1>4, <1>7 DEF Onward, Running
  <1> QED  BY <1>2, <1>3, <1>4, <1>5, <1>6, <1>7, LaterOnward

LEMMA AttemptOnward ==
  ASSUME TypeInv, AllPaced, NEW c \in Collector, Becomes(c, [run[c] EXCEPT !.attempt = @ + 1])
  PROVE  Onward(c)
  <1>1. run[c] \in Run /\ Paced(run[c])
    BY GoodRun DEF AllPaced
  <1>2. PICK q : q = [run[c] EXCEPT !.attempt = @ + 1]
    OBVIOUS
  <1>3. /\ q.pc = run[c].pc /\ q.left = run[c].left /\ q.todo = run[c].todo /\ q.got = run[c].got
        /\ q.manifest = run[c].manifest /\ run[c].attempt < q.attempt
    BY <1>1, <1>2 DEF Run
  <1>4. Paced(q)
    BY <1>1, <1>3 DEF Paced
  <1>5. Closer(run[c], q)
    BY <1>3 DEF Closer, WithinStage, Polling
  <1> QED  BY <1>2, <1>4, <1>5 DEF Onward

LEMMA ListOnward ==
  ASSUME TypeInv, AllPaced, NEW c \in Collector, ListRead(c)
  PROVE  Onward(c)
  <1> DEFINE o == run[c].opt
             chosen == [run[c] EXCEPT !.pc = "next", !.attempt = 1, !.left = 0,
                               !.want = Selected(o), !.todo = Selected(o),
                               !.failed = {[u |-> u, x |-> None] : u \in Absent(o)}]
  <1>1. run[c] \in Run /\ run[c].pc = "list" /\ Paced(run[c])
    BY GoodRun DEF ListRead, At, AllPaced
  <1>2. CASE Becomes(c, Closed(chosen, "stopped"))
    <2>1. PICK q : q = Closed(chosen, "stopped")
      OBVIOUS
    <2>2. q.pc = "stopped"
      BY <1>1, <2>1 DEF Closed, Run
    <2>3. Paced(q) /\ Closer(run[c], q)
      BY <2>2 DEF Paced, Closer, Ending
    <2> QED  BY <1>2, <2>1, <2>3 DEF Onward
  <1>3. CASE Becomes(c, chosen)
    <2>1. PICK q : q = chosen
      OBVIOUS
    <2>2. q.pc = "next" /\ q.got = 0
      BY <1>1, <2>1 DEF Run, Paced
    <2>3. Paced(q) /\ Closer(run[c], q)
      BY <1>1, <2>2 DEF Paced, Closer, Polling
    <2> QED  BY <1>3, <2>1, <2>3 DEF Onward
  <1>4. CASE run[c].left # 0 /\ Goto(c, "sleep")
    BY <1>1, <1>4, MovesOnward DEF Goto, Label
  <1>5. CASE Ended(c, "stopped")
    BY <1>1, <1>5, EndsOnward DEF Ended, Ending
  <1> QED  BY <1>2, <1>3, <1>4, <1>5 DEF ListRead

LEMMA SleepOnward ==
  ASSUME TypeInv, AllPaced, NEW c \in Collector, Sleep(c)
  PROVE  Onward(c)
  <1>1. run[c] \in Run /\ run[c].pc = "sleep" /\ Paced(run[c])
    BY GoodRun DEF Sleep, At, AllPaced
  <1>2. PICK left \in 0 .. run[c].left :
          /\ left = 0 \/ left + PollInterval <= run[c].left
          /\ Becomes(c, [run[c] EXCEPT !.pc = "list", !.left = left])
    BY DEF Sleep
  <1>3. left < run[c].left
    BY <1>1, <1>2, CollectorAssumption DEF Paced, Run
  <1>4. PICK q : q = [run[c] EXCEPT !.pc = "list", !.left = left]
    OBVIOUS
  <1>5. q.pc = "list" /\ q.left = left /\ q.got = run[c].got
    BY <1>1, <1>4 DEF Run
  <1>6. Paced(q) /\ Closer(run[c], q)
    BY <1>1, <1>3, <1>5 DEF Paced, Closer, Polling
  <1> QED  BY <1>2, <1>4, <1>6 DEF Onward

LEMMA NextOnward ==
  ASSUME TypeInv, AllPaced, NEW c \in Collector, NextItem(c)
  PROVE  Onward(c)
  <1>1. run[c] \in Run /\ run[c].pc = "next" /\ Paced(run[c])
    BY GoodRun DEF NextItem, At, AllPaced
  <1>2. CASE Ended(c, Verdict(run[c]))
    BY <1>1, <1>2, EndsOnward DEF Ended, Verdict, Ending
  <1>3. ASSUME NEW r \in run[c].todo,
               Becomes(c, [run[c] EXCEPT !.pc = "manifest", !.item = r, !.todo = @ \ {r}])
        PROVE  Onward(c)
    <2>1. PICK q : q = [run[c] EXCEPT !.pc = "manifest", !.item = r, !.todo = @ \ {r}]
      OBVIOUS
    <2>2. /\ q.pc = "manifest" /\ q.left = run[c].left /\ q.todo = run[c].todo \ {r}
          /\ q.got = run[c].got
      BY <1>1, <2>1 DEF Run
    <2>3. Paced(q)
      BY <1>1, <2>2 DEF Paced
    <2>4. q.todo \subseteq run[c].todo /\ q.todo # run[c].todo
      BY <1>3, <2>2
    <2>5. Closer(run[c], q)
      BY <1>1, <2>2, <2>4 DEF Closer, Polling
    <2> QED  BY <1>3, <2>1, <2>3, <2>5 DEF Onward
  <1> QED  BY <1>2, <1>3 DEF NextItem

LEMMA ManifestOnward ==
  ASSUME TypeInv, AllPaced, NEW c \in Collector, ManifestRead(c)
  PROVE  Onward(c)
  <1>1. run[c] \in Run /\ run[c].pc = "manifest" /\ Paced(run[c])
    BY GoodRun DEF ManifestRead, At, AllPaced
  <1>2. PICK q : q = [run[c] EXCEPT !.pc = "prepare", !.attempt = 1,
                                   !.manifest = stored[run[c].item.u]]
    OBVIOUS
  <1>3. /\ q.pc = "prepare" /\ q.left = run[c].left /\ q.todo = run[c].todo
        /\ q.got = run[c].got
    BY <1>1, <1>2 DEF Run
  <1>4. Paced(q) /\ Stage(run[c].pc) < Stage(q.pc) /\ (Polling(run[c]) <=> Polling(q))
    BY <1>1, <1>3 DEF Paced, Stage, Polling
  <1> QED  BY <1>2, <1>3, <1>4, LaterOnward DEF ManifestRead

LEMMA ChunkOnward ==
  ASSUME TypeInv, AllPaced, NEW c \in Collector, ChunkRead(c)
  PROVE  Onward(c)
  <1>1. run[c] \in Run /\ Good(run[c]) /\ run[c].pc = "chunk" /\ Paced(run[c])
    BY GoodRun DEF ChunkRead, At, AllPaced
  <1>2. run[c].manifest \in Body /\ Chunks[run[c].manifest] \in Nat
    BY <1>1, CollectorAssumption DEF Good, WithManifest
  <1>3. PICK l : l = IF run[c].got + 1 = Chunks[run[c].manifest] THEN "verify" ELSE "chunk"
    OBVIOUS
  <1>4. PICK q : q = [run[c] EXCEPT !.got = @ + 1, !.attempt = 1, !.pc = l]
    OBVIOUS
  <1>5. Becomes(c, q)
    BY <1>3, <1>4 DEF ChunkRead
  <1>6. /\ q.pc = l /\ q.left = run[c].left /\ q.todo = run[c].todo
        /\ q.got = run[c].got + 1 /\ q.manifest = run[c].manifest
    BY <1>1, <1>4 DEF Run
  <1>7. run[c].got \in Nat /\ run[c].got < Chunks[run[c].manifest]
    BY <1>1 DEF Run, Paced
  <1>8. Polling(run[c]) <=> Polling(q)
    BY <1>1, <1>3, <1>6 DEF Polling
  <1>9. CASE l = "verify"
    <2>1. Paced(q) /\ Stage(run[c].pc) < Stage(q.pc)
      BY <1>1, <1>6, <1>9 DEF Paced, Stage
    <2> QED  BY <1>5, <1>6, <1>8, <2>1, LaterOnward
  <1>10. CASE l = "chunk" /\ run[c].got + 1 # Chunks[run[c].manifest]
    <2>1. q.got < Chunks[q.manifest] /\ run[c].got < q.got
      BY <1>2, <1>6, <1>7, <1>10
    <2>2. Paced(q)
      BY <1>6, <1>10, <2>1 DEF Paced
    <2>3. WithinStage(run[c], q)
      BY <1>1, <1>2, <1>6, <1>7, <1>10, <2>1 DEF WithinStage
    <2>4. Closer(run[c], q)
      BY <1>6, <1>8, <2>3 DEF Closer
    <2> QED  BY <1>5, <2>2, <2>4 DEF Onward
  <1> QED  BY <1>3, <1>9, <1>10

LEMMA LinkOnward ==
  ASSUME TypeInv, AllPaced, NEW c \in Collector, Link(c)
  PROVE  Onward(c)
  <1>1. run[c] \in Run /\ run[c].pc = "publish"
    BY GoodRun DEF Link, At
  <1>2. PICK f : f = Candidate(run[c])
    OBVIOUS
  <1>3. PICK s : s = [run[c] EXCEPT !.saved = @ \cup {[receipt |-> run[c].item, at |-> f]}]
    OBVIOUS
  <1>4. s.left = run[c].left /\ s.todo = run[c].todo /\ s.pc = "publish" /\ DOMAIN s = DOMAIN run[c]
    BY <1>1, <1>3 DEF Run
  <1>5. Becomes(c, IF run[c].opt.acknowledge THEN [s EXCEPT !.pc = "ack", !.attempt = 1]
                   ELSE ItemDone(s))
    <2>1. s.opt = run[c].opt
      BY <1>1, <1>3 DEF Run
    <2>2. [run[c] EXCEPT !.saved = @ \cup {[receipt |-> run[c].item, at |-> f]}].opt.acknowledge
            = run[c].opt.acknowledge
      BY <1>3, <2>1
    <2> QED  BY <1>2, <1>3, <2>2 DEF Link, Published
  <1>6. CASE Becomes(c, [s EXCEPT !.pc = "ack", !.attempt = 1])
    <2>1. PICK q : q = [s EXCEPT !.pc = "ack", !.attempt = 1]
      OBVIOUS
    <2>2. q.pc = "ack" /\ q.left = run[c].left /\ q.todo = run[c].todo
      BY <1>1, <1>3, <2>1 DEF Run
    <2>3. Paced(q) /\ Stage(run[c].pc) < Stage(q.pc) /\ (Polling(run[c]) <=> Polling(q))
      BY <1>1, <2>2 DEF Paced, Stage, Polling
    <2> QED  BY <1>6, <2>1, <2>2, <2>3, LaterOnward
  <1>7. CASE Becomes(c, ItemDone(s))
    <2>1. PICK q : q = ItemDone(s)
      OBVIOUS
    <2>2. q.pc = "next" /\ q.got = 0 /\ q.left = run[c].left /\ q.todo = run[c].todo
      BY <1>1, <1>3, <2>1 DEF ItemDone, Run
    <2>3. Paced(q) /\ Stage(run[c].pc) < Stage(q.pc) /\ (Polling(run[c]) <=> Polling(q))
      BY <1>1, <2>2 DEF Paced, Stage, Polling
    <2> QED  BY <1>7, <2>1, <2>2, <2>3, LaterOnward
  <1> QED  BY <1>5, <1>6, <1>7

LEMMA CancelOnward ==
  ASSUME TypeInv, AllPaced, NEW c \in Collector, Cancel(c)
  PROVE  Onward(c)
  <1>1. run[c] \in Run /\ Paced(run[c]) /\ ~run[c].cancelled
    BY GoodRun DEF Cancel, AllPaced
  <1>2. PICK q : q = [run[c] EXCEPT !.cancelled = TRUE]
    OBVIOUS
  <1>3. /\ q.pc = run[c].pc /\ q.left = run[c].left /\ q.todo = run[c].todo /\ q.got = run[c].got
        /\ q.manifest = run[c].manifest /\ q.attempt = run[c].attempt
    BY <1>1, <1>2 DEF Run
  <1>c. q.cancelled
    BY <1>1, <1>2 DEF Run
  <1>4. Paced(q)
    BY <1>1, <1>3 DEF Paced
  <1>5. WithinStage(run[c], q)
    BY <1>1, <1>3, <1>c DEF WithinStage
  <1>6. Closer(run[c], q)
    BY <1>3, <1>5 DEF Closer, Polling
  <1> QED  BY <1>2, <1>4, <1>6 DEF Onward, Cancel

LEMMA CommandOnward ==
  ASSUME TypeInv, AllPaced, NEW c \in Collector, Step(c) \/ Start(c) \/ Cancel(c) \/ Kill(c)
  PROVE  Onward(c)
  <1>0. run[c] \in Run
    BY GoodRun
  <1>e. ASSUME NEW e \in {"stopped", "killed"}, Ended(c, e) PROVE Onward(c)
    BY <1>0, <1>e, EndsOnward DEF Ended, Ending
  <1>1. CASE Start(c) \/ Prepare(c) \/ SendAck(c)
    BY <1>1, MovesOnward DEF Start, Prepare, SendAck, Goto, At, Label
  <1>2. CASE Retry(c)
    BY <1>2, AttemptOnward DEF Retry
  <1>3. CASE ReadFails(c)
    BY <1>e, <1>3, FailOnward DEF ReadFails, Reading, At, WithItem
  <1>4. CASE Verify(c)
    BY <1>4, MovesOnward, FailOnward DEF Verify, Goto, At, Label, WithItem
  <1>5. CASE NameTaken(c)
    BY <1>5, AttemptOnward, FailOnward DEF NameTaken, At, WithItem
  <1>6. CASE OutputFails(c) \/ AckFails(c)
    BY <1>6, FailOnward DEF OutputFails, AckFails, WithItem
  <1>7. CASE Interrupted(c)
    BY <1>e, <1>7, FailOnward DEF Interrupted, At, WithItem
  <1>8. CASE Kill(c)
    BY <1>e, <1>8 DEF Kill
  <1> QED  BY <1>1, <1>2, <1>3, <1>4, <1>5, <1>6, <1>7, <1>8, ListOnward, SleepOnward, NextOnward,
              ManifestOnward, ChunkOnward, LinkOnward, CancelOnward
           DEF Step

(* The server's answer ends the item in hand. *)
LEMMA AckOnward ==
  ASSUME TypeInv, NEW c \in Collector, run[c].pc = "acking", Becomes(c, ItemDone(run[c]))
  PROVE  Onward(c)
  <1>1. run[c] \in Run
    BY GoodRun
  <1>2. PICK q : q = ItemDone(run[c])
    OBVIOUS
  <1>3. q.pc = "next" /\ q.got = 0 /\ q.left = run[c].left /\ q.todo = run[c].todo
    BY <1>1, <1>2 DEF ItemDone, Run
  <1>4. Paced(q) /\ Stage(run[c].pc) < Stage(q.pc) /\ (Polling(run[c]) <=> Polling(q))
    BY <1>3 DEF Paced, Stage, Polling
  <1> QED  BY <1>2, <1>3, <1>4, LaterOnward

Advancing == \A c \in Collector : Running(c) /\ run'[c] # run[c] => Closer(run[c], run'[c])

LEMMA AdvanceStep ==
  ASSUME TypeInv, AllPaced, [Next]_vars
  PROVE  AllPaced' /\ Advancing
  <1>1. ASSUME NEW c \in Collector, Onward(c)
        PROVE  AllPaced' /\ Advancing
    <2>1. PICK r : run' = [run EXCEPT ![c] = r] /\ Paced(r) /\ (Running(c) => Closer(run[c], r))
      BY <1>1 DEF Onward, Becomes
    <2>2. \A d \in Collector : run'[d] = IF d = c THEN r ELSE run[d]
      BY <2>1 DEF TypeInv, RunsGood
    <2>3. AllPaced'
      BY <2>1, <2>2 DEF AllPaced
    <2> QED  BY <2>1, <2>2, <2>3 DEF Advancing
  <1>2. CASE run' = run
    BY <1>2 DEF AllPaced, Advancing
  <1>3. ASSUME NEW p \in posts, AckArrives(p) \/ AckRefused(p)
        PROVE  AllPaced' /\ Advancing
    <2>1. p.by \in Collector
      BY DEF TypeInv, ServerTyped
    <2> QED  BY <1>1, <1>2, <1>3, <2>1, AckOnward DEF AckArrives, AckRefused, At
  <1> QED  BY <1>1, <1>2, <1>3, CommandOnward DEF Next, Submit, vars

LEMMA PacedInit == Init => AllPaced
  <1> SUFFICES ASSUME Init, NEW c \in Collector PROVE Paced(run[c])
    BY DEF AllPaced
  <1>1. PICK o \in Option : run[c] = NotStarted(o)
    BY DEF Init
  <1>2. run[c].pc = "idle" /\ run[c].got = 0
    BY <1>1 DEF NotStarted, Waiting
  <1> QED  BY <1>2 DEF Paced

(* Every step of a running command brings it closer to its end, for any      *)
(* options, limits and commands, whatever the server and the network do.     *)
THEOREM CommandsGoForward == Spec => CommandsAdvance
  <1>1. TypeInv /\ AllPaced /\ [Next]_vars => (TypeInv /\ AllPaced)'
    BY TypeStep, AdvanceStep
  <1>2. TypeInv /\ AllPaced /\ [Next]_vars => [Advancing]_vars
    BY AdvanceStep
  <1>3. CommandsAdvance <=> [][Advancing]_vars
    BY DEF CommandsAdvance, Advancing
  <1> QED  BY <1>1, <1>2, <1>3, TypeInit, PacedInit, PTL DEF Spec
=============================================================================
