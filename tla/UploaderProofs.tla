--------------------------- MODULE UploaderProofs ---------------------------
(***************************************************************************)
(* Proofs about Uploader, for any batch, contents and other senders, any   *)
(* number of attempts and of late requests.  A sealed upload of the ledger *)
(* matches its seal, whoever stored its parts (Sealed); what an answer     *)
(* tells the page then decides what the page may conclude.                 *)
(***************************************************************************)
EXTENDS Uploader, ManifestsProofs

Page == [k : DOMAIN Batch, pc : Step \cup Ending, i : Index, attempt : 1 .. Attempts]
PageOK(p) == p \in Page /\ p.i \in Indices(Mine(p))

SealedSlot(s) == s # None /\ s.seal # None => AllFit(s.parts, s.m) /\ s.seal = ReceiptOf(s.parts, s.m)
Sealed == \A u \in Upload : SealedSlot(slot[u])

LEMMA Counts ==
  ASSUME NEW m \in Manifest
  PROVE  /\ Count(m) \in Nat \ {0} /\ Indices(m) = 0 .. Count(m) - 1 /\ 0 \in Indices(m)
         /\ Indices(m) \subseteq Index /\ Index \subseteq Nat
  <1>1. \A x \in Manifest : Count(x) \in Nat \ {0}
    <2>1. ASSUME NEW x \in Manifest PROVE Count(x) \in Nat \ {0}
      <3>1. PlainSize[x] \in Nat /\ ChunkSize[x] \in Nat \ {0}
        BY SizesAssumption
      <3> QED  BY <3>1, CountBounds DEF Count
    <2> QED  BY <2>1
  <1>2. \A x \in Manifest : Indices(x) \subseteq Nat /\ 0 \in Indices(x)
    BY <1>1 DEF Indices
  <1> QED  BY <1>1, <1>2 DEF Indices, Index

LEMMA Batches ==
  /\ Len(Batch) \in Nat /\ 1 \in DOMAIN Batch /\ DOMAIN Batch = 1 .. Len(Batch)
  /\ \A k \in DOMAIN Batch : Batch[k] \in Manifest /\ IdOf[Batch[k]] \in Upload
  BY UploaderAssumption

LEMMA MineIsOurs ==
  ASSUME NEW p, PageOK(p)
  PROVE  Mine(p) \in Manifest /\ IdOf[Mine(p)] \in Upload /\ Content[Mine(p)] \in [Indices(Mine(p)) -> Digest]
  BY Batches, UploaderAssumption DEF Mine, PageOK, Page

LEMMA Steps == Step \cap Ending = {} /\ Attempts \in Nat \ {0} /\ 1 \in 1 .. Attempts
  BY UploaderAssumption DEF Step, Ending

-----------------------------------------------------------------------------
(* What the page may become. *)

LEMMA StopOK ==
  ASSUME NEW p, PageOK(p), NEW why \in Ending
  PROVE  PageOK(Stop(p, why)) /\ Stop(p, why).k = p.k /\ Stop(p, why).pc = why
  <1>1. PICK q : q = Stop(p, why)
    OBVIOUS
  <1>2. p.k \in DOMAIN Batch /\ 0 \in Indices(Mine(p)) /\ 0 \in Index
    BY MineIsOurs, Counts DEF PageOK, Page
  <1>3. q \in Page /\ q.k = p.k /\ q.pc = why /\ q.i = 0
    BY <1>1, <1>2, Steps DEF Stop, PageOK, Page
  <1>4. Mine(q) = Mine(p)
    BY <1>3 DEF Mine
  <1> QED  BY <1>1, <1>2, <1>3, <1>4 DEF PageOK

LEMMA GoOnOK ==
  ASSUME NEW p, PageOK(p), NEW step \in Step, NEW i \in Indices(Mine(p))
  PROVE  PageOK(GoOn(p, step, i)) /\ GoOn(p, step, i).k = p.k /\ GoOn(p, step, i).pc = step
  <1>1. PICK q : q = GoOn(p, step, i)
    OBVIOUS
  <1>2. p.k \in DOMAIN Batch /\ i \in Index
    BY MineIsOurs, Counts DEF PageOK, Page
  <1>3. q \in Page /\ q.k = p.k /\ q.pc = step /\ q.i = i
    BY <1>1, <1>2, Steps DEF GoOn, PageOK, Page
  <1>4. Mine(q) = Mine(p)
    BY <1>3 DEF Mine
  <1> QED  BY <1>1, <1>3, <1>4 DEF PageOK

LEMMA NextFileOK ==
  ASSUME NEW p, PageOK(p)
  PROVE  PageOK(NextFile(p)) /\ NextFile(p).pc \in {"done", "begin"}
  <1>1. CASE p.k = Len(Batch)
    BY <1>1, StopOK DEF NextFile, Ending
  <1>2. CASE p.k # Len(Batch)
    <2>1. PICK q : q = StartOf(p.k + 1)
      OBVIOUS
    <2>2. p.k + 1 \in DOMAIN Batch
      BY <1>2, Batches DEF PageOK, Page
    <2>3. 0 \in Indices(Batch[p.k + 1]) /\ 0 \in Index
      BY <2>2, Batches, Counts
    <2>4. q \in Page /\ q.k = p.k + 1 /\ q.i = 0 /\ q.pc = "begin"
      BY <2>1, <2>2, <2>3, Steps DEF StartOf, Page, Step
    <2> QED  BY <1>2, <2>1, <2>3, <2>4 DEF NextFile, PageOK, Mine
  <1> QED  BY <1>1, <1>2

(* Neither a retry nor the step after a chunk ends a file. *)
LEMMA TryAgainOK ==
  ASSUME NEW p, PageOK(p), Open(p)
  PROVE  /\ PageOK(TryAgain(p)) /\ TryAgain(p).k = p.k
         /\ TryAgain(p).pc \in Step \cup {"exhausted"}
  <1>1. CASE p.attempt = Attempts
    BY <1>1, StopOK DEF TryAgain, Ending
  <1>2. CASE p.attempt # Attempts
    <2>1. PICK q : q = TryAgain(p)
      OBVIOUS
    <2>2. p.attempt \in 1 .. Attempts /\ p.pc \in Step
      BY DEF PageOK, Page, Open
    <2>3. p.attempt + 1 \in 1 .. Attempts
      BY <1>2, <2>2, Steps
    <2>4. PICK l \in Step : l = IF p.pc = "head" THEN "put" ELSE p.pc
      BY <2>2 DEF Step
    <2>5. q = [p EXCEPT !.attempt = @ + 1, !.pc = l]
      BY <1>2, <2>1, <2>4 DEF TryAgain
    <2>6. q \in Page /\ q.k = p.k /\ q.i = p.i /\ q.pc = l
      BY <2>3, <2>5 DEF PageOK, Page
    <2> QED  BY <2>1, <2>6 DEF PageOK, Mine
  <1> QED  BY <1>1, <1>2

LEMMA ChunkDoneOK ==
  ASSUME NEW p, PageOK(p)
  PROVE  PageOK(ChunkDone(p)) /\ ChunkDone(p).k = p.k /\ ChunkDone(p).pc \in Step
  <1>1. Mine(p) \in Manifest /\ p.i \in Indices(Mine(p))
    BY MineIsOurs DEF PageOK
  <1>2. p.i + 1 < Count(Mine(p)) => p.i + 1 \in Indices(Mine(p))
    BY <1>1, Counts
  <1>3. 0 \in Indices(Mine(p)) /\ "put" \in Step /\ "complete" \in Step
    BY <1>1, Counts DEF Step
  <1> QED  BY <1>2, <1>3, GoOnOK DEF ChunkDone

(* Only a completion whose receipt is the page's own ends a file. *)
FileEnds(p, q) == q.k # p.k \/ q.pc = "done"

LEMMA ReactOK ==
  ASSUME NEW p, PageOK(p), Open(p), NEW answer \in Answer, NEW said
  PROVE  /\ PageOK(React(p, answer, said))
         /\ FileEnds(p, React(p, answer, said)) =>
              answer = "ok" /\ p.pc = "complete" /\ said = OwnReceipt(Mine(p))
         /\ React(p, answer, said).pc = "conflict" =>
              answer = "conflict" /\ p.pc \in {"begin", "head", "complete"}
         /\ React(p, answer, said).pc = "mismatch" =>
              /\ answer = "ok"
              /\ \/ p.pc = "head" /\ said # Content[Mine(p)][p.i]
                 \/ p.pc = "complete" /\ said # OwnReceipt(Mine(p))
  <1> DEFINE q == React(p, answer, said)
  <1>0. p.pc \in Step /\ p.i \in Indices(Mine(p)) /\ 0 \in Indices(Mine(p))
    BY MineIsOurs, Counts DEF Open, PageOK
  <1>1. CASE answer = "temporary"
    <2>1. q = TryAgain(p)
      BY <1>1 DEF React
    <2> QED  BY <1>1, <2>1, TryAgainOK DEF FileEnds, Step
  <1>2. CASE answer = "refused"
    <2>1. q = Stop(p, "refused")
      BY <1>2 DEF React
    <2> QED  BY <2>1, StopOK DEF FileEnds, Ending
  <1>3. CASE answer = "conflict"
    <2>1. q = OnConflict(p)
      BY <1>3 DEF React
    <2>2. CASE p.pc = "put"
      <3>1. q = [p EXCEPT !.pc = "head"]
        BY <2>1, <2>2 DEF OnConflict
      <3>2. q \in Page /\ q.k = p.k /\ q.i = p.i /\ q.pc = "head"
        BY <3>1 DEF PageOK, Page, Step
      <3> QED  BY <3>2 DEF PageOK, Mine, FileEnds
    <2>3. CASE p.pc # "put"
      <3>1. q = Stop(p, "conflict")
        BY <2>1, <2>3 DEF OnConflict
      <3> QED  BY <1>0, <1>3, <2>3, <3>1, StopOK DEF FileEnds, Ending, Step
    <2> QED  BY <2>2, <2>3
  <1>4. CASE answer = "ok"
    <2>1. q = OnOk(p, said)
      BY <1>4 DEF React
    <2>2. CASE p.pc = "begin"
      <3>1. q = GoOn(p, "put", 0)
        BY <2>1, <2>2 DEF OnOk
      <3> QED  BY <1>0, <3>1, GoOnOK DEF FileEnds, Step
    <2>3. CASE p.pc = "put"
      <3>1. q = ChunkDone(p)
        BY <2>1, <2>3 DEF OnOk
      <3> QED  BY <3>1, ChunkDoneOK DEF FileEnds, Step
    <2>4. CASE p.pc = "head"
      <3>1. q = IF said = Content[Mine(p)][p.i] THEN ChunkDone(p) ELSE Stop(p, "mismatch")
        BY <2>1, <2>4 DEF OnOk
      <3> QED  BY <1>4, <2>4, <3>1, ChunkDoneOK, StopOK DEF FileEnds, Step, Ending
    <2>5. CASE p.pc = "complete"
      <3>1. q = IF said = OwnReceipt(Mine(p)) THEN NextFile(p) ELSE Stop(p, "mismatch")
        BY <2>1, <2>5 DEF OnOk
      <3> QED  BY <1>4, <2>5, <3>1, NextFileOK, StopOK DEF FileEnds, Ending
    <2> QED  BY <1>0, <2>2, <2>3, <2>4, <2>5 DEF Step
  <1> QED  BY <1>1, <1>2, <1>3, <1>4 DEF Answer

-----------------------------------------------------------------------------
(* The ledger. *)

LedgerTyped ==
  /\ closed \in Time \cup {None} /\ expired \in BOOLEAN
  /\ slot \in [Upload -> Ledger!Slot \cup {None}]
LedgerInv == LedgerTyped /\ Sealed

(* Intake's own copies of the data operators are those of Manifests. *)
LEMMA SameData ==
  /\ \A m : Ledger!Indices(m) = Indices(m)
  /\ Ledger!ChunkFile = ChunkFile /\ Ledger!Receipt = Receipt
  /\ \A files, m : Ledger!AllFit(files, m) = AllFit(files, m)
  /\ \A files, m : Ledger!ReceiptOf(files, m) = ReceiptOf(files, m)
  <1>1. \A m : Ledger!Count(m) = Count(m)
    BY DEF Ledger!Count, Ledger!ChunkCountFor, Count, ChunkCountFor
  <1>2. \A m : Ledger!Indices(m) = Indices(m)
    BY <1>1 DEF Ledger!Indices, Indices
  <1>3. \A m, i : Ledger!ExpectedLength(m, i) = ExpectedLength(m, i)
    BY <1>1 DEF Ledger!ExpectedLength, Ledger!CipherLength, Ledger!PlainLength, Ledger!Overhead,
                ExpectedLength, CipherLength, PlainLength, Overhead
  <1>4. Ledger!Length = Length
    BY <1>2, <1>3 DEF Ledger!Length, Length
  <1>5. Ledger!ChunkFile = ChunkFile
    BY <1>4 DEF Ledger!ChunkFile, ChunkFile
  <1>6. Ledger!Receipt = Receipt
    BY <1>2 DEF Ledger!Receipt, Receipt
  <1>7. \A files, m : Ledger!AllFit(files, m) = AllFit(files, m)
    BY <1>2, <1>3, <1>5 DEF Ledger!AllFit, Ledger!Fits, AllFit, Fits
  <1>8. \A files, m : Ledger!ReceiptOf(files, m) = ReceiptOf(files, m)
    BY <1>2 DEF Ledger!ReceiptOf, ReceiptOf
  <1> QED  BY <1>2, <1>5, <1>6, <1>7, <1>8

LEMMA Slots ==
  Ledger!Slot = UNION {[m : {m}, parts : [Indices(m) -> ChunkFile \cup {None}],
                        seal : Receipt \cup {None}, acked : BOOLEAN] : m \in Manifest}
  BY SameData DEF Ledger!Slot

LEMMA SlotFields ==
  ASSUME NEW s \in Ledger!Slot
  PROVE  /\ s.m \in Manifest /\ s.parts \in [Indices(s.m) -> ChunkFile \cup {None}]
         /\ s.seal \in Receipt \cup {None} /\ s.acked \in BOOLEAN
         /\ s = [m |-> s.m, parts |-> s.parts, seal |-> s.seal, acked |-> s.acked]
         /\ s # None
  BY SlotsAreNotNone, Slots

LEMMA SlotMade ==
  ASSUME NEW m \in Manifest, NEW parts \in [Indices(m) -> ChunkFile \cup {None}],
         NEW seal \in Receipt \cup {None}, NEW acked \in BOOLEAN
  PROVE  [m |-> m, parts |-> parts, seal |-> seal, acked |-> acked] \in Ledger!Slot
  BY Slots

LEMMA SealIsReceipt ==
  ASSUME NEW m \in Manifest, NEW parts, AllFit(parts, m)
  PROVE  ReceiptOf(parts, m) \in Receipt
  <1>1. \A i \in Indices(m) : parts[i].dig \in Digest
    BY DEF AllFit, Fits, ChunkFile
  <1>2. [i \in Indices(m) |-> parts[i].dig] \in [Indices(m) -> Digest]
    BY <1>1
  <1> QED  BY <1>2 DEF Receipt, ReceiptOf

LEMMA OwnFileIsFile ==
  ASSUME NEW m \in Manifest, NEW i \in Indices(m)
  PROVE  OwnFile(m, i) \in ChunkFile /\ Fits(OwnFile(m, i), m, i)
  BY UploaderAssumption DEF OwnFile, ChunkFile, Length, Fits

(* An upload's new slot is as good as its old one was. *)
SlotOK(v) == v \in Ledger!Slot \cup {None} /\ SealedSlot(v)
Updates(u, v) == SlotOK(v) /\ slot' = [slot EXCEPT ![u] = v]

LEMMA PartStored ==
  ASSUME LedgerInv, NEW u \in Upload, slot[u] # None, NEW i \in Indices(slot[u].m),
         slot[u].parts[i] = None, NEW file \in ChunkFile,
         slot' = [slot EXCEPT ![u].parts[i] = file]
  PROVE  \E v : Updates(u, v)
  <1>1. PICK s : s = slot[u]
    OBVIOUS
  <1>2. s \in Ledger!Slot /\ SealedSlot(s)
    BY <1>1 DEF LedgerInv, LedgerTyped, Sealed
  <1>3. PICK v : v = [s EXCEPT !.parts[i] = file]
    OBVIOUS
  <1>4. v = [m |-> s.m, parts |-> [s.parts EXCEPT ![i] = file], seal |-> s.seal, acked |-> s.acked]
    BY <1>2, <1>3, SlotFields
  <1>5. [s.parts EXCEPT ![i] = file] \in [Indices(s.m) -> ChunkFile \cup {None}]
    BY <1>1, <1>2, SlotFields
  <1>6. v \in Ledger!Slot
    BY <1>2, <1>4, <1>5, SlotFields, SlotMade
  <1>7. s.seal = None
    <2>1. ~Fits(s.parts[i], s.m, i)
      BY <1>1, UploaderAssumption DEF Fits
    <2> QED  BY <1>1, <1>2, <2>1, SlotFields DEF SealedSlot, AllFit
  <1>8. SealedSlot(v)
    BY <1>4, <1>7 DEF SealedSlot
  <1>9. slot' = [slot EXCEPT ![u] = v]
    BY <1>1, <1>3
  <1> QED  BY <1>6, <1>8, <1>9 DEF Updates, SlotOK

LEMMA Begins ==
  ASSUME LedgerInv, NEW u \in Upload, NEW m \in Manifest, Ledger!Begin(u, m)
  PROVE  \E v : Updates(u, v)
  <1>1. PICK v : v = Ledger!Fresh(m)
    OBVIOUS
  <1>2. v = [m |-> m, parts |-> [i \in Indices(m) |-> None], seal |-> None, acked |-> FALSE]
    BY <1>1, SameData DEF Ledger!Fresh
  <1>3. v \in Ledger!Slot
    BY <1>2, SlotMade
  <1>4. SealedSlot(v)
    BY <1>2 DEF SealedSlot
  <1> QED  BY <1>1, <1>3, <1>4 DEF Ledger!Begin, Updates, SlotOK

LEMMA Seals ==
  ASSUME LedgerInv, NEW u \in Upload, Ledger!Seal(u)
  PROVE  /\ \E v : Updates(u, v)
         /\ slot'[u] # None /\ slot'[u].seal = ReceiptOf(slot[u].parts, slot[u].m)
  <1>1. PICK s : s = slot[u]
    OBVIOUS
  <1>2. s \in Ledger!Slot
    BY <1>1 DEF LedgerInv, LedgerTyped, Ledger!Seal
  <1>3. AllFit(s.parts, s.m) /\ ReceiptOf(s.parts, s.m) \in Receipt
    BY <1>1, <1>2, SlotFields, SealIsReceipt, SameData DEF Ledger!Seal
  <1>4. PICK v : v = [s EXCEPT !.seal = ReceiptOf(s.parts, s.m)]
    OBVIOUS
  <1>5. v = [m |-> s.m, parts |-> s.parts, seal |-> ReceiptOf(s.parts, s.m), acked |-> s.acked]
    BY <1>2, <1>4, SlotFields
  <1>6. v \in Ledger!Slot /\ v # None
    BY <1>2, <1>3, <1>5, SlotFields, SlotMade
  <1>7. SealedSlot(v)
    BY <1>3, <1>5 DEF SealedSlot
  <1>8. slot' = [slot EXCEPT ![u] = v]
    BY <1>1, <1>4, SameData DEF Ledger!Seal
  <1>9. slot'[u] = v
    BY <1>8 DEF LedgerInv, LedgerTyped
  <1>10. Updates(u, v)
    BY <1>6, <1>7, <1>8 DEF Updates, SlotOK
  <1>11. v.seal = ReceiptOf(slot[u].parts, slot[u].m)
    BY <1>1, <1>5
  <1> QED  BY <1>6, <1>9, <1>10, <1>11

LEMMA Acknowledges ==
  ASSUME LedgerInv, NEW u \in Upload, Ledger!Acknowledge(u)
  PROVE  \E v : Updates(u, v)
  <1>1. PICK s : s = slot[u]
    OBVIOUS
  <1>2. s \in Ledger!Slot /\ SealedSlot(s)
    BY <1>1 DEF LedgerInv, LedgerTyped, Sealed, Ledger!Acknowledge
  <1>0. PICK yes \in BOOLEAN : yes = TRUE
    OBVIOUS
  <1>3. PICK v : v = [s EXCEPT !.acked = yes]
    OBVIOUS
  <1>4. v = [m |-> s.m, parts |-> s.parts, seal |-> s.seal, acked |-> yes]
    BY <1>2, <1>3, SlotFields
  <1>5. v \in Ledger!Slot
    BY <1>2, <1>4, SlotFields, SlotMade
  <1>6. SealedSlot(v)
    BY <1>2, <1>4, SlotFields DEF SealedSlot
  <1>7. slot' = [slot EXCEPT ![u] = v]
    BY <1>0, <1>1, <1>3 DEF Ledger!Acknowledge
  <1> QED  BY <1>5, <1>6, <1>7 DEF Updates, SlotOK

LEMMA Drops ==
  ASSUME NEW u \in Upload, Ledger!Drop(u)
  PROVE  \E v : Updates(u, v)
  <1>1. SlotOK(None)
    BY DEF SlotOK, SealedSlot
  <1> QED  BY <1>1 DEF Ledger!Drop, Updates

(* Every step of the ledger changes one slot at most, and keeps it good. *)
OneSlot == slot' = slot \/ \E u \in Upload : \E v : Updates(u, v)
Moves == closed' \in Time \cup {None} /\ expired' \in BOOLEAN /\ OneSlot

LEMMA MovesKeep ==
  ASSUME LedgerInv, Moves
  PROVE  LedgerInv'
  <1>1. CASE slot' = slot
    BY <1>1 DEF Moves, LedgerInv, LedgerTyped, Sealed
  <1>2. ASSUME NEW u \in Upload, NEW v, Updates(u, v) PROVE LedgerInv'
    <2>1. \A w \in Upload : slot'[w] = IF w = u THEN v ELSE slot[w]
      BY <1>2 DEF Updates, LedgerInv, LedgerTyped
    <2>2. slot' \in [Upload -> Ledger!Slot \cup {None}]
      BY <1>2 DEF Updates, SlotOK, LedgerInv, LedgerTyped
    <2>3. \A w \in Upload : SealedSlot(slot'[w])
      BY <1>2, <2>1 DEF Updates, SlotOK, LedgerInv, Sealed
    <2> QED  BY <2>2, <2>3 DEF Moves, LedgerInv, LedgerTyped, Sealed
  <1> QED  BY <1>1, <1>2 DEF Moves, OneSlot

LEMMA LedgerMoves ==
  ASSUME LedgerInv, Ledger!Next
  PROVE  Moves
  <1>1. closed \in Time \cup {None} /\ expired \in BOOLEAN
    BY DEF LedgerInv, LedgerTyped
  <1>2. ASSUME NEW u \in Upload, Ledger!Put(u) PROVE Moves
    <2>1. PICK i \in DOMAIN slot[u].parts, file \in ChunkFile :
            slot[u].parts[i] = None /\ slot' = [slot EXCEPT ![u].parts[i] = file]
      BY <1>2, SameData DEF Ledger!Put
    <2>2. slot[u] # None /\ slot[u] \in Ledger!Slot
      BY <1>2 DEF Ledger!Put, LedgerInv, LedgerTyped
    <2>3. i \in Indices(slot[u].m)
      BY <2>1, <2>2, SlotFields
    <2> QED  BY <1>1, <1>2, <2>1, <2>2, <2>3, PartStored DEF Ledger!Put, Moves, OneSlot
  <1>3. ASSUME NEW u \in Upload, Ledger!Seal(u) PROVE Moves
    BY <1>1, <1>3, Seals DEF Ledger!Seal, Moves, OneSlot
  <1>4. ASSUME NEW u \in Upload, Ledger!Acknowledge(u) PROVE Moves
    BY <1>1, <1>4, Acknowledges DEF Ledger!Acknowledge, Moves, OneSlot
  <1>5. ASSUME NEW u \in Upload, Ledger!Drop(u) PROVE Moves
    BY <1>1, <1>5, Drops DEF Ledger!Drop, Moves, OneSlot
  <1>6. ASSUME NEW u \in Upload, NEW m \in Manifest, Ledger!Begin(u, m) PROVE Moves
    BY <1>1, <1>6, Begins DEF Ledger!Begin, Moves, OneSlot
  <1>7. CASE Ledger!Close
    BY <1>1, <1>7 DEF Ledger!Close, Moves, OneSlot
  <1>8. CASE Ledger!Expire
    BY <1>1, <1>8 DEF Ledger!Expire, Moves, OneSlot
  <1> QED  BY <1>2, <1>3, <1>4, <1>5, <1>6, <1>7, <1>8 DEF Ledger!Next

(* A chunk or a completion moves the ledger when the upload is on it. *)

LEMMA ChunkMoves ==
  ASSUME LedgerInv, NEW u \in Upload, NEW i \in Indices(Found(u).m), Found(u).parts[i] = None,
         NEW file \in ChunkFile, ChunkStored(u, i, file)
  PROVE  Moves
  <1>1. closed \in Time \cup {None} /\ expired \in BOOLEAN
    BY DEF LedgerInv, LedgerTyped
  <1>2. CASE slot[u] # None /\ slot' = [slot EXCEPT ![u].parts[i] = file] /\ UNCHANGED <<closed, expired>>
    <2>1. i \in Indices(slot[u].m) /\ slot[u].parts[i] = None
      BY <1>2 DEF Found
    <2> QED  BY <1>1, <1>2, <2>1, PartStored DEF Moves, OneSlot
  <1>3. CASE UNCHANGED ledgerVars
    BY <1>1, <1>3 DEF ledgerVars, Moves, OneSlot
  <1> QED  BY <1>2, <1>3 DEF ChunkStored

LEMMA CompletionSeals ==
  ASSUME NEW u, Completable(u), Completed(u), slot[u] # None
  PROVE  Ledger!Seal(u)
  BY SameData DEF Completable, Completed, Found, Ledger!Seal

LEMMA CompletionMoves ==
  ASSUME LedgerInv, NEW u \in Upload, Completable(u), Completed(u)
  PROVE  Moves
  <1>1. closed \in Time \cup {None} /\ expired \in BOOLEAN
    BY DEF LedgerInv, LedgerTyped
  <1>2. CASE slot[u] # None
    BY <1>1, <1>2, CompletionSeals, Seals DEF Completed, Ledger!Seal, Moves, OneSlot
  <1>3. CASE slot[u] = None
    BY <1>1, <1>3 DEF Completed, ledgerVars, Moves, OneSlot
  <1> QED  BY <1>2, <1>3

(* What a handler of the server does is a move, too. *)
RequestOK(q) == q \in HttpRequest /\ q.i \in Indices(q.m)

LEMMA ServedMoves ==
  ASSUME LedgerInv, NEW q, RequestOK(q), NEW answer, NEW said, Served(q, answer, said)
  PROVE  Moves
  <1>1. closed \in Time \cup {None} /\ expired \in BOOLEAN
    BY DEF LedgerInv, LedgerTyped
  <1>2. q.m \in Manifest /\ IdOf[q.m] \in Upload /\ q.i \in Indices(q.m)
    BY UploaderAssumption DEF RequestOK, HttpRequest
  <1>3. CASE UNCHANGED ledgerVars
    BY <1>1, <1>3 DEF ledgerVars, Moves, OneSlot
  <1>4. CASE Ledger!Begin(IdOf[q.m], q.m)
    BY <1>1, <1>2, <1>4, Begins DEF Ledger!Begin, Moves, OneSlot
  <1>5. CASE Completable(IdOf[q.m]) /\ Completed(IdOf[q.m])
    BY <1>2, <1>5, CompletionMoves
  <1>6. ASSUME NEW i \in Indices(Found(IdOf[q.m]).m), Found(IdOf[q.m]).parts[i] = None,
               NEW file \in ChunkFile, ChunkStored(IdOf[q.m], i, file)
        PROVE  Moves
    BY <1>2, <1>6, ChunkMoves
  <1>7. OwnFile(q.m, q.i) \in ChunkFile
    BY <1>2, OwnFileIsFile
  <1> QED  BY <1>3, <1>4, <1>5, <1>6, <1>7
           DEF Served, BeginServed, PutServed, HeadServed, CompleteServed, Kept

-----------------------------------------------------------------------------
(* Types. *)

UploaderInv ==
  /\ LedgerInv /\ PageOK(page)
  /\ \A q \in flight : RequestOK(q)
  /\ reported \subseteq Manifest
  /\ remains \in [Upload -> Files]

LEMMA TypeOKFollows == UploaderInv => TypeOK
  BY DEF UploaderInv, LedgerInv, LedgerTyped, PageOK, Page, RequestOK, TypeOK

LEMMA TypeInit == Init => UploaderInv
  <1> SUFFICES ASSUME Init PROVE UploaderInv
    OBVIOUS
  <1>1. LedgerInv
    BY DEF Init, Ledger!Init, LedgerInv, LedgerTyped, Sealed, SealedSlot
  <1>2. PageOK(page) /\ Open(page)
    <2>1. Batch[1] \in Manifest /\ 0 \in Indices(Batch[1]) /\ 0 \in Index /\ 1 \in DOMAIN Batch
      BY Batches, Counts
    <2>2. page \in Page /\ page.k = 1 /\ page.i = 0 /\ page.pc = "begin"
      BY <2>1, Steps DEF Init, StartOf, Page, Step
    <2> QED  BY <2>1, <2>2 DEF PageOK, Mine, Open, Step
  <1>3. RequestOK(RequestOf(page))
    BY <1>2, MineIsOurs DEF RequestOK, RequestOf, HttpRequest, PageOK, Page, Open
  <1>4. remains \in [Upload -> Files]
    BY DEF Init, Gone, NoParts, Files
  <1> QED  BY <1>1, <1>2, <1>3, <1>4 DEF Init, UploaderInv

LEMMA Turns ==
  ASSUME UploaderInv, NEW p, PageOK(p), NEW left, left \subseteq flight, Becomes(p, left)
  PROVE  PageOK(page') /\ (\A q \in flight' : RequestOK(q)) /\ reported' \subseteq Manifest
  <1>1. Open(p) => RequestOK(RequestOf(p))
    BY MineIsOurs DEF RequestOK, RequestOf, HttpRequest, PageOK, Page, Open
  <1>2. \A q \in flight' : RequestOK(q)
    BY <1>1 DEF Becomes, Sends, UploaderInv
  <1>3. reported' \subseteq Manifest
    BY MineIsOurs DEF Becomes, Shown, UploaderInv
  <1> QED  BY <1>2, <1>3 DEF Becomes

(* Whatever is served or done to what is off the ledger, files remain files. *)

LEMMA FilesMade ==
  ASSUME NEW m \in Manifest \cup {None}, NEW parts \in [Index -> ChunkFile \cup {None}],
         NEW seal \in Receipt \cup {None}
  PROVE  [m |-> m, parts |-> parts, seal |-> seal] \in Files
  BY DEF Files

LEMMA FileFields ==
  ASSUME NEW f \in Files
  PROVE  /\ f.m \in Manifest \cup {None} /\ f.parts \in [Index -> ChunkFile \cup {None}]
         /\ f.seal \in Receipt \cup {None}
         /\ f = [m |-> f.m, parts |-> f.parts, seal |-> f.seal]
  BY DEF Files

LEMMA LeftTyped ==
  ASSUME UploaderInv, Leave
  PROVE  remains' \in [Upload -> Files]
  <1>1. ASSUME NEW u \in Upload, slot[u] # None PROVE FilesOf(slot[u]) \in Files
    <2>1. slot[u] \in Ledger!Slot
      BY <1>1 DEF UploaderInv, LedgerInv, LedgerTyped
    <2>2. [i \in Index |-> IF i \in Indices(slot[u].m) THEN slot[u].parts[i] ELSE None]
            \in [Index -> ChunkFile \cup {None}]
      BY <2>1, SlotFields
    <2> QED  BY <2>1, <2>2, SlotFields, FilesMade DEF FilesOf
  <1> QED  BY <1>1 DEF Leave, UploaderInv

LEMMA ChunkTyped ==
  ASSUME UploaderInv, NEW u \in Upload, NEW i, NEW file \in ChunkFile, ChunkStored(u, i, file)
  PROVE  remains' \in [Upload -> Files]
  <1>1. CASE UNCHANGED remains
    BY <1>1 DEF UploaderInv
  <1>2. CASE remains' = [remains EXCEPT ![u].parts[i] = file]
    <2>1. PICK f \in Files : f = remains[u]
      BY DEF UploaderInv
    <2>2. PICK g : g = [f EXCEPT !.parts[i] = file]
      OBVIOUS
    <2>3. g = [m |-> f.m, parts |-> [f.parts EXCEPT ![i] = file], seal |-> f.seal]
      BY <2>2, FileFields
    <2>4. [f.parts EXCEPT ![i] = file] \in [Index -> ChunkFile \cup {None}]
      BY <2>1, FileFields
    <2>5. g \in Files
      BY <2>1, <2>3, <2>4, FileFields, FilesMade
    <2>6. remains' = [remains EXCEPT ![u] = g]
      BY <1>2, <2>1, <2>2
    <2> QED  BY <2>5, <2>6 DEF UploaderInv
  <1> QED  BY <1>1, <1>2 DEF ChunkStored

LEMMA CompletionTyped ==
  ASSUME UploaderInv, NEW u \in Upload, Completable(u), Completed(u)
  PROVE  remains' \in [Upload -> Files]
  <1>1. CASE slot[u] # None
    BY <1>1 DEF Completed, UploaderInv
  <1>2. CASE slot[u] = None
    <2>1. PICK f \in Files : f = remains[u]
      BY DEF UploaderInv
    <2>2. PICK r : r = ReceiptOf(f.parts, f.m)
      OBVIOUS
    <2>3. Found(u) = f
      BY <1>2, <2>1 DEF Found
    <2>4. f.m \in Manifest /\ AllFit(f.parts, f.m)
      BY <2>1, <2>3, FileFields DEF Completable
    <2>5. r \in Receipt
      BY <2>2, <2>4, SealIsReceipt
    <2>6. PICK g : g = [f EXCEPT !.seal = r]
      OBVIOUS
    <2>7. g = [m |-> f.m, parts |-> f.parts, seal |-> r]
      BY <2>6, FileFields
    <2>8. g \in Files
      BY <2>1, <2>5, <2>7, FileFields, FilesMade
    <2>9. remains' = [remains EXCEPT ![u] = g]
      BY <1>2, <2>1, <2>2, <2>3, <2>6 DEF Completed
    <2> QED  BY <2>8, <2>9 DEF UploaderInv
  <1> QED  BY <1>1, <1>2

LEMMA ServedTyped ==
  ASSUME UploaderInv, NEW q, RequestOK(q), NEW answer, NEW said, Served(q, answer, said)
  PROVE  remains' \in [Upload -> Files]
  <1>1. q.m \in Manifest /\ IdOf[q.m] \in Upload /\ q.i \in Indices(q.m)
    BY UploaderAssumption DEF RequestOK, HttpRequest
  <1>2. CASE Kept
    BY <1>2 DEF Kept, UploaderInv
  <1>3. CASE Leave
    BY <1>3, LeftTyped
  <1>4. CASE Completable(IdOf[q.m]) /\ Completed(IdOf[q.m])
    BY <1>1, <1>4, CompletionTyped
  <1>5. CASE ChunkStored(IdOf[q.m], q.i, OwnFile(q.m, q.i))
    BY <1>1, <1>5, ChunkTyped, OwnFileIsFile
  <1> QED  BY <1>2, <1>3, <1>4, <1>5
           DEF Served, BeginServed, PutServed, HeadServed, CompleteServed

LEMMA OffLedgerStep ==
  ASSUME UploaderInv, NEW u \in Upload, OffLedger(u)
  PROVE  Moves /\ remains' \in [Upload -> Files]
  <1>1. closed \in Time \cup {None} /\ expired \in BOOLEAN /\ LedgerInv
    BY DEF UploaderInv, LedgerInv, LedgerTyped
  <1>2. PICK f \in Files : f = remains[u]
    BY DEF UploaderInv
  <1>3. Found(u) = f
    BY <1>2 DEF OffLedger, Found
  <1>4. ASSUME NEW i \in Indices(f.m), NEW file \in ChunkFile, f.parts[i] = None, ChunkStored(u, i, file)
        PROVE  Moves /\ remains' \in [Upload -> Files]
    BY <1>1, <1>3, <1>4, ChunkMoves, ChunkTyped
  <1>5. CASE Completable(u) /\ Completed(u)
    BY <1>1, <1>5, CompletionMoves, CompletionTyped
  <1>6. ASSUME UNCHANGED ledgerVars, NEW g \in Files, remains' = [remains EXCEPT ![u] = g]
        PROVE  Moves /\ remains' \in [Upload -> Files]
    BY <1>1, <1>6 DEF ledgerVars, Moves, OneSlot, UploaderInv
  <1>7. ASSUME NEW m \in Manifest, UNCHANGED ledgerVars, remains' = [remains EXCEPT ![u].m = m]
        PROVE  Moves /\ remains' \in [Upload -> Files]
    <2>1. PICK g : g = [f EXCEPT !.m = m]
      OBVIOUS
    <2>2. g = [m |-> m, parts |-> f.parts, seal |-> f.seal]
      BY <2>1, FileFields
    <2>3. g \in Files
      BY <1>2, <2>2, FileFields, FilesMade
    <2> QED  BY <1>2, <1>6, <1>7, <2>1, <2>3
  <1>8. ASSUME UNCHANGED ledgerVars,
               remains' = [remains EXCEPT ![u].m = None, ![u].parts = NoParts]
        PROVE  Moves /\ remains' \in [Upload -> Files]
    <2>1. PICK g : g = [f EXCEPT !.m = None, !.parts = NoParts]
      OBVIOUS
    <2>2. g = [m |-> None, parts |-> NoParts, seal |-> f.seal]
      BY <2>1 DEF Files
    <2>3. NoParts \in [Index -> ChunkFile \cup {None}]
      BY DEF NoParts
    <2>4. g \in Files
      BY <1>2, <2>2, <2>3, FileFields, FilesMade
    <2>5. remains' = [remains EXCEPT ![u] = g]
      BY <1>2, <1>8, <2>1 DEF UploaderInv
    <2> QED  BY <1>6, <1>8, <2>4, <2>5
  <1>9. ASSUME NEW i \in Index, UNCHANGED ledgerVars, remains' = [remains EXCEPT ![u].parts[i] = None]
        PROVE  Moves /\ remains' \in [Upload -> Files]
    <2>1. PICK g : g = [f EXCEPT !.parts[i] = None]
      OBVIOUS
    <2>2. g = [m |-> f.m, parts |-> [f.parts EXCEPT ![i] = None], seal |-> f.seal]
      BY <2>1, FileFields
    <2>3. [f.parts EXCEPT ![i] = None] \in [Index -> ChunkFile \cup {None}]
      BY <1>2, FileFields
    <2>4. g \in Files
      BY <1>2, <2>2, <2>3, FileFields, FilesMade
    <2>5. remains' = [remains EXCEPT ![u] = g]
      BY <1>2, <1>9, <2>1
    <2> QED  BY <1>6, <1>9, <2>4, <2>5
  <1>10. ASSUME UNCHANGED ledgerVars, remains' = [remains EXCEPT ![u].seal = None]
         PROVE  Moves /\ remains' \in [Upload -> Files]
    <2>1. PICK g : g = [f EXCEPT !.seal = None]
      OBVIOUS
    <2>2. g = [m |-> f.m, parts |-> f.parts, seal |-> None]
      BY <2>1, FileFields
    <2>3. g \in Files
      BY <1>2, <2>2, FileFields, FilesMade
    <2>4. remains' = [remains EXCEPT ![u] = g]
      BY <1>2, <1>10, <2>1
    <2> QED  BY <1>6, <1>10, <2>3, <2>4
  <1> QED  BY <1>2, <1>4, <1>5, <1>7, <1>8, <1>9, <1>10 DEF OffLedger

LEMMA TypeStep ==
  ASSUME UploaderInv, [Next]_vars
  PROVE  UploaderInv'
  <1>1. ASSUME NEW q \in flight, Handle(q) PROVE UploaderInv'
    <2>1. PICK answer \in Answer, said \in Digest \cup Receipt \cup {None} :
            /\ Served(q, answer, said)
            /\ \/ UNCHANGED <<page, reported>> /\ flight' = flight \ {q}
               \/ /\ Open(page) /\ q = RequestOf(page)
                  /\ Becomes(React(page, answer, said), flight \ {q})
      BY <1>1 DEF Handle
    <2>2. LedgerInv'
      BY <2>1, ServedMoves, MovesKeep DEF UploaderInv
    <2>3. remains' \in [Upload -> Files]
      BY <2>1, ServedTyped DEF UploaderInv
    <2>4. CASE UNCHANGED <<page, reported>> /\ flight' = flight \ {q}
      <3>1. PageOK(page') /\ (\A r \in flight' : RequestOK(r)) /\ reported' \subseteq Manifest
        BY <2>4 DEF UploaderInv
      <3> QED  BY <2>2, <2>3, <3>1 DEF UploaderInv, PageOK, RequestOK, Mine
    <2>5. CASE Open(page) /\ Becomes(React(page, answer, said), flight \ {q})
      <3>1. PageOK(React(page, answer, said))
        BY <2>5, ReactOK DEF UploaderInv
      <3>2. PageOK(page') /\ (\A r \in flight' : RequestOK(r)) /\ reported' \subseteq Manifest
        BY <2>5, <3>1, Turns
      <3> QED  BY <2>2, <2>3, <3>2 DEF UploaderInv, PageOK, RequestOK, Mine
    <2> QED  BY <2>1, <2>4, <2>5
  <1>2. CASE NetworkFails
    <2>1. PageOK(TryAgain(page))
      BY <1>2, TryAgainOK DEF NetworkFails, UploaderInv
    <2>2. PageOK(page') /\ (\A r \in flight' : RequestOK(r)) /\ reported' \subseteq Manifest
      <3>1. PICK left : left \subseteq flight /\ Becomes(TryAgain(page), left)
        BY <1>2 DEF NetworkFails
      <3> QED  BY <2>1, <3>1, Turns
    <2>3. LedgerInv' /\ remains' \in [Upload -> Files]
      BY <1>2 DEF NetworkFails, Kept, ledgerVars, UploaderInv, LedgerInv, LedgerTyped, Sealed
    <2> QED  BY <2>2, <2>3 DEF UploaderInv, PageOK, RequestOK, Mine
  <1>3. CASE Others
    <2>1. LedgerInv'
      BY <1>3, LedgerMoves, OffLedgerStep, MovesKeep DEF Others, UploaderInv
    <2>2. remains' \in [Upload -> Files]
      BY <1>3, LeftTyped, OffLedgerStep DEF Others
    <2>3. PageOK(page') /\ (\A r \in flight' : RequestOK(r)) /\ reported' \subseteq Manifest
      BY <1>3 DEF Others, UploaderInv
    <2> QED  BY <2>1, <2>2, <2>3 DEF UploaderInv, PageOK, RequestOK, Mine
  <1>4. CASE UNCHANGED vars
    BY <1>4 DEF vars, ledgerVars, UploaderInv, LedgerInv, LedgerTyped, Sealed, PageOK, RequestOK, Mine
  <1> QED  BY <1>1, <1>2, <1>3, <1>4 DEF Next

(* The page, the requests under way and the ledger stay in their types.      *)
THEOREM TypeCorrect == Spec => []TypeOK
  <1>1. UploaderInv /\ [Next]_vars => UploaderInv'
    BY TypeStep
  <1> QED  BY <1>1, TypeInit, TypeOKFollows, PTL DEF Spec

-----------------------------------------------------------------------------
(* What an answer the page hears tells it about the ledger. *)

(* The page becomes something else either on an answer or without one.       *)
Heard(answer, said) ==
  /\ Open(page) /\ answer \in Answer
  /\ Served(RequestOf(page), answer, said)
  /\ page' = React(page, answer, said) /\ reported' = Shown(page')
Unheard == Open(page) /\ page' = TryAgain(page) /\ reported' = Shown(page')

LEMMA PageTurns ==
  ASSUME UploaderInv, [Next]_vars
  PROVE  Unheard \/ (\E answer, said : Heard(answer, said)) \/ UNCHANGED <<page, reported>>
  <1>1. ASSUME NEW q \in flight, Handle(q)
        PROVE  (\E answer, said : Heard(answer, said)) \/ UNCHANGED <<page, reported>>
    <2>1. PICK answer \in Answer, said \in Digest \cup Receipt \cup {None} :
            /\ Served(q, answer, said)
            /\ \/ UNCHANGED <<page, reported>>
               \/ /\ Open(page) /\ q = RequestOf(page)
                  /\ Becomes(React(page, answer, said), flight \ {q})
      BY <1>1 DEF Handle
    <2> QED  BY <2>1 DEF Heard, Becomes
  <1>2. CASE NetworkFails
    BY <1>2 DEF NetworkFails, Becomes, Unheard
  <1>3. CASE Others \/ UNCHANGED vars
    BY <1>3 DEF Others, vars
  <1> QED  BY <1>1, <1>2, <1>3 DEF Next

LEMMA Requested ==
  /\ RequestOf(page).op = page.pc /\ RequestOf(page).m = Mine(page) /\ RequestOf(page).i = page.i
  BY DEF RequestOf

(* A good slot sealed with a page's receipt has that page's file.             *)
LEMMA SealTells ==
  ASSUME NEW s \in Ledger!Slot, SealedSlot(s), NEW m \in Manifest, s.seal = OwnReceipt(m)
  PROVE  s.m = m /\ \A i \in Indices(m) : s.parts[i] = OwnFile(m, i)
  <1>1. OwnReceipt(m) \in Receipt /\ OwnReceipt(m) # None
    <2>1. OwnReceipt(m) \in Receipt
      BY UploaderAssumption DEF OwnReceipt, Receipt
    <2> QED  BY <2>1, UploaderAssumption
  <1>2. AllFit(s.parts, s.m) /\ ReceiptOf(s.parts, s.m) = OwnReceipt(m)
    BY <1>1, SlotFields DEF SealedSlot
  <1>3. s.m = m /\ [i \in Indices(s.m) |-> s.parts[i].dig] = Content[m]
    BY <1>2 DEF ReceiptOf, OwnReceipt
  <1>4. ASSUME NEW i \in Indices(m) PROVE s.parts[i] = OwnFile(m, i)
    <2>1. PICK file \in ChunkFile : file = s.parts[i] /\ file.len = ExpectedLength(m, i)
      BY <1>2, <1>3, <1>4 DEF AllFit, Fits
    <2>2. file.dig = Content[m][i]
      BY <1>3, <1>4, <2>1
    <2>3. file = [len |-> file.len, dig |-> file.dig]
      BY DEF ChunkFile
    <2> QED  BY <2>1, <2>2, <2>3 DEF OwnFile
  <1> QED  BY <1>3, <1>4

(* A receipt the server answers with is on disk, on the ledger or off it.    *)
LEMMA ReportedStep ==
  ASSUME UploaderInv, [Next]_vars, NEW m \in reported' \ reported
  PROVE  Stored(m)'
  <1>1. FileEnds(page, page') /\ m = Mine(page) /\ PageOK(page) /\ (Unheard \/ \E answer, said : Heard(answer, said))
    <2>1. Unheard \/ \E answer, said : Heard(answer, said)
      BY PageTurns
    <2>2. reported' = Shown(page')
      BY <2>1 DEF Unheard, Heard
    <2>3. page.k \in Nat
      BY Batches DEF UploaderInv, PageOK, Page
    <2> QED  BY <2>1, <2>2, <2>3 DEF Shown, FileEnds, UploaderInv
  <1>2. ~Unheard
    BY <1>1, TryAgainOK DEF Unheard, FileEnds, Step
  <1>3. PICK answer, said : Heard(answer, said)
    BY <1>1, <1>2
  <1>4. answer = "ok" /\ page.pc = "complete" /\ said = OwnReceipt(m)
    BY <1>1, <1>3, ReactOK DEF Heard
  <1>5. CompleteServed(RequestOf(page), answer, said)
    BY <1>3, <1>4, Requested DEF Heard, Served
  <1>6. PICK u \in Upload : u = IdOf[m]
    BY <1>1, MineIsOurs
  <1>7. IdOf[RequestOf(page).m] = u /\ m \in Manifest
    BY <1>1, <1>6, Requested, MineIsOurs
  <1>8. slot'[u] # None => slot'[u] \in Ledger!Slot /\ SealedSlot(slot'[u])
    BY TypeStep DEF UploaderInv, LedgerInv, LedgerTyped, Sealed
  <1>9. ASSUME slot'[u] # None, slot'[u].seal = OwnReceipt(m) PROVE Stored(m)'
    <2>1. PICK s : s = slot'[u]
      OBVIOUS
    <2>2. s.m = m /\ \A i \in Indices(m) : s.parts[i] = OwnFile(m, i)
      BY <1>7, <1>8, <1>9, <2>1, SealTells
    <2> QED  BY <1>6, <1>9, <2>1, <2>2 DEF Stored
  <1>10. CASE Found(u).seal # None /\ said = Found(u).seal /\ Kept
    <2>1. CASE slot[u] # None
      BY <1>4, <1>9, <1>10, <2>1 DEF Found, Kept, ledgerVars
    <2>2. CASE slot[u] = None
      BY <1>4, <1>6, <1>10, <2>2 DEF Found, Kept, ledgerVars, Stored
    <2> QED  BY <2>1, <2>2
  <1>11. CASE Completable(u) /\ Completed(u) /\ said = ReceiptOf(Found(u).parts, Found(u).m)
    <2>1. CASE slot[u] # None
      <3>1. slot'[u] # None /\ slot'[u].seal = ReceiptOf(slot[u].parts, slot[u].m)
        BY <1>11, <2>1, CompletionSeals, Seals DEF UploaderInv
      <3> QED  BY <1>4, <1>9, <1>11, <2>1, <3>1 DEF Found
    <2>2. CASE slot[u] = None
      <3>1. remains' = [remains EXCEPT ![u].seal = said] /\ UNCHANGED slot
        BY <1>11, <2>2 DEF Completed, ledgerVars
      <3>2. remains'[u].seal = said
        BY <3>1 DEF UploaderInv, Files
      <3> QED  BY <1>4, <1>6, <2>2, <3>1, <3>2 DEF Stored
    <2> QED  BY <2>1, <2>2
  <1> QED  BY <1>4, <1>5, <1>7, <1>10, <1>11 DEF CompleteServed

(* A file is shown as verified and stored only when the server had on disk a *)
(* receipt for exactly the bytes this page encrypted, and, for an upload on  *)
(* the ledger, those bytes.                                                  *)
THEOREM ReportedAreStored == Spec => ReportedIsStored
  <1>1. UploaderInv /\ [Next]_vars => UploaderInv'
    BY TypeStep
  <1>2. UploaderInv /\ [Next]_vars => [\A m \in reported' \ reported : Stored(m)']_vars
    BY ReportedStep
  <1> QED  BY <1>1, <1>2, TypeInit, PTL DEF Spec, ReportedIsStored

-----------------------------------------------------------------------------
(* With all the page has sent in place, a seal of the upload is its receipt. *)
LEMMA SentIsReceipted ==
  ASSUME NEW m \in Manifest, NEW parts, \A i \in Indices(m) : parts[i] = OwnFile(m, i)
  PROVE  AllFit(parts, m) /\ ReceiptOf(parts, m) = OwnReceipt(m)
  <1>1. AllFit(parts, m)
    BY OwnFileIsFile DEF AllFit
  <1>2. \A i \in Indices(m) : parts[i].dig = Content[m][i]
    <2>1. \A i \in Indices(m) : OwnFile(m, i).dig = Content[m][i]
      BY DEF OwnFile
    <2> QED  BY <2>1
  <1>3. Content[m] = [i \in Indices(m) |-> Content[m][i]]
    BY UploaderAssumption
  <1>4. [i \in Indices(m) |-> parts[i].dig] = [i \in Indices(m) |-> Content[m][i]]
    BY <1>2
  <1> QED  BY <1>1, <1>3, <1>4 DEF ReceiptOf, OwnReceipt

LEMMA ConflictStep ==
  ASSUME UploaderInv, [Next]_vars, Open(page), page'.pc \in {"conflict", "mismatch"}, AsSent(page)
  PROVE  FALSE
  <1>0. PICK m \in Manifest : m = Mine(page)
    BY MineIsOurs DEF UploaderInv
  <1>1. PICK u \in Upload : u = IdOf[m]
    BY <1>0, UploaderAssumption
  <1>2. PICK s : s = slot[u]
    OBVIOUS
  <1>3. s \in Ledger!Slot /\ SealedSlot(s) /\ s.m = m
    BY <1>0, <1>1, <1>2 DEF AsSent, UploaderInv, LedgerInv, LedgerTyped, Sealed
  <1>4. page.pc = "head" => s.parts[page.i] = OwnFile(m, page.i)
    BY <1>0, <1>1, <1>2, Counts DEF AsSent, UploaderInv, PageOK
  <1>5. page.pc = "complete" => AllFit(s.parts, m) /\ ReceiptOf(s.parts, m) = OwnReceipt(m)
    <2>1. page.pc = "complete" => \A i \in Indices(m) : s.parts[i] = OwnFile(m, i)
      BY <1>0, <1>1, <1>2 DEF AsSent, Indices
    <2> QED  BY <2>1, SentIsReceipted
  <1>6. PICK answer, said : Heard(answer, said)
    <2>1. ~Unheard
      BY TryAgainOK DEF Unheard, UploaderInv, Step
    <2>2. ~UNCHANGED <<page, reported>>
      BY DEF Open, Step
    <2> QED  BY <2>1, <2>2, PageTurns
  <1>7. /\ page'.pc = "conflict" => answer = "conflict" /\ page.pc \in {"begin", "head", "complete"}
        /\ page'.pc = "mismatch" =>
             /\ answer = "ok"
             /\ \/ page.pc = "head" /\ said # Content[m][page.i]
                \/ page.pc = "complete" /\ said # OwnReceipt(m)
    BY <1>0, <1>6, ReactOK DEF Heard, UploaderInv
  <1>8. IdOf[RequestOf(page).m] = u /\ RequestOf(page).op = page.pc /\ RequestOf(page).i = page.i
        /\ RequestOf(page).m = m
    BY <1>0, <1>1, Requested
  <1>9. Served(RequestOf(page), answer, said) /\ answer \in {"ok", "conflict"}
    BY <1>6, <1>7 DEF Heard
  <1>10. CASE page.pc = "begin"
    <2>1. BeginServed(RequestOf(page), answer) /\ answer = "conflict"
      BY <1>7, <1>8, <1>9, <1>10 DEF Served
    <2>2. HeldFor(m)
      BY <1>1, <1>2, <1>3, SlotFields DEF HeldFor
    <2> QED  BY <1>8, <2>1, <2>2 DEF BeginServed
  <1>11. CASE page.pc = "head"
    <2>1. HeadServed(RequestOf(page), answer, said)
      BY <1>8, <1>9, <1>11 DEF Served
    <2>2. said = s.parts[page.i].dig /\ answer = "ok"
      BY <1>2, <1>3, <1>8, <2>1, SlotFields DEF HeadServed, Found
    <2>3. said = Content[m][page.i]
      BY <1>4, <1>11, <2>2 DEF OwnFile
    <2> QED  BY <1>7, <1>11, <2>2, <2>3
  <1>12. CASE page.pc = "complete"
    <2>1. CompleteServed(RequestOf(page), answer, said)
      BY <1>8, <1>9, <1>12 DEF Served
    <2>0. Found(u) = s
      BY <1>2, <1>3, SlotFields DEF Found
    <2>2. CASE s.seal # None /\ said = s.seal /\ answer = "ok"
      <3>1. said = OwnReceipt(m)
        BY <1>3, <1>5, <1>12, <2>2, SlotFields DEF SealedSlot
      <3> QED  BY <1>7, <1>12, <2>2, <3>1
    <2>3. CASE said = ReceiptOf(s.parts, s.m) /\ answer \in {"ok", "temporary"}
      <3>1. said = OwnReceipt(m)
        BY <1>3, <1>5, <1>12, <2>3
      <3> QED  BY <1>7, <1>12, <2>3, <3>1
    <2> QED  BY <1>3, <1>5, <1>7, <1>8, <1>12, <2>0, <2>1, <2>2, <2>3 DEF CompleteServed
  <1> QED  BY <1>7, <1>10, <1>11, <1>12

(* The page does not trip over its own lost or late requests: it stops with  *)
(* a conflict only if something it has sent is not, or no more, there.       *)
THEOREM ConflictsHaveCause == Spec => ConflictHasCause
  <1>1. UploaderInv /\ [Next]_vars => UploaderInv'
    BY TypeStep
  <1>2. UploaderInv /\ [Next]_vars =>
          [Open(page) /\ page'.pc \in {"conflict", "mismatch"} => ~AsSent(page)]_vars
    BY ConflictStep
  <1> QED  BY <1>1, <1>2, TypeInit, PTL DEF Spec, ConflictHasCause

-----------------------------------------------------------------------------
(* Whatever the page hears, or does not hear, takes it further. *)

LEMMA StopFurther ==
  ASSUME NEW p, PageOK(p), NEW why \in Ending PROVE Further(p, Stop(p, why))
  BY StopOK DEF Further

LEMMA ChunkDoneFurther ==
  ASSUME NEW p, PageOK(p), p.pc \in {"put", "head"} PROVE Further(p, ChunkDone(p))
  <1>1. PICK q : q = ChunkDone(p)
    OBVIOUS
  <1>2. p.i \in Nat /\ p \in Page
    BY MineIsOurs, Counts DEF PageOK, Page
  <1>3. CASE p.i + 1 < Count(Mine(p))
    <2>1. q = GoOn(p, "put", p.i + 1)
      BY <1>1, <1>3 DEF ChunkDone
    <2>2. q.k = p.k /\ q.pc = "put" /\ q.i = p.i + 1
      BY <1>2, <2>1 DEF GoOn, Page
    <2>3. Phase(p.pc) = Phase(q.pc)
      BY <2>2 DEF Phase
    <2> QED  BY <1>1, <1>2, <2>2, <2>3 DEF Further
  <1>4. CASE ~(p.i + 1 < Count(Mine(p)))
    <2>1. q = GoOn(p, "complete", 0)
      BY <1>1, <1>4 DEF ChunkDone
    <2>2. q.k = p.k /\ q.pc = "complete"
      BY <1>2, <2>1 DEF GoOn, Page
    <2>3. Phase(p.pc) < Phase(q.pc)
      BY <2>2 DEF Phase
    <2> QED  BY <1>1, <2>2, <2>3 DEF Further
  <1> QED  BY <1>3, <1>4

LEMMA TryAgainFurther ==
  ASSUME NEW p, PageOK(p), Open(p) PROVE Further(p, TryAgain(p))
  <1>1. CASE p.attempt = Attempts
    BY <1>1, StopFurther DEF TryAgain, Ending
  <1>2. CASE p.attempt # Attempts
    <2>1. PICK q : q = TryAgain(p)
      OBVIOUS
    <2>2. p \in Page /\ p.attempt \in Nat /\ p.pc \in Step
      BY Steps DEF PageOK, Page, Open
    <2>3. PICK l \in Step : l = IF p.pc = "head" THEN "put" ELSE p.pc
      BY <2>2 DEF Step
    <2>4. q = [p EXCEPT !.attempt = @ + 1, !.pc = l]
      BY <1>2, <2>1, <2>3 DEF TryAgain
    <2>5. q.k = p.k /\ q.i = p.i /\ q.pc = l /\ q.attempt = p.attempt + 1
      BY <2>2, <2>4 DEF Page
    <2>6. Phase(p.pc) = Phase(l)
      BY <2>3 DEF Phase
    <2> QED  BY <2>1, <2>2, <2>5, <2>6 DEF Further
  <1> QED  BY <1>1, <1>2

LEMMA NextFileFurther ==
  ASSUME NEW p, PageOK(p) PROVE Further(p, NextFile(p))
  <1>1. CASE p.k = Len(Batch)
    BY <1>1, StopFurther DEF NextFile, Ending
  <1>2. CASE p.k # Len(Batch)
    <2>1. NextFile(p).k = p.k + 1 /\ p.k \in Nat
      BY <1>2, Batches DEF NextFile, StartOf, PageOK, Page
    <2> QED  BY <2>1 DEF Further
  <1> QED  BY <1>1, <1>2

LEMMA ReactFurther ==
  ASSUME NEW p, PageOK(p), Open(p), NEW answer \in Answer, NEW said
  PROVE  Further(p, React(p, answer, said))
  <1>1. CASE answer = "temporary"
    BY <1>1, TryAgainFurther DEF React
  <1>2. CASE answer = "refused"
    BY <1>2, StopFurther DEF React, Ending
  <1>3. CASE answer = "conflict"
    <2>1. React(p, answer, said) = OnConflict(p)
      BY <1>3 DEF React
    <2>2. CASE p.pc = "put"
      <3>1. PICK q : q = [p EXCEPT !.pc = "head"]
        OBVIOUS
      <3>2. q.k = p.k /\ q.i = p.i /\ q.attempt = p.attempt /\ q.pc = "head"
        BY <3>1 DEF PageOK, Page
      <3> QED  BY <2>1, <2>2, <3>1, <3>2 DEF OnConflict, Further
    <2>3. CASE p.pc # "put"
      BY <2>1, <2>3, StopFurther DEF OnConflict, Ending
    <2> QED  BY <2>2, <2>3
  <1>4. CASE answer = "ok"
    <2>1. React(p, answer, said) = OnOk(p, said)
      BY <1>4 DEF React
    <2>2. CASE p.pc = "begin"
      <3>1. OnOk(p, said) = GoOn(p, "put", 0)
        BY <2>2 DEF OnOk
      <3>2. PICK q : q = GoOn(p, "put", 0)
        OBVIOUS
      <3>3. q.k = p.k /\ q.pc = "put"
        BY <3>2 DEF GoOn, PageOK, Page
      <3>4. Phase(p.pc) < Phase(q.pc)
        BY <2>2, <3>3 DEF Phase
      <3> QED  BY <2>1, <3>1, <3>2, <3>3, <3>4 DEF Further
    <2>3. CASE p.pc = "put"
      BY <2>1, <2>3, ChunkDoneFurther DEF OnOk
    <2>4. CASE p.pc = "head"
      BY <2>1, <2>4, ChunkDoneFurther, StopFurther DEF OnOk, Ending
    <2>5. CASE p.pc = "complete"
      BY <2>1, <2>5, NextFileFurther, StopFurther DEF OnOk, Ending
    <2> QED  BY <2>2, <2>3, <2>4, <2>5 DEF Open, Step
  <1> QED  BY <1>1, <1>2, <1>3, <1>4 DEF Answer

(* Every answer and every lost one takes the page further, so a batch takes  *)
(* a bounded number of requests.                                             *)
THEOREM PagesGoOn == Spec => PageGoesOn
  <1>1. UploaderInv /\ [Next]_vars => UploaderInv'
    BY TypeStep
  <1>2. UploaderInv /\ [Next]_vars =>
          [Open(page) /\ page' # page => Further(page, page')]_vars
    <2> SUFFICES ASSUME UploaderInv, [Next]_vars, Open(page), page' # page
                 PROVE  Further(page, page')
      OBVIOUS
    <2>1. PageOK(page)
      BY DEF UploaderInv
    <2>2. CASE Unheard
      BY <2>1, <2>2, TryAgainFurther DEF Unheard
    <2>3. ASSUME NEW answer, NEW said, Heard(answer, said) PROVE Further(page, page')
      BY <2>1, <2>3, ReactFurther DEF Heard
    <2> QED  BY <2>2, <2>3, PageTurns
  <1> QED  BY <1>1, <1>2, TypeInit, PTL DEF Spec, PageGoesOn
=============================================================================
