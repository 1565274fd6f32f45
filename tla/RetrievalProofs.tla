-------------------------- MODULE RetrievalProofs --------------------------
(***************************************************************************)
(* What recipients get, proved for every instance: a receipt they were     *)
(* listed stays the truth about its upload until a removal is decided, so  *)
(* reading file by file without the mutex does no harm.                    *)
(***************************************************************************)
EXTENDS Retrieval, StoreReceiptProofs

Entry == Listed \cup {None}

(* What was read of u is still so. *)
StillTrue(entry, u) == receipt[u] = entry.receipt /\ (entry.acked => u \in ack)

Extends(old, new) ==
  /\ new # None /\ new.receipt = old.receipt
  /\ old.acked => new.acked

Reads(r) == at[r] \in {"entry", "acked"}

(* Nobody's removal was decided unnoticed. *)
Noticed(r) ==
  /\ doomed \subseteq gone[r] /\ late[r] \subseteq gone[r]
  /\ Reads(r) => doomed \subseteq late[r]

KnownTrue(r) ==
  \A u \in Upload : known[r][u] # None /\ u \notin gone[r] => StillTrue(known[r][u], u)
ListingTrue(r) ==
  /\ ~Reads(r) => listing[r] = Nothing
  /\ \A u \in Upload : listing[r][u] # None /\ u \notin late[r] => StillTrue(listing[r][u], u)

(* What the last list named, this one will. *)
ListingWhole(r) ==
  Reads(r) => \A u \in Upload \ todo[r] :
    known[r][u] # None /\ u \notin gone[r] => Extends(known[r][u], listing[r][u])

FromList(r, q) ==
  q.op # "list" =>
    /\ known[r][q.u] # None
    /\ q.op = "chunk" => q.i < Count(known[r][q.u].receipt.m)

Fetching(r) ==
  /\ at[r] = "auth" => closedBundle
  /\ at[r] = "manifest" => asked[r].op = "manifest"
  /\ at[r] \in {"chunk", "receipt", "open"} => asked[r].op = "chunk"
  /\ at[r] \in {"auth", "manifest", "chunk", "receipt", "open"} =>
       asked[r] \in Query /\ FromList(r, asked[r])

Served(r) ==
  at[r] \in Outcome =>
    /\ at[r] # "unauthorized"
    /\ asked[r].u \notin gone[r] =>
         at[r] = "served" /\ Matches(asked[r], got[r], known[r][asked[r].u].receipt)

ReaderGood(r) ==
  Noticed(r) /\ KnownTrue(r) /\ ListingTrue(r) /\ ListingWhole(r) /\ Fetching(r) /\ Served(r)

ReadInv == ReaderTypeOK /\ \A r \in Reader : ReaderGood(r)

-----------------------------------------------------------------------------
LEMMA QueryParts ==
  ASSUME NEW q \in Query
  PROVE  /\ q.op \in {"list", "manifest", "chunk"}
         /\ q.op # "list" => q.u \in Upload
         /\ q.op = "chunk" => q.i \in Index
  BY DEF Query

LEMMA EntryParts ==
  ASSUME NEW entry \in Entry, entry # None
  PROVE  entry \in Listed /\ entry.receipt \in Receipt /\ entry.receipt # None
         /\ entry.acked \in BOOLEAN
  BY StoreAssumption DEF Entry, Listed

(* Removing the files of one upload leaves another's alone. *)
LEMMA UnlinkElsewhere ==
  ASSUME Files, NEW v \in Upload, NEW u \in Upload, u # v, Unlink(v)
  PROVE  receipt'[u] = receipt[u] /\ (u \in ack => u \in ack')
  BY DEF Unlink, Files

(* A receipt stays, and so does its acknowledgement, unless the removal of   *)
(* its upload was decided.                                                   *)
LEMMA ReceiptKept ==
  ASSUME IInv, FilesInv, [Next]_vars, NEW u \in Upload, u \notin doomed, receipt[u] # None
  PROVE  receipt'[u] = receipt[u] /\ (u \in ack => u \in ack')
  <1>t. Files /\ Procs
    BY TypeParts DEF IInv
  <1>s. \A h \in Handler : StillFinds(h)
    BY DEF FilesInv
  <1>1. CASE UNCHANGED <<receipt, ack>>
    BY <1>1
  <1>2. ASSUME NEW h \in Handler, WriteReceipt(h)
        PROVE  receipt'[u] = receipt[u] /\ ack' = ack
    <2>1. receipt[job[h].u] = None
      BY <1>2, <1>s DEF WriteReceipt, At, StillFinds
    <2> QED  BY <1>2, <1>t, <2>1 DEF WriteReceipt, Files
  <1>3. ASSUME NEW h \in Handler, AckWrite(h)
        PROVE  receipt' = receipt /\ ack \subseteq ack'
    BY <1>3 DEF AckWrite
  <1>4. ASSUME NEW h \in Handler, RemoveFile(h)
        PROVE  receipt'[u] = receipt[u] /\ (u \in ack => u \in ack')
    <2>1. pc[h] \in {"remove", "cleanup"} /\ Unlink(job[h].u)
      BY <1>4 DEF RemoveFile, Removing
    <2>2. job[h].u \in Upload
      BY <1>t, <2>1, UploadJob, BeginJob DEF AckStep, BeginStep
    <2>3. job[h].u # u
      BY <1>s, <2>1 DEF StillFinds
    <2> QED  BY <1>t, <2>1, <2>2, <2>3, UnlinkElsewhere
  <1>5. CASE PurgeFile
    <2>1. purging \in doomed /\ purging \in Upload /\ Unlink(purging)
      BY <1>5, <1>t DEF PurgeFile, FilesInv, Exclusive, Files
    <2> QED  BY <1>t, <2>1, UnlinkElsewhere
  <1>6. ASSUME NEW h \in Handler, Call(h) \/ Advance(h) \/ Fault(h) \/ Return(h),
               ~WriteReceipt(h), ~AckWrite(h), ~RemoveFile(h)
        PROVE  UNCHANGED <<receipt, ack>>
    BY <1>6 DEF Advance, Fault, Call, AuthenticateClosed, Gate, Return,
       BeginTooLarge, BeginEnter, BeginMkdir, BeginChunks, BeginManifest, BeginServer,
       PutRead, PutEnter, PutBody, PutAborted, CompleteEnter, AckEnter, DeleteStart,
       RemoveDone, Rmdir, RemoveFails, CloseEnter, CloseMark, CloseMove, IOFails, uploadVars
  <1>7. CASE ImportRequest \/ Crash \/ Restart \/ (\E v \in Upload : PurgeStart(v))
               \/ PurgeDone \/ PurgeStops \/ Tick \/ UNCHANGED vars
    BY <1>1, <1>7 DEF ImportRequest, Crash, Restart, PurgeStart, PurgeDone, Rmdir, PurgeStops,
                      Tick, uploadVars, vars
  <1> QED  BY <1>1, <1>2, <1>3, <1>4, <1>5, <1>6, <1>7 DEF Next, Maintenance

-----------------------------------------------------------------------------
(* A step of the store, as a reader sees it. *)

LEMMA StoreTypes ==
  ASSUME ReaderTypeOK, IInv, IInv', StoreStep
  PROVE  ReaderTypeOK'
  <1>1. doomed' \subseteq Upload
    BY TypeParts DEF IInv, TypeInv, TypeOK
  <1>2. late' \in [Reader -> SUBSET Upload] /\ gone' \in [Reader -> SUBSET Upload]
    BY <1>1 DEF StoreStep, ReaderTypeOK
  <1>3. known' = known
    BY DEF StoreStep
  <1>4. CASE up'
    BY <1>2, <1>3, <1>4 DEF StoreStep, Cut, ReaderTypeOK
  <1>5. CASE ~up'
    BY <1>2, <1>3, <1>5 DEF StoreStep, Cut, ReaderTypeOK, Nothing
  <1> QED  BY <1>4, <1>5

LEMMA StoreReader ==
  ASSUME IInv, FilesInv, ReaderTypeOK, StoreStep, NEW r \in Reader, ReaderGood(r)
  PROVE  ReaderGood(r)'
  <1> DEFINE Cuts == at'[r] = "idle" /\ listing'[r] = Nothing
             Goes == /\ at'[r] = at[r] /\ asked'[r] = asked[r] /\ todo'[r] = todo[r]
                     /\ listing'[r] = listing[r] /\ got'[r] = got[r]
  <1>1. Cuts \/ Goes
    BY DEF StoreStep, Cut
  <1>2. /\ late'[r] = late[r] \cup doomed' /\ gone'[r] = gone[r] \cup doomed'
        /\ known'[r] = known[r]
    BY DEF StoreStep
  <1>k. \A u \in Upload \ doomed : receipt[u] # None =>
          receipt'[u] = receipt[u] /\ (u \in ack => u \in ack')
    BY ReceiptKept DEF StoreStep
  <1>e. /\ \A u \in Upload : known[r][u] \in Entry
        /\ \A u \in Upload : listing[r][u] \in Entry
    BY DEF ReaderTypeOK, Entry
  <1>c. ASSUME NEW u \in Upload \ doomed, NEW entry \in Entry, entry # None, StillTrue(entry, u)
        PROVE  receipt'[u] = entry.receipt /\ (entry.acked => u \in ack')
    BY <1>c, <1>k, EntryParts DEF StillTrue
  <1>3. Noticed(r)'
    BY <1>1, <1>2 DEF ReaderGood, Noticed, Reads
  <1>4. KnownTrue(r)'
    <2> SUFFICES ASSUME NEW u \in Upload, known'[r][u] # None, u \notin gone'[r]
                 PROVE  receipt'[u] = known'[r][u].receipt /\ (known'[r][u].acked => u \in ack')
      BY DEF KnownTrue, StillTrue
    <2>1. u \notin doomed /\ StillTrue(known[r][u], u)
      BY <1>2 DEF ReaderGood, Noticed, KnownTrue
    <2> QED  BY <1>2, <1>c, <1>e, <2>1
  <1>5. ListingTrue(r)'
    <2>1. CASE Cuts
      BY <2>1 DEF ListingTrue, Reads, Nothing
    <2>2. CASE Goes
      <3>1. ~Reads(r)' => listing'[r] = Nothing
        BY <2>2 DEF Reads, ReaderGood, ListingTrue
      <3> SUFFICES ASSUME NEW u \in Upload, listing'[r][u] # None, u \notin late'[r]
                   PROVE  /\ receipt'[u] = listing'[r][u].receipt
                          /\ listing'[r][u].acked => u \in ack'
        BY <3>1 DEF ListingTrue, StillTrue
      <3>2. Reads(r) /\ StillTrue(listing[r][u], u)
        BY <1>2, <2>2 DEF ReaderGood, ListingTrue, Nothing
      <3>3. u \notin doomed
        BY <1>2, <3>2 DEF ReaderGood, Noticed
      <3> QED  BY <1>c, <1>e, <2>2, <3>2, <3>3
    <2> QED  BY <1>1, <2>1, <2>2
  <1>6. ListingWhole(r)'
    BY <1>1, <1>2 DEF ReaderGood, ListingWhole, Reads, Extends
  <1>7. Fetching(r)'
    <2>1. closedBundle => closedBundle'
      BY ClosureKept DEF StoreStep
    <2> QED  BY <1>1, <1>2, <2>1 DEF ReaderGood, Fetching, FromList
  <1>8. Served(r)'
    BY <1>1, <1>2 DEF ReaderGood, Served, Outcome, Matches
  <1> QED  BY <1>3, <1>4, <1>5, <1>6, <1>7, <1>8 DEF ReaderGood

-----------------------------------------------------------------------------
(* A reader's own steps. *)


Unmoved(g) ==
  /\ at'[g] = at[g] /\ asked'[g] = asked[g] /\ todo'[g] = todo[g]
  /\ listing'[g] = listing[g] /\ known'[g] = known[g] /\ got'[g] = got[g]
  /\ late'[g] = late[g] /\ gone'[g] = gone[g]

LEMMA UnmovedGood ==
  ASSUME UNCHANGED vars, NEW g \in Reader, ReaderGood(g), Unmoved(g)
  PROVE  ReaderGood(g)'
  <1> USE DEF Unmoved, vars, bundleVars, uploadVars, ReaderGood
  <1>1. Noticed(g)' /\ KnownTrue(g)'
    BY DEF Noticed, Reads, KnownTrue, StillTrue
  <1>2. ListingTrue(g)' /\ ListingWhole(g)'
    BY DEF Reads, ListingTrue, ListingWhole, StillTrue, Extends
  <1>3. Fetching(g)' /\ Served(g)'
    BY DEF Fetching, FromList, Served, Matches
  <1> QED  BY <1>1, <1>2, <1>3

LEMMA OthersUnmoved ==
  ASSUME ReaderTypeOK, NEW r \in Reader, NEW g \in Reader \ {r}, Retrieve(r)
  PROVE  Unmoved(g)
  <1> USE DEF Unmoved, ReaderTypeOK, Reading, Continue
  <1>1. CASE Ask(r) \/ AskClosed(r) \/ Returned(r)
    BY <1>1 DEF Ask, AskClosed, Returned
  <1>2. CASE ReadDir(r) \/ List(r)
    BY <1>2 DEF ReadDir, List
  <1>3. CASE ReadReceipt(r) \/ StatAck(r)
    BY <1>3 DEF ReadReceipt, StatAck
  <1>4. CASE ReadManifest(r) \/ ChunkManifest(r) \/ ChunkReceipt(r) \/ ChunkOpen(r)
    BY <1>4 DEF ReadManifest, ChunkManifest, ChunkReceipt, ChunkOpen
  <1> QED  BY <1>1, <1>2, <1>3, <1>4 DEF Retrieve

LEMMA AskStep ==
  ASSUME ReadInv, IInv, UNCHANGED vars, NEW r \in Reader, Ask(r) \/ AskClosed(r)
  PROVE  ReaderTypeOK' /\ ReaderGood(r)'
  <1> USE DEF ReadInv
  <1>g. ReaderGood(r)
    OBVIOUS
  <1>1. PICK q \in Query :
          /\ asked' = [asked EXCEPT ![r] = q] /\ FromList(r, q)
          /\ \/ at' = [at EXCEPT ![r] = q.op]
             \/ at' = [at EXCEPT ![r] = "auth"] /\ closedBundle
          /\ ~Reads(r)
          /\ UNCHANGED <<todo, listing, known, got, late, gone>>
    <2>1. CASE Ask(r)
      <3>1. active \/ closedBundle
        BY DEF IInv, ClosureInv, ClosureFailsClosed
      <3> QED  BY <2>1, <3>1 DEF Ask, Reading, Continue, FromList, Reads
    <2>2. CASE AskClosed(r)
      <3>1. at[r] = "auth" /\ closedBundle /\ asked[r] \in Query /\ FromList(r, asked[r])
        BY <1>g, <2>2 DEF AskClosed, Reading, ReaderGood, Fetching
      <3>2. asked' = [asked EXCEPT ![r] = asked[r]]
        BY <2>2 DEF AskClosed, ReaderTypeOK
      <3> QED  BY <2>2, <3>1, <3>2 DEF AskClosed, Continue, Reads
    <2> QED  BY <2>1, <2>2
  <1>2. q.op \in {"list", "manifest", "chunk"}
    BY QueryParts
  <1>3. ReaderTypeOK'
    BY <1>1, <1>2 DEF ReaderTypeOK
  <1>4. asked'[r] = q /\ at'[r] \in {"list", "manifest", "chunk", "auth"}
        /\ (at'[r] # "auth" => at'[r] = q.op) /\ (at'[r] = "auth" => closedBundle)
    BY <1>1, <1>2 DEF ReaderTypeOK
  <1>5. Fetching(r)'
    BY <1>1, <1>4 DEF Fetching, FromList, vars, bundleVars
  <1>6. Served(r)'
    BY <1>4 DEF Served, Outcome
  <1>7. Noticed(r)' /\ KnownTrue(r)'
    BY <1>g, <1>1, <1>4 DEF ReaderGood, Noticed, KnownTrue, StillTrue, Reads, vars, uploadVars
  <1>8. ListingTrue(r)' /\ ListingWhole(r)'
    BY <1>g, <1>1, <1>4 DEF ReaderGood, ListingTrue, ListingWhole, StillTrue, Reads, Nothing
  <1> QED  BY <1>3, <1>5, <1>6, <1>7, <1>8 DEF ReaderGood

LEMMA ReturnedStep ==
  ASSUME ReadInv, UNCHANGED vars, NEW r \in Reader, Returned(r)
  PROVE  ReaderTypeOK' /\ ReaderGood(r)'
  <1>g. ReaderGood(r) /\ ReaderTypeOK
    BY DEF ReadInv
  <1>1. /\ at' = [at EXCEPT ![r] = "idle"] /\ asked' = [asked EXCEPT ![r] = None]
        /\ got' = [got EXCEPT ![r] = None] /\ ~Reads(r)
        /\ UNCHANGED <<todo, listing, known, late, gone>>
    BY DEF Returned, Continue, Reads, Outcome
  <1>2. ReaderTypeOK'
    BY <1>g, <1>1 DEF ReaderTypeOK
  <1>3. at'[r] = "idle"
    BY <1>g, <1>1 DEF ReaderTypeOK
  <1>4. Fetching(r)' /\ Served(r)'
    BY <1>3 DEF Fetching, Served, Outcome
  <1>5. Noticed(r)' /\ KnownTrue(r)'
    BY <1>g, <1>1, <1>3 DEF ReaderGood, Noticed, KnownTrue, StillTrue, Reads, vars, uploadVars
  <1>6. ListingTrue(r)' /\ ListingWhole(r)'
    BY <1>g, <1>1, <1>3 DEF ReaderGood, ListingTrue, ListingWhole, StillTrue, Reads, Nothing
  <1> QED  BY <1>2, <1>4, <1>5, <1>6 DEF ReaderGood

(* Listing. *)

LEMMA ReadDirStep ==
  ASSUME ReadInv, IInv, FilesInv, UNCHANGED vars, NEW r \in Reader, ReadDir(r)
  PROVE  ReaderTypeOK' /\ ReaderGood(r)'
  <1>g. ReaderGood(r) /\ ReaderTypeOK /\ Files
    BY TypeParts DEF ReadInv, IInv
  <1>1. /\ at' = [at EXCEPT ![r] = "entry"] /\ ~Reads(r)
        /\ todo' = [todo EXCEPT ![r] = {u \in Upload : dir[u] # "none"}]
        /\ late' = [late EXCEPT ![r] = doomed]
        /\ UNCHANGED <<asked, listing, known, got, gone>>
    BY DEF ReadDir, Reading, Continue, Reads
  <1>2. doomed \subseteq Upload
    BY <1>g DEF Files
  <1>3. ReaderTypeOK'
    BY <1>g, <1>1, <1>2 DEF ReaderTypeOK
  <1>4. /\ at'[r] = "entry" /\ todo'[r] = {u \in Upload : dir[u] # "none"}
        /\ late'[r] = doomed /\ listing'[r] = Nothing
    BY <1>g, <1>1 DEF ReaderTypeOK, ReaderGood, ListingTrue
  <1>5. Noticed(r)' /\ KnownTrue(r)'
    BY <1>g, <1>1, <1>4 DEF ReaderGood, Noticed, KnownTrue, StillTrue, vars, uploadVars
  <1>6. ListingTrue(r)'
    BY <1>4 DEF ListingTrue, Reads, Nothing
  <1>7. ListingWhole(r)'
    <2> SUFFICES ASSUME NEW u \in Upload \ todo'[r], known'[r][u] # None, u \notin gone'[r]
                 PROVE  FALSE
      BY DEF ListingWhole
    <2>1. known[r][u] \in Entry /\ known[r][u] # None /\ StillTrue(known[r][u], u)
      BY <1>g, <1>1 DEF ReaderTypeOK, Entry, ReaderGood, KnownTrue
    <2>2. receipt[u] # None
      BY <2>1, EntryParts DEF StillTrue
    <2>3. dir[u] = "none"
      BY <1>4
    <2>4. receipt[u] = None
      BY <2>3 DEF FilesInv, Placed, Absent
    <2> QED  BY <2>2, <2>4
  <1>8. Fetching(r)' /\ Served(r)'
    BY <1>4 DEF Fetching, Served, Outcome
  <1> QED  BY <1>3, <1>5, <1>6, <1>7, <1>8 DEF ReaderGood

LEMMA ReadReceiptStep ==
  ASSUME ReadInv, IInv, UNCHANGED vars, NEW r \in Reader, ReadReceipt(r)
  PROVE  ReaderTypeOK' /\ ReaderGood(r)'
  <1>g. ReaderGood(r) /\ ReaderTypeOK /\ Files
    BY TypeParts DEF ReadInv, IInv
  <1>r. at[r] = "entry" /\ Reads(r) /\ UNCHANGED <<asked, known, got, late, gone>>
    BY DEF ReadReceipt, Reading, Reads
  <1>k. KnownTrue(r)'
    BY <1>g, <1>r DEF ReaderGood, KnownTrue, StillTrue, vars, uploadVars
  <1>u. receipt' = receipt /\ ack' = ack /\ doomed' = doomed
    BY DEF vars, uploadVars
  <1>e. \A u \in Upload : known[r][u] # None => known[r][u].receipt # None
    BY <1>g, EntryParts DEF ReaderTypeOK, Entry
  <1>1. PICK u \in todo[r] :
          \/ /\ receipt[u] = None
             /\ todo' = [todo EXCEPT ![r] = @ \ {u}] /\ UNCHANGED <<at, listing>>
          \/ /\ receipt[u] # None
             /\ listing' = [listing EXCEPT ![r][u] = Unmarked(u)]
             /\ at' = [at EXCEPT ![r] = "acked"] /\ UNCHANGED todo
    BY DEF ReadReceipt, Continue
  <1>2. u \in Upload
    BY <1>g DEF ReaderTypeOK
  <1>3. CASE /\ receipt[u] = None
             /\ todo' = [todo EXCEPT ![r] = @ \ {u}] /\ UNCHANGED <<at, listing>>
    <2>1. ReaderTypeOK'
      BY <1>g, <1>r, <1>3 DEF ReaderTypeOK
    <2>2. todo'[r] = todo[r] \ {u} /\ at'[r] = "entry" /\ listing'[r] = listing[r]
      BY <1>g, <1>r, <1>3 DEF ReaderTypeOK
    <2>3. Noticed(r)' /\ ListingTrue(r)'
      BY <1>g, <1>r, <1>u, <2>2 DEF ReaderGood, Noticed, ListingTrue, StillTrue, Reads
    <2>4. ListingWhole(r)'
      <3>1. known[r][u] = None \/ u \in gone[r]
        BY <1>g, <1>e, <1>2, <1>3 DEF ReaderGood, KnownTrue, StillTrue
      <3> QED  BY <1>g, <1>r, <2>2, <3>1 DEF ReaderGood, ListingWhole, Reads, Extends
    <2>5. Fetching(r)' /\ Served(r)'
      BY <2>2 DEF Fetching, Served, Outcome
    <2> QED  BY <1>k, <2>1, <2>3, <2>4, <2>5 DEF ReaderGood
  <1>4. CASE /\ receipt[u] # None
             /\ listing' = [listing EXCEPT ![r][u] = Unmarked(u)]
             /\ at' = [at EXCEPT ![r] = "acked"] /\ UNCHANGED todo
    <2>1. Unmarked(u) \in Listed /\ Unmarked(u).receipt = receipt[u] /\ Unmarked(u).acked = FALSE
      BY <1>g, <1>2, <1>4 DEF Files, Unmarked, Listed
    <2>2. PICK new \in Listed :
            new = Unmarked(u) /\ new.receipt = receipt[u] /\ new.acked = FALSE
      BY <2>1
    <2>3. ReaderTypeOK'
      BY <1>g, <1>r, <1>2, <1>4, <2>2 DEF ReaderTypeOK
    <2>4. /\ at'[r] = "acked" /\ todo'[r] = todo[r] /\ listing'[r][u] = new
          /\ \A v \in Upload \ {u} : listing'[r][v] = listing[r][v]
      BY <1>g, <1>r, <1>2, <1>4, <2>2 DEF ReaderTypeOK
    <2>5. Noticed(r)' /\ ListingTrue(r)'
      BY <1>g, <1>r, <1>u, <2>2, <2>4 DEF ReaderGood, Noticed, ListingTrue, StillTrue, Reads
    <2>6. ListingWhole(r)'
      BY <1>g, <1>r, <2>4 DEF ReaderGood, ListingWhole, Reads, Extends
    <2>7. Fetching(r)' /\ Served(r)'
      BY <2>4 DEF Fetching, Served, Outcome
    <2> QED  BY <1>k, <2>3, <2>5, <2>6, <2>7 DEF ReaderGood
  <1> QED  BY <1>1, <1>3, <1>4

LEMMA StatAckStep ==
  ASSUME ReadInv, UNCHANGED vars, NEW r \in Reader, StatAck(r)
  PROVE  ReaderTypeOK' /\ ReaderGood(r)'
  <1>g. ReaderGood(r) /\ ReaderTypeOK
    BY DEF ReadInv
  <1>r. at[r] = "acked" /\ Reads(r) /\ UNCHANGED <<asked, known, got, late, gone>>
    BY DEF StatAck, Reading, Reads
  <1>k. KnownTrue(r)'
    BY <1>g, <1>r DEF ReaderGood, KnownTrue, StillTrue, vars, uploadVars
  <1>u. receipt' = receipt /\ ack' = ack /\ doomed' = doomed
    BY DEF vars, uploadVars
  <1>1. PICK u \in todo[r] :
          /\ listing[r][u] # None
          /\ listing' = [listing EXCEPT ![r][u].acked = u \in ack]
          /\ todo' = [todo EXCEPT ![r] = @ \ {u}]
    BY DEF StatAck
  <1>2. at' = [at EXCEPT ![r] = "entry"]
    BY DEF StatAck, Continue
  <1>3. u \in Upload /\ listing[r][u] \in Listed
    BY <1>g, <1>1 DEF ReaderTypeOK
  <1>4. PICK marked \in BOOLEAN : marked = (u \in ack)
    <2>1. (u \in ack) \in BOOLEAN
      OBVIOUS
    <2> QED  BY <2>1, Zenon
  <1>5. PICK new \in Listed :
          /\ new = [listing[r][u] EXCEPT !.acked = marked]
          /\ new.receipt = listing[r][u].receipt /\ new.acked = marked
    <2>1. /\ [listing[r][u] EXCEPT !.acked = marked] \in Listed
          /\ [listing[r][u] EXCEPT !.acked = marked].receipt = listing[r][u].receipt
          /\ [listing[r][u] EXCEPT !.acked = marked].acked = marked
      BY <1>3 DEF Listed
    <2> QED  BY <2>1, Zenon
  <1>6. listing' = [listing EXCEPT ![r][u] = new] /\ todo' = [todo EXCEPT ![r] = @ \ {u}]
    BY <1>1, <1>4, <1>5
  <1>n. new # None
    BY RetrievalAssumption
  <1>7. ReaderTypeOK'
    BY <1>g, <1>r, <1>2, <1>3, <1>6 DEF ReaderTypeOK
  <1>8. /\ at'[r] = "entry" /\ todo'[r] = todo[r] \ {u} /\ listing'[r][u] = new /\ new # None
        /\ \A v \in Upload \ {u} : listing'[r][v] = listing[r][v]
    BY <1>g, <1>2, <1>3, <1>6, <1>n DEF ReaderTypeOK
  <1>9. Noticed(r)'
    BY <1>g, <1>r, <1>u, <1>8 DEF ReaderGood, Noticed, Reads
  <1>10. ListingTrue(r)'
    <2>1. u \notin late[r] => receipt[u] = new.receipt /\ (new.acked => u \in ack)
      BY <1>g, <1>1, <1>3, <1>4, <1>5 DEF ReaderGood, ListingTrue, StillTrue
    <2> QED  BY <1>g, <1>r, <1>u, <1>8, <2>1 DEF ReaderGood, ListingTrue, StillTrue, Reads
  <1>11. ListingWhole(r)'
    <2>1. known[r][u] # None /\ u \notin gone[r] => Extends(known[r][u], new)
      <3> SUFFICES ASSUME known[r][u] # None, u \notin gone[r] PROVE Extends(known[r][u], new)
        OBVIOUS
      <3>1. u \notin late[r] /\ StillTrue(known[r][u], u)
        BY <1>g, <1>3 DEF ReaderGood, Noticed, KnownTrue
      <3>2. receipt[u] = listing[r][u].receipt
        BY <1>g, <1>1, <1>3, <3>1 DEF ReaderGood, ListingTrue, StillTrue
      <3> QED  BY <1>4, <1>5, <1>8, <3>1, <3>2 DEF Extends, StillTrue
    <2> QED  BY <1>g, <1>r, <1>8, <2>1 DEF ReaderGood, ListingWhole, Reads, Extends
  <1>12. Fetching(r)' /\ Served(r)'
    BY <1>8 DEF Fetching, Served, Outcome
  <1> QED  BY <1>k, <1>7, <1>9, <1>10, <1>11, <1>12 DEF ReaderGood

(* The finished list takes the place of the last one.                        *)
LEMMA ListStep ==
  ASSUME ReadInv, UNCHANGED vars, NEW r \in Reader, List(r)
  PROVE  /\ ReaderTypeOK' /\ ReaderGood(r)'
         /\ known'[r] = listing[r] /\ Reads(r) /\ todo[r] = {}
  <1>g. ReaderGood(r) /\ ReaderTypeOK
    BY DEF ReadInv
  <1>u. receipt' = receipt /\ ack' = ack /\ doomed' = doomed
    BY DEF vars, uploadVars
  <1>1. /\ at[r] = "entry" /\ Reads(r) /\ todo[r] = {} /\ at' = [at EXCEPT ![r] = "idle"]
        /\ known' = [known EXCEPT ![r] = listing[r]]
        /\ listing' = [listing EXCEPT ![r] = Nothing]
        /\ asked' = [asked EXCEPT ![r] = None]
        /\ gone' = [gone EXCEPT ![r] = late[r]] /\ late' = [late EXCEPT ![r] = {}]
        /\ UNCHANGED <<todo, got>>
    BY DEF List, Reading, Continue, Reads
  <1>2. Nothing \in [Upload -> Listed \cup {None}]
    BY DEF Nothing
  <1>3. ReaderTypeOK'
    BY <1>g, <1>1, <1>2 DEF ReaderTypeOK
  <1>4. /\ at'[r] = "idle" /\ known'[r] = listing[r] /\ listing'[r] = Nothing
        /\ gone'[r] = late[r] /\ late'[r] = {}
    BY <1>g, <1>1 DEF ReaderTypeOK
  <1>5. Noticed(r)'
    BY <1>g, <1>1, <1>4, <1>u DEF ReaderGood, Noticed, Reads
  <1>6. KnownTrue(r)'
    BY <1>g, <1>4, <1>u DEF ReaderGood, KnownTrue, ListingTrue, StillTrue
  <1>7. ListingTrue(r)' /\ ListingWhole(r)'
    BY <1>4 DEF ListingTrue, ListingWhole, Reads, Nothing
  <1>8. Fetching(r)' /\ Served(r)'
    BY <1>4 DEF Fetching, Served, Outcome
  <1> QED  BY <1>1, <1>3, <1>4, <1>5, <1>6, <1>7, <1>8 DEF ReaderGood

-----------------------------------------------------------------------------
(* Fetching: the files of a listed upload are those its receipt describes.   *)

LEMMA ListedStored ==
  ASSUME ReadInv, FilesInv, NEW r \in Reader, NEW u \in Upload \ gone[r], known[r][u] # None
  PROVE  /\ receipt[u] = known[r][u].receipt /\ receipt[u] # None
         /\ manifest[u] = receipt[u].m /\ manifest[u] # None
         /\ AllFit(chunk[u], manifest[u]) /\ receipt[u] = ReceiptOf(chunk[u], manifest[u])
  <1>1. known[r][u] \in Entry /\ StillTrue(known[r][u], u) /\ u \notin doomed
    BY DEF ReadInv, ReaderTypeOK, Entry, ReaderGood, KnownTrue, Noticed
  <1>2. receipt[u] = known[r][u].receipt /\ receipt[u] # None /\ receipt[u] \in Receipt
    BY <1>1, EntryParts DEF StillTrue
  <1>3. Described(u)
    BY DEF FilesInv
  <1>4. receipt[u].m \in Manifest
    BY <1>2 DEF Receipt
  <1> QED  BY <1>1, <1>2, <1>3, <1>4, StoreAssumption DEF Described

(* A step that moves r on, or ends its request with what it read.            *)
LEMMA FetchStep ==
  ASSUME ReadInv, UNCHANGED vars, NEW r \in Reader, ~Reads(r),
         NEW l \in {"receipt", "open", "notfound", "served"},
         NEW value \in Manifest \cup ChunkFile \cup {None},
         at' = [at EXCEPT ![r] = l], got' = [got EXCEPT ![r] = value],
         UNCHANGED <<asked, todo, listing, known, late, gone>>,
         asked[r] \in Query, FromList(r, asked[r]),
         l \in {"receipt", "open"} => asked[r].op = "chunk",
         l \in Outcome /\ asked[r].u \notin gone[r] =>
           l = "served" /\ Matches(asked[r], value, known[r][asked[r].u].receipt)
  PROVE  ReaderTypeOK' /\ ReaderGood(r)'
  <1>g. ReaderGood(r) /\ ReaderTypeOK
    BY DEF ReadInv
  <1>1. ReaderTypeOK'
    BY <1>g DEF ReaderTypeOK, Outcome
  <1>2. at'[r] = l /\ got'[r] = value
    BY <1>g DEF ReaderTypeOK
  <1>3. Noticed(r)' /\ KnownTrue(r)'
    BY <1>g, <1>2 DEF ReaderGood, Noticed, KnownTrue, StillTrue, Reads, vars, uploadVars
  <1>4. ListingTrue(r)' /\ ListingWhole(r)'
    BY <1>g, <1>2 DEF ReaderGood, ListingTrue, ListingWhole, StillTrue, Reads, Nothing
  <1>5. Fetching(r)'
    BY <1>2 DEF Fetching, FromList
  <1>6. Served(r)'
    BY <1>2 DEF Served, Matches, Outcome
  <1> QED  BY <1>1, <1>3, <1>4, <1>5, <1>6 DEF ReaderGood

LEMMA ManifestStep ==
  ASSUME ReadInv, IInv, FilesInv, UNCHANGED vars, NEW r \in Reader, ReadManifest(r)
  PROVE  ReaderTypeOK' /\ ReaderGood(r)'
  <1> DEFINE m == manifest[asked[r].u]
             l == IF m = None THEN "notfound" ELSE "served"
  <1>1. /\ asked[r] \in Query /\ asked[r].op = "manifest" /\ asked[r].u \in Upload
        /\ FromList(r, asked[r]) /\ ~Reads(r)
    BY QueryParts DEF ReadManifest, Reading, ReadInv, ReaderGood, Fetching, Reads
  <1>2. m \in Manifest \cup ChunkFile \cup {None}
    BY <1>1, TypeParts DEF IInv, Files
  <1>3. asked[r].u \notin gone[r] =>
          l = "served" /\ Matches(asked[r], m, known[r][asked[r].u].receipt)
    BY <1>1, ListedStored DEF FromList, Matches
  <1>4. at' = [at EXCEPT ![r] = l] /\ got' = [got EXCEPT ![r] = m]
        /\ UNCHANGED <<asked, todo, listing, known, late, gone>>
    BY DEF ReadManifest, Continue
  <1>5. l \in {"receipt", "open", "notfound", "served"} /\ l \notin {"receipt", "open"}
    OBVIOUS
  <1> HIDE DEF m, l
  <1> QED  BY <1>1, <1>2, <1>3, <1>4, <1>5, FetchStep

LEMMA ChunkStep ==
  ASSUME ReadInv, IInv, FilesInv, UNCHANGED vars, NEW r \in Reader,
         ChunkManifest(r) \/ ChunkReceipt(r) \/ ChunkOpen(r)
  PROVE  ReaderTypeOK' /\ ReaderGood(r)'
  <1>g. ReaderGood(r) /\ ReaderTypeOK
    BY DEF ReadInv
  <1>1. /\ asked[r] \in Query /\ asked[r].op = "chunk" /\ FromList(r, asked[r]) /\ ~Reads(r)
    BY <1>g DEF ChunkManifest, ChunkReceipt, ChunkOpen, Reading, ReaderGood, Fetching, Reads
  <1>2. PICK u \in Upload, i \in Index : asked[r].u = u /\ asked[r].i = i
    BY <1>1, QueryParts
  <1>3. known[r][u] # None /\ i < Count(known[r][u].receipt.m)
    BY <1>1, <1>2 DEF FromList
  <1>4. ASSUME u \notin gone[r]
        PROVE  /\ manifest[u] # None /\ i < Count(manifest[u]) /\ receipt[u] # None
               /\ chunk[u][i] # None
               /\ Matches(asked[r], chunk[u][i], known[r][u].receipt)
    <2>1. /\ receipt[u] = known[r][u].receipt /\ receipt[u] # None
          /\ manifest[u] = receipt[u].m /\ manifest[u] # None
          /\ AllFit(chunk[u], manifest[u]) /\ receipt[u] = ReceiptOf(chunk[u], manifest[u])
      BY <1>3, <1>4, ListedStored
    <2>2. manifest[u] \in Manifest
      BY <2>1, TypeParts DEF IInv, Files
    <2>3. i \in Indices(manifest[u])
      BY <1>3, <2>1, <2>2, IndexBelowCount
    <2>4. chunk[u][i] \in ChunkFile /\ chunk[u][i].len = ExpectedLength(manifest[u], i)
      BY <2>1, <2>3 DEF AllFit, Fits
    <2>5. receipt[u].root[i] = chunk[u][i].dig
      BY <2>1, <2>3 DEF ReceiptOf
    <2>6. chunk[u][i] = [len |-> ExpectedLength(manifest[u], i), dig |-> receipt[u].root[i]]
      BY <2>4, <2>5 DEF ChunkFile
    <2>7. Matches(asked[r], chunk[u][i], receipt[u])
      BY <1>1, <1>2, <2>1, <2>6 DEF Matches
    <2> QED  BY <1>3, <2>1, <2>4, <2>7, StoreAssumption
  <1>5. CASE ChunkManifest(r)
    <2>1. PICK l \in {"receipt", "notfound"} :
            /\ at' = [at EXCEPT ![r] = l] /\ (u \notin gone[r] => l = "receipt")
      BY <1>2, <1>4, <1>5 DEF ChunkManifest, Continue
    <2>2. got' = [got EXCEPT ![r] = got[r]]
          /\ UNCHANGED <<asked, todo, listing, known, late, gone>>
      BY <1>g, <1>5 DEF ChunkManifest, ReaderTypeOK
    <2>3. got[r] \in Manifest \cup ChunkFile \cup {None}
      BY <1>g DEF ReaderTypeOK
    <2> QED  BY <1>1, <1>2, <2>1, <2>2, <2>3, FetchStep DEF Outcome
  <1>6. CASE ChunkReceipt(r)
    <2>1. PICK l \in {"open", "notfound"} :
            /\ at' = [at EXCEPT ![r] = l] /\ (u \notin gone[r] => l = "open")
      BY <1>2, <1>4, <1>6 DEF ChunkReceipt, Continue
    <2>2. got' = [got EXCEPT ![r] = got[r]]
          /\ UNCHANGED <<asked, todo, listing, known, late, gone>>
      BY <1>g, <1>6 DEF ChunkReceipt, ReaderTypeOK
    <2>3. got[r] \in Manifest \cup ChunkFile \cup {None}
      BY <1>g DEF ReaderTypeOK
    <2> QED  BY <1>1, <1>2, <2>1, <2>2, <2>3, FetchStep DEF Outcome
  <1>7. CASE ChunkOpen(r)
    <2>1. PICK l \in {"served", "notfound"} :
            /\ at' = [at EXCEPT ![r] = l] /\ (u \notin gone[r] => l = "served")
      BY <1>2, <1>4, <1>7 DEF ChunkOpen, Continue
    <2>2. got' = [got EXCEPT ![r] = chunk[u][i]]
          /\ UNCHANGED <<asked, todo, listing, known, late, gone>>
      BY <1>2, <1>7 DEF ChunkOpen
    <2>3. chunk[u][i] \in Manifest \cup ChunkFile \cup {None}
      BY TypeParts DEF IInv, Files
    <2> QED  BY <1>1, <1>2, <1>4, <2>1, <2>2, <2>3, FetchStep DEF Outcome
  <1> QED  BY <1>5, <1>6, <1>7

-----------------------------------------------------------------------------
LEMMA RetrieveStep ==
  ASSUME ReadInv, Inv, UNCHANGED vars, NEW r \in Reader, Retrieve(r)
  PROVE  ReadInv'
  <1>1. ReaderTypeOK' /\ ReaderGood(r)'
    BY AskStep, ReturnedStep, ReadDirStep, ReadReceiptStep, StatAckStep, ListStep,
       ManifestStep, ChunkStep DEF Retrieve, Inv
  <1>2. \A g \in Reader \ {r} : ReaderGood(g)'
    BY OthersUnmoved, UnmovedGood DEF ReadInv
  <1> QED  BY <1>1, <1>2 DEF ReadInv

LEMMA ReadStep ==
  ASSUME ReadInv, Inv, Inv', [RetrievalNext]_retrievalVars
  PROVE  ReadInv'
  <1>1. CASE StoreStep
    BY <1>1, StoreTypes, StoreReader DEF ReadInv, Inv
  <1>2. ASSUME NEW r \in Reader, Retrieve(r), UNCHANGED vars PROVE ReadInv'
    BY <1>2, RetrieveStep
  <1>3. CASE UNCHANGED retrievalVars
    <2>1. ReaderTypeOK'
      BY <1>3 DEF retrievalVars, readVars, ReadInv, ReaderTypeOK
    <2>2. \A r \in Reader : Unmoved(r)
      BY <1>3 DEF retrievalVars, readVars, Unmoved
    <2> QED  BY <1>3, <2>1, <2>2, UnmovedGood DEF ReadInv, retrievalVars
  <1> QED  BY <1>1, <1>2, <1>3 DEF RetrievalNext

LEMMA ReadInit == RetrievalInit => ReadInv
  <1> SUFFICES ASSUME RetrievalInit PROVE ReadInv
    OBVIOUS
  <1>1. ReaderTypeOK
    BY DEF RetrievalInit, ReaderTypeOK, Nothing
  <1>2. ASSUME NEW r \in Reader PROVE ReaderGood(r)
    BY DEF RetrievalInit, Init, ReaderGood, Noticed, KnownTrue, ListingTrue, ListingWhole,
       Fetching, Served, Reads, Outcome, Nothing
  <1> QED  BY <1>1, <1>2 DEF ReadInv

(* Beside readers the store behaves as it does without them. *)
LEMMA ReadersHarmless == RetrievalSpec => Spec
  <1>1. RetrievalInit => Init
    BY DEF RetrievalInit
  <1>2. [RetrievalNext]_retrievalVars => [Next]_vars
    BY DEF RetrievalNext, StoreStep, retrievalVars
  <1> QED  BY <1>1, <1>2, PTL DEF RetrievalSpec, Spec

LEMMA ReadInvariant == RetrievalSpec => [](Inv /\ ReadInv)
  <1>1. RetrievalSpec => []Inv
    BY ReadersHarmless, StrongInvariant, PTL
  <1>2. ReadInv /\ Inv /\ Inv' /\ [RetrievalNext]_retrievalVars => ReadInv'
    BY ReadStep
  <1> QED  BY <1>1, <1>2, ReadInit, PTL DEF RetrievalSpec

(* Every variable of the readers stays in its type, in particular what a     *)
(* request returned is a manifest, a chunk or nothing.                       *)
THEOREM ReaderTypesCorrect == RetrievalSpec => []ReaderTypeOK
  <1>1. Inv /\ ReadInv => ReaderTypeOK
    BY DEF ReadInv
  <1> QED  BY <1>1, ReadInvariant, PTL

(* A recipient is served what it was listed, or learns that it is gone only  *)
(* after its removal was decided.                                            *)
THEOREM ListedIsServed == RetrievalSpec => []ServedAsListed
  <1>1. Inv /\ ReadInv => ServedAsListed
    BY DEF ReadInv, ReaderGood, Served, ServedAsListed
  <1> QED  BY <1>1, ReadInvariant, PTL

(* A finished list names what the last one named. *)
Grows ==
  \A r \in Reader, u \in Upload :
    known[r][u] # None /\ List(r) /\ u \notin gone[r] =>
      /\ known'[r][u] # None
      /\ known'[r][u].receipt = known[r][u].receipt
      /\ known[r][u].acked => known'[r][u].acked

(* Polling recipients lose sight of no upload that nobody removed, and take  *)
(* no acknowledgement back.                                                  *)
THEOREM ListingsGrow == RetrievalSpec => ListingGrows
  <1>1. Inv /\ ReadInv /\ [RetrievalNext]_retrievalVars => [Grows]_retrievalVars
    <2> SUFFICES ASSUME ReadInv, [RetrievalNext]_retrievalVars,
                        NEW r \in Reader, NEW u \in Upload,
                        known[r][u] # None, List(r), u \notin gone[r]
                 PROVE  Extends(known[r][u], known'[r][u])
      BY DEF Grows, Extends
    <2>1. Reads(r) /\ todo[r] = {} /\ known'[r] = listing[r]
      BY DEF List, Reading, Reads, ReadInv, ReaderTypeOK
    <2> QED  BY <2>1 DEF ReadInv, ReaderGood, ListingWhole
  <1>2. ListingGrows <=> [][Grows]_retrievalVars
    BY DEF ListingGrows, Grows
  <1> QED  BY <1>1, <1>2, ReadInvariant, PTL DEF RetrievalSpec
=============================================================================
