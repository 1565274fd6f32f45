------------------------------ MODULE Retrieval ------------------------------
(***************************************************************************)
(* The recipient's side of the server: recipients list the receipts and    *)
(* fetch manifests and chunks, file by file and without the store's mutex, *)
(* while the handlers of Store begin, complete, acknowledge, close and     *)
(* remove, and while the server is killed and purged.  Reads are assumed   *)
(* to succeed when the file is there.                                      *)
(***************************************************************************)
EXTENDS Store

CONSTANTS Reader   \* recipients, each with one request under way at a time

Query ==
  [op : {"list"}]
    \cup [op : {"manifest"}, u : Upload] \cup [op : {"chunk"}, u : Upload, i : Index]
Listed == [receipt : Receipt, acked : BOOLEAN]
Outcome == {"served", "notfound", "unauthorized"}

ASSUME RetrievalAssumption == None \notin Listed

VARIABLES
  at,       \* per reader: where its request is
  asked,    \* per reader: its request, or None
  todo,     \* directory entries its listing has still to look at
  listing,  \* the list as far as it is put together
  known,    \* the last list it was given
  got,      \* what its request returned
  late,     \* history: uploads whose removal was decided since it asked for a list
  gone      \* history: the same since it asked for the last list it was given
readVars == <<at, asked, todo, listing, known, got>>
retrievalVars == <<vars, readVars, late, gone>>

Nothing == [u \in Upload |-> None]

RetrievalInit ==
  /\ Init
  /\ at = [r \in Reader |-> "idle"] /\ asked = [r \in Reader |-> None]
  /\ todo = [r \in Reader |-> {}]
  /\ listing = [r \in Reader |-> Nothing] /\ known = [r \in Reader |-> Nothing]
  /\ got = [r \in Reader |-> None]
  /\ late = [r \in Reader |-> {}] /\ gone = [r \in Reader |-> {}]

-----------------------------------------------------------------------------
Continue(r, label) == at' = [at EXCEPT ![r] = label]
Reading(r, label) == up /\ at[r] = label

(* A request: a list, or the manifest or a chunk of a listed upload. *)
Ask(r) ==
  /\ Reading(r, "idle")
  /\ \E q \in Query :
       /\ q.op # "list" => known[r][q.u] # None
       /\ q.op = "chunk" => q.i < Count(known[r][q.u].receipt.m)
       /\ asked' = [asked EXCEPT ![r] = q]
       /\ Continue(r, IF active THEN q.op ELSE "auth")
  /\ UNCHANGED <<todo, listing, known, got, late, gone>>

(* The active bundle was not there: the closed one is read. *)
AskClosed(r) ==
  /\ Reading(r, "auth")
  /\ Continue(r, IF closedBundle THEN asked[r].op ELSE "unauthorized")
  /\ UNCHANGED <<asked, todo, listing, known, got, late, gone>>

Returned(r) ==
  /\ at[r] \in Outcome /\ Continue(r, "idle")
  /\ asked' = [asked EXCEPT ![r] = None] /\ got' = [got EXCEPT ![r] = None]
  /\ UNCHANGED <<todo, listing, known, late, gone>>

-----------------------------------------------------------------------------
\* Fault: the list leaves open whether an upload is acknowledged.
UnmarkedUnset(u) == [receipt |-> receipt[u], acked |-> None]
Unmarked(u) == [receipt |-> receipt[u], acked |-> FALSE]

(* ListReceipts: the directory, then per entry its receipt and whether it is *)
(* acknowledged.                                                             *)
ReadDir(r) ==
  /\ Reading(r, "list") /\ Continue(r, "entry")
  /\ todo' = [todo EXCEPT ![r] = {u \in Upload : dir[u] # "none"}]
  /\ late' = [late EXCEPT ![r] = doomed]
  /\ UNCHANGED <<asked, listing, known, got, gone>>

ReadReceipt(r) ==
  /\ Reading(r, "entry")
  /\ \E u \in todo[r] :
       \/ /\ receipt[u] = None
          /\ todo' = [todo EXCEPT ![r] = @ \ {u}]
          /\ UNCHANGED <<at, listing>>
       \/ /\ receipt[u] # None
          /\ listing' = [listing EXCEPT ![r][u] = Unmarked(u)]
          /\ Continue(r, "acked")
          /\ UNCHANGED todo
  /\ UNCHANGED <<asked, known, got, late, gone>>

StatAck(r) ==
  /\ Reading(r, "acked") /\ Continue(r, "entry")
  /\ \E u \in todo[r] :
       /\ listing[r][u] # None
       /\ listing' = [listing EXCEPT ![r][u].acked = u \in ack]
       /\ todo' = [todo EXCEPT ![r] = @ \ {u}]
  /\ UNCHANGED <<asked, known, got, late, gone>>

List(r) ==
  /\ Reading(r, "entry") /\ todo[r] = {} /\ Continue(r, "idle")
  /\ known' = [known EXCEPT ![r] = listing[r]]
  /\ listing' = [listing EXCEPT ![r] = Nothing]
  /\ asked' = [asked EXCEPT ![r] = None]
  /\ gone' = [gone EXCEPT ![r] = late[r]] /\ late' = [late EXCEPT ![r] = {}]
  /\ UNCHANGED <<todo, got>>

-----------------------------------------------------------------------------
ReadManifest(r) ==
  LET m == manifest[asked[r].u] IN
  /\ Reading(r, "manifest")
  /\ Continue(r, IF m = None THEN "notfound" ELSE "served")
  /\ got' = [got EXCEPT ![r] = m]
  /\ UNCHANGED <<asked, todo, listing, known, late, gone>>

(* OpenChunk: the manifest, the receipt, and only then the chunk. *)
ChunkManifest(r) ==
  LET m == manifest[asked[r].u] IN
  /\ Reading(r, "chunk")
  /\ Continue(r, IF m # None /\ asked[r].i < Count(m) THEN "receipt" ELSE "notfound")
  /\ UNCHANGED <<asked, todo, listing, known, got, late, gone>>

ChunkReceipt(r) ==
  /\ Reading(r, "receipt")
  /\ Continue(r, IF receipt[asked[r].u] # None THEN "open" ELSE "notfound")
  /\ UNCHANGED <<asked, todo, listing, known, got, late, gone>>

ChunkOpen(r) ==
  LET file == chunk[asked[r].u][asked[r].i] IN
  /\ Reading(r, "open")
  /\ Continue(r, IF file = None THEN "notfound" ELSE "served")
  /\ got' = [got EXCEPT ![r] = file]
  /\ UNCHANGED <<asked, todo, listing, known, late, gone>>

Retrieve(r) ==
  \/ Ask(r) \/ AskClosed(r) \/ Returned(r)
  \/ ReadDir(r) \/ ReadReceipt(r) \/ StatAck(r) \/ List(r)
  \/ ReadManifest(r) \/ ChunkManifest(r) \/ ChunkReceipt(r) \/ ChunkOpen(r)

(* With the server go the requests it was serving. *)
Cut ==
  IF up' THEN UNCHANGED <<at, asked, todo, listing, got>>
  ELSE /\ at' = [r \in Reader |-> "idle"] /\ asked' = [r \in Reader |-> None]
       /\ todo' = [r \in Reader |-> {}] /\ listing' = [r \in Reader |-> Nothing]
       /\ got' = [r \in Reader |-> None]

StoreStep ==
  /\ Next /\ Cut
  /\ late' = [r \in Reader |-> late[r] \cup doomed']
  /\ gone' = [r \in Reader |-> gone[r] \cup doomed']
  /\ UNCHANGED known

RetrievalNext == StoreStep \/ \E r \in Reader : Retrieve(r) /\ UNCHANGED vars

RetrievalSpec == RetrievalInit /\ [][RetrievalNext]_retrievalVars

-----------------------------------------------------------------------------
(* Every variable of the readers stays in its type. *)
ReaderTypeOK ==
  /\ at \in [Reader -> {"idle", "auth", "list", "entry", "acked", "manifest", "chunk",
                        "receipt", "open"} \cup Outcome]
  /\ asked \in [Reader -> Query \cup {None}]
  /\ todo \in [Reader -> SUBSET Upload]
  /\ listing \in [Reader -> [Upload -> Listed \cup {None}]]
  /\ known \in [Reader -> [Upload -> Listed \cup {None}]]
  /\ got \in [Reader -> Manifest \cup ChunkFile \cup {None}]
  /\ late \in [Reader -> SUBSET Upload] /\ gone \in [Reader -> SUBSET Upload]

Matches(q, value, seal) ==
  \/ q.op = "manifest" /\ value = seal.m
  \/ /\ q.op = "chunk"
     /\ value = [len |-> ExpectedLength(seal.m, q.i), dig |-> seal.root[q.i]]

(* A recipient gets what the receipt it was given describes - that manifest, *)
(* those chunks - for as long as nobody decided to remove the upload, though *)
(* it reads without the mutex and in several requests; and a recipient with  *)
(* a valid capability is never told it has none (OpenChunk, ReadManifest).   *)
ServedAsListed ==
  \A r \in Reader : at[r] \in Outcome =>
    /\ at[r] # "unauthorized"
    /\ \A q \in {asked[r]} : q.u \notin gone[r] =>
         at[r] = "served" /\ Matches(q, got[r], known[r][q.u].receipt)

(* From one list to the next no upload is lost, has another receipt or is no *)
(* longer acknowledged, unless its removal was decided since (ListReceipts,  *)
(* which `collect --wait' polls).                                            *)
ListingGrows ==
  [][\A r \in Reader, u \in Upload :
       known[r][u] # None /\ List(r) /\ u \notin gone[r] =>
         /\ known'[r][u] # None
         /\ known'[r][u].receipt = known[r][u].receipt
         /\ known[r][u].acked => known'[r][u].acked]_retrievalVars
=============================================================================
