# OpaqueDrop: specifications and proofs

OpaqueDrop takes encrypted files into a *request*: a recipient makes a request
and hands out a submit link, senders upload ciphertext chunk by chunk from the
browser, the server keeps the ciphertext in a directory tree, and the recipient
collects, verifies and decrypts it. This directory holds TLA+ models of that
program, the TLC configurations that check them and TLAPS proofs about them.
Paths below are relative to `src/`.

## The system

| Part | State | Operations | Modelled |
|---|---|---|---|
| store (`internal/store/store.go`) | files: active and closed bundle, closure marker, per upload a directory with `manifest.json`, `server.json`, `chunks/*.bin`, `complete.json`, `acknowledged.json`; a mutex | ImportRequest, BeginUpload, PutChunk, Complete, Acknowledge, CloseRequest, Purge; ListReceipts, ReadManifest, OpenChunk, which read without the mutex | `Store`, the reads `Retrieval` (Init, Doctor, Info left out) |
| server (`internal/server/server.go`) | one goroutine per request | authorize, submit routes, collect routes | its control flow inside `Store`, `Retrieval` and `Limiter` |
| limiter (`internal/server/limiter.go`) | table of failure windows; a mutex | blocked, failure | `Limiter` |
| client IP resolver (`internal/server/client_ip.go`) | none | resolve | `ClientIP`, inside `Limiter` |
| browser uploader (`internal/server/web/app.js`, `retry.js`) | one file at a time: key, upload ID, chunk digests, attempt count | begin, put, complete, each retried | `Uploader` (one click) |
| collector (`internal/collector/collector.go`) | output directory, receipts listed | wait, list, fetch with retries, verify, publish, acknowledge, close, inspect | `Collector` (inspect and the close call left out) |
| command line (`cmd/opaquedrop/main.go`) | none | serve, request make / create / import, collect, purge, ... | request commands as `RequestMake`; import, purge and restart as actions of `Store`; collect as `Collector` |
| core (`internal/core/core.go`) | none | MakeRequest, ParseBytes, MarshalPretty, names, tokens | what a request may ask for and how sizes are read, in `RequestMake` |
| cryptobox, model | none | sealing, receipt root, wire types | what a receipt binds, what a chunk opens under, sizes |
| web pages, scripts, CI checks | none | | not modelled: static or test drivers |

The browser and the collector talk HTTP to the server. Each handler asks the
limiter, checks a capability against a bundle read from disk, for submit routes
looks at the closure marker, and then calls one store operation. `purge` and
`request import` are processes of their own on the same directory. `request make`
and `request create` write the private key and the bundle wherever the operator
says, before anything reaches the server.

**What is hard.** Handlers run concurrently. The store mutex covers the body of
each mutating operation but not the capability check (two file reads in a row),
not the closure gate of the submit routes, not PutChunk's first read of the
manifest, and no read of the recipient's, which is several files in a row beside
whatever removes them. An operation is several file system calls, each of which
may fail; `writeNew` can report a failure for a file that is already in place.
The process may be killed between any two calls and finds its files again when it restarts.
Removing an upload unlinks its files one by one in no promised order, can stop
half way, and frees the upload ID for a new upload. PutChunk reads a request
body with the mutex held. The limiter's check and count are separate critical
sections, and whom it charges is read out of a header that senders can fill in.
Clients retry what may already have happened. Two request commands may be given
the same output path, and the power may go before a key is on the disk.

**What makes each part correct.** Store: a receipt describes what is stored
until removal is decided; quotas bound what is reserved; closing stops every
submission, is stable and completes after a crash; nothing is overwritten; a
success is answered only once it is on disk; every call is answered, unless a
body stalls that is read with the mutex held; a recipient
gets what the receipts it was listed describe. Limiter: a bounded table in which
nobody else's activity frees a blocked client, and a failure is charged to its
sender. Request commands: an imported request has its key on the disk and the
quotas asked for, and no command touches another's files. Uploader:
a file is reported as stored only when the server holds a receipt for the bytes
this page sent, and the page's own lost or late requests never fail it.
Collector: what is saved is what was receipted; publishing never replaces a
file; a file is acknowledged only after it is published; each receipt selected
is saved or reported; a command ends unless the network leaves it hanging.

## Modules

| Module | What it is |
|---|---|
| `Chunking` | sizes of chunks: the ceiling division of `validateManifest`, the expected length of `expectedCipherChunkSize` |
| `Manifests` | manifests, chunk files and receipts over `Chunking`; shared by `Intake`, `Store` and `Uploader` |
| `Intake` | abstract specification: a request as a ledger with atomic operations and no handlers, locks, files or crashes |
| `Store` | the detailed model of one request: files, mutex, handlers, failures, crash and restart, purge, import, time |
| `StoreInvariant` | the inductive invariant of the store's proofs; why the mutex is not left behind and a call ends |
| `MCStore` | instances of `Store` for TLC |
| `StoreProofs`, `StoreReceiptProofs`, `ManifestsProofs` | TLAPS proofs: types and closure; files, receipts, quota, the refinement and progress; sizes |
| `Retrieval`, `MCRetrieval`, `RetrievalProofs` | recipients that list and fetch beside `Store`; the instance; the proofs |
| `ClientIP` | which client a request is charged to |
| `Limiter`, `MCLimiter`, `LimiterProofs` | the limiter over `ClientIP`, its instance, the proofs of both |
| `RequestMake`, `MCRequestMake`, `RequestMakeProofs` | the request commands, their instance, their proofs |
| `Uploader`, `MCUploader`, `UploaderProofs` | the upload page and the server's answers over `Intake`, its instance, its proofs |
| `Collector`, `MCCollector`, `CollectorProofs` | collect commands on one output directory, their instance, their proofs |

`Store` implements `Intake` (checked, and proved), and `Uploader` runs over
`Intake` instead of over `Store`. That `Store` implements the ledger is a fact
about state: it says what may change, not what is answered. The answers in
`Uploader` are translated from the handlers once more, together with the files
of uploads that are off the ledger, which the handlers still serve; that these
agree with `Store`'s is not proved. `Retrieval` extends `Store`: each step is
the store's or a read. `Collector` keeps a still simpler server, the completed
uploads and which of them were acknowledged.

### Store

Each file is a variable: `active`, `closedBundle` and `closure` for the request;
`dir`, `manifest`, `server`, `chunk`, `receipt`, `ack` for each upload. `mu` is
the mutex; `pc`, `job` and `seen` say for every handler where it is, which
request it serves and what it has read. A handler's labels follow the code:

    idle -> auth -> gate -> begin -> mkdir -> chunks -> manifest -> server -> ok
                         -> put -> body -> ok
                         -> complete -> receipt -> ok
               ack -> ackwrite -> delete -> remove -> ok
               close -> mark -> move -> ok

`Call` is the arrival of a request and Authenticate's look at the active bundle;
`auth` is its look at the closed one; `gate` the closure check in `authorize`.
`BeginVerdict`, `PutVerdict`, `CompleteVerdict` and `CloseVerdict` hold the
checks an operation makes under the lock, in the code's order; their value is
the answer or the label to go on to. Every later file operation is an action of
its own, so that a crash (`Crash`) or an error (`IOFails`, and the error
outcomes of the writing actions for a failing last `chmod`) may fall between any
two. A failing BeginUpload goes to `cleanup`, the deferred RemoveAll. `Unlink`
removes any one entry of an upload's directory; `remove`, `cleanup` and purge
share it. `Purge` acts only while the server is down: DEPLOYMENT.md supports one
server/maintenance writer for a data directory.

`doomed` is a history variable: the uploads whose removal was decided (by an
acknowledgement with delete-after-collect or by purge) and whose directory still
exists, perhaps in part. Properties about stored data exempt them, because the
code removes their files one at a time.

Abstractions. A manifest is a value that stands for exact bytes; a digest for
one chunk content. Temporary files are invisible, since no code looks at them.
One request is modelled: requests share only the mutex. Only requests with a
valid capability appear (the others never reach the store). `completed_at` and
the acknowledgement's time are left out; the closure's time is kept because it
must not change. A read of a file that is there succeeds; a write may fail. A body
arrives with the right length, or is refused, or breaks off, or stalls: the step
that ends it may never be taken.

### Retrieval

`at`, `asked`, `todo`, `listing`, `known` and `got` are a recipient: where its
request is, what it asked, the directory entries a listing has still to look at,
the list so far, the last list it was given, and what its request returned.
Authentication is `Ask` and `AskClosed`, two file reads as in `Store`.

    idle -> auth -> list: ReadDir -> entry: ReadReceipt <-> acked: StatAck -> idle
                 -> manifest -> served | notfound
                 -> chunk -> receipt -> open -> served | notfound

Each step reads one file; between any two of them handlers, crashes and purge may
act (`StoreStep`, which is `Store`'s whole `Next`). A crash ends the requests
being served (`Cut`) but not what a recipient was told. `late` and `gone` are
history variables: the uploads whose removal was decided since a listing in
progress, or the last finished one, read the directory. A recipient asks only for
what it was listed.

### Limiter

`Blocked`, `Failure` and `Authenticated` are the three points where a handler
meets the limiter; `checking` is the client whose capability the handler is
checking in between. The sweep in `bucketKey` happens inside the action that
asks for a key, as in the code. Who the client is, `Blocked` takes from
`ClientIP`: a request leaves an address (`from`) with hops its sender made up
(`MayForge`), passes a path of trusted proxies, each of which appends the address
it got the request from (`Arrives`), and `Resolve` walks the hops from the
nearest back to the first that is no trusted address. `sender` is a history
variable with the true origin. Texts that name an address in several ways (with
zones or blanks) are texts with the same `Denotes`; an IPv4 address and its IPv6
form are two addresses, as the code does not unmap the latter; a text that does
not parse has none. Trusted proxies are assumed to append, as the documented
configuration does, and to forge nothing.

### RequestMake

`doing[c]` says what a command is busy with (`key`, `bundle`, `import`) or how it
ended, `step[c]` which step of `writeNewFile` or of `ImportRequest` comes next:

    open -> write -> sync -> close        (key, then bundle; from each: remove)
    stat -> rename                        (import)

Every step may fail and every command may be killed. `file` holds what lies at
each path: a file is `partial`, `written` or `synced`; `PowerLoss` ends all
commands and may cut any file that was not synced. Since IDs are random, the
command that makes a request stands for its ID; `made` is the bundle it made.
`ParseBytes` computes in words of `4 * Cap` values, the code's 64 bits being
`Cap` = 2^62, so that an overflow of number times unit would show. `Marshalled`
is what JSON makes of a label: invalid UTF-8 grows when it is replaced, so a
label may pass MakeRequest and be too long when the bundle is read back.

Abstractions. Keys and tokens are ideal. The bundle's other fields are copied.
That a synced new file keeps its name through a power loss is assumed of the file
system (the code does not sync the directory). The server's data directory is
reached by its last two steps only; that its file is synced is the store's
`writeNew`, and no power loss cuts it here.

### Uploader

`page` is the state of `uploadAll`: the file it is at, the operation (`begin`,
`put`, `complete`, and `head` for putChunk's question after a 409), the chunk
and the attempt. `flight` holds the requests no handler has finished. `Handle`
is a handler's effect on the server together with its answer, which reaches the
page or not; `React` is what the page does with it. `NetworkFails` is a request
without an answer: lost, or left in `flight` to be handled later, beside the
page's next ones. A handler may also fail without an effect, or answer a
temporary failure although it succeeded (`writeNew`). `Others` is every action
of the ledger: other senders under the same upload IDs, the recipient, closing,
expiry, purge.

`remains` holds the files in the directory of an upload that is off the ledger:
one whose removal was begun, and perhaps interrupted, or whose begin did not get
as far as `server.json`. PutChunk, ChunkDigest and Complete ask for none of this;
they look at `manifest.json`, the chunks and `complete.json` only (`Found`). So
off the ledger, too, a chunk is stored, a sealed upload answers with its receipt,
and one whose manifest and fitting chunks are there is completed with a fresh
receipt; a repeated begin may succeed or conflict, depending on what is left of
`server.json` and `chunks/`. `OffLedger` lets these files come and go one by one,
at least as freely as the code; that they are gone before the ID is begun anew
is what the store's directory check enforces.

Abstractions. Chunks are a manifest's content by index; sending is one attempt
at a time, as in the code. Delays only order attempts; a delay the server asks
for and the page refuses is a refusal. A failed page stops: another click draws
new IDs.

### Collector

`run[c]` is the state of one `collect` command:

    idle -> list <-> sleep
            list -> next -> manifest -> prepare -> chunk -> verify -> publish -> ack -> acking
                    next -> ok | partial          (stopped, killed: from anywhere)

`list`, `manifest` and `chunk` are reads with retries (`Retry`, `ReadFails`) of
what the server holds at that moment. `Verify` recomputes the receipt; `Link`
and `NameTaken` are `publishOutput`, one candidate name at a time, so that two
commands may race for it. `Fail` and `OutputError` are the two ways `Collect`
treats an error. `SendAck` puts the acknowledgement under way; it names the
upload only. `AckArrives` is the server's handler, with or without an answer
that is heard; `AckFails` gives up on it without taking it back. `Cancel` is the
signal, noticed where the code looks at its context. `freed` is a history
variable: bodies removed by an acknowledgement.

Abstractions. A body is a manifest with its chunks; encryption is ideal
(`Opens`). A removal is one step: half-removed directories read as missing or as
whole. The listing is one step. Items are taken in any order rather than in
order of completion. Temporary files are invisible. Names of different files
differ with their suffixes: that `x-2` may be a file's own name only makes one
more name taken.

## What is checked

| Run | Instance | Shows |
|---|---|---|
| `store_serve` | 2 handlers, 1 upload ID, 2 manifests (one partial chunk; a full and a partial one), 2 contents, times 0..1, expiry at 1 | types; closing fails closed, stops submissions and is stable; a valid capability is accepted while the bundle moves; nothing is overwritten; answers are durable; `Store` implements `Intake` |
| `store_delete` | same with one content, delete-after-collect, times 0..2, expiry at 2, so that an upload can be older than the stale limit before the request expires | receipts match what is stored; nothing receipted is given up early; the inductive invariant `Inv`; `Store` implements `Intake`; the mutex is not left behind and no step sets a handler back |
| `store_quota` | 2 handlers, 2 upload IDs, one manifest larger than the request allows and one of which only one fits | quotas hold under racing begins |
| `store_live` | 2 handlers, 1 upload, fair | every call is answered, unless its manifest or a chunk's body stalls |
| `retrieval` | 1 handler, 1 reader, 1 upload ID, 2 manifests, delete-after-collect, times 0..1 | a recipient gets what it was listed; lists only grow, except by removals |
| `collector` | 2 commands, each either waiting, acknowledging and going on after failures, or naming two uploads and failing fast; an ID used for two bodies of one name and shape, an upload that does not authenticate; 2 names, 1 retry, 2 polls | what is saved is what was receipted; nothing is replaced; nothing is released unsaved; batches are accounted for; no step of a command leads back, and commands end or hang on the network |
| `uploader` | 1 file of two chunks, 2 contents, an empty file that others may begin under its ID, 3 attempts, 2 given-up requests under way | only what is stored is reported; the page does not trip over its own requests, and goes on with every answer or lost one |
| `limiter` | 2 handlers; 3 senders and a proxy; paths of up to two proxies (one address written in two ways); forged chains of up to two hops, one unreadable; 3 buckets, limit 2, window 2, times 0..5 | table bound, overshoot bound, running windows kept, failures charged to their sender |
| `make` | 3 commands, 2 paths, 4 labels (empty, right, too long, too long once repaired), quotas of at most 2, numbers 0, 1 and 3 in units of 1 and 6, words of four bits | keys before requests, quotas as asked, what is made is valid, files of others kept |

Two handlers are enough for the races here: each is between two critical
sections, or between one and an unlocked read. Reuse of an upload ID needs two
manifests, and one ID. Two chunks are the least with both a full and a last one.
In `retrieval` one handler is enough because the mutex admits one writer at a
time and the reader takes none; one ID used for two manifests is what two reads
in a row could mix up. The third sender of `limiter` shares the overflow bucket
and the fourth address sees expired windows swept; times 0..5 fit two whole
windows and a partial one; two hops are the least in which a forged one lies
behind a real one. In `make`, three times six is more than a word of four bits
holds, one of the three commands imports what another made while a third is
given its path, and two paths are the least for a key and a bundle. In
`collector`, two bodies of one shape are what a reader of several files could
mix up, and the least that makes two commands race for one name; two names and
one retry reach both limits. In `uploader`, two
late requests are beside the page's own, so that a late chunk and a late begin can
meet; a third attempt is the last; a second file on the server, of another size,
is what a reused ID or a stale manifest can mix up with the page's. Batches of
more than one file are only proved about. Handlers, contents and uploads are
symmetric in the safety runs of `Store`, handlers and senders in `limiter`,
commands and paths in `make`. The file quota binds in the runs with one upload
ID in that it is 1; across IDs it is the byte quota of `store_quota` that two
uploads exceed.

Three runs show a disagreement between documentation and code (they expect a
violation; the findings quote the lines):

- `store_expiry`: only BeginUpload looks at the expiry.
- `store_orphan`: an upload that lost its `server.json` to a crash can be
  completed, and purge then removes it as incomplete.
- `store_reimport`: importing a closed request's bundle again makes closing
  answer a conflict.

Two more places look wrong and are not, which the passing runs and the proofs
show. PutChunk takes the expected length from a manifest it read before the lock,
and the upload may have been replaced since; Complete checks the lengths again,
so no receipt is issued for such a chunk (`ReceiptMatchesStored`). Checks of the
limiter that run at once overshoot its limit, by at most one per further handler
(`OvershootBounded`).

**Fairness.** `Fairness` is strong fairness of `Advance(h)`, the steps of a
handler that do not need an error, except while it reads a request body: the Go
scheduler runs every goroutine, and `sync.Mutex` hands a contended lock over to a
waiter after one millisecond, so a handler that finds it free again and again
gets it. Nothing is assumed of bodies, since the server sets only
`ReadHeaderTimeout` (server.go:72-76). `EveryCallAnswered` therefore has two
exceptions. A begin whose manifest stalls, before the mutex is taken, may wait for
ever; it alone. A chunk's body is read with the store's mutex held
(store.go:444), so if one stalls for ever (`BodyStalls`), every other operation
may wait for ever, which the code does allow. The property says that nothing else
does that: no failed write, no aborted body, no crash and no error path.
Fairness makes no difference between a begin that waits for its manifest and one
that waits for the lock, so that a begin gets the lock is shown no further than
that it uses the same one. Calls, crashes, errors, purge and time are not fair.

`Collector` assumes weak fairness of `Step(c)`, the steps of a started command,
except where it awaits the network (`OnNetwork`). The client's `http.Client` has
no `Timeout` and its transport bounds dialling and the wait for headers
(collector.go:86-93), not a body that stalls; a context bounds only the list of a
command that waits, up to its deadline, and whatever a signal cancels.
`CommandEnds` therefore says that a command ends or hangs for ever in one and the
same request (`Hangs`): polls, retries, taken names and failed receipts cannot
keep it, and a cancelled command ends whatever the network does. The server's
steps, other senders, signals and kills are not fair.

**Deadlock** is checked in every run but `collector`, where commands end.

## What is proved

Each theorem holds for every value of the constants that satisfies the named
assumptions of its module:

- `SizesAssumption`, `StoreAssumption`, `RetrievalAssumption`, `LedgerAssumption`:
  sizes are natural numbers, chunk sizes positive, uploads finite, `None` is no
  other value, and no slot of the ledger;
- `CollectorAssumption`: each body is sent under one ID;
- `UploaderAssumption`, `SlotsAreNotNone`: a page's files have IDs of their own
  and contents, `None` is no manifest, chunk, receipt or ledger slot;
- `LimiterAssumption`, `ClientIPAssumption`: handlers and addresses are finite,
  limits positive; a path consists of trusted proxies;
- `RequestMakeAssumption`: JSON leaves alone what it has once repaired; `Cap` is
  positive.

Finiteness is needed only where something is counted.

- `ManifestsProofs`: the declared chunks tile the plaintext; the last is empty
  only for an empty file. The bytes of several manifests are counted as what they
  are, a number of different bytes (`Bytes`, `TotalSize`), rather than added up in
  a recursion, about which nothing could be proved: so one manifest more adds its
  size (`AddedSize`) and fewer manifests are no larger (`SmallerSize`).
- `StoreProofs`: `TypeCorrect`. `TypeOK` is not inductive: a handler writes what
  its request says at the index it says, so the invariant also needs what a
  handler at each label carries (`CarriesMatchStep`). Then `ClosureInv`: a
  handler inside a critical section holds the mutex (`LockDiscipline`) and the
  holder's check of the closure is still true (`ClosureSeen`): with the marker
  still absent it may create, store or seal; at `move` it is present; and a
  handler that missed the active bundle will find the closed one. From it follow
  `ClosureFailsClosed`, `ValidCapabilityAccepted`, `ClosureStable` and
  `ClosureStopsSubmissions`. The argument for the last: only four actions make a
  file appear, each happens at a label where `ClosureSeen` says no marker exists,
  and the one action that writes the marker excludes every other lock holder.
- `StoreReceiptProofs`: `Inv`, and from it `ReceiptMatchesStored`,
  `QuotaRespected`, `NothingOverwritten`, `RetainedUntilReleased` and
  `AnswerIsDurable`. `FilesInv` adds to `IInv`: nothing outlives its directory
  (`Placed`), so a directory made anew is empty; a receipt whose upload is not
  doomed describes the files beside it (`Described`); `server.json` was made from
  the manifest it lies beside (`OneManifest`); and what the lock holder found when
  it took the mutex, or wrote since, is still there (`StillFinds`) - the verdicts
  of the operations are facts about files, and only the lock holder, or purge with
  the server down (`Exclusive`), changes a file. The quota a begin found room for
  is such a fact: it holds until the step that writes `server.json`, which is the
  step that uses it up. A chunk stored under the index of a manifest since
  replaced cannot disturb a receipt: it is only stored where no receipt is, and
  Complete looks at every chunk again.
  Then `StoreImplementsIntake`, the refinement. A slot of the ledger is there
  exactly while manifest, `server.json` and `chunks/` are and no removal was decided
  (`SlotOf`), which is while a repeated begin finds the upload. Of all the store's steps these are seen by the ledger: `server.json`
  begins a slot; a chunk, the receipt and the acknowledgement fill, seal and
  acknowledge it; it is dropped at the decision to remove (`DeleteStart`,
  `PurgeStart`) or by the first unlink of a failed begin; the marker closes the
  ledger; time expires it. Everything else maps to a stutter, also a chunk stored
  under an index the present manifest does not have, a failed write, a crash and
  the rest of a removal.
  Last, what liveness rests on. `MutexIsAtWork`: if the mutex is held, then by a
  handler of the running server inside an operation, and what it removes is still
  there, so the holder always has a step to take. `HandlersGoForward`: each step of
  a handler takes it to a later stage, or reads what it had not read, or unlinks
  something, and all three run out; no other step sets it back, since while one
  handler removes nobody else, who would need the mutex, can put anything there.
- `RetrievalProofs`: types, `ServedAsListed` and `ListingGrows`, from `Inv` and
  `ReadInv`: what a list says of an upload is still so, unless its removal was
  decided since the directory was read (`KnownTrue`, `ListingTrue`), and a list
  in progress has passed over nothing that the last one named (`ListingWhole`).
  The lemma they rest on is `ReceiptKept`: as long as nobody decides to remove an
  upload, no step of the store touches its receipt or its acknowledgement; with
  `Described` its files are then those the receipt names.
- `CollectorProofs`: types, `SavedAsReceipted`, `PublishedKept`,
  `ReleasedOnlyPublished`, `BatchAccounted` and `CommandsAdvance`. The invariant `Good` says what a
  command's record must hold at each label: a manifest from `prepare` on, an
  authentic one at `verify`, the receipt's own at `publish`; with it every step
  but `Link` leaves what is saved alone (`Quiet`). Released uploads need to know
  besides where a listed body can be (`Traceable`: still stored under its ID, or
  freed by an acknowledgement) and that whoever acknowledges, or whose
  acknowledgement is under way, has published (`AckPublished`): an
  acknowledgement that arrives then finds either the body it was sent for or an
  ID used again. For a batch, the selection is at every label split into saved,
  failed, still to do and in hand, and a receipt counted as acknowledged was
  heard to be. `CommandsAdvance` orders a command's records by polls left,
  receipts to do, stage, and chunks, attempts or the signal within a stage; each
  of these is bounded (`Paced` bounds attempts and chunks), so no retry, taken
  name, failed receipt or poll leads a command back.
- `UploaderProofs`: types, `ReportedIsStored`, `ConflictHasCause` and
  `PageGoesOn`. Only a receipt that matches what the page sent ends a file, and
  whatever Complete answers is on disk as it answers: the seal it found, or the
  one it just made (`SealTells`). A sealed slot of the ledger agrees with its
  seal, so there the bytes are stored as well; off the ledger some of the files
  may be gone already, and only the receipt is claimed (`Stored`). What the page's
  own late requests write is what it would have written itself, so a conflict
  needs somebody else. `PageGoesOn` orders the page by file, operation, chunk and
  attempt; the question after a conflict stays within its attempt, so a batch
  takes a bounded number of requests.
- `LimiterProofs`: `SenderResolved`, that `Resolve` of an arriving request is its
  sender, whatever was forged, or a proxy in whose name a proxy sent it. Then
  types, the bound on the table (counting windows before and after the sweep),
  running windows, the overshoot (a window's count and the handlers still
  checking never exceed the limit and the number of handlers) and, from
  `SenderResolved`, `ChargedToSender`.
- `RequestMakeProofs`: types and all four properties of the run. A key is synced
  before the step that opens its bundle, and a file whose command is no longer
  busy with it is touched by nobody, since a file is only created where there is
  none. The product of ParseBytes never leaves the positive half of a word.

Only model-checked: `EveryCallAnswered` and `CommandEnds`, since liveness under
fairness, and `ENABLED`, are beyond the prover. Their safety cores are proved:
that steps lead only forward (`HandlersAdvance`, `CommandsAdvance`, and for the
page `PageGoesOn`) and that
whoever holds the mutex is at work (`HolderAtWork`). What remains to TLC is that
there is always a step to take and that fairness takes it.

## What is not modelled

- Power loss at the server: a crash of `Store` is the death of the process, which
  loses no completed write. Chunk bodies, unlike the JSON files, are not synced,
  so a disk that loses them would leave receipts without chunks; the code has no
  answer to this that a model could check.
- Purge beside a running server, which DEPLOYMENT.md excludes.
- Reads that fail for files that are there: ListReceipts answers such a failure
  with a shorter list, and nothing promises otherwise.
- Several requests: they share only the mutex, the limiter and the disk.
- `Inspect`, which lists and verifies without writing, and the client's
  CloseRequest call, whose server side is in `Store`.
- A second click of the upload page after a failure: it draws new upload IDs and
  is a batch of its own.
- What happens to an acknowledgement that hits an ID used again
  (`ReleasedOnlyPublished` exempts it; the page's IDs are random).
- Init and Doctor (run while nothing else does), malformed input, flags, pages,
  file names, and the cryptography. The limiter restarting empty with the process
  only forgets.

## Plan

Written so far, in this order: the store and its ledger, the limiter, the
collector, the uploader; then the request commands, the client IP walk and the
recipient's reads; then the proofs of the store's receipts, the recipient's reads,
the uploader and the request commands; then those of the quota, of the refinement
and of what progress rests on. Left:

1. `Inspect`, and the CloseRequest call with its retries, with proofs of both.
2. Larger instances of `retrieval` (two uploads; it is the run with the most
   states).
