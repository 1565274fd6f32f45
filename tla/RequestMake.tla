----------------------------- MODULE RequestMake -----------------------------
(***************************************************************************)
(* The commands that bring a request into being: `request make' writes the *)
(* private key and then the public bundle into new files, `request create' *)
(* imports the bundle as well, `request import' imports one from a file.   *)
(* Commands run next to each other on paths the operators choose; each     *)
(* step may fail, a command may be killed, and a power loss may cut what   *)
(* was not synced.  The command that makes a request stands for its ID.    *)
(***************************************************************************)
EXTENDS Integers

CONSTANTS
  Command,        \* the commands run, each once
  Path,           \* where keys and bundles are written
  Text,           \* request labels, trimmed
  Bytes,          \* per label its length in bytes
  Marshalled,     \* per label what JSON makes of it: invalid bytes are replaced
  Lifetime,       \* request lifetimes asked for
  Files,          \* file quotas asked for
  Amount, Unit,   \* byte quotas asked for: a number and its unit's multiplier
  MaxLabel, MaxFiles, MaxBytes,
  Cap,            \* 2^62: numbers are words of 4 * Cap values
  None

Kind == {"key", "bundle"}
Bundle == [label : Text, lifetime : Lifetime, files : Files, bytes : Int]
(* A file is being written, written, or safe on the disk. *)
File == [kind : Kind, id : Command, state : {"partial", "written", "synced"}]
Making ==
  [op : {"make", "create"}, label : Text, lifetime : Lifetime, files : Files,
   n : Amount, unit : Unit, key : Path, bundle : Path]
Arguments == Making \cup [op : {"import"}, bundle : Path]

ASSUME RequestMakeAssumption ==
  /\ Bytes \in [Text -> Nat]
  /\ Marshalled \in [Text -> Text]
  /\ \A t \in Text : Marshalled[Marshalled[t]] = Marshalled[t]
  /\ Lifetime \subseteq Int /\ Files \subseteq Int
  /\ Amount \subseteq Nat /\ Unit \subseteq Nat \ {0}
  /\ MaxLabel \in Nat /\ MaxFiles \in Nat /\ MaxBytes \in Nat /\ Cap \in Nat \ {0}
  /\ None \notin Int /\ None \notin File /\ None \notin Command

VARIABLES
  file,      \* per path its file, or None
  request,   \* per ID the imported bundle, or None
  made,      \* history: per ID the bundle the command made, or None
  args,      \* per command what it was asked, or None
  target,    \* per command the ID of the bundle it imports, or None
  doing,     \* per command what it is busy with, or how it ended
  step       \* and the step it takes next
vars == <<file, request, made, args, target, doing, step>>

Ended == {"ok", "failed", "invalid", "conflict"}

Init ==
  /\ file = [p \in Path |-> None]
  /\ request = [c \in Command |-> None] /\ made = [c \in Command |-> None]
  /\ args = [c \in Command |-> None] /\ target = [c \in Command |-> None]
  /\ doing = [c \in Command |-> "idle"] /\ step = [c \in Command |-> "open"]

-----------------------------------------------------------------------------
(* Two's complement. *)
Wrap(x) == ((x + 2 * Cap) % (4 * Cap)) - 2 * Cap

\* Fault: only the number is compared with the limit.
ParseBytesUnscaled(n, unit) == IF n <= 0 \/ n > Cap THEN None ELSE Wrap(n * unit)

ParseBytes(n, unit) == IF n <= 0 \/ n > Cap \div unit THEN None ELSE Wrap(n * unit)

\* Fault: the file quota has no upper limit.
MakeRequestUncapped(a, bytes) ==
  IF /\ Bytes[a.label] \in 1 .. MaxLabel /\ a.lifetime > 0
     /\ a.files >= 1 /\ bytes \in 1 .. MaxBytes
    THEN [label |-> a.label, lifetime |-> a.lifetime, files |-> a.files, bytes |-> bytes]
    ELSE None

(* What MakeRequest accepts; the ID, tokens and keys it draws are the        *)
(* command's own.                                                            *)
MakeRequest(a, bytes) ==
  IF /\ Bytes[a.label] \in 1 .. MaxLabel /\ a.lifetime > 0
     /\ a.files \in 1 .. MaxFiles /\ bytes \in 1 .. MaxBytes
    THEN [label |-> a.label, lifetime |-> a.lifetime, files |-> a.files, bytes |-> bytes]
    ELSE None

BundleFor(a) ==
  LET bytes == ParseBytes(a.n, a.unit)
  IN IF bytes = None THEN None ELSE MakeRequest(a, bytes)

(* What the store asks of a bundle it imports. *)
Valid(b) ==
  /\ Bytes[b.label] # 0 /\ Bytes[b.label] <= MaxLabel
  /\ b.lifetime > 0
  /\ b.files >= 1 /\ b.files <= MaxFiles /\ b.bytes >= 1 /\ b.bytes <= MaxBytes

(* A bundle as a file holds it. *)
Marshal(b) == [b EXCEPT !.label = Marshalled[@]]

-----------------------------------------------------------------------------
At(c, what, next) == doing[c] = what /\ step[c] = next
Goto(c, what, next) ==
  doing' = [doing EXCEPT ![c] = what] /\ step' = [step EXCEPT ![c] = next]
End(c, how) == Goto(c, how, "open")
Output(c) == IF doing[c] = "key" THEN args[c].key ELSE args[c].bundle

(* ImportRequest looks at the bundle first. *)
Import(c, b) == IF Valid(b) THEN Goto(c, "import", "stat") ELSE End(c, "invalid")

Make(c) ==
  /\ doing[c] = "idle"
  /\ \/ \E a \in Making :
          /\ BundleFor(a) # None
          /\ made' = [made EXCEPT ![c] = BundleFor(a)]
          /\ args' = [args EXCEPT ![c] = a]
          /\ target' = [target EXCEPT ![c] = c]
          /\ Goto(c, "key", "open")
     \/ End(c, "failed") /\ UNCHANGED <<made, args, target>>
  /\ UNCHANGED <<file, request>>

(* readJSON refuses a key, and whatever is not the whole of a bundle.        *)
ReadBundle(c) ==
  /\ doing[c] = "idle"
  /\ \E p \in Path :
       \/ /\ file[p] # None /\ file[p].kind = "bundle" /\ file[p].state # "partial"
          /\ args' = [args EXCEPT ![c] = [op |-> "import", bundle |-> p]]
          /\ target' = [target EXCEPT ![c] = file[p].id]
          /\ Import(c, Marshal(made[file[p].id]))
       \/ End(c, "failed") /\ UNCHANGED <<args, target>>
  /\ UNCHANGED <<file, request, made>>

-----------------------------------------------------------------------------
(* writeNewFile, for the key first and then for the bundle. *)

\* Fault: the file does not say which request it belongs to.
NewFileNameless(c) == [kind |-> doing[c], id |-> None, state |-> "partial"]
NewFile(c) == [kind |-> doing[c], id |-> c, state |-> "partial"]

\* Fault: a file that is there is truncated.
OpenTruncating(c) ==
  /\ doing[c] \in Kind /\ step[c] = "open"
  /\ file' = [file EXCEPT ![Output(c)] = NewFile(c)]
  /\ Goto(c, doing[c], "write")
  /\ UNCHANGED <<request, made, args, target>>

Open(c) ==
  /\ doing[c] \in Kind /\ step[c] = "open"
  /\ \/ /\ file[Output(c)] = None
        /\ file' = [file EXCEPT ![Output(c)] = NewFile(c)]
        /\ Goto(c, doing[c], "write")
     \/ UNCHANGED file /\ End(c, "failed")
  /\ UNCHANGED <<request, made, args, target>>

Reaches(c, state) == file' = [file EXCEPT ![Output(c)].state = state]

Write(c) ==
  /\ doing[c] \in Kind /\ step[c] = "write"
  /\ \/ Reaches(c, "written") /\ Goto(c, doing[c], "sync")
     \/ UNCHANGED file /\ Goto(c, doing[c], "remove")
  /\ UNCHANGED <<request, made, args, target>>

\* Fault: the file is not synced.
SyncSkipped(c) ==
  /\ doing[c] \in Kind /\ step[c] = "sync"
  /\ Goto(c, doing[c], "close")
  /\ UNCHANGED <<file, request, made, args, target>>

Sync(c) ==
  /\ doing[c] \in Kind /\ step[c] = "sync"
  /\ \/ Reaches(c, "synced") /\ Goto(c, doing[c], "close")
     \/ UNCHANGED file /\ Goto(c, doing[c], "remove")
  /\ UNCHANGED <<request, made, args, target>>

Close(c) ==
  /\ doing[c] \in Kind /\ step[c] = "close"
  /\ \/ doing[c] = "key" /\ Goto(c, "bundle", "open")
     \/ doing[c] = "bundle" /\ args[c].op = "make" /\ End(c, "ok")
     \/ doing[c] = "bundle" /\ args[c].op = "create" /\ Import(c, made[c])
     \/ Goto(c, doing[c], "remove")
  /\ UNCHANGED <<file, request, made, args, target>>

(* A file that could not be finished is removed again, if it can be. *)
Remove(c) ==
  /\ doing[c] \in Kind /\ step[c] = "remove"
  /\ file' = [file EXCEPT ![Output(c)] = None] \/ UNCHANGED file
  /\ End(c, "failed")
  /\ UNCHANGED <<request, made, args, target>>

-----------------------------------------------------------------------------
(* writeNew into the data directory: look, then rename the finished file. *)

Stat(c) ==
  /\ At(c, "import", "stat")
  /\ \/ request[target[c]] = None /\ Goto(c, "import", "rename")
     \/ request[target[c]] # None /\ End(c, "conflict")
     \/ End(c, "failed")
  /\ UNCHANGED <<file, request, made, args, target>>

Rename(c) ==
  /\ At(c, "import", "rename")
  /\ \/ /\ request' = [request EXCEPT ![target[c]] = Marshal(made[target[c]])]
        /\ End(c, "ok") \/ End(c, "failed")
     \/ UNCHANGED request /\ End(c, "failed")
  /\ UNCHANGED <<file, made, args, target>>

-----------------------------------------------------------------------------
Busy(c) == doing[c] \notin Ended \cup {"idle"}

Killed(c) ==
  /\ Busy(c) /\ End(c, "failed")
  /\ UNCHANGED <<file, request, made, args, target>>

(* What was written and not synced may come back cut. *)
Cut(f) == IF f # None /\ f.state = "written" THEN [f EXCEPT !.state = "partial"] ELSE f
PowerLoss ==
  /\ \E lost \in SUBSET Path :
       file' = [p \in Path |-> IF p \in lost THEN Cut(file[p]) ELSE file[p]]
  /\ doing' = [c \in Command |-> IF Busy(c) THEN "failed" ELSE doing[c]]
  /\ step' = [c \in Command |-> "open"]
  /\ UNCHANGED <<request, made, args, target>>

Next ==
  \/ \E c \in Command :
       \/ Make(c) \/ ReadBundle(c) \/ Open(c) \/ Write(c) \/ Sync(c) \/ Close(c)
       \/ Remove(c) \/ Stat(c) \/ Rename(c) \/ Killed(c)
  \/ PowerLoss

Spec == Init /\ [][Next]_vars

-----------------------------------------------------------------------------
(* Every variable stays in its type. *)
TypeOK ==
  /\ file \in [Path -> File \cup {None}]
  /\ request \in [Command -> Bundle \cup {None}]
  /\ made \in [Command -> Bundle \cup {None}]
  /\ args \in [Command -> Arguments \cup {None}]
  /\ target \in [Command -> Command \cup {None}]
  /\ doing \in [Command -> Kind \cup Ended \cup {"idle", "import"}]
  /\ step \in [Command ->
       {"open", "write", "sync", "close", "remove", "stat", "rename"}]

KeySynced(id) == [kind |-> "key", id |-> id, state |-> "synced"]

(* What a request that reached the server receives can be decrypted: the     *)
(* private key lies whole and synced in a file of its own, whatever commands *)
(* ran next to its maker, were killed or lost power (requestMake).           *)
KeyBeforeRequest ==
  \A id \in Command : request[id] # None => \E p \in Path : file[p] = KeySynced(id)

(* A file whose command is done with it - finished, failed or killed - is    *)
(* never removed, replaced or cut by another command, not even when both     *)
(* were given the same path, or the command itself the same path twice.      *)
FilesOfOthersKept ==
  [][\A p \in Path :
       file[p] # None /\ doing[file[p].id] # file[p].kind =>
         /\ file'[p] # None
         /\ file'[p].id = file[p].id /\ file'[p].kind = file[p].kind
         /\ file[p].state = "synced" => file'[p] = file[p]]_vars

(* The quotas a request is served with are those its maker asked for, the    *)
(* byte quota as the unlimited product of number and unit.                   *)
QuotaAsAsked ==
  \A id \in Command : request[id] # None =>
    /\ request[id].files = args[id].files
    /\ request[id].bytes = args[id].n * args[id].unit

(* A bundle that was made is never refused as invalid on import, except for  *)
(* a label JSON had to repair (MakeRequest, validateBundle).                 *)
MadeIsValid ==
  \A c \in Command : doing[c] = "invalid" =>
    \E id \in {target[c]} : Marshalled[made[id].label] # made[id].label
=============================================================================
