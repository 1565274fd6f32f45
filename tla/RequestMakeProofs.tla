-------------------------- MODULE RequestMakeProofs --------------------------
(***************************************************************************)
(* Whatever commands run, whatever paths they share and wherever they are  *)
(* cut short: a request that was imported is the one that was asked for,   *)
(* and its private key is safe.                                            *)
(***************************************************************************)
EXTENDS RequestMake, TLAPS

(* The byte quota that is accepted is the product, not what a word holds of  *)
(* it.                                                                       *)
LEMMA ProductFits ==
  ASSUME NEW n \in Nat, NEW unit \in Nat \ {0}, ParseBytes(n, unit) # None
  PROVE  ParseBytes(n, unit) = n * unit
  <1>0. Cap \in Nat \ {0}
    BY RequestMakeAssumption
  <1> DEFINE q == Cap \div unit
  <1>1. q \in Int /\ q * unit <= Cap
    BY <1>0
  <1>2. n <= q /\ ParseBytes(n, unit) = Wrap(n * unit)
    BY <1>0, <1>1 DEF ParseBytes
  <1> HIDE DEF q
  <1>3. n * unit <= q * unit
    BY <1>1, <1>2
  <1>4. n * unit \in Int /\ q * unit \in Int /\ 0 <= n * unit
    BY <1>1
  <1>5. n * unit <= Cap
    BY <1>0, <1>1, <1>3, <1>4
  <1>6. ASSUME NEW x \in Int, 0 <= x, x <= Cap PROVE Wrap(x) = x
    BY <1>0, <1>6 DEF Wrap
  <1> QED  BY <1>2, <1>4, <1>5, <1>6

(* What MakeRequest makes is what was asked for, and what the store accepts. *)
AsAsked(a, b) == Valid(b) /\ b.files = a.files /\ b.bytes = a.n * a.unit
LEMMA MakeAsAsked ==
  ASSUME NEW a \in Making, BundleFor(a) # None
  PROVE  BundleFor(a) \in Bundle /\ AsAsked(a, BundleFor(a))
  <1> DEFINE bytes == ParseBytes(a.n, a.unit)
  <1>1. a.n \in Nat /\ a.unit \in Nat \ {0} /\ a.files \in Files /\ a.files \in Int
        /\ a.label \in Text /\ a.lifetime \in Lifetime
    BY RequestMakeAssumption DEF Making
  <1>0. bytes # None /\ BundleFor(a) = MakeRequest(a, bytes)
    BY DEF BundleFor
  <1>2. bytes = a.n * a.unit /\ bytes \in Int
    BY <1>0, <1>1, ProductFits
  <1>3. Bytes[a.label] \in Nat /\ MaxLabel \in Nat /\ MaxFiles \in Nat /\ MaxBytes \in Nat
    BY <1>1, RequestMakeAssumption
  <1> HIDE DEF bytes
  <1>4. PICK b : b = [label |-> a.label, lifetime |-> a.lifetime, files |-> a.files, bytes |-> bytes]
    OBVIOUS
  <1>5. b = BundleFor(a)
        /\ Bytes[a.label] \in 1 .. MaxLabel /\ a.lifetime > 0
        /\ a.files \in 1 .. MaxFiles /\ bytes \in 1 .. MaxBytes
    BY <1>0, <1>4 DEF MakeRequest
  <1>6. b.label = a.label /\ b.lifetime = a.lifetime /\ b.files = a.files /\ b.bytes = bytes
    BY <1>4
  <1>7. b \in Bundle
    BY <1>1, <1>2, <1>4 DEF Bundle
  <1>8. Valid(b)
    BY <1>1, <1>2, <1>3, <1>5, <1>6 DEF Valid
  <1> QED  BY <1>2, <1>5, <1>6, <1>7, <1>8 DEF AsAsked

(* A repaired label is all a bundle's file changes. *)
LEMMA MarshalBundle ==
  ASSUME NEW b \in Bundle
  PROVE  /\ Marshal(b) \in Bundle
         /\ Marshal(b).files = b.files /\ Marshal(b).bytes = b.bytes
         /\ Marshalled[b.label] = b.label => Marshal(b) = b
  BY RequestMakeAssumption DEF Marshal, Bundle

-----------------------------------------------------------------------------
Doing == {"key", "bundle", "ok", "failed", "invalid", "conflict", "idle", "import"}
Step == {"open", "write", "sync", "close", "remove", "stat", "rename"}

LEMMA GotoTypes ==
  ASSUME NEW c \in Command, NEW what \in Doing, NEW next \in Step, TypeOK, Goto(c, what, next)
  PROVE  doing' \in [Command -> Doing] /\ step' \in [Command -> Step]
  BY DEF TypeOK, Goto, Doing, Step, Kind, Ended

(* A command that writes a file writes its own. *)
OwnFile(f, c) == f # None /\ f.id = c /\ f.kind = doing[c]
Writing ==
  \A c \in Command : doing[c] \in Kind =>
    /\ args[c] \in Making /\ target[c] = c
    /\ step[c] \in {"open", "write", "sync", "close", "remove"}
    /\ step[c] # "open" => OwnFile(file[Output(c)], c)
    /\ step[c] = "close" => file[Output(c)].state = "synced"

(* What is imported, and whatever a file holds, was made. *)
Owned ==
  /\ \A p \in Path : file[p] # None => made[file[p].id] # None
  /\ \A c \in Command :
       /\ doing[c] \in Kind => made[c] # None
       /\ doing[c] = "idle" => made[c] = None
       /\ doing[c] \in {"import", "invalid"} => target[c] # None /\ made[target[c]] # None
       /\ doing[c] = "import" => step[c] \in {"stat", "rename"}

(* Bundles are written, and imported, once their key is safe. *)
Safe(id) ==
  /\ doing[id] \notin {"idle", "key"}
  /\ \E p \in Path : file[p] = KeySynced(id)
KeyFirst ==
  /\ \A p \in Path : file[p] # None /\ file[p].kind = "bundle" => Safe(file[p].id)
  /\ \A c \in Command :
       /\ doing[c] = "bundle" => Safe(c)
       /\ doing[c] = "import" => Safe(target[c])
       /\ request[c] # None => Safe(c)

(* Bundles are as asked for, and as made. *)
Faithful ==
  \A c \in Command :
    /\ made[c] # None => args[c] \in Making /\ AsAsked(args[c], made[c])
    /\ request[c] # None => made[c] # None /\ request[c] = Marshal(made[c])
    /\ doing[c] = "invalid" => Marshalled[made[target[c]].label] # made[target[c]].label

IInv == TypeOK /\ Writing /\ Owned /\ KeyFirst /\ Faithful
LEMMA KeyIsFile == \A id \in Command : KeySynced(id) \in File /\ KeySynced(id) # None
  <1>1. \A id \in Command : KeySynced(id) \in File
    BY DEF KeySynced, File, Kind
  <1> QED  BY <1>1, RequestMakeAssumption

LEMMA FileTypes ==
  ASSUME TypeOK, NEW p \in Path, file[p] # None
  PROVE  file[p].kind \in Kind /\ file[p].id \in Command
  BY DEF TypeOK, File

-----------------------------------------------------------------------------
(* A command may end anywhere, leaving everything as it is. *)
LEMMA EndStep ==
  ASSUME IInv, NEW c \in Command, NEW how \in {"ok", "failed", "conflict"}, End(c, how),
         UNCHANGED <<file, request, made, args, target>>
  PROVE  IInv'
  <1> USE DEF IInv
  <1>1. doing' = [doing EXCEPT ![c] = how] /\ step' = [step EXCEPT ![c] = "open"]
    BY DEF End, Goto
  <1>2. TypeOK'
    BY <1>1 DEF TypeOK, Ended
  <1>3. Writing'
    BY <1>1 DEF TypeOK, Writing, OwnFile, Output, Kind
  <1>4. Owned'
    BY <1>1 DEF TypeOK, Owned, Kind
  <1>5. KeyFirst'
    BY <1>1 DEF TypeOK, KeyFirst, Safe, KeySynced
  <1>6. Faithful'
    BY <1>1 DEF TypeOK, Faithful
  <1> QED  BY <1>2, <1>3, <1>4, <1>5, <1>6

(* A command that writes goes on, or gives up, with the file as it is. *)
LEMMA WriterGoesOn ==
  ASSUME IInv, NEW c \in Command, doing[c] \in Kind, step[c] # "open",
         NEW next \in {"sync", "close", "remove"}, Goto(c, doing[c], next),
         next = "close" => file[Output(c)].state = "synced",
         UNCHANGED <<file, request, made, args, target>>
  PROVE  IInv'
  <1> USE DEF IInv
  <1>1. doing' = doing /\ step' = [step EXCEPT ![c] = next]
    BY DEF Goto, TypeOK
  <1>2. TypeOK'
    BY <1>1 DEF TypeOK
  <1>3. Writing'
    BY <1>1 DEF TypeOK, Writing, OwnFile, Output, Kind
  <1>4. Owned'
    BY <1>1 DEF TypeOK, Owned, Kind
  <1>5. KeyFirst'
    BY <1>1 DEF TypeOK, KeyFirst, Safe, KeySynced
  <1>6. Faithful'
    BY <1>1 DEF TypeOK, Faithful
  <1> QED  BY <1>2, <1>3, <1>4, <1>5, <1>6

-----------------------------------------------------------------------------
LEMMA MakeStep == ASSUME IInv, NEW c \in Command, Make(c) PROVE IInv'
  <1> USE DEF IInv
  <1>1. doing[c] = "idle" /\ UNCHANGED <<file, request>>
    BY DEF Make
  <1>2. CASE End(c, "failed") /\ UNCHANGED <<made, args, target>>
    <2>1. doing' = [doing EXCEPT ![c] = "failed"] /\ step' = [step EXCEPT ![c] = "open"]
      BY <1>2 DEF End, Goto
    <2>2. TypeOK'
      BY <1>1, <1>2, <2>1 DEF TypeOK, Ended
    <2>3. Writing'
      BY <1>1, <1>2, <2>1 DEF TypeOK, Writing, OwnFile, Output, Kind
    <2>4. Owned'
      BY <1>1, <1>2, <2>1 DEF TypeOK, Owned, Kind
    <2>5. KeyFirst'
      BY <1>1, <1>2, <2>1 DEF TypeOK, KeyFirst, Safe, KeySynced
    <2>6. Faithful'
      BY <1>1, <1>2, <2>1 DEF TypeOK, Faithful
    <2> QED  BY <2>2, <2>3, <2>4, <2>5, <2>6
  <1>3. ASSUME NEW a \in Making, BundleFor(a) # None,
               made' = [made EXCEPT ![c] = BundleFor(a)],
               args' = [args EXCEPT ![c] = a],
               target' = [target EXCEPT ![c] = c],
               Goto(c, "key", "open")
        PROVE  IInv'
    <2>1. doing' = [doing EXCEPT ![c] = "key"] /\ step' = [step EXCEPT ![c] = "open"]
      BY <1>3 DEF Goto
    <2>2. BundleFor(a) \in Bundle /\ AsAsked(a, BundleFor(a))
      BY <1>3, MakeAsAsked
    <2>3. PICK b : b = BundleFor(a)
      OBVIOUS
    <2>4. made' = [made EXCEPT ![c] = b] /\ b \in Bundle /\ AsAsked(a, b) /\ b # None
      BY <1>3, <2>2, <2>3
    <2>5. a \in Arguments
      BY DEF Arguments
    <2>6. TypeOK'
      BY <1>1, <1>3, <2>1, <2>4, <2>5 DEF TypeOK, Kind
    <2>7. Writing'
      BY <1>1, <1>3, <2>1, <2>4 DEF TypeOK, Writing, OwnFile, Output, Kind
    <2>8. Owned'
      BY <1>1, <1>3, <2>1, <2>4 DEF TypeOK, Owned, Kind
    <2>9. KeyFirst'
      BY <1>1, <1>3, <2>1, <2>4 DEF TypeOK, KeyFirst, Safe, KeySynced
    <2>10. Faithful'
      BY <1>1, <1>3, <2>1, <2>4 DEF TypeOK, Faithful, Owned
    <2> QED  BY <2>6, <2>7, <2>8, <2>9, <2>10
  <1> QED  BY <1>2, <1>3 DEF Make
LEMMA ReadBundleStep == ASSUME IInv, NEW c \in Command, ReadBundle(c) PROVE IInv'
  <1> USE DEF IInv
  <1>1. doing[c] = "idle" /\ UNCHANGED <<file, request, made>>
    BY DEF ReadBundle
  <1>2. CASE End(c, "failed") /\ UNCHANGED <<args, target>>
    BY <1>1, <1>2, EndStep
  <1>3. ASSUME NEW p \in Path, file[p] # None, file[p].kind = "bundle",
               args' = [args EXCEPT ![c] = [op |-> "import", bundle |-> p]],
               target' = [target EXCEPT ![c] = file[p].id],
               Import(c, Marshal(made[file[p].id]))
        PROVE  IInv'
    <2>1. PICK id \in Command : id = file[p].id
      BY <1>3, FileTypes
    <2>2. made[id] # None /\ made[id] \in Bundle /\ Safe(id) /\ id # c /\ made[c] = None
          /\ request[c] = None
      BY <1>1, <1>3, <2>1 DEF TypeOK, Owned, KeyFirst, Faithful, Safe
    <2>3. PICK a : a = [op |-> "import", bundle |-> p]
      OBVIOUS
    <2>4. a \in Arguments
      BY <2>3, Zenon DEF Arguments
    <2>5. args' = [args EXCEPT ![c] = a] /\ target' = [target EXCEPT ![c] = id]
      BY <1>3, <2>1, <2>3
    <2>6. \/ /\ doing' = [doing EXCEPT ![c] = "import"] /\ step' = [step EXCEPT ![c] = "stat"]
          \/ /\ doing' = [doing EXCEPT ![c] = "invalid"] /\ step' = [step EXCEPT ![c] = "open"]
             /\ ~Valid(Marshal(made[id]))
      BY <1>3, <2>1 DEF Import, End, Goto
    <2>7. TypeOK'
      BY <1>1, <2>4, <2>5, <2>6 DEF TypeOK, Ended
    <2>8. Writing'
      BY <1>1, <2>5, <2>6 DEF TypeOK, Writing, OwnFile, Output, Kind
    <2>9. Owned'
      <3>1. id # None
        BY RequestMakeAssumption
      <3> QED  BY <1>1, <2>2, <2>5, <2>6, <3>1 DEF TypeOK, Owned, Kind
    <2>10. KeyFirst'
      <3>1. \A d \in Command : Safe(d) => Safe(d)'
        BY <1>1, <2>6 DEF TypeOK, Safe, KeySynced
      <3>2. target'[c] = id /\ \A d \in Command \ {c} : target'[d] = target[d] /\ doing'[d] = doing[d]
        BY <2>5, <2>6 DEF TypeOK
      <3>3. \A q \in Path : file'[q] # None => file'[q].id \in Command
        BY <1>1, FileTypes
      <3>4. \A d \in Command : doing[d] = "import" => target[d] \in Command
        BY DEF TypeOK, Owned
      <3>5. doing'[c] # "bundle"
        BY <2>6 DEF TypeOK
      <3> QED  BY <1>1, <2>2, <3>1, <3>2, <3>3, <3>4, <3>5 DEF KeyFirst
    <2>11. ~Valid(Marshal(made[id])) => Marshalled[made[id].label] # made[id].label
      BY <2>2, MarshalBundle DEF Faithful, AsAsked
    <2>12. Faithful'
      BY <1>1, <2>2, <2>5, <2>6, <2>11 DEF TypeOK, Faithful
    <2> QED  BY <2>7, <2>8, <2>9, <2>10, <2>12
  <1> QED  BY <1>2, <1>3 DEF ReadBundle

LEMMA OpenStep == ASSUME IInv, NEW c \in Command, Open(c) PROVE IInv'
  <1> USE DEF IInv
  <1>1. doing[c] \in Kind /\ step[c] = "open" /\ UNCHANGED <<request, made, args, target>>
    BY DEF Open
  <1>2. CASE UNCHANGED file /\ End(c, "failed")
    BY <1>1, <1>2, EndStep
  <1>3. CASE /\ file[Output(c)] = None
             /\ file' = [file EXCEPT ![Output(c)] = NewFile(c)]
             /\ Goto(c, doing[c], "write")
    <2>1. PICK o \in Path : o = Output(c)
      BY <1>1 DEF Writing, Output, Making, Kind
    <2>2. PICK f : f = NewFile(c)
      OBVIOUS
    <2>3. f.kind = doing[c] /\ f.id = c /\ f.state = "partial" /\ f \in File /\ f # None
      BY <1>1, <2>2, RequestMakeAssumption DEF NewFile, File
    <2>4. file' = [file EXCEPT ![o] = f] /\ file[o] = None
          /\ doing' = doing /\ step' = [step EXCEPT ![c] = "write"]
      BY <1>3, <2>1, <2>2 DEF Goto, TypeOK
    <2>5. TypeOK'
      BY <1>1, <2>3, <2>4 DEF TypeOK
    <2>6. Writing'
      BY <1>1, <2>1, <2>3, <2>4 DEF TypeOK, Writing, OwnFile, Output, Kind
    <2>7. Owned'
      BY <1>1, <2>3, <2>4 DEF TypeOK, Owned, Kind
    <2>8. KeyFirst'
      <3>1. \A d \in Command : Safe(d) => Safe(d)'
        <4>1. ASSUME NEW d \in Command, NEW p \in Path, file[p] = KeySynced(d)
              PROVE  file'[p] = KeySynced(d)
          <5>1. KeySynced(d) # None
            BY KeyIsFile
          <5> QED  BY <2>4, <4>1, <5>1 DEF TypeOK
        <4> QED  BY <2>4, <4>1, Zenon DEF Safe
      <3>2. \A p \in Path : file'[p] = file[p] \/ file'[p] = f
        BY <2>4 DEF TypeOK
      <3>3. \A p \in Path : file[p] # None => file[p].id \in Command
        BY FileTypes
      <3>4. \A d \in Command : doing[d] = "import" => target[d] \in Command
        BY DEF TypeOK, Owned
      <3> QED  BY <1>1, <2>3, <2>4, <3>1, <3>2, <3>3, <3>4 DEF KeyFirst, Kind
    <2>9. Faithful'
      BY <1>1, <2>4 DEF TypeOK, Faithful
    <2> QED  BY <2>5, <2>6, <2>7, <2>8, <2>9
  <1> QED  BY <1>2, <1>3 DEF Open
(* A file on its way changes its state, and stays its command's.             *)
LEMMA ReachesStep ==
  ASSUME IInv, NEW c \in Command, doing[c] \in Kind, step[c] \in {"write", "sync"},
         NEW state \in {"written", "synced"}, Reaches(c, state),
         NEW next \in {"sync", "close"}, Goto(c, doing[c], next),
         next = "close" => state = "synced",
         UNCHANGED <<request, made, args, target>>
  PROVE  IInv'
  <1> USE DEF IInv
  <1>1. PICK o \in Path : o = Output(c)
    BY DEF Writing, Output, Making, Kind
  <1>2. file[o] # None /\ file[o].id = c /\ file[o].kind = doing[c] /\ file[o] \in File
    BY <1>1 DEF Writing, OwnFile, TypeOK
  <1>3. PICK f : f = [file[o] EXCEPT !.state = state]
    OBVIOUS
  <1>4. f \in File /\ f # None /\ f.id = c /\ f.kind = doing[c] /\ f.state = state
    BY <1>2, <1>3, RequestMakeAssumption DEF File
  <1>5. /\ file' = [file EXCEPT ![o] = f]
        /\ doing' = doing /\ step' = [step EXCEPT ![c] = next]
    BY <1>1, <1>3 DEF Reaches, Goto, TypeOK
  <1>6. TypeOK'
    BY <1>4, <1>5 DEF TypeOK
  <1>7. Writing'
    BY <1>1, <1>2, <1>4, <1>5 DEF TypeOK, Writing, OwnFile, Output, Kind
  <1>8. Owned'
    BY <1>4, <1>5 DEF TypeOK, Owned, Kind
  <1>9. KeyFirst'
    <2>1. \A d \in Command : Safe(d) => Safe(d)'
      <3>1. ASSUME NEW d \in Command, Safe(d), NEW p \in Path, file[p] = KeySynced(d)
            PROVE  file'[p] = KeySynced(d)
        <4>1. p # o
          <5>1. p = o => d = c /\ doing[c] = "key"
            BY <1>2, <3>1 DEF KeySynced
          <5> QED  BY <3>1, <5>1 DEF Safe
        <4> QED  BY <1>5, <3>1, <4>1 DEF TypeOK
      <3> QED  BY <1>5, <3>1, Zenon DEF Safe
    <2>2. \A p \in Path : file'[p] = file[p] \/ file'[p] = f
      BY <1>5 DEF TypeOK
    <2>3. \A p \in Path : file[p] # None => file[p].id \in Command
      BY FileTypes
    <2>4. \A d \in Command : doing[d] = "import" => target[d] \in Command
      BY DEF TypeOK, Owned
    <2> QED  BY <1>4, <1>5, <2>1, <2>2, <2>3, <2>4 DEF KeyFirst, Kind
  <1>10. Faithful'
    BY <1>5 DEF TypeOK, Faithful
  <1> QED  BY <1>6, <1>7, <1>8, <1>9, <1>10

LEMMA WriteStep == ASSUME IInv, NEW c \in Command, Write(c) PROVE IInv'
  <1>1. CASE Reaches(c, "written") /\ Goto(c, doing[c], "sync")
    BY <1>1, ReachesStep DEF Write
  <1>2. CASE UNCHANGED file /\ Goto(c, doing[c], "remove")
    BY <1>2, WriterGoesOn DEF Write
  <1> QED  BY <1>1, <1>2 DEF Write

LEMMA SyncStep == ASSUME IInv, NEW c \in Command, Sync(c) PROVE IInv'
  <1>1. CASE Reaches(c, "synced") /\ Goto(c, doing[c], "close")
    BY <1>1, ReachesStep DEF Sync
  <1>2. CASE UNCHANGED file /\ Goto(c, doing[c], "remove")
    BY <1>2, WriterGoesOn DEF Sync
  <1> QED  BY <1>1, <1>2 DEF Sync

LEMMA RemoveStep == ASSUME IInv, NEW c \in Command, Remove(c) PROVE IInv'
  <1> USE DEF IInv
  <1>1. /\ doing[c] \in Kind /\ step[c] = "remove" /\ End(c, "failed")
        /\ UNCHANGED <<request, made, args, target>>
    BY DEF Remove
  <1>2. CASE UNCHANGED file
    BY <1>1, <1>2, EndStep
  <1>3. CASE file' = [file EXCEPT ![Output(c)] = None]
    <2>1. PICK o \in Path : o = Output(c)
      BY <1>1 DEF Writing, Output, Making, Kind
    <2>2. file[o] # None /\ file[o].id = c /\ file[o].kind = doing[c]
      BY <1>1, <2>1 DEF Writing, OwnFile
    <2>3. /\ file' = [file EXCEPT ![o] = None]
          /\ doing' = [doing EXCEPT ![c] = "failed"] /\ step' = [step EXCEPT ![c] = "open"]
      BY <1>1, <1>3, <2>1 DEF End, Goto
    <2>4. TypeOK'
      BY <1>1, <2>3 DEF TypeOK, Ended
    <2>5. Writing'
      BY <1>1, <2>1, <2>2, <2>3 DEF TypeOK, Writing, OwnFile, Output, Kind
    <2>6. Owned'
      BY <1>1, <2>3 DEF TypeOK, Owned, Kind
    <2>7. KeyFirst'
      <3>1. \A d \in Command : Safe(d) => Safe(d)'
        <4>1. ASSUME NEW d \in Command, Safe(d), NEW p \in Path, file[p] = KeySynced(d)
              PROVE  file'[p] = KeySynced(d)
          <5>1. p = o => d = c /\ doing[c] = "key"
            BY <2>2, <4>1 DEF KeySynced
          <5>2. p # o
            BY <4>1, <5>1 DEF Safe
          <5> QED  BY <2>3, <4>1, <5>2 DEF TypeOK
        <4>2. \A d \in Command : doing[d] \notin {"idle", "key"} => doing'[d] \notin {"idle", "key"}
          BY <2>3 DEF TypeOK
        <4> QED  BY <4>1, <4>2, Zenon DEF Safe
      <3>2. \A p \in Path : file'[p] = file[p] \/ file'[p] = None
        BY <2>3 DEF TypeOK
      <3>3. \A p \in Path : file[p] # None => file[p].id \in Command
        BY FileTypes
      <3>4. \A d \in Command : doing[d] = "import" => target[d] \in Command
        BY DEF TypeOK, Owned
      <3>5. \A d \in Command : doing'[d] = doing[d] \/ doing'[d] = "failed"
        BY <2>3 DEF TypeOK
      <3> QED  BY <1>1, <3>1, <3>2, <3>3, <3>4, <3>5 DEF KeyFirst
    <2>8. Faithful'
      BY <1>1, <2>3 DEF TypeOK, Faithful
    <2> QED  BY <2>4, <2>5, <2>6, <2>7, <2>8
  <1> QED  BY <1>2, <1>3 DEF Remove
LEMMA CloseStep == ASSUME IInv, NEW c \in Command, Close(c) PROVE IInv'
  <1> USE DEF IInv
  <1>1. /\ doing[c] \in Kind /\ step[c] = "close"
        /\ UNCHANGED <<file, request, made, args, target>>
    BY DEF Close
  <1>2. CASE doing[c] = "key" /\ Goto(c, "bundle", "open")
    <2>1. PICK o \in Path : o = Output(c)
      BY <1>1 DEF Writing, Output, Making, Kind
    <2>2. file[o] \in File /\ file[o].kind = "key" /\ file[o].id = c /\ file[o].state = "synced"
      BY <1>1, <1>2, <2>1 DEF Writing, OwnFile, TypeOK
    <2>3. file[o] = KeySynced(c)
      BY <2>2 DEF File, KeySynced
    <2>4. doing' = [doing EXCEPT ![c] = "bundle"] /\ step' = [step EXCEPT ![c] = "open"]
      BY <1>2 DEF Goto
    <2>5. TypeOK'
      BY <1>1, <2>4 DEF TypeOK, Kind
    <2>6. Writing'
      BY <1>1, <2>4 DEF TypeOK, Writing, OwnFile, Output, Kind
    <2>7. Owned'
      BY <1>1, <2>4 DEF TypeOK, Owned, Kind
    <2>8. KeyFirst'
      <3>1. \A d \in Command : Safe(d) => Safe(d)'
        BY <1>1, <2>4 DEF TypeOK, Safe, KeySynced
      <3>2. Safe(c)'
        BY <1>1, <2>3, <2>4 DEF TypeOK, Safe, KeySynced
      <3>3. \A p \in Path : file[p] # None => file[p].id \in Command
        BY FileTypes
      <3>4. \A d \in Command : doing[d] = "import" => target[d] \in Command
        BY DEF TypeOK, Owned
      <3>5. doing'[c] = "bundle" /\ \A d \in Command \ {c} : doing'[d] = doing[d]
        BY <2>4 DEF TypeOK
      <3> QED  BY <1>1, <3>1, <3>2, <3>3, <3>4, <3>5 DEF KeyFirst
    <2>9. Faithful'
      BY <1>1, <2>4 DEF TypeOK, Faithful
    <2> QED  BY <2>5, <2>6, <2>7, <2>8, <2>9
  <1>3. CASE End(c, "ok")
    BY <1>1, <1>3, EndStep
  <1>4. CASE doing[c] = "bundle" /\ Import(c, made[c])
    <2>1. target[c] = c /\ made[c] # None /\ Safe(c) /\ Valid(made[c]) /\ c # None
      BY <1>1, <1>4, RequestMakeAssumption DEF Writing, Owned, KeyFirst, Faithful, AsAsked
    <2>2. doing' = [doing EXCEPT ![c] = "import"] /\ step' = [step EXCEPT ![c] = "stat"]
      BY <1>4, <2>1 DEF Import, Goto
    <2>3. TypeOK'
      BY <1>1, <2>2 DEF TypeOK
    <2>4. Writing'
      BY <1>1, <2>2 DEF TypeOK, Writing, OwnFile, Output, Kind
    <2>5. Owned'
      BY <1>1, <2>1, <2>2 DEF TypeOK, Owned, Kind
    <2>6. KeyFirst'
      <3>1. \A d \in Command : Safe(d) => Safe(d)'
        BY <1>1, <1>4, <2>2 DEF TypeOK, Safe, KeySynced
      <3>2. \A p \in Path : file[p] # None => file[p].id \in Command
        BY FileTypes
      <3>3. \A d \in Command : doing[d] = "import" => target[d] \in Command
        BY DEF TypeOK, Owned
      <3>4. doing'[c] = "import" /\ \A d \in Command \ {c} : doing'[d] = doing[d]
        BY <2>2 DEF TypeOK
      <3> QED  BY <1>1, <2>1, <3>1, <3>2, <3>3, <3>4 DEF KeyFirst
    <2>7. Faithful'
      BY <1>1, <2>2 DEF TypeOK, Faithful
    <2> QED  BY <2>3, <2>4, <2>5, <2>6, <2>7
  <1>5. CASE Goto(c, doing[c], "remove")
    BY <1>1, <1>5, WriterGoesOn
  <1> QED  BY <1>2, <1>3, <1>4, <1>5 DEF Close

LEMMA StatStep == ASSUME IInv, NEW c \in Command, Stat(c) PROVE IInv'
  <1> USE DEF IInv
  <1>1. /\ doing[c] = "import" /\ UNCHANGED <<file, request, made, args, target>>
    BY DEF Stat, At
  <1>2. CASE Goto(c, "import", "rename")
    <2>1. doing' = doing /\ step' = [step EXCEPT ![c] = "rename"]
      BY <1>1, <1>2 DEF Goto, TypeOK
    <2>2. TypeOK'
      BY <1>1, <2>1 DEF TypeOK
    <2>3. Writing'
      BY <1>1, <2>1 DEF TypeOK, Writing, OwnFile, Output, Kind
    <2>4. Owned'
      BY <1>1, <2>1 DEF TypeOK, Owned, Kind
    <2>5. KeyFirst' /\ Faithful'
      BY <1>1, <2>1 DEF KeyFirst, Safe, KeySynced, Faithful
    <2> QED  BY <2>2, <2>3, <2>4, <2>5
  <1>3. CASE End(c, "conflict") \/ End(c, "failed")
    BY <1>1, <1>3, EndStep
  <1> QED  BY <1>2, <1>3 DEF Stat

LEMMA RenameStep == ASSUME IInv, NEW c \in Command, Rename(c) PROVE IInv'
  <1> USE DEF IInv
  <1>1. /\ doing[c] = "import" /\ UNCHANGED <<file, made, args, target>>
        /\ End(c, "ok") \/ End(c, "failed")
    BY DEF Rename, At
  <1>2. CASE UNCHANGED request
    BY <1>1, <1>2, EndStep
  <1>3. CASE request' = [request EXCEPT ![target[c]] = Marshal(made[target[c]])]
    <2>1. PICK id \in Command : id = target[c] /\ Safe(id) /\ made[id] # None
      BY <1>1 DEF TypeOK, Owned, KeyFirst
    <2>2. PICK b : b = Marshal(made[id])
      OBVIOUS
    <2>3. b \in Bundle
      BY <2>1, <2>2, MarshalBundle DEF TypeOK
    <2>4. request' = [request EXCEPT ![id] = b]
      BY <1>3, <2>1, <2>2
    <2>5. PICK how \in {"ok", "failed"} :
            doing' = [doing EXCEPT ![c] = how] /\ step' = [step EXCEPT ![c] = "open"]
      BY <1>1 DEF End, Goto
    <2>6. TypeOK'
      BY <1>1, <2>3, <2>4, <2>5 DEF TypeOK, Ended
    <2>7. Writing'
      BY <1>1, <2>5 DEF TypeOK, Writing, OwnFile, Output, Kind
    <2>8. Owned'
      BY <1>1, <2>5 DEF TypeOK, Owned, Kind
    <2>9. KeyFirst'
      <3>1. \A d \in Command : Safe(d) => Safe(d)'
        BY <1>1, <2>5 DEF TypeOK, Safe, KeySynced
      <3>2. \A p \in Path : file[p] # None => file[p].id \in Command
        BY FileTypes
      <3>3. \A d \in Command : doing[d] = "import" => target[d] \in Command
        BY DEF TypeOK, Owned
      <3>4. \A d \in Command : doing'[d] = doing[d] \/ doing'[d] \in {"ok", "failed"}
        BY <2>5 DEF TypeOK
      <3>5. \A d \in Command : request'[d] = request[d] \/ d = id
        BY <2>4 DEF TypeOK
      <3> QED  BY <1>1, <2>1, <3>1, <3>2, <3>3, <3>4, <3>5 DEF KeyFirst
    <2>10. Faithful'
      <3>1. \A d \in Command : Marshal(made[d])' = Marshal(made[d])
        BY <1>1 DEF Marshal
      <3>2. \A d \in Command : doing'[d] = doing[d] \/ doing'[d] \in {"ok", "failed"}
        BY <2>5 DEF TypeOK
      <3> QED  BY <1>1, <2>1, <2>2, <2>4, <3>1, <3>2 DEF TypeOK, Faithful
    <2> QED  BY <2>6, <2>7, <2>8, <2>9, <2>10
  <1> QED  BY <1>2, <1>3 DEF Rename

LEMMA PowerLossStep == ASSUME IInv, PowerLoss PROVE IInv'
  <1> USE DEF IInv
  <1>1. UNCHANGED <<request, made, args, target>> /\ step' = [c \in Command |-> "open"]
    BY DEF PowerLoss
  <1>2. \A c \in Command : \/ doing'[c] = doing[c] /\ ~Busy(c)
                           \/ doing'[c] = "failed" /\ Busy(c)
    <2>1. doing' = [c \in Command |-> IF Busy(c) THEN "failed" ELSE doing[c]]
      BY DEF PowerLoss
    <2> QED  BY <2>1, Zenon
  <1>3. doing' \in [Command -> Kind \cup Ended \cup {"idle", "import"}]
    BY DEF PowerLoss, TypeOK, Ended
  <1>4. file' \in [Path -> File \cup {None}]
        /\ \A p \in Path :
             \/ file'[p] = file[p]
             \/ /\ file[p] # None /\ file[p].state = "written" /\ file'[p] # None
                /\ file'[p].id = file[p].id /\ file'[p].kind = file[p].kind
    <2>1. PICK lost \in SUBSET Path :
            file' = [p \in Path |-> IF p \in lost THEN Cut(file[p]) ELSE file[p]]
      BY DEF PowerLoss
    <2>2. ASSUME NEW p \in Path
          PROVE  /\ Cut(file[p]) \in File \cup {None}
                 /\ \/ Cut(file[p]) = file[p]
                    \/ /\ file[p] # None /\ file[p].state = "written" /\ Cut(file[p]) # None
                       /\ Cut(file[p]).id = file[p].id /\ Cut(file[p]).kind = file[p].kind
      BY RequestMakeAssumption DEF Cut, TypeOK, File
    <2> QED  BY <2>1, <2>2 DEF TypeOK
  <1>5. TypeOK'
    BY <1>1, <1>3, <1>4 DEF TypeOK
  <1>6. \A c \in Command : doing'[c] \notin {"key", "bundle", "import"}
    BY <1>2 DEF Busy, TypeOK, Kind, Ended
  <1>7. Writing'
    BY <1>6 DEF Writing, Kind
  <1>8. Owned'
    BY <1>1, <1>2, <1>4, <1>6 DEF Owned, Kind
  <1>9. KeyFirst'
    <2>1. \A d \in Command : Safe(d) => Safe(d)'
      <3>1. ASSUME NEW d \in Command, NEW p \in Path, file[p] = KeySynced(d)
            PROVE  file'[p] = KeySynced(d)
        BY <1>4, <3>1 DEF KeySynced
      <3> QED  BY <1>2, <3>1, Zenon DEF Safe
    <2>2. \A p \in Path : file[p] # None => file[p].id \in Command
      BY FileTypes
    <2> QED  BY <1>1, <1>4, <1>6, <2>1, <2>2 DEF KeyFirst
  <1>10. Faithful'
    BY <1>1, <1>2 DEF Faithful, Marshal
  <1> QED  BY <1>5, <1>7, <1>8, <1>9, <1>10

LEMMA Inductive == IInv /\ [Next]_vars => IInv'
  <1> SUFFICES ASSUME IInv, [Next]_vars PROVE IInv'
    OBVIOUS
  <1>1. ASSUME NEW c \in Command, Killed(c) PROVE IInv'
    BY <1>1, EndStep DEF Killed
  <1>2. CASE UNCHANGED vars
    BY <1>2 DEF vars, IInv, TypeOK, Writing, OwnFile, Output, Owned, KeyFirst, Safe, KeySynced,
                Faithful, Marshal
  <1> QED  BY <1>1, <1>2, MakeStep, ReadBundleStep, OpenStep, WriteStep, SyncStep, CloseStep,
              RemoveStep, StatStep, RenameStep, PowerLossStep DEF Next

LEMMA Initially == Init => IInv
  <1> SUFFICES ASSUME Init PROVE IInv
    OBVIOUS
  <1> USE DEF Init
  <1>1. TypeOK
    BY DEF TypeOK, Ended
  <1> QED  BY <1>1 DEF IInv, Writing, Owned, KeyFirst, Faithful, Kind

-----------------------------------------------------------------------------
(* Every variable stays in its type. *)
THEOREM TypeCorrect == Spec => []TypeOK
  <1>1. IInv => TypeOK
    BY DEF IInv
  <1> QED  BY <1>1, Initially, Inductive, PTL DEF Spec

(* The private key of an imported request is safe on the disk. *)
THEOREM ImportedHasKey == Spec => []KeyBeforeRequest
  <1>1. IInv => KeyBeforeRequest
    BY DEF IInv, KeyFirst, Safe, KeyBeforeRequest
  <1> QED  BY <1>1, Initially, Inductive, PTL DEF Spec

(* An imported request has the quotas its maker asked for. *)
THEOREM QuotasHonoured == Spec => []QuotaAsAsked
  <1>1. IInv => QuotaAsAsked
    <2> SUFFICES ASSUME IInv, NEW id \in Command, request[id] # None
                 PROVE  /\ request[id].files = args[id].files
                        /\ request[id].bytes = args[id].n * args[id].unit
      BY DEF QuotaAsAsked
    <2>1. made[id] \in Bundle /\ request[id] = Marshal(made[id]) /\ AsAsked(args[id], made[id])
      BY DEF IInv, TypeOK, Faithful
    <2> QED  BY <2>1, MarshalBundle DEF AsAsked
  <1> QED  BY <1>1, Initially, Inductive, PTL DEF Spec

(* Only a label that JSON had to repair makes a made bundle invalid. *)
THEOREM MadeIsAccepted == Spec => []MadeIsValid
  <1>1. IInv => MadeIsValid
    BY DEF IInv, Faithful, MadeIsValid
  <1> QED  BY <1>1, Initially, Inductive, PTL DEF Spec

(* No command touches a file that another, or it itself earlier, is done     *)
(* with.                                                                     *)
THEOREM FilesKept == Spec => FilesOfOthersKept
  <1> DEFINE Stays(p) == /\ file'[p] # None
                         /\ file'[p].id = file[p].id /\ file'[p].kind = file[p].kind
                         /\ file[p].state = "synced" => file'[p] = file[p]
  <1>1. IInv /\ [Next]_vars =>
          \A p \in Path : file[p] # None /\ doing[file[p].id] # file[p].kind => Stays(p)
    <2> SUFFICES ASSUME IInv, [Next]_vars, NEW p \in Path,
                        file[p] # None, doing[file[p].id] # file[p].kind
                 PROVE  Stays(p)
      OBVIOUS
    <2>1. ASSUME NEW c \in Command, doing[c] \in Kind, step[c] # "open",
                 NEW f, file' = [file EXCEPT ![Output(c)] = f]
          PROVE  Stays(p)
      <3>1. file[Output(c)].id = c /\ file[Output(c)].kind = doing[c]
        BY <2>1 DEF IInv, Writing, OwnFile
      <3>2. p # Output(c)
        BY <3>1
      <3> QED  BY <2>1, <3>2 DEF IInv, TypeOK
    <2>2. CASE UNCHANGED file
      BY <2>2
    <2>3. ASSUME NEW c \in Command, Open(c) PROVE Stays(p)
      BY <2>2, <2>3 DEF Open, IInv, TypeOK
    <2>4. ASSUME NEW c \in Command, Write(c) \/ Sync(c) \/ Remove(c) PROVE Stays(p)
      BY <2>1, <2>2, <2>4 DEF Write, Sync, Remove, Reaches
    <2>5. CASE PowerLoss
      BY <2>5, RequestMakeAssumption DEF PowerLoss, Cut, IInv, TypeOK, File
    <2> QED  BY <2>2, <2>3, <2>4, <2>5
             DEF Next, Make, ReadBundle, Close, Stat, Rename, Killed, vars
  <1> QED  BY <1>1, Initially, Inductive, PTL DEF Spec, FilesOfOthersKept
=============================================================================
