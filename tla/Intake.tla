------------------------------- MODULE Intake -------------------------------
(***************************************************************************)
(* What one request promises, with every operation atomic and no handlers, *)
(* locks, files or crashes: a ledger of uploads under a quota.  A closed   *)
(* ledger takes nothing more, a sealed upload matches its receipt for      *)
(* good, and it is given up only once acknowledged or expired.             *)
(***************************************************************************)
EXTENDS Manifests, FiniteSets

CONSTANTS Upload, MaxFiles, MaxBytes, Time, None

VARIABLES
  closed,   \* when submissions were closed, or None
  slot,     \* per upload: None, or its manifest, parts, seal and acknowledgement
  expired
vars == <<closed, slot, expired>>

Open == {u \in Upload : slot[u] # None}
OpenBytes == TotalSize([u \in Open |-> slot[u].m])

Slot == UNION {[m : {m}, parts : [Indices(m) -> ChunkFile \cup {None}],
                seal : Receipt \cup {None}, acked : BOOLEAN] : m \in Manifest}
Fresh(m) == [m |-> m, parts |-> [i \in Indices(m) |-> None], seal |-> None, acked |-> FALSE]

Init == closed = None /\ slot = [u \in Upload |-> None] /\ expired \in BOOLEAN

Begin(u, m) ==
  /\ closed = None /\ slot[u] = None
  /\ Cardinality(Open) < MaxFiles /\ OpenBytes + PlainSize[m] <= MaxBytes
  /\ slot' = [slot EXCEPT ![u] = Fresh(m)]
  /\ UNCHANGED <<closed, expired>>

(* A part of the wrong length may be kept, but blocks the seal. *)
Put(u) ==
  /\ closed = None /\ slot[u] # None
  /\ \E i \in DOMAIN slot[u].parts, file \in ChunkFile :
       /\ slot[u].parts[i] = None
       /\ slot' = [slot EXCEPT ![u].parts[i] = file]
  /\ UNCHANGED <<closed, expired>>

Seal(u) ==
  /\ closed = None /\ slot[u] # None /\ slot[u].seal = None
  /\ AllFit(slot[u].parts, slot[u].m)
  /\ slot' = [slot EXCEPT ![u].seal = ReceiptOf(slot[u].parts, slot[u].m)]
  /\ UNCHANGED <<closed, expired>>

Acknowledge(u) ==
  /\ slot[u] # None /\ slot[u].seal # None
  /\ slot' = [slot EXCEPT ![u].acked = TRUE]
  /\ UNCHANGED <<closed, expired>>

Drop(u) ==
  /\ slot[u] # None
  /\ slot[u].seal = None \/ slot[u].acked \/ expired
  /\ slot' = [slot EXCEPT ![u] = None]
  /\ UNCHANGED <<closed, expired>>

Close ==
  /\ closed = None /\ closed' \in Time
  /\ UNCHANGED <<slot, expired>>

Expire == expired' = TRUE /\ UNCHANGED <<closed, slot>>

Next ==
  \/ \E u \in Upload :
       Put(u) \/ Seal(u) \/ Acknowledge(u) \/ Drop(u) \/ \E m \in Manifest : Begin(u, m)
  \/ Close \/ Expire

Spec == Init /\ [][Next]_vars
=============================================================================
