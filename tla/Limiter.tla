------------------------------- MODULE Limiter -------------------------------
(***************************************************************************)
(* The invalid-capability limiter and the way authorize uses it: a handler *)
(* asks whether its client is blocked, checks the capability without the   *)
(* limiter's mutex, and counts a failure afterwards.  Who the client is,   *)
(* the request's peer and forwarding chain decide (ClientIP).  Buckets are *)
(* windows of fixed length; when the table is full, clients without a      *)
(* bucket share the overflow one.                                          *)
(***************************************************************************)
EXTENDS ClientIP, FiniteSets

CONSTANTS
  Handler,      \* concurrent HTTP handlers
  Overflow,     \* the shared bucket's key
  Limit,        \* failureLimit
  Window,       \* failureWindowDuration
  MaxBuckets,   \* maxFailureBuckets
  MaxClock      \* bound on the modelled time

ASSUME LimiterAssumption ==
  /\ Limit \in Nat \ {0} /\ Window \in Nat \ {0} /\ MaxBuckets \in Nat \ {0}
  /\ MaxClock \in Nat
  /\ IsFiniteSet(Handler) /\ IsFiniteSet(Client) /\ Overflow \notin Client
  /\ None \notin Client /\ None \notin [start : Nat, count : Nat]

VARIABLES
  windows,   \* per key its failure window, or None
  checking,  \* per handler: the client whose capability it checks, or None
  sender,    \* history: the address the request being checked was sent from
  clock
vars == <<windows, checking, sender, clock>>

Key == Client \cup {Overflow}

Init ==
  /\ windows = [k \in Key |-> None]
  /\ checking = [h \in Handler |-> None] /\ sender = [h \in Handler |-> None]
  /\ clock = 0

Buckets(w) == {k \in Key : w[k] # None}
Over(window, now) == now >= window.start + Window

RemoveExpired(w, now) ==
  [k \in Key |-> IF w[k] # None /\ Over(w[k], now) THEN None ELSE w[k]]

\* Fault: room is not kept for the overflow bucket.
OwnsBucketFull(w, c) == w[c] # None \/ Cardinality(Buckets(w)) < MaxBuckets

(* A client keeps the bucket it has; a new one needs room for one more next  *)
(* to the overflow bucket.                                                   *)
OwnsBucket(w, c) == w[c] # None \/ Cardinality(Buckets(w)) < MaxBuckets - 1

\* Fault: a full table is emptied for the newcomer.
SweptClean(w, c) == IF OwnsBucket(w, c) THEN w ELSE [k \in Key |-> None]
(* The table bucketKey leaves behind, and the key it answers from it. *)
Swept(w, c) == IF OwnsBucket(w, c) THEN w ELSE RemoveExpired(w, clock)
BucketKey(w, c) == IF OwnsBucket(w, c) THEN c ELSE Overflow

Running(w, k) == w[k] # None /\ ~Over(w[k], clock)

Checks(h, c, from) ==
  /\ checking' = [checking EXCEPT ![h] = c]
  /\ sender' = [sender EXCEPT ![h] = Denotes[from]]
Ends(h) ==
  /\ checking' = [checking EXCEPT ![h] = None]
  /\ sender' = [sender EXCEPT ![h] = None]

\* Fault: a blocked client still gets its capability checked.
AdmittedBlocked(h, c, from) ==
  /\ windows' = Swept(windows, c)
  /\ Checks(h, c, from)

(* A client over the limit is refused; for another one the capability check  *)
(* follows.                                                                  *)
Admitted(h, c, from) ==
  LET w == Swept(windows, c)
      k == BucketKey(w, c)
  IN IF Running(w, k)
       THEN /\ windows' = w
            /\ IF w[k].count >= Limit THEN UNCHANGED <<checking, sender>>
               ELSE Checks(h, c, from)
       ELSE /\ windows' = [w EXCEPT ![k] = None]
            /\ Checks(h, c, from)

(* authorize: who is it, and is it blocked? *)
Blocked(h) ==
  /\ checking[h] = None
  /\ \E from \in Sender, path \in Path : \E forged \in MayForge(from) :
       Admitted(h, Resolve(Arrives(from, forged, path)), from)
  /\ UNCHANGED clock

\* Fault: a new window is left without its start time.
UnstartedWindow == [start |-> None, count |-> 1]
NewWindow == [start |-> clock, count |-> 1]

Failure(h) ==
  LET c == checking[h]
      w == Swept(windows, c)
      k == BucketKey(w, c)
  IN /\ c # None
     /\ windows' = [w EXCEPT ![k] =
          IF Running(w, k) THEN [w[k] EXCEPT !.count = @ + 1]
          ELSE NewWindow]
     /\ Ends(h)
     /\ UNCHANGED clock

Authenticated(h) ==
  /\ checking[h] # None
  /\ Ends(h)
  /\ UNCHANGED <<windows, clock>>

Tick ==
  /\ clock < MaxClock /\ clock' = clock + 1
  /\ UNCHANGED <<windows, checking, sender>>

Next == (\E h \in Handler : Blocked(h) \/ Failure(h) \/ Authenticated(h)) \/ Tick

Spec == Init /\ [][Next]_vars

-----------------------------------------------------------------------------
(* Every variable stays in its type. *)
TypeOK ==
  /\ windows \in [Key -> [start : Nat, count : Nat] \cup {None}]
  /\ checking \in [Handler -> Client \cup {None}]
  /\ sender \in [Handler -> Client \cup {None}]
  /\ clock \in Nat

(* The table never holds more than MaxBuckets windows, the overflow bucket   *)
(* included, whatever clients come (bucketKey).                              *)
BucketBound == Cardinality(Buckets(windows)) <= MaxBuckets

(* A running window is neither dropped, restarted nor counted down before    *)
(* its end, so crowding the table with other clients unblocks nobody, and    *)
(* refused attempts do not prolong a block.                                  *)
RunningWindowKept ==
  [][\A k \in Key : Running(windows, k) =>
       /\ windows'[k] # None /\ windows'[k].start = windows[k].start
       /\ windows'[k].count \in {windows[k].count, windows[k].count + 1}]_vars

(* Handlers that passed the check together may overshoot the limit, but each *)
(* by its own single attempt.                                                *)
OvershootBounded ==
  \A c \in Client : windows[c] # None =>
    windows[c].count <= Limit + Cardinality(Handler) - 1

Counted(c) ==
  /\ windows'[c] # None
  /\ windows[c] = None \/ windows'[c] # windows[c]
(* Proxies may stand in for each other: all are the operator's own. *)
SamePlace(a, b) == a = b \/ {a, b} \subseteq Trusted

(* A failure is counted against a client only for a request that client sent *)
(* itself, over whatever proxies it came and whatever forwarding chain it or *)
(* anybody else claimed: no sender moves its failures to another's bucket,   *)
(* or to a fresh one (resolve, authorize).                                   *)
ChargedToSender ==
  [][\A c \in Client : Counted(c) =>
       \E h \in Handler : checking[h] = c /\ checking'[h] = None /\ SamePlace(sender[h], c)]_vars
=============================================================================
