------------------------------- MODULE ClientIP -------------------------------
(***************************************************************************)
(* Which client a request is charged to.  A request arrives from the peer  *)
(* that connected, with the X-Forwarded-For hops it carries: what the      *)
(* sender itself put there, then whatever each proxy on the way appended.  *)
(***************************************************************************)
EXTENDS Integers, Sequences

CONSTANTS
  Client,    \* addresses
  Text,      \* what a hop, or RemoteAddr, may read
  Denotes,   \* Denotes[t]: the address t parses to, blanks and zone dropped, or None
  Trusted,   \* addresses in a --trusted-proxy range
  Forged,    \* hops a sender may send along itself
  Path,      \* the proxies a request may pass, in order
  None

ASSUME ClientIPAssumption ==
  /\ Denotes \in [Text -> Client \cup {None}] /\ None \notin Client
  /\ Trusted \subseteq Client
  /\ Forged \subseteq Seq(Text) /\ <<>> \in Forged
  /\ Path \subseteq Seq({t \in Text : Denotes[t] \in Trusted})

(* Where the walk from the nearest hop stops: at no trusted address. *)
Stops(hops) == {i \in DOMAIN hops : Denotes[hops[i]] \notin Trusted}
\* Fault: the chain is read from the far end.
Farthest(stops) == CHOOSE i \in stops : \A j \in stops : i <= j
Nearest(stops) == CHOOSE i \in stops : \A j \in stops : j <= i

(* The hop the walk stops at names the client; when it cannot be parsed, or  *)
(* every hop is trusted, the peer is the client.                             *)
Walk(peer, hops) ==
  LET named == Denotes[hops[Nearest(Stops(hops))]] IN
  IF Stops(hops) = {} \/ named = None THEN peer ELSE named

Resolve(request) ==
  LET peer == Denotes[request.remote] IN
  IF peer = None THEN request.remote
  ELSE IF peer \notin Trusted THEN peer
  ELSE Walk(peer, request.hops)

(* The request as it arrives: every proxy has appended whom it got it from. *)
Arrives(from, forged, path) ==
  IF path = <<>> THEN [remote |-> from, hops |-> forged]
  ELSE [remote |-> path[Len(path)],
        hops |-> Append(forged, from) \o SubSeq(path, 1, Len(path) - 1)]

(* A trusted machine forges nothing. *)
Sender == {t \in Text : Denotes[t] # None}
MayForge(from) == IF Denotes[from] \in Trusted THEN {<<>>} ELSE Forged
=============================================================================
