----------------------------- MODULE MCLimiter -----------------------------
(* A small instance of Limiter: three senders behind up to two of the        *)
(* operator's proxies, one of which also sends requests of its own.          *)
EXTENDS Limiter, TLC

CONSTANTS c1, c2, c3, p, q, junk

MCDenotes == [t \in Text |-> IF t \in Client THEN t ELSE IF t = q THEN p ELSE None]
MCForged == {<<>>} \cup {<<t>> : t \in Text} \cup {<<s, t>> : s \in {c1, c2, c3}, t \in {p, junk}}
MCPath == {<<>>, <<p>>, <<p, q>>}

Symmetry == Permutations(Handler) \cup Permutations({c1, c2, c3})
=============================================================================
