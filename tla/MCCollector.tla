----------------------------- MODULE MCCollector -----------------------------
(* Two commands; an ID used for two bodies of one shape and name, and one    *)
(* whose upload does not authenticate.                                       *)
EXTENDS Collector, TLC

CONSTANTS u1, u2, a, b, d

MCSent == u1 :> {a, b} @@ u2 :> {d}
MCChunks == a :> 2 @@ b :> 2 @@ d :> 1
MCName == a :> "x" @@ b :> "x" @@ d :> "y"

Patient == [ids |-> {}, acknowledge |-> TRUE, failFast |-> FALSE, wait |-> 2]
Exact == [ids |-> {u1, u2}, acknowledge |-> FALSE, failFast |-> TRUE, wait |-> 0]
MCOption == {Patient, Exact}
=============================================================================
