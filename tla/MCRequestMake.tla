---------------------------- MODULE MCRequestMake ----------------------------
(* A small instance of RequestMake: labels of at most two bytes, quotas of   *)
(* at most two, words of four bits.                                          *)
EXTENDS RequestMake, TLC

(* `broken' is short enough until JSON replaces what is not UTF-8 in it.     *)
CONSTANTS empty, plain, broken, long

MCBytes == empty :> 0 @@ plain :> 1 @@ broken :> 2 @@ long :> 3
MCMarshalled == [t \in Text |-> IF t = broken THEN long ELSE t]
MCLifetime == {0, 1}

Symmetry == Permutations(Command) \cup Permutations(Path)
=============================================================================
