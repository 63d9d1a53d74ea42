----------------------------- MODULE MCDirector -----------------------------
(***************************************************************************)
(* Small instances of Director for TLC.  There have to be more proxies than*)
(* workers and ending proxies together, so that one is always unused.      *)
(***************************************************************************)
EXTENDS Director, TLC

ASSUME Enough == Cardinality(Proxies) >= Cardinality(Workers) + MaxEnding

Symmetry == Permutations(Workers) \cup Permutations(Proxies)
=============================================================================
