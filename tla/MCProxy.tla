------------------------------ MODULE MCProxy ------------------------------
(***************************************************************************)
(* Small instances of Proxy for TLC.  Workers, requests and the job ids of *)
(* one server are interchangeable, so the safety runs use symmetry.        *)
(***************************************************************************)
EXTENDS Proxy, TLC

Symmetry == Permutations(Workers) \cup Permutations(Requests)
            \cup Permutations(PoolJobs) \cup Permutations(DonorJobs)
=============================================================================
