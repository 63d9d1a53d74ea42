----------------------------- MODULE MCIDBSync -----------------------------
(* Instance of IDBSync for TLC: a path and a path below it. *)
EXTENDS IDBSync

MCParent == <<0, 1>>
=============================================================================
