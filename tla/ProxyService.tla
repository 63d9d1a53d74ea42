---------------------------- MODULE ProxyService ----------------------------
(***************************************************************************)
(* What a proxy of xmrwasp promises the director and its workers, and all  *)
(* that they rely on: it takes connections while it has room, serves them  *)
(* between login and the end of run(), and disconnects all it serves before*)
(* it is forgotten.  Proxy is shown to keep the promise, and Director to   *)
(* use its proxies in no other way.                                        *)
(*                                                                         *)
(* There is no counter here: the room is that of the workers served.       *)
(***************************************************************************)
EXTENDS Naturals, FiniteSets

CONSTANTS Workers, MaxWorkers

VARIABLES
  status,  \* "gone", "login", "running", "returned", "draining"
  conn     \* worker: "out", "adding", "in", "leaving"

vars == <<status, conn>>

Served == {w \in Workers : conn[w] \in {"in", "leaving"}}

Init == status \in {"gone", "login"} /\ conn = [w \in Workers |-> "out"]

Becomes(from, to) == status = from /\ status' = to
Goes(w, from, to) == conn[w] = from /\ conn' = [conn EXCEPT ![w] = to]

\* A connection that finds no other proxy is the first one of a new one.
New(w) == Becomes("gone", "login") /\ Served = {} /\ Goes(w, "out", "adding")

Login == Becomes("login", "running") /\ UNCHANGED conn

\* Connections that wait to be added are not counted yet.
Connect(w) ==
  /\ status \in {"login", "running", "returned"}
  /\ Cardinality(Served) < MaxWorkers
  /\ Goes(w, "out", "adding") /\ UNCHANGED status

Add(w) == status = "running" /\ Goes(w, "adding", "in") /\ UNCHANGED status

\* It is only ever in a proxy that has logged in and not been shut down.
Leave(w) ==
  /\ status \in {"running", "returned"}
  /\ Goes(w, "in", "leaving") /\ UNCHANGED status

Remove(w) == status # "login" /\ Goes(w, "leaving", "out") /\ UNCHANGED status

Return == Becomes("running", "returned") /\ UNCHANGED conn

Shutdown ==
  /\ Becomes("returned", "draining")
  /\ conn' = [w \in Workers |-> IF conn[w] = "in" THEN "leaving" ELSE conn[w]]

Forget == Becomes("draining", "gone") /\ UNCHANGED conn

Next ==
  \/ \E w \in Workers : New(w) \/ Connect(w) \/ Add(w) \/ Leave(w) \/ Remove(w)
  \/ Login \/ Return \/ Shutdown \/ Forget

Spec == Init /\ [][Next]_vars
=============================================================================
