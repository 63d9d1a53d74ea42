------------------------------ MODULE Director ------------------------------
(***************************************************************************)
(* The director of xmrwasp (proxy/director.go) with all its proxies: which *)
(* proxy a new connection gets, when a proxy is created, and how the map   *)
(* of proxies is shared.                                                   *)
(*                                                                         *)
(* NextProxy() runs in the goroutine of each new connection, one at a time *)
(* under newProxyMu, and tests the proxies of the map one after the other. *)
(* GetStats() runs in the director's own goroutine and removeProxy() in    *)
(* the goroutine of a proxy that ends, both without that lock.  What a     *)
(* proxy does for its workers is the subject of module Proxy: here it logs *)
(* in, takes workers in and out, and ends.                                 *)
(***************************************************************************)
EXTENDS Integers, FiniteSets

CONSTANTS
  Workers,          \* connections of miners
  Proxies,          \* identities of proxies; one that nothing refers to any
                    \* more may stand for a new proxy
  NoWorker,         \* newProxyMu is not locked
  NoProxy,          \* no proxy has been assigned
  MaxWorkers,       \* maxProxyWorkers
  MaxEnding         \* bound: proxies that are ending at the same time

ASSUME Sizes ==
  /\ NoWorker \notin Workers
  /\ NoProxy \notin Proxies
  /\ MaxWorkers \in Nat \ {0}
  /\ MaxEnding \in Nat
  /\ IsFiniteSet(Workers)

VARIABLES
  proxies,       \* keys of d.proxies
  newProxyMu,    \* the worker whose NextProxy() holds the lock, or NoWorker
  seen,          \* worker: proxies its NextProxy() has found not ready
  stage,         \* worker: "out", "waiting" (for newProxyMu), "looking" (in the loop
                 \* of NextProxy), "creating" (after it, for want of a proxy),
                 \* "adding" (blocked in Add), "in", "leaving"
  proxyOf,       \* worker: the proxy it has been given, or NoProxy
  status,        \* proxy: "gone" (removed, or not created yet), "login", "running",
                 \* "returned" (run() has left its loop), "draining" (in the minute
                 \* of shutdown())
  workerCount,   \* proxy: p.workerCount
  wasFull,       \* proxies whose workerCount has once reached maxProxyWorkers
  scanning,      \* GetStats() is inside its loop
  crashed        \* the Go runtime has found two goroutines using the map

mapVars == <<proxies, crashed>>
workerVars == <<stage, proxyOf>>
lockVars == <<newProxyMu, seen>>
proxyVars == <<status, workerCount, wasFull>>
vars == <<mapVars, workerVars, lockVars, proxyVars, scanning>>

Stages == {"out", "waiting", "looking", "creating", "adding", "in", "leaving"}
Statuses == {"gone", "login", "running", "returned", "draining"}

TypeOK ==
  /\ proxies \subseteq Proxies
  /\ newProxyMu \in Workers \cup {NoWorker}
  /\ seen \in [Workers -> SUBSET Proxies]
  /\ stage \in [Workers -> Stages]
  /\ proxyOf \in [Workers -> Proxies \cup {NoProxy}]
  /\ status \in [Proxies -> Statuses]
  /\ workerCount \in [Proxies -> Nat]
  /\ wasFull \subseteq Proxies
  /\ scanning \in BOOLEAN
  /\ crashed \in BOOLEAN

\* newDirector()
Init ==
  /\ proxies = {}
  /\ newProxyMu = NoWorker
  /\ seen = [w \in Workers |-> {}]
  /\ stage = [w \in Workers |-> "out"]
  /\ proxyOf = [w \in Workers |-> NoProxy]
  /\ status = [p \in Proxies |-> "gone"]
  /\ workerCount = [p \in Proxies |-> 0]
  /\ wasFull = {}
  /\ scanning = FALSE
  /\ crashed = FALSE

Running == ~crashed
Ended(p) == status[p] \in {"returned", "draining", "gone"}

\* Mutant: one worker too many.
IsReadyAtLimit(p) ==
  status[p] \in {"login", "running", "returned"} /\ workerCount[p] <= MaxWorkers

\* isReady(): p.ready is true from New() until shutdown() clears it.
IsReady(p) == status[p] \in {"login", "running", "returned"} /\ workerCount[p] < MaxWorkers

-----------------------------------------------------------------------------
(***************************************************************************)
(* NextProxy()                                                             *)
(***************************************************************************)

\* A miner connects: SpawnWorker() or OnOpen() calls NextProxy().
Accept(w) ==
  /\ Running /\ stage[w] = "out"
  /\ stage' = [stage EXCEPT ![w] = "waiting"]
  /\ UNCHANGED <<mapVars, proxyOf, lockVars, proxyVars, scanning>>

\* Mutant: newProxyMu is not locked.
UnlockedMu == TRUE

Unlocked == newProxyMu = NoWorker

Lock(w) ==
  /\ Running /\ stage[w] = "waiting" /\ Unlocked
  /\ newProxyMu' = w
  /\ stage' = [stage EXCEPT ![w] = "looking"]
  /\ UNCHANGED <<mapVars, proxyOf, seen, proxyVars, scanning>>

\* Mutant: Unlock() is missing.
KeepLock == UNCHANGED newProxyMu

\* The deferred Unlock().
Unlock == newProxyMu' = NoWorker

\* NextProxy() returns p to worker w, which calls Add() and blocks.
Assign(w, p) ==
  /\ proxyOf' = [proxyOf EXCEPT ![w] = p]
  /\ stage' = [stage EXCEPT ![w] = "adding"]
  /\ seen' = [seen EXCEPT ![w] = {}]
  /\ Unlock

\* The loop meets a proxy that is ready and breaks.
FindReady(w) ==
  /\ Running /\ stage[w] = "looking"
  /\ \E p \in proxies \ seen[w] : IsReady(p) /\ Assign(w, p)
  /\ UNCHANGED <<mapVars, proxyVars, scanning>>

\* The loop meets a proxy that is full or has been shut down.
PassOver(w) ==
  /\ Running /\ stage[w] = "looking"
  /\ \E p \in proxies \ seen[w] :
       ~IsReady(p) /\ seen' = [seen EXCEPT ![w] = @ \cup {p}]
  /\ UNCHANGED <<mapVars, workerVars, newProxyMu, proxyVars, scanning>>

\* A write of the map while another goroutine is in a loop over it: the runtime
\* may or may not notice.  It stops the process if it does.
WriteMap(newProxies, others) ==
  \/ proxies' = newProxies /\ UNCHANGED crashed
  \/ others /\ crashed' = TRUE /\ UNCHANGED proxies

\* Identities no worker refers to.
Unused == {p \in Proxies : status[p] = "gone" /\ \A w \in Workers : proxyOf[w] # p}

\* The loop ends without having met a proxy that is ready (pr == nil).
LoopEnds(w) ==
  /\ Running /\ stage[w] = "looking" /\ proxies \subseteq seen[w]
  /\ stage' = [stage EXCEPT ![w] = "creating"]
  /\ UNCHANGED <<mapVars, proxyOf, lockVars, proxyVars, scanning>>

\* addProxy(), whatever has become of the proxies since.
AddProxy(w) ==
  /\ Running /\ stage[w] = "creating"
  /\ Unused # {}
  /\ LET p == CHOOSE p \in Unused : TRUE
     IN  /\ WriteMap(proxies \cup {p}, scanning)
         /\ status' = [status EXCEPT ![p] = "login"]
         /\ Assign(w, p)
  /\ UNCHANGED <<workerCount, wasFull, scanning>>

-----------------------------------------------------------------------------
(***************************************************************************)
(* The proxies, as the director and the workers see them                   *)
(***************************************************************************)

\* login() succeeds at last; the pool may be out of reach for ever.
Login(p) ==
  /\ Running /\ status[p] = "login"
  /\ status' = [status EXCEPT ![p] = "running"]
  /\ UNCHANGED <<mapVars, workerVars, lockVars, workerCount, wasFull, scanning>>

\* Mutant: run() leaves a worker alone for which it has no room.
AddWorkerIfRoom(w) ==
  /\ Running /\ stage[w] = "adding" /\ status[proxyOf[w]] = "running"
  /\ workerCount[proxyOf[w]] < MaxWorkers
  /\ stage' = [stage EXCEPT ![w] = "in"]
  /\ workerCount' = [workerCount EXCEPT ![proxyOf[w]] = @ + 1]
  /\ wasFull' = IF workerCount[proxyOf[w]] + 1 >= MaxWorkers
                THEN wasFull \cup {proxyOf[w]} ELSE wasFull
  /\ UNCHANGED <<mapVars, proxyOf, lockVars, status, scanning>>

\* receiveWorker(): run() does not look at maxProxyWorkers.
AddWorker(w) ==
  /\ Running /\ stage[w] = "adding" /\ status[proxyOf[w]] = "running"
  /\ stage' = [stage EXCEPT ![w] = "in"]
  /\ workerCount' = [workerCount EXCEPT ![proxyOf[w]] = @ + 1]
  /\ wasFull' = IF workerCount[proxyOf[w]] + 1 >= MaxWorkers
                THEN wasFull \cup {proxyOf[w]} ELSE wasFull
  /\ UNCHANGED <<mapVars, proxyOf, lockVars, status, scanning>>

\* Mutant: Remove() also for a worker that has not been added.
LeaveEarly(w) ==
  /\ Running /\ stage[w] \in {"adding", "in"}
  /\ stage' = [stage EXCEPT ![w] = "leaving"]
  /\ UNCHANGED <<mapVars, proxyOf, lockVars, proxyVars, scanning>>

\* The connection ends: ServeCodec() returns, or OnClose() is called.
Leave(w) ==
  /\ Running /\ stage[w] = "in"
  /\ stage' = [stage EXCEPT ![w] = "leaving"]
  /\ UNCHANGED <<mapVars, proxyOf, lockVars, proxyVars, scanning>>

\* removeWorker().  At a proxy that has ended nobody takes the worker from the
\* channel of Remove(): the goroutine returns (delWorker has room for one) or is
\* stuck for ever, which no one can tell.  The miner is free to connect again.
DelWorker(w) ==
  /\ Running /\ stage[w] = "leaving"
  /\ \/ /\ status[proxyOf[w]] = "running"
        /\ workerCount' = [workerCount EXCEPT ![proxyOf[w]] = @ - 1]
     \/ Ended(proxyOf[w]) /\ UNCHANGED workerCount
  /\ stage' = [stage EXCEPT ![w] = "out"]
  /\ proxyOf' = [proxyOf EXCEPT ![w] = NoProxy]
  /\ UNCHANGED <<mapVars, lockVars, status, wasFull, scanning>>

Ending == {p \in Proxies : status[p] \in {"returned", "draining"}}

\* run() leaves its loop: keepalive failed, banned, donation share failed.
Return(p) ==
  /\ Running /\ status[p] = "running"
  /\ Cardinality(Ending) < MaxEnding
  /\ status' = [status EXCEPT ![p] = "returned"]
  /\ UNCHANGED <<mapVars, workerVars, lockVars, workerCount, wasFull, scanning>>

\* Mutant: the workers are not disconnected.
DisconnectNobody(p) == UNCHANGED stage

\* Disconnect() of every worker of p.workers.
DisconnectAll(p) ==
  stage' = [w \in Workers |->
              IF proxyOf[w] = p /\ stage[w] = "in" THEN "leaving" ELSE stage[w]]

\* shutdown() up to its minute's wait.
Shutdown(p) ==
  /\ Running /\ status[p] = "returned"
  /\ status' = [status EXCEPT ![p] = "draining"]
  /\ DisconnectAll(p)
  /\ UNCHANGED <<mapVars, proxyOf, lockVars, workerCount, wasFull, scanning>>

\* removeProxy(), in the goroutine of the proxy and without newProxyMu.  What
\* the proxy has counted is forgotten with it.
RemoveProxy(p) ==
  /\ Running /\ status[p] = "draining"
  /\ status' = [status EXCEPT ![p] = "gone"]
  /\ workerCount' = [workerCount EXCEPT ![p] = 0]
  /\ wasFull' = wasFull \ {p}
  /\ WriteMap(proxies \ {p}, scanning \/ \E w \in Workers : stage[w] \in {"looking", "creating"})
  /\ UNCHANGED <<workerVars, lockVars, scanning>>

-----------------------------------------------------------------------------
(***************************************************************************)
(* GetStats(), as the loop over the map that it is: the totals it adds up  *)
(* are only printed.                                                       *)
(***************************************************************************)

StartStats ==
  /\ Running /\ ~scanning
  /\ scanning' = TRUE
  /\ UNCHANGED <<mapVars, workerVars, lockVars, proxyVars>>

EndStats ==
  /\ Running /\ scanning
  /\ scanning' = FALSE
  /\ UNCHANGED <<mapVars, workerVars, lockVars, proxyVars>>

-----------------------------------------------------------------------------
Next ==
  \/ \E w \in Workers : \/ Accept(w) \/ Lock(w)
                        \/ FindReady(w) \/ PassOver(w) \/ LoopEnds(w) \/ AddProxy(w)
                        \/ AddWorker(w) \/ Leave(w) \/ DelWorker(w)
  \/ \E p \in Proxies : Login(p) \/ Return(p) \/ Shutdown(p) \/ RemoveProxy(p)
  \/ StartStats \/ EndStats

Spec == Init /\ [][Next]_vars

\* A Go mutex hands itself to a goroutine that has waited for it for long, and a
\* select that is ready for a worker again and again takes it.  A goroutine that
\* waits for nothing goes on.  No proxy has to log in, or to end.
Fairness ==
  /\ \A w \in Workers : /\ SF_vars(Lock(w))
                        /\ WF_vars(FindReady(w) \/ PassOver(w) \/ LoopEnds(w) \/ AddProxy(w))
                        /\ SF_vars(AddWorker(w)) /\ SF_vars(DelWorker(w))
  /\ \A p \in Proxies : WF_vars(Shutdown(p)) /\ WF_vars(RemoveProxy(p))
  /\ WF_vars(EndStats)

FairSpec == Spec /\ Fairness

-----------------------------------------------------------------------------
(***************************************************************************)
(* Properties                                                              *)
(***************************************************************************)

\* A proxy, and with it a connection to the pool, is only created when each
\* proxy of the map has ended or has been full before: connections that come in
\* at the same time do not create one each (director.go:98-116).
OnlyWhenNeeded ==
  [][\A new \in proxies' \ proxies, p \in proxies : p \in wasFull \/ Ended(p)]_vars

\* When a proxy has been shut down no worker is left in it that takes itself for
\* connected, also if it was added or left at the last moment (proxy.go:427-432).
NoWorkerAbandoned ==
  \A w \in Workers :
    stage[w] = "in" => status[proxyOf[w]] \notin {"gone", "login", "draining"}

\* Each proxy as its own connections see it.
ConnOf(p) == [w \in Workers |-> IF proxyOf[w] = p THEN stage[w] ELSE "out"]
Service(p) == INSTANCE ProxyService WITH status <- status[p], conn <- ConnOf(p)

\* Connections, whatever their order, use each proxy only as it is meant to be
\* used: none is assigned to one that has no room by the number of its workers
\* there are, and a new one begins with nobody's worker (director.go:98-116).
UsesService ==
  /\ \A p \in Proxies : Service(p)!Init
  /\ [][\A p \in Proxies : Service(p)!Next \/ UNCHANGED <<status[p], ConnOf(p)>>]_vars

\* NextProxy() returns, however many connections come in and whatever becomes of
\* the proxies and the pool (director.go:98-116).
NextProxyReturns ==
  \A w \in Workers : (stage[w] = "waiting") ~> (stage[w] = "adding" \/ crashed)

\* A worker given to a proxy that has reached the pool is added, unless that
\* proxy ends (proxy.go:517-522).
AddedOrEnded ==
  \A w \in Workers, p \in Proxies :
    (stage[w] = "adding" /\ proxyOf[w] = p /\ status[p] = "running")
      ~> (stage[w] = "in" \/ Ended(p) \/ crashed)

\* "This takes care of the race" (director.go:99): no goroutine writes the map of
\* proxies while another one is using it.  Checked by a run that expects its
\* violation: removeProxy() and GetStats() do not lock newProxyMu.
MapNeverRaces == ~crashed

=============================================================================
