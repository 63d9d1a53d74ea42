-------------------------- MODULE Director_proofs --------------------------
(***************************************************************************)
(* The safety properties of Director for any number of workers and proxies.*)
(* The invariant says who holds the lock, what a NextProxy() under way has *)
(* found out, and what a proxy counts.                                     *)
(***************************************************************************)
EXTENDS Director, FiniteSetTheorems, TLAPS

Connected(p) == {w \in Workers : proxyOf[w] = p /\ stage[w] \in {"in", "leaving"}}

\* TypeOK but for the range of workerCount, which needs CountInv.
Types ==
  /\ proxies \subseteq Proxies
  /\ newProxyMu \in Workers \cup {NoWorker}
  /\ seen \in [Workers -> SUBSET Proxies]
  /\ stage \in [Workers -> Stages]
  /\ proxyOf \in [Workers -> Proxies \cup {NoProxy}]
  /\ status \in [Proxies -> Statuses]
  /\ workerCount \in [Proxies -> Int]
  /\ wasFull \subseteq Proxies
  /\ scanning \in BOOLEAN
  /\ crashed \in BOOLEAN

\* A worker has a proxy from NextProxy() to the end.
Placed ==
  \A w \in Workers : stage[w] \in {"adding", "in", "leaving"} <=> proxyOf[w] \in Proxies

\* Only the holder of the lock is in NextProxy(), what its loop has passed over was
\* full once or has ended, and no proxy is added behind its back once the loop is over.
LockInv ==
  \A w \in Workers :
    /\ stage[w] \in {"looking", "creating"} => newProxyMu = w
    /\ stage[w] \notin {"looking", "creating"} => seen[w] = {}
    /\ stage[w] = "creating" => proxies \subseteq seen[w]
    /\ \A p \in seen[w] : p \in proxies => p \in wasFull \/ Ended(p)

\* A count at the limit has been noticed.
FullInv == \A p \in Proxies : workerCount[p] >= MaxWorkers => p \in wasFull

\* The count is right as long as run() is there to keep it, and never too small
\* as long as the proxy passes for ready.
Counted(p) ==
  /\ workerCount[p] >= 0
  /\ status[p] \in {"login", "running"} => workerCount[p] = Cardinality(Connected(p))
  /\ status[p] = "returned" => workerCount[p] >= Cardinality(Connected(p))
  /\ status[p] = "gone" => workerCount[p] = 0

CountInv == \A p \in Proxies : Counted(p)

IInv == Types /\ Placed /\ LockInv /\ FullInv /\ CountInv /\ NoWorkerAbandoned

-----------------------------------------------------------------------------
LEMMA InitIInv == Init => IInv
<1> SUFFICES ASSUME Init PROVE IInv
  OBVIOUS
<1> USE Sizes DEF Init
<1>1. Types
  <2>1. seen \in [Workers -> SUBSET Proxies]
    OBVIOUS
  <2>2. proxies \subseteq Proxies /\ wasFull \subseteq Proxies
    OBVIOUS
  <2>3. /\ stage \in [Workers -> Stages] /\ proxyOf \in [Workers -> Proxies \cup {NoProxy}]
        /\ status \in [Proxies -> Statuses] /\ workerCount \in [Proxies -> Int]
    BY DEF Stages, Statuses
  <2>4. newProxyMu \in Workers \cup {NoWorker} /\ scanning \in BOOLEAN /\ crashed \in BOOLEAN
    OBVIOUS
  <2> QED  BY <2>1, <2>2, <2>3, <2>4 DEF Types
<1>3. Placed /\ LockInv /\ NoWorkerAbandoned
  BY DEF Placed, LockInv, NoWorkerAbandoned
<1>4. FullInv
  BY DEF FullInv
<1>2. CountInv
  BY FS_EmptySet DEF CountInv, Counted
<1> QED  BY <1>1, <1>2, <1>3, <1>4 DEF IInv

LEMMA TypesStep == IInv /\ [Next]_vars => Types'
<1> SUFFICES ASSUME IInv, [Next]_vars PROVE Types'
  OBVIOUS
<1> USE Sizes DEF IInv, Types, Stages, Statuses, mapVars, workerVars, lockVars, proxyVars
<1>1. ASSUME NEW w \in Workers, Accept(w) \/ Lock(w) \/ LoopEnds(w) \/ Leave(w) PROVE Types'
  BY <1>1 DEF Accept, Lock, LoopEnds, Leave
<1>2. ASSUME NEW w \in Workers, FindReady(w) PROVE Types'
  BY <1>2 DEF FindReady, Assign, Unlock
<1>3. ASSUME NEW w \in Workers, PassOver(w) PROVE Types'
  BY <1>3 DEF PassOver
<1>4. ASSUME NEW w \in Workers, AddProxy(w) PROVE Types'
  BY <1>4 DEF AddProxy, Unused, Assign, Unlock, WriteMap
<1>5. ASSUME NEW w \in Workers, AddWorker(w) PROVE Types'
  <2>1. proxyOf[w] \in Proxies
    BY <1>5 DEF AddWorker, Placed
  <2>2. wasFull' \subseteq Proxies
    BY <1>5, <2>1 DEF AddWorker
  <2>3. workerCount' \in [Proxies -> Int]
    BY <1>5, <2>1 DEF AddWorker
  <2> QED  BY <1>5, <2>2, <2>3 DEF AddWorker
<1>6. ASSUME NEW w \in Workers, DelWorker(w) PROVE Types'
  BY <1>6 DEF DelWorker
<1>7. ASSUME NEW p \in Proxies, Login(p) \/ Return(p) PROVE Types'
  BY <1>7 DEF Login, Return
<1>8. ASSUME NEW p \in Proxies, Shutdown(p) PROVE Types'
  BY <1>8 DEF Shutdown, DisconnectAll
<1>9. ASSUME NEW p \in Proxies, RemoveProxy(p) PROVE Types'
  <2>1. proxies' \subseteq Proxies /\ wasFull' \subseteq Proxies /\ crashed' \in BOOLEAN
    BY <1>9 DEF RemoveProxy, WriteMap
  <2>2. status' \in [Proxies -> Statuses] /\ workerCount' \in [Proxies -> Int]
    BY <1>9 DEF RemoveProxy
  <2> QED  BY <1>9, <2>1, <2>2 DEF RemoveProxy
<1>10. CASE StartStats \/ EndStats
  BY <1>10 DEF StartStats, EndStats
<1>11. CASE UNCHANGED vars
  BY <1>11 DEF vars
<1> QED
  BY <1>1, <1>2, <1>3, <1>4, <1>5, <1>6, <1>7, <1>8, <1>9, <1>10, <1>11 DEF Next

\* Who holds the lock, where the workers are and what the loops have seen.
LEMMA LockStep == IInv /\ [Next]_vars => (Placed /\ LockInv /\ FullInv /\ NoWorkerAbandoned)'
<1> SUFFICES ASSUME IInv, [Next]_vars
             PROVE  (Placed /\ LockInv /\ FullInv /\ NoWorkerAbandoned)'
  OBVIOUS
<1> USE Sizes DEF IInv, Types, Stages, Statuses, Ended, Placed, LockInv, FullInv,
      NoWorkerAbandoned, mapVars, workerVars, lockVars, proxyVars
<1>1. ASSUME NEW w \in Workers, Accept(w) \/ Leave(w) \/ LoopEnds(w)
      PROVE  (Placed /\ LockInv /\ FullInv /\ NoWorkerAbandoned)'
  BY <1>1 DEF Accept, Leave, LoopEnds
<1>2. ASSUME NEW w \in Workers, Lock(w)
      PROVE  (Placed /\ LockInv /\ FullInv /\ NoWorkerAbandoned)'
  BY <1>2 DEF Lock, Unlocked
<1>3. ASSUME NEW w \in Workers, FindReady(w)
      PROVE  (Placed /\ LockInv /\ FullInv /\ NoWorkerAbandoned)'
  BY <1>3 DEF FindReady, Assign, Unlock, IsReady
<1>4. ASSUME NEW w \in Workers, PassOver(w)
      PROVE  (Placed /\ LockInv /\ FullInv /\ NoWorkerAbandoned)'
  BY <1>4 DEF PassOver, IsReady
<1>5. ASSUME NEW w \in Workers, AddProxy(w)
      PROVE  (Placed /\ LockInv /\ FullInv /\ NoWorkerAbandoned)'
  BY <1>5 DEF AddProxy, Unused, Assign, Unlock, WriteMap
<1>6. ASSUME NEW w \in Workers, AddWorker(w)
      PROVE  (Placed /\ LockInv /\ FullInv /\ NoWorkerAbandoned)'
  BY <1>6 DEF AddWorker
<1>7. ASSUME NEW w \in Workers, DelWorker(w)
      PROVE  (Placed /\ LockInv /\ FullInv /\ NoWorkerAbandoned)'
  BY <1>7 DEF DelWorker
<1>8. ASSUME NEW p \in Proxies, Login(p) \/ Return(p)
      PROVE  (Placed /\ LockInv /\ FullInv /\ NoWorkerAbandoned)'
  BY <1>8 DEF Login, Return
<1>9. ASSUME NEW p \in Proxies, Shutdown(p)
      PROVE  (Placed /\ LockInv /\ FullInv /\ NoWorkerAbandoned)'
  BY <1>9 DEF Shutdown, DisconnectAll
<1>10. ASSUME NEW p \in Proxies, RemoveProxy(p)
       PROVE  (Placed /\ LockInv /\ FullInv /\ NoWorkerAbandoned)'
  BY <1>10 DEF RemoveProxy, WriteMap
<1>11. CASE StartStats \/ EndStats
  BY <1>11 DEF StartStats, EndStats
<1>12. CASE UNCHANGED vars
  BY <1>12 DEF vars
<1> QED
  BY <1>1, <1>2, <1>3, <1>4, <1>5, <1>6, <1>7, <1>8, <1>9, <1>10, <1>11, <1>12 DEF Next

-----------------------------------------------------------------------------
LEMMA ConnectedFinite ==
  ASSUME NEW p PROVE IsFiniteSet(Connected(p)) /\ Cardinality(Connected(p)) \in Nat
<1>1. Connected(p) \subseteq Workers
  BY DEF Connected
<1> QED  BY <1>1, Sizes, FS_Subset, FS_CardinalityType

\* run() counts every worker it takes in or lets go.
LEMMA CountStep == IInv /\ [Next]_vars => CountInv'
<1> SUFFICES ASSUME IInv, [Next]_vars PROVE CountInv'
  OBVIOUS
<1> USE Sizes DEF mapVars, workerVars, lockVars, proxyVars
<1>0. Types /\ Placed /\ CountInv
  BY DEF IInv
<1>1. ASSUME \A p \in Proxies : Connected(p)' = Connected(p),
             UNCHANGED workerCount,
             \A p \in Proxies :
               /\ status'[p] \in {"login", "running"} => status[p] \in {"login", "running"}
               /\ status'[p] = "returned" => status[p] \in {"running", "returned"}
               /\ status'[p] = "gone" => status[p] = "gone"
      PROVE  CountInv'
  <2> SUFFICES ASSUME NEW p \in Proxies
               PROVE  Counted(p)'
    BY DEF CountInv
  <2>1. /\ Cardinality(Connected(p)) \in Nat /\ workerCount[p] \in Int
        /\ Cardinality(Connected(p)') = Cardinality(Connected(p))
    BY <1>0, <1>1, ConnectedFinite DEF Types
  <2> QED  BY <1>0, <1>1, <2>1 DEF CountInv, Counted
<1>2. ASSUME NEW w \in Workers, Accept(w) \/ Lock(w) \/ Leave(w) \/ PassOver(w) \/ LoopEnds(w)
      PROVE  CountInv'
  <2>1. \A p \in Proxies : Connected(p)' = Connected(p)
    BY <1>0, <1>2 DEF Accept, Lock, Leave, PassOver, LoopEnds, Connected, Types
  <2>2. UNCHANGED <<workerCount, status>>
    BY <1>2 DEF Accept, Lock, Leave, PassOver, LoopEnds
  <2> QED  BY <1>1, <2>1, <2>2
<1>3. ASSUME NEW w \in Workers, FindReady(w) PROVE CountInv'
  <2>1. \A p \in Proxies : Connected(p)' = Connected(p)
    BY <1>0, <1>3 DEF FindReady, Assign, Connected, Types
  <2>2. UNCHANGED <<workerCount, status>>
    BY <1>3 DEF FindReady
  <2> QED  BY <1>1, <2>1, <2>2
<1>4. ASSUME NEW w \in Workers, AddProxy(w) PROVE CountInv'
  <2>1. \A p \in Proxies : Connected(p)' = Connected(p)
    BY <1>0, <1>4 DEF AddProxy, Assign, Connected, Types
  <2>2. PICK q \in Unused : status' = [status EXCEPT ![q] = "login"]
    BY <1>4 DEF AddProxy
  <2>3. q \in Proxies /\ status[q] = "gone" /\ Connected(q) = {}
    BY <2>2 DEF Unused, Connected
  <2>4. workerCount[q] = Cardinality(Connected(q))
    BY <1>0, <2>3, FS_EmptySet DEF CountInv, Counted
  <2> SUFFICES ASSUME NEW p \in Proxies
               PROVE  Counted(p)'
    BY DEF CountInv
  <2>5. workerCount' = workerCount
    BY <1>4 DEF AddProxy
  <2>6. CASE p = q
    BY <1>0, <2>1, <2>2, <2>3, <2>4, <2>5, <2>6 DEF CountInv, Counted, Types
  <2>7. CASE p # q
    BY <1>0, <2>1, <2>2, <2>3, <2>5, <2>7 DEF CountInv, Counted, Types
  <2> QED  BY <2>6, <2>7
<1>5. ASSUME NEW w \in Workers, AddWorker(w) PROVE CountInv'
  <2>1. PICK q \in Proxies : q = proxyOf[w]
    BY <1>0, <1>5 DEF AddWorker, Placed
  <2>2. w \notin Connected(q)
    BY <1>5 DEF AddWorker, Connected
  <2>3. Connected(q)' = Connected(q) \cup {w}
    BY <1>0, <1>5, <2>1 DEF AddWorker, Connected, Types
  <2>4. \A p \in Proxies : p # q => Connected(p)' = Connected(p)
    BY <1>0, <1>5, <2>1 DEF AddWorker, Connected, Types
  <2>5. Cardinality(Connected(q)') = Cardinality(Connected(q)) + 1
    BY <2>2, <2>3, ConnectedFinite, FS_AddElement
  <2>6. /\ status' = status /\ status[q] = "running"
        /\ workerCount' = [workerCount EXCEPT ![q] = @ + 1]
    BY <1>5, <2>1 DEF AddWorker
  <2> SUFFICES ASSUME NEW p \in Proxies
               PROVE  Counted(p)'
    BY DEF CountInv
  <2>7. CASE p = q
    <3>1. workerCount'[q] = workerCount[q] + 1
      BY <1>0, <2>6 DEF Types
    <3>2. workerCount[q] = Cardinality(Connected(q)) /\ workerCount[q] >= 0
      BY <1>0, <2>6 DEF CountInv, Counted
    <3>3. Cardinality(Connected(q)) \in Nat
      BY ConnectedFinite
    <3>4. Cardinality(Connected(p)') = Cardinality(Connected(q)')
      BY <2>7
    <3> QED  BY <2>5, <2>6, <2>7, <3>1, <3>2, <3>3, <3>4 DEF Counted
  <2>8. CASE p # q
    BY <1>0, <2>4, <2>6, <2>8 DEF CountInv, Counted, Types
  <2> QED  BY <2>7, <2>8
<1>6. ASSUME NEW w \in Workers, DelWorker(w) PROVE CountInv'
  <2>1. PICK q \in Proxies : q = proxyOf[w]
    BY <1>0, <1>6 DEF DelWorker, Placed
  <2>2. w \in Connected(q)
    BY <1>6, <2>1 DEF DelWorker, Connected
  <2>3. Connected(q)' = Connected(q) \ {w}
    BY <1>0, <1>6, <2>1 DEF DelWorker, Connected, Types
  <2>4. \A p \in Proxies : p # q => Connected(p)' = Connected(p)
    BY <1>0, <1>6, <2>1 DEF DelWorker, Connected, Types
  <2>5. /\ Cardinality(Connected(q)') = Cardinality(Connected(q)) - 1
        /\ Cardinality(Connected(q)') \in Nat
    BY <2>2, <2>3, ConnectedFinite, FS_RemoveElement, FS_CardinalityType
  <2>6. status' = status
    BY <1>6 DEF DelWorker
  <2> SUFFICES ASSUME NEW p \in Proxies
               PROVE  Counted(p)'
    BY DEF CountInv
  <2>7. CASE p # q
    <3>1. workerCount'[p] = workerCount[p]
      BY <1>0, <1>6, <2>1, <2>7 DEF DelWorker, Types
    <3> QED  BY <1>0, <2>4, <2>6, <2>7, <3>1 DEF CountInv, Counted
  <2>8. CASE p = q /\ Ended(q) /\ UNCHANGED workerCount
    <3>1. Cardinality(Connected(p)') <= Cardinality(Connected(p))
      <4>1. Cardinality(Connected(p)') = Cardinality(Connected(q)')
        BY <2>8
      <4> QED  BY <2>5, <2>8, <4>1, ConnectedFinite
    <3>2. /\ Cardinality(Connected(p)) \in Nat /\ Cardinality(Connected(p)') \in Nat
          /\ workerCount[p] \in Int
      <4>1. Cardinality(Connected(p)') = Cardinality(Connected(q)')
        BY <2>8
      <4> QED  BY <1>0, <2>5, <4>1, ConnectedFinite DEF Types
    <3> QED  BY <1>0, <2>6, <2>8, <3>1, <3>2 DEF CountInv, Counted, Ended
  <2>9. CASE /\ p = q /\ status[q] = "running"
             /\ workerCount' = [workerCount EXCEPT ![q] = @ - 1]
    <3>1. workerCount'[q] = workerCount[q] - 1
      BY <1>0, <2>9 DEF Types
    <3>2. workerCount[q] = Cardinality(Connected(q))
      BY <1>0, <2>9 DEF CountInv, Counted
    <3>3. Cardinality(Connected(q)) \in Nat
      BY ConnectedFinite
    <3>4. Cardinality(Connected(p)') = Cardinality(Connected(q)')
      BY <2>9
    <3> QED  BY <2>5, <2>6, <2>9, <3>1, <3>2, <3>3, <3>4 DEF Counted
  <2> QED  BY <1>6, <2>1, <2>7, <2>8, <2>9 DEF DelWorker
<1>7. ASSUME NEW q \in Proxies, Login(q) \/ Return(q) PROVE CountInv'
  <2>1. \A p \in Proxies : Connected(p)' = Connected(p)
    BY <1>7 DEF Login, Return, Connected
  <2>2. UNCHANGED workerCount
    BY <1>7 DEF Login, Return
  <2>3. \A p \in Proxies : /\ status'[p] \in {"login", "running"} => status[p] \in {"login", "running"}
                           /\ status'[p] = "returned" => status[p] \in {"running", "returned"}
                           /\ status'[p] = "gone" => status[p] = "gone"
    BY <1>0, <1>7 DEF Login, Return, Types
  <2> QED  BY <1>1, <2>1, <2>2, <2>3
<1>8. ASSUME NEW q \in Proxies, Shutdown(q) PROVE CountInv'
  <2>1. \A p \in Proxies : Connected(p)' = Connected(p)
    BY <1>0, <1>8 DEF Shutdown, DisconnectAll, Connected, Types
  <2>2. UNCHANGED workerCount
    BY <1>8 DEF Shutdown
  <2>3. \A p \in Proxies : /\ status'[p] \in {"login", "running"} => status[p] \in {"login", "running"}
                           /\ status'[p] = "returned" => status[p] \in {"running", "returned"}
                           /\ status'[p] = "gone" => status[p] = "gone"
    BY <1>0, <1>8 DEF Shutdown, Types
  <2> QED  BY <1>1, <2>1, <2>2, <2>3
<1>9. ASSUME NEW q \in Proxies, RemoveProxy(q) PROVE CountInv'
  <2> SUFFICES ASSUME NEW p \in Proxies
               PROVE  Counted(p)'
    BY DEF CountInv
  <2>1. Connected(p)' = Connected(p)
    BY <1>9 DEF RemoveProxy, Connected
  <2>2. /\ status' = [status EXCEPT ![q] = "gone"]
        /\ workerCount' = [workerCount EXCEPT ![q] = 0]
    BY <1>9 DEF RemoveProxy
  <2>3. CASE p = q
    BY <1>0, <2>2, <2>3 DEF Types, Counted
  <2>4. CASE p # q
    BY <1>0, <2>1, <2>2, <2>4 DEF CountInv, Counted, Types
  <2> QED  BY <2>3, <2>4
<1>10. CASE StartStats \/ EndStats \/ UNCHANGED vars
  <2>1. UNCHANGED <<workerCount, status, stage, proxyOf>>
    BY <1>10 DEF StartStats, EndStats, vars
  <2>2. \A p \in Proxies : Connected(p)' = Connected(p)
    BY <2>1 DEF Connected
  <2> QED  BY <1>1, <2>1, <2>2
<1> QED
  BY <1>2, <1>3, <1>4, <1>5, <1>6, <1>7, <1>8, <1>9, <1>10 DEF Next

LEMMA Invariance == Spec => []IInv
<1>1. IInv /\ [Next]_vars => IInv'
  BY TypesStep, LockStep, CountStep DEF IInv
<1> QED  BY InitIInv, <1>1, PTL DEF Spec

-----------------------------------------------------------------------------
\* Every variable keeps its range: in particular no proxy's count of workers ever
\* falls below zero, however connections come and go (proxy.go:401-412).
THEOREM TypeCorrect == Spec => []TypeOK
<1>1. IInv => TypeOK
  BY DEF IInv, Types, CountInv, Counted, TypeOK
<1> QED  BY Invariance, <1>1, PTL

\* When a proxy has been shut down none of its workers takes itself for connected
\* (proxy.go:427-432).
THEOREM NobodyAbandoned == Spec => []NoWorkerAbandoned
<1>1. IInv => NoWorkerAbandoned
  BY DEF IInv
<1> QED  BY Invariance, <1>1, PTL

\* The lock of NextProxy() keeps connections that come in together from creating a
\* proxy each (director.go:98-116).
THEOREM CreatedWhenNeeded == Spec => OnlyWhenNeeded
<1>1. ASSUME IInv, Next, NEW new \in proxies' \ proxies, NEW p \in proxies
      PROVE  p \in wasFull \/ Ended(p)
  <2>1. PICK w \in Workers : AddProxy(w)
    BY <1>1 DEF Next, Accept, Lock, FindReady, PassOver, LoopEnds, AddWorker, Leave, DelWorker,
      Login, Return, Shutdown, RemoveProxy, WriteMap, StartStats, EndStats, mapVars
  <2>2. p \in seen[w]
    BY <1>1, <2>1 DEF AddProxy, IInv, LockInv
  <2> QED  BY <1>1, <2>2 DEF IInv, LockInv
<1>2. IInv /\ [Next]_vars
      => [\A new \in proxies' \ proxies, p \in proxies : p \in wasFull \/ Ended(p)]_vars
  BY <1>1
<1> QED  BY Invariance, <1>2, PTL DEF Spec, OnlyWhenNeeded

-----------------------------------------------------------------------------
(* Each proxy is used as ProxyService says. *)

ServiceStep(p) == Service(p)!Next \/ UNCHANGED <<status[p], ConnOf(p)>>

LEMMA ServiceInit == Init => \A p \in Proxies : Service(p)!Init
BY Sizes DEF Init, Service!Init, ConnOf

\* One connection moves: it alone changes for its proxy, nothing for the others.
LEMMA Moves ==
  ASSUME Types, NEW w \in Workers, NEW p \in Proxies, NEW to,
         proxyOf[w] = p \/ proxyOf'[w] = p,
         (IF proxyOf'[w] = p THEN stage'[w] ELSE "out") = to,
         \A u \in Workers \ {w} : proxyOf'[u] = proxyOf[u] /\ stage'[u] = stage[u]
  PROVE  /\ ConnOf(p)' = [ConnOf(p) EXCEPT ![w] = to]
         /\ ConnOf(p)[w] = IF proxyOf[w] = p THEN stage[w] ELSE "out"
BY DEF ConnOf

LEMMA Stays ==
  ASSUME Types, NEW p \in Proxies,
         \A u \in Workers :
           /\ proxyOf'[u] = p <=> proxyOf[u] = p
           /\ proxyOf[u] = p => stage'[u] = stage[u]
  PROVE  ConnOf(p)' = ConnOf(p)
BY DEF ConnOf

\* The workers ProxyService counts are those that are connected.
LEMMA ServedAre ==
  ASSUME Types, NEW p \in Proxies
  PROVE  Service(p)!Served = Connected(p)
BY DEF Service!Served, ConnOf, Connected

\* Both count with the same definition.
LEMMA SameSize ==
  ASSUME NEW p, NEW S
  PROVE  Service(p)!Cardinality(S) = Cardinality(S)
BY Zenon DEF Service!Cardinality, Cardinality

LEMMA ServiceKept ==
  ASSUME IInv, [Next]_vars, NEW p \in Proxies
  PROVE  ServiceStep(p)
<1> USE DEF mapVars, workerVars, lockVars, proxyVars
<1>0. Types /\ Placed /\ CountInv /\ NoWorkerAbandoned /\ NoProxy \notin Proxies
  BY Sizes DEF IInv
<1>1. ASSUME NEW w \in Workers, Accept(w) \/ Lock(w) \/ PassOver(w) \/ LoopEnds(w)
      PROVE  ServiceStep(p)
  <2>1. status' = status /\ proxyOf' = proxyOf
    BY <1>1 DEF Accept, Lock, PassOver, LoopEnds
  <2>2. \A u \in Workers : proxyOf[u] = p => stage'[u] = stage[u]
    BY <1>0, <1>1 DEF Accept, Lock, PassOver, LoopEnds, Types, Placed
  <2>3. ConnOf(p)' = ConnOf(p)
    BY <1>0, <2>1, <2>2, Stays
  <2> QED  BY <2>1, <2>3 DEF ServiceStep
<1>2. ASSUME NEW w \in Workers, NEW q \in Proxies, Assign(w, q),
             stage[w] \in {"looking", "creating"}
      PROVE  /\ p # q => ConnOf(p)' = ConnOf(p)
             /\ p = q => ConnOf(p)[w] = "out" /\ ConnOf(p)' = [ConnOf(p) EXCEPT ![w] = "adding"]
  <2>1. /\ proxyOf[w] \notin Proxies /\ proxyOf'[w] = q /\ stage'[w] = "adding"
        /\ \A u \in Workers \ {w} : proxyOf'[u] = proxyOf[u] /\ stage'[u] = stage[u]
    BY <1>0, <1>2 DEF Assign, Types, Placed
  <2>2. CASE p # q
    BY <1>0, <2>1, <2>2, Stays
  <2>3. CASE p = q
    BY <1>0, <2>1, <2>3, Moves
  <2> QED  BY <2>2, <2>3
<1>3. ASSUME NEW w \in Workers, FindReady(w)
      PROVE  ServiceStep(p)
  <2>1. PICK q \in proxies : IsReady(q) /\ Assign(w, q)
    BY <1>3 DEF FindReady
  <2>2. q \in Proxies /\ stage[w] = "looking" /\ status' = status
    BY <1>0, <1>3 DEF FindReady, Types
  <2>3. CASE p # q
    BY <1>2, <2>1, <2>2, <2>3 DEF ServiceStep
  <2>4. CASE p = q
    <3>1. ConnOf(p)[w] = "out" /\ ConnOf(p)' = [ConnOf(p) EXCEPT ![w] = "adding"]
      BY <1>2, <2>1, <2>2, <2>4
    <3>2. status[p] \in {"login", "running", "returned"} /\ workerCount[p] < MaxWorkers
      BY <2>1, <2>4 DEF IsReady
    <3>3. Cardinality(Connected(p)) <= workerCount[p]
      <4>1. Cardinality(Connected(p)) \in Nat /\ workerCount[p] \in Int
        BY <1>0, ConnectedFinite DEF Types
      <4> QED  BY <1>0, <3>2, <4>1 DEF CountInv, Counted
    <3>4. Cardinality(Service(p)!Served) < MaxWorkers
      <4>1. Cardinality(Connected(p)) < MaxWorkers
        BY <1>0, <3>2, <3>3, ConnectedFinite, Sizes DEF Types
      <4> QED  BY <1>0, <4>1, ServedAre
    <3>5. Service(p)!Connect(w)
      BY <2>2, <3>1, <3>2, <3>4, SameSize DEF Service!Connect, Service!Goes
    <3> QED  BY <3>5 DEF ServiceStep, Service!Next
  <2> QED  BY <2>3, <2>4
<1>4. ASSUME NEW w \in Workers, AddProxy(w)
      PROVE  ServiceStep(p)
  <2>1. PICK q \in Unused : status' = [status EXCEPT ![q] = "login"] /\ Assign(w, q)
    BY <1>4 DEF AddProxy
  <2>2. q \in Proxies /\ status[q] = "gone" /\ stage[w] = "creating"
    BY <1>4, <2>1 DEF Unused, AddProxy
  <2>3. CASE p # q
    BY <1>0, <1>2, <2>1, <2>2, <2>3 DEF ServiceStep, Types
  <2>4. CASE p = q
    <3>1. ConnOf(p)[w] = "out" /\ ConnOf(p)' = [ConnOf(p) EXCEPT ![w] = "adding"]
      BY <1>2, <2>1, <2>2, <2>4
    <3>2. Service(p)!Served = {}
      <4>1. Connected(p) = {}
        BY <2>1, <2>4 DEF Unused, Connected
      <4> QED  BY <1>0, <4>1, ServedAre
    <3>3. status[p] = "gone" /\ status'[p] = "login"
      BY <1>0, <2>1, <2>2, <2>4 DEF Types
    <3>4. Service(p)!New(w)
      BY <3>1, <3>2, <3>3 DEF Service!New, Service!Goes, Service!Becomes
    <3> QED  BY <3>4 DEF ServiceStep, Service!Next
  <2> QED  BY <2>3, <2>4
<1>5. ASSUME NEW w \in Workers, AddWorker(w) \/ Leave(w) \/ DelWorker(w)
      PROVE  ServiceStep(p)
  <2>1. /\ status' = status
        /\ \A u \in Workers \ {w} : proxyOf'[u] = proxyOf[u] /\ stage'[u] = stage[u]
    BY <1>0, <1>5 DEF AddWorker, Leave, DelWorker, Types
  <2>2. proxyOf'[w] \in {proxyOf[w], NoProxy}
    BY <1>0, <1>5 DEF AddWorker, Leave, DelWorker, Types
  <2>3. CASE proxyOf[w] # p
    <3>1. ConnOf(p)' = ConnOf(p)
      BY <1>0, <2>1, <2>2, <2>3, Stays
    <3> QED  BY <2>1, <3>1 DEF ServiceStep
  <2>4. CASE proxyOf[w] = p
    <3>1. PICK to : to = IF proxyOf'[w] = p THEN stage'[w] ELSE "out"
      OBVIOUS
    <3>2. ConnOf(p)' = [ConnOf(p) EXCEPT ![w] = to] /\ ConnOf(p)[w] = stage[w]
      BY <1>0, <2>1, <2>4, <3>1, Moves
    <3>3. CASE AddWorker(w)
      <4>1. stage[w] = "adding" /\ to = "in" /\ status[p] = "running"
        BY <1>0, <2>4, <3>1, <3>3 DEF AddWorker, Types
      <4>2. Service(p)!Add(w)
        BY <2>1, <3>2, <4>1 DEF Service!Add, Service!Goes
      <4> QED  BY <4>2 DEF ServiceStep, Service!Next
    <3>4. CASE Leave(w)
      <4>1. stage[w] = "in" /\ to = "leaving"
        BY <1>0, <2>4, <3>1, <3>4 DEF Leave, Types
      <4>2. status[p] \in {"running", "returned"}
        BY <1>0, <2>4, <4>1 DEF NoWorkerAbandoned, Types, Statuses
      <4>3. Service(p)!Leave(w)
        BY <2>1, <3>2, <4>1, <4>2 DEF Service!Leave, Service!Goes
      <4> QED  BY <4>3 DEF ServiceStep, Service!Next
    <3>5. CASE DelWorker(w)
      <4>1. stage[w] = "leaving" /\ to = "out" /\ status[p] # "login"
        BY <1>0, <2>4, <3>1, <3>5 DEF DelWorker, Ended, Types
      <4>2. Service(p)!Remove(w)
        BY <2>1, <3>2, <4>1 DEF Service!Remove, Service!Goes
      <4> QED  BY <4>2 DEF ServiceStep, Service!Next
    <3> QED  BY <1>5, <3>3, <3>4, <3>5
  <2> QED  BY <2>3, <2>4
<1>6. ASSUME NEW q \in Proxies, Login(q) \/ Return(q) \/ RemoveProxy(q)
      PROVE  ServiceStep(p)
  <2>1. ConnOf(p)' = ConnOf(p)
    BY <1>6 DEF Login, Return, RemoveProxy, ConnOf
  <2>2. CASE p # q
    <3>1. status'[p] = status[p]
      BY <1>0, <1>6, <2>2 DEF Login, Return, RemoveProxy, Types
    <3> QED  BY <2>1, <3>1 DEF ServiceStep
  <2>3. CASE p = q
    <3>1. \/ status[p] = "login" /\ status'[p] = "running"
          \/ status[p] = "running" /\ status'[p] = "returned"
          \/ status[p] = "draining" /\ status'[p] = "gone"
      BY <1>0, <1>6, <2>3 DEF Login, Return, RemoveProxy, Types
    <3>2. Service(p)!Login \/ Service(p)!Return \/ Service(p)!Forget
      BY <2>1, <3>1 DEF Service!Login, Service!Return, Service!Forget, Service!Becomes
    <3> QED  BY <3>2 DEF ServiceStep, Service!Next
  <2> QED  BY <2>2, <2>3
<1>7. ASSUME NEW q \in Proxies, Shutdown(q)
      PROVE  ServiceStep(p)
  <2>1. /\ proxyOf' = proxyOf /\ status[q] = "returned" /\ status' = [status EXCEPT ![q] = "draining"]
        /\ stage' = [w \in Workers |->
                        IF proxyOf[w] = q /\ stage[w] = "in" THEN "leaving" ELSE stage[w]]
    BY <1>7 DEF Shutdown, DisconnectAll
  <2>2. CASE p # q
    <3>1. ConnOf(p)' = ConnOf(p)
      BY <1>0, <2>1, <2>2, Stays
    <3>2. status'[p] = status[p]
      BY <1>0, <2>1, <2>2 DEF Types
    <3> QED  BY <3>1, <3>2 DEF ServiceStep
  <2>3. CASE p = q
    <3>1. ConnOf(p)' = [w \in Workers |-> IF ConnOf(p)[w] = "in" THEN "leaving" ELSE ConnOf(p)[w]]
      BY <1>0, <2>1, <2>3 DEF ConnOf
    <3>2. status[p] = "returned" /\ status'[p] = "draining"
      BY <1>0, <2>1, <2>3 DEF Types
    <3>3. Service(p)!Shutdown
      BY <3>1, <3>2 DEF Service!Shutdown, Service!Becomes
    <3> QED  BY <3>3 DEF ServiceStep, Service!Next
  <2> QED  BY <2>2, <2>3
<1>8. CASE StartStats \/ EndStats \/ UNCHANGED vars
  <2>1. UNCHANGED <<status, stage, proxyOf>>
    BY <1>8 DEF StartStats, EndStats, vars
  <2>2. ConnOf(p)' = ConnOf(p)
    BY <2>1 DEF ConnOf
  <2> QED  BY <2>1, <2>2 DEF ServiceStep
<1> QED  BY <1>1, <1>3, <1>4, <1>5, <1>6, <1>7, <1>8 DEF Next

\* A connection is only given to a proxy that has room for it, by the number of
\* workers there are and not only by the count isReady() reads, and is served and
\* let go as ProxyService promises: for any number of connections and proxies
\* (director.go:98-116, proxy.go:437-440).
THEOREM ServiceUsed == Spec => UsesService
<1>1. IInv /\ [Next]_vars =>
        [\A p \in Proxies : Service(p)!Next \/ UNCHANGED <<status[p], ConnOf(p)>>]_vars
  BY ServiceKept DEF ServiceStep
<1> QED  BY <1>1, ServiceInit, Invariance, PTL DEF Spec, UsesService
=============================================================================
