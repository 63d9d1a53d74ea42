---------------------------- MODULE Miner_proofs ----------------------------
(***************************************************************************)
(* Safety of the browser miner for any number of threads, sockets, jobs    *)
(* and timers.  Inv joins what the page believes of a worker (running,     *)
(* threadJob) to the messages in flight, and the flag autoReconnect to the *)
(* intervals that make up for it when it is off.                           *)
(***************************************************************************)
EXTENDS Miner, FiniteSetTheorems, TLAPS

USE MinerAssumption

\* What the page believes of thread t and what is in flight to its worker.
ThreadInv(t) ==
  /\ t \notin threads => worker[t] = "none"
  /\ t \in threads => worker[t] # "none" /\ threadJob[t] = currentJob
  /\ running[t] => worker[t] = "up" /\ threadJob[t] # NoJob
  /\ ~running[t] => Rest(t)
  /\ Len(inbox[t]) + Len(outbox[t]) <= 1

ThreadsInv == \A t \in Threads : ThreadInv(t)

\* A started miner that does not reconnect by itself has its tab interval.
Kept == started /\ ~ticking => autoReconnect

Inv == TypeOK /\ ThreadsInv /\ SingleSocket /\ Kept /\ NeverStranded

ThreadTypes ==
  /\ threads \subseteq Threads
  /\ worker \in [Threads -> {"none", "loading", "up"}]
  /\ threadJob \in [Threads -> Jobs \cup {NoJob}]
  /\ running \in [Threads -> BOOLEAN]
  /\ inbox \in [Threads -> Seq(Jobs)]
  /\ outbox \in [Threads -> Seq(Rounds)]

\* Thread counts are natural numbers.
LEMMA CountIsNat == Cardinality(Threads) \in Nat
  BY FS_CardinalityType

\* An answer takes the place of a request, and a request that of an answer.
LEMMA Lengths ==
  ASSUME NEW A, NEW B, NEW s \in Seq(A), NEW r \in Seq(B), s # <<>>,
         Len(s) + Len(r) <= 1 \/ Len(r) + Len(s) <= 1, NEW x
  PROVE  /\ Len(Tail(s)) + Len(Append(r, x)) <= 1
         /\ Len(Append(r, x)) + Len(Tail(s)) <= 1
         /\ Len(r) + Len(Tail(s)) <= 1
  <1>1. Len(s) \in Nat /\ Len(r) \in Nat /\ Len(s) > 0
    OBVIOUS
  <1>2. Len(Tail(s)) = Len(s) - 1 /\ Len(Append(r, x)) = Len(r) + 1
    OBVIOUS
  <1> QED BY <1>1, <1>2

\* What has been posted is there.
LEMMA Posted == ASSUME NEW A, NEW s \in Seq(A), NEW x PROVE Append(s, x) # <<>>
  <1>1. Len(Append(s, x)) = Len(s) + 1 /\ Len(s) \in Nat
    OBVIOUS
  <1>2. Len(<<>>) = 0
    OBVIOUS
  <1> QED BY <1>1, <1>2

\* Threads that come start afresh with the current job, threads that go leave
\* nothing behind, and the others keep what they had.
LEMMA SetThreadsKeeps ==
  ASSUME TypeOK, ThreadsInv, NEW S \in SUBSET Threads, SetThreads(S),
         currentJob' = currentJob \/ S = {}
  PROVE  ThreadTypes' /\ ThreadsInv'
  <1>1. ThreadTypes'
    BY DEF SetThreads, TypeOK, ThreadTypes
  <1>2. ASSUME NEW t \in Threads PROVE ThreadInv(t)'
    <2>1. CASE t \in (threads \ S) \cup (S \ threads)
      <3>1. /\ threads' = S /\ ~running'[t] /\ inbox'[t] = <<>> /\ outbox'[t] = <<>>
            /\ worker'[t] = IF t \in S THEN "loading" ELSE "none"
            /\ t \in S => threadJob'[t] = currentJob
        BY <2>1 DEF SetThreads
      <3>2. t \in S => currentJob' = currentJob
        OBVIOUS
      <3>3. Len(inbox'[t]) + Len(outbox'[t]) <= 1
        BY <3>1
      <3> QED BY <3>1, <3>2, <3>3 DEF ThreadInv, Rest
    <2>2. CASE t \notin (threads \ S) \cup (S \ threads)
      BY <2>2 DEF SetThreads, TypeOK, ThreadInv, ThreadsInv, Rest
    <2> QED BY <2>1, <2>2
  <1> QED BY <1>1, <1>2 DEF ThreadsInv

\* A job reaches the threads that rest as a request and the others as the job
\* of their next one.
LEMMA SetJobKeeps ==
  ASSUME TypeOK, ThreadsInv, NEW j \in Jobs, SetJob(j)
  PROVE  ThreadTypes' /\ ThreadsInv' /\ currentJob' = j
  <1>1. ThreadTypes'
    BY DEF SetJob, TypeOK, ThreadTypes
  <1>2. ASSUME NEW t \in Threads PROVE ThreadInv(t)'
    <2>1. ThreadInv(t) BY DEF ThreadsInv
    <2>2. CASE t \in threads /\ Idle(t)
      <3>1. inbox[t] = <<>> /\ outbox[t] = <<>>
        BY <2>1, <2>2 DEF ThreadInv, Idle, Rest
      <3>2. inbox'[t] = Append(<<>>, j) /\ outbox'[t] = <<>>
        BY <2>2, <3>1 DEF SetJob, TypeOK
      <3>3. Len(inbox'[t]) + Len(outbox'[t]) <= 1
        BY <3>2
      <3> QED BY <2>1, <2>2, <3>3 DEF SetJob, TypeOK, ThreadInv, Idle, Rest
    <2>3. CASE ~(t \in threads /\ Idle(t))
      BY <2>1, <2>3 DEF SetJob, TypeOK, ThreadInv, Idle, Rest
    <2> QED BY <2>2, <2>3
  <1> QED BY <1>1, <1>2 DEF ThreadsInv, SetJob

\* _startNow() leaves the tab interval or a connection.
LEMMA StartNowKeeps ==
  ASSUME Inv, StartNow
  PROVE  /\ ThreadTypes' /\ ThreadsInv' /\ SingleSocket' /\ Kept'
         /\ ticking' \/ socket' # NoSocket
         /\ {ticking', grace', started', autoReconnect'} \subseteq BOOLEAN
         /\ socket' \in Sockets \cup {NoSocket}
         /\ sockets' \in [Sockets -> {"none", "connecting", "open", "closing"}]
  <1>1. CASE mode = "ifExclusiveTab" /\ other
    <2>1. UNCHANGED <<grace, autoReconnect, socketVars, threadVars, currentJob>>
          /\ ticking' /\ ticking' \in BOOLEAN /\ started' = TRUE
      BY <1>1 DEF StartNow, Inv, TypeOK
    <2>2. ThreadTypes' /\ ThreadsInv'
      BY <2>1 DEF Inv, TypeOK, ThreadTypes, ThreadsInv, ThreadInv, Rest, threadVars
    <2> QED BY <2>1, <2>2 DEF Inv, TypeOK, SingleSocket, Kept, socketVars
  <1>2. CASE ~(mode = "ifExclusiveTab" /\ other)
    <2>1. PICK S \in SUBSET Threads : SetThreads(S)
      BY <1>2 DEF StartNow, SetNumThreads
    <2>2. ThreadTypes' /\ ThreadsInv'
      BY <2>1, SetThreadsKeeps DEF StartNow, Inv
    <2>3. /\ SingleSocket' /\ socket' # NoSocket
          /\ socket' \in Sockets \cup {NoSocket}
          /\ sockets' \in [Sockets -> {"none", "connecting", "open", "closing"}]
      BY <1>2 DEF StartNow, Connect, Inv, TypeOK, SingleSocket, socketVars
    <2>4. autoReconnect' = TRUE /\ started' = TRUE
          /\ ticking' \in BOOLEAN /\ grace' \in BOOLEAN
      BY <1>2 DEF StartNow, Inv, TypeOK
    <2> QED BY <2>2, <2>3, <2>4 DEF Kept
  <1> QED BY <1>1, <1>2

\* stop() leaves no thread, no job and a socket that is closing.
LEMMA StopKeeps ==
  ASSUME Inv, NEW k \in BOOLEAN, Stop(k), started' = (started /\ k), k => ticking
  PROVE  Inv'
  <1>1. ThreadTypes' /\ ThreadsInv'
    BY SetThreadsKeeps DEF Stop, Inv
  <1>2. TypeOK'
    BY <1>1 DEF Stop, Inv, TypeOK, ThreadTypes
  <1>3. SingleSocket'
    BY DEF Stop, Inv, TypeOK, SingleSocket
  <1>4. Kept' /\ NeverStranded'
    BY DEF Stop, Inv, TypeOK, Kept, NeverStranded
  <1> QED BY <1>1, <1>2, <1>3, <1>4 DEF Inv

\* Initially there is nothing.
LEMMA InitInv == Init => Inv
  <1> SUFFICES ASSUME Init PROVE Inv
    OBVIOUS
  <1>1. TypeOK
    <2>1. {ticking, grace, other, started, autoReconnect, adjusting} \subseteq BOOLEAN
      BY Zenon DEF Init
    <2>2. mode \in AllModes /\ target \in Nat \ {0}
      BY CountIsNat DEF Init, AllModes
    <2>3. requests \in 0..MaxRequests /\ timers \in 0..MaxTimers
      BY DEF Init
    <2>4. /\ sockets \in [Sockets -> {"none", "connecting", "open", "closing"}]
          /\ worker \in [Threads -> {"none", "loading", "up"}]
          /\ threadJob \in [Threads -> Jobs \cup {NoJob}]
          /\ running \in [Threads -> BOOLEAN]
          /\ inbox \in [Threads -> Seq(Jobs)]
          /\ outbox \in [Threads -> Seq(Rounds)]
      BY DEF Init
    <2> QED BY <2>1, <2>2, <2>3, <2>4 DEF Init, TypeOK
  <1>2. ThreadsInv
    BY DEF Init, ThreadsInv, ThreadInv, Rest
  <1> QED BY <1>1, <1>2 DEF Init, Inv, SingleSocket, Kept, NeverStranded

\* Every handler keeps Inv.
LEMMA StepInv == Inv /\ [Next]_vars => Inv'
  <1> SUFFICES ASSUME Inv, [Next]_vars PROVE Inv'
    OBVIOUS
  <1>0. TypeOK /\ ThreadsInv /\ SingleSocket /\ Kept /\ NeverStranded
    BY DEF Inv
  <1>1. ASSUME NEW m \in Modes, UserStarts(m) PROVE Inv'
    <2>1. /\ mode' \in AllModes /\ requests' \in 0..MaxRequests
          /\ asmjs' \in {"unloaded", "pending", "loaded"}
      BY <1>0, <1>1 DEF UserStarts, TypeOK
    <2>2. TypeOK'
      BY <1>0, <1>1, <2>1 DEF UserStarts, TypeOK, socketVars, threadVars
    <2>3. ThreadsInv'
      BY <1>0, <1>1 DEF UserStarts, ThreadsInv, ThreadInv, Rest, threadVars
    <2> QED BY <1>0, <1>1, <2>2, <2>3
        DEF UserStarts, Inv, SingleSocket, Kept, NeverStranded, socketVars
  <1>2. ASSUME UserStops PROVE Inv'
    BY <1>2, StopKeeps DEF UserStops
  <1>3. ASSUME ScriptLoaded \/ TimerFires \/ TakeTab PROVE Inv'
    <2>1. /\ StartNow /\ requests' \in 0..MaxRequests /\ timers' \in 0..MaxTimers
          /\ asmjs' \in {"unloaded", "pending", "loaded"}
      BY <1>0, <1>3 DEF ScriptLoaded, TimerFires, TakeTab, TypeOK
    <2>2. TypeOK'
      BY <1>0, <2>1, StartNowKeeps DEF StartNow, TypeOK, ThreadTypes
    <2> QED BY <2>1, <2>2, StartNowKeeps DEF Inv, NeverStranded
  <1>4. ASSUME ScriptFails PROVE Inv'
    BY <1>0, <1>4 DEF ScriptFails, Inv, TypeOK, ThreadsInv, ThreadInv, Rest, SingleSocket,
       Kept, NeverStranded, socketVars, threadVars, tabVars
  <1>5. ASSUME YieldTab PROVE Inv'
    <2>1. Stop(TRUE) /\ started' = (started /\ TRUE) /\ ticking
      BY <1>0, <1>5 DEF YieldTab, TypeOK
    <2> QED BY <2>1, StopKeeps
  <1>6. ASSUME OtherTab \/ GraceEnds PROVE Inv'
    <2>1. other' \in BOOLEAN /\ grace' \in BOOLEAN
      BY <1>0, <1>6 DEF OtherTab, GraceEnds, TypeOK
    <2>2. TypeOK'
      BY <1>0, <1>6, <2>1 DEF OtherTab, GraceEnds, TypeOK, socketVars, threadVars, schedVars
    <2>3. ThreadsInv'
      BY <1>0, <1>6 DEF OtherTab, GraceEnds, ThreadsInv, ThreadInv, Rest, threadVars
    <2> QED BY <1>0, <1>6, <2>2, <2>3
        DEF OtherTab, GraceEnds, Inv, SingleSocket, Kept, NeverStranded, socketVars, schedVars
  <1>7. ASSUME NEW n \in 1..Cardinality(Threads), UserSetsThreads(n) PROVE Inv'
    <2>1. PICK S \in SUBSET Threads : SetThreads(S)
      BY <1>7 DEF UserSetsThreads, SetNumThreads
    <2>2. ThreadTypes' /\ ThreadsInv'
      BY <1>0, <1>7, <2>1, SetThreadsKeeps DEF UserSetsThreads
    <2>3. n \in Nat \ {0} BY CountIsNat
    <2>4. TypeOK'
      BY <1>0, <1>7, <2>2, <2>3 DEF UserSetsThreads, TypeOK, ThreadTypes, tabVars, socketVars
    <2> QED BY <1>0, <1>7, <2>2, <2>4
        DEF UserSetsThreads, Inv, SingleSocket, Kept, NeverStranded, tabVars, socketVars
  <1>8. ASSUME AdjustThreads PROVE Inv'
    BY <1>7, <1>8 DEF AdjustThreads
  <1>9. ASSUME UserSetsThrottle PROVE Inv'
    <2>1. currentJob \in Jobs /\ SetJob(currentJob)
      BY <1>0, <1>9 DEF UserSetsThrottle, TypeOK
    <2>2. ThreadTypes' /\ ThreadsInv' /\ currentJob' = currentJob
      BY <1>0, <2>1, SetJobKeeps
    <2>3. TypeOK'
      BY <1>0, <1>9, <2>2 DEF UserSetsThrottle, TypeOK, ThreadTypes, tabVars, schedVars, socketVars
    <2> QED BY <1>0, <1>9, <2>2, <2>3
        DEF UserSetsThrottle, Inv, SingleSocket, Kept, NeverStranded, tabVars, schedVars, socketVars
  <1>10. ASSUME NEW s \in Sockets, SocketOpens(s) PROVE Inv'
    BY <1>0, <1>10 DEF SocketOpens, Inv, TypeOK, ThreadsInv, ThreadInv, Rest,
       SingleSocket, Kept, NeverStranded, threadVars, tabVars, schedVars
  <1>11. ASSUME NEW s \in Sockets, NEW n \in 1..2, SocketCloses(s, n) PROVE Inv'
    <2>1. ThreadTypes' /\ ThreadsInv'
      BY <1>0, <1>11, SetThreadsKeeps DEF SocketCloses
    <2>2. timers' \in 0..MaxTimers /\ (autoReconnect => timers' > 0)
      BY <1>0, <1>11 DEF SocketCloses, TypeOK
    <2>3. TypeOK'
      BY <1>0, <1>11, <2>1, <2>2 DEF SocketCloses, TypeOK, ThreadTypes, tabVars
    <2>4. SingleSocket'
      BY <1>0, <1>11 DEF SocketCloses, TypeOK, SingleSocket
    <2>5. Kept' /\ NeverStranded'
      BY <1>0, <1>11, <2>2 DEF SocketCloses, Kept, NeverStranded, tabVars, TypeOK
    <2> QED BY <2>1, <2>3, <2>4, <2>5 DEF Inv
  <1>12. ASSUME NEW s \in Sockets, NEW j \in Jobs, JobArrives(s, j) PROVE Inv'
    <2>1. ThreadTypes' /\ ThreadsInv' /\ currentJob' = j
      BY <1>0, <1>12, SetJobKeeps DEF JobArrives
    <2>2. TypeOK'
      BY <1>0, <1>12, <2>1 DEF JobArrives, TypeOK, ThreadTypes, tabVars, socketVars
    <2> QED BY <1>0, <1>12, <2>1, <2>2
        DEF JobArrives, Inv, SingleSocket, Kept, NeverStranded, tabVars, socketVars
  <1>13. ASSUME NEW t \in Threads, WorkerReady(t) PROVE Inv'
    <2>1. ThreadInv(t) /\ ~running[t] /\ inbox[t] = <<>> /\ outbox[t] = <<>>
      BY <1>0, <1>13 DEF WorkerReady, TypeOK, ThreadsInv, ThreadInv, Rest
    <2>2. TypeOK'
      BY <1>0, <1>13 DEF WorkerReady, TypeOK, tabVars, schedVars, socketVars
    <2>3. ASSUME NEW x \in Threads, x # t PROVE ThreadInv(x)'
      BY <1>0, <1>13, <2>3 DEF WorkerReady, TypeOK, ThreadsInv, ThreadInv, Rest
    <2>4. ThreadInv(t)'
      <3>1. CASE threadJob[t] = NoJob
        BY <1>0, <1>13, <2>1, <3>1 DEF WorkerReady, TypeOK, ThreadInv, Rest
      <3>2. CASE threadJob[t] # NoJob
        <4>1. inbox'[t] = Append(<<>>, threadJob[t]) /\ outbox'[t] = <<>>
          BY <1>0, <1>13, <2>1, <3>2 DEF WorkerReady, TypeOK
        <4>2. Len(inbox'[t]) + Len(outbox'[t]) <= 1
          BY <4>1
        <4> QED BY <1>0, <1>13, <2>1, <3>2, <4>2 DEF WorkerReady, TypeOK, ThreadInv, Rest
      <3> QED BY <3>1, <3>2
    <2> QED BY <1>0, <1>13, <2>2, <2>3, <2>4
        DEF WorkerReady, Inv, ThreadsInv, SingleSocket, Kept, NeverStranded, tabVars, schedVars, socketVars
  <1>14. ASSUME NEW t \in Threads, NEW found \in BOOLEAN, WorkerAnswers(t, found) PROVE Inv'
    <2>1. ThreadInv(t) /\ inbox[t] # <<>> /\ inbox[t] \in Seq(Jobs) /\ outbox[t] \in Seq(Rounds)
      BY <1>0, <1>14 DEF WorkerAnswers, TypeOK, ThreadsInv
    <2>2. [job |-> Head(inbox[t]), found |-> found] \in Rounds
      BY <2>1 DEF Rounds
    <2>3. /\ inbox'[t] = Tail(inbox[t])
          /\ outbox'[t] = Append(outbox[t], [job |-> Head(inbox[t]), found |-> found])
      BY <1>0, <1>14 DEF WorkerAnswers, TypeOK
    <2>4. TypeOK'
      <3>1. inbox' \in [Threads -> Seq(Jobs)] /\ outbox' \in [Threads -> Seq(Rounds)]
        BY <1>0, <1>14, <2>1, <2>2 DEF WorkerAnswers, TypeOK
      <3> QED BY <1>0, <1>14, <3>1 DEF WorkerAnswers, TypeOK, tabVars, schedVars, socketVars
    <2>5. ASSUME NEW x \in Threads, x # t PROVE ThreadInv(x)'
      BY <1>0, <1>14, <2>5 DEF WorkerAnswers, TypeOK, ThreadsInv, ThreadInv, Rest
    <2>6. ThreadInv(t)'
      <3>1. Len(inbox'[t]) + Len(outbox'[t]) <= 1
        <4>1. Len(inbox[t]) + Len(outbox[t]) <= 1
          BY <2>1 DEF ThreadInv
        <4>2. Len(Tail(inbox[t])) +
                Len(Append(outbox[t], [job |-> Head(inbox[t]), found |-> found])) <= 1
          BY <2>1, <4>1, Lengths
        <4> QED BY <2>3, <4>2
      <3>2. running[t] BY <1>0, <2>1 DEF ThreadInv, Rest, TypeOK
      <3> QED BY <1>0, <1>14, <2>1, <3>1, <3>2 DEF WorkerAnswers, ThreadInv
    <2> QED BY <1>0, <1>14, <2>4, <2>5, <2>6
        DEF WorkerAnswers, Inv, ThreadsInv, SingleSocket, Kept, NeverStranded, tabVars, schedVars, socketVars
  <1>15. ASSUME NEW t \in Threads, HandleAnswer(t) PROVE Inv'
    <2>1. ThreadInv(t) /\ outbox[t] # <<>> /\ inbox[t] \in Seq(Jobs) /\ outbox[t] \in Seq(Rounds)
      BY <1>0, <1>15 DEF HandleAnswer, TypeOK, ThreadsInv
    <2>2. running[t] /\ threadJob[t] \in Jobs
      BY <1>0, <2>1 DEF ThreadInv, Rest, TypeOK
    <2>3. /\ outbox'[t] = Tail(outbox[t])
          /\ inbox'[t] = inbox[t] \/ inbox'[t] = Append(inbox[t], threadJob[t])
      BY <1>0, <1>15 DEF HandleAnswer, TypeOK
    <2>4. TypeOK'
      <3>1. inbox' \in [Threads -> Seq(Jobs)] /\ outbox' \in [Threads -> Seq(Rounds)]
        BY <1>0, <1>15, <2>1, <2>2 DEF HandleAnswer, TypeOK
      <3> QED BY <1>0, <1>15, <3>1 DEF HandleAnswer, TypeOK, tabVars, schedVars, socketVars
    <2>5. ASSUME NEW x \in Threads, x # t PROVE ThreadInv(x)'
      BY <1>0, <1>15, <2>5 DEF HandleAnswer, TypeOK, ThreadsInv, ThreadInv, Rest
    <2>6. ThreadInv(t)'
      <3>1. Len(inbox'[t]) + Len(outbox'[t]) <= 1
        <4>1. Len(inbox[t]) + Len(outbox[t]) <= 1
          BY <2>1 DEF ThreadInv
        <4>2. /\ Len(inbox[t]) + Len(Tail(outbox[t])) <= 1
              /\ Len(Append(inbox[t], threadJob[t])) + Len(Tail(outbox[t])) <= 1
          BY <2>1, <4>1, Lengths
        <4> QED BY <2>3, <4>2
      <3>2. /\ threads' = threads /\ worker' = worker /\ threadJob' = threadJob
            /\ running' = running /\ currentJob' = currentJob
        BY <1>15 DEF HandleAnswer, threadVars
      <3> QED BY <2>1, <2>2, <3>1, <3>2 DEF ThreadInv
    <2> QED BY <1>0, <1>15, <2>4, <2>5, <2>6
        DEF HandleAnswer, Inv, ThreadsInv, SingleSocket, Kept, NeverStranded, tabVars, schedVars, socketVars
  <1>16. CASE UNCHANGED vars
    BY <1>0, <1>16 DEF vars, Inv, TypeOK, ThreadsInv, ThreadInv, Rest, SingleSocket,
       Kept, NeverStranded, socketVars, threadVars, tabVars, schedVars
  <1> QED BY <1>1, <1>2, <1>3, <1>4, <1>5, <1>6, <1>7, <1>8, <1>9, <1>10, <1>11, <1>12,
             <1>13, <1>14, <1>15, <1>16 DEF Next

\* Inv holds throughout.
THEOREM Invariance == Safety => []Inv
  BY InitInv, StepInv, PTL DEF Safety

\* Flags, counters, states of sockets and messages keep their ranges; the page
\* never asks for less than one thread.
THEOREM TypeCorrect == Safety => []TypeOK
  BY Invariance, PTL DEF Inv

\* JobThread never posts a request to a worker that has not answered the last.
THEOREM OneRound == Safety => []OneRoundAtATime
  <1>1. Inv => OneRoundAtATime
    BY DEF Inv, ThreadsInv, ThreadInv, OneRoundAtATime
  <1> QED BY <1>1, Invariance, PTL

\* _onTargetMet() never dereferences a job that stop() has cleared.
THEOREM ResultHasJob == Safety => []ResultFindsAJob
  <1>1. Inv => ResultFindsAJob
    BY DEF Inv, TypeOK, ThreadsInv, ThreadInv, Rest, ResultFindsAJob
  <1> QED BY <1>1, Invariance, PTL

\* All threads go on with the job that came last.
THEOREM JobsFollowed == Safety => []ThreadsFollowTheJob
  <1>1. Inv => ThreadsFollowTheJob
    BY DEF Inv, TypeOK, ThreadsInv, ThreadInv, ThreadsFollowTheJob
  <1> QED BY <1>1, Invariance, PTL

\* The socket of the miner is its only live one.
THEOREM OneSocket == Safety => []SingleSocket
  BY Invariance, PTL DEF Inv

\* A started miner without a connection has something that brings it back.
THEOREM NotStranded == Safety => []NeverStranded
  BY Invariance, PTL DEF Inv

\* A thread stalls in no other way than by the exception of an early submit.
THEOREM StallsExplained == Safety => StallsOnlyBeforeOpen
  <1> DEFINE Early ==
        \A t \in Threads : ~Stalled(t) /\ Stalled(t)' =>
          /\ outbox[t] # <<>> /\ Head(outbox[t]).found
          /\ socket # NoSocket /\ sockets[socket] = "connecting"
  <1>1. Inv /\ Inv' /\ [Next]_vars => [Early]_vars
    <2> SUFFICES ASSUME Inv, Inv', [Next]_vars, NEW t \in Threads, ~Stalled(t), Stalled(t)'
                 PROVE  /\ outbox[t] # <<>> /\ Head(outbox[t]).found
                        /\ socket # NoSocket /\ sockets[socket] = "connecting"
      OBVIOUS
    <2>1. /\ running'[t] /\ inbox'[t] = <<>> /\ outbox'[t] = <<>>
          /\ ~running[t] \/ ~Rest(t)
      BY DEF Stalled, Rest
    <2>2. ASSUME UNCHANGED <<running, inbox, outbox>> PROVE FALSE
      BY <2>1, <2>2 DEF Rest
    <2>3. ASSUME NEW S \in SUBSET Threads, SetThreads(S) PROVE FALSE
      BY <2>1, <2>3 DEF SetThreads, Rest
    <2>4. ASSUME NEW j, SetJob(j) PROVE FALSE
      <3>1. inbox[t] \in Seq(Jobs) /\ Append(inbox[t], j) # <<>>
        BY Posted DEF Inv, TypeOK
      <3>2. CASE t \in threads /\ Idle(t)
        BY <2>1, <2>4, <3>1, <3>2 DEF SetJob
      <3>3. CASE ~(t \in threads /\ Idle(t))
        <4>1. inbox'[t] = inbox[t] /\ outbox'[t] = outbox[t]
          BY <2>4, <3>3 DEF SetJob
        <4>2. running'[t] = (running[t] \/ (t \in threads /\ Idle(t)))
          BY <2>4 DEF SetJob
        <4> QED BY <2>1, <3>3, <4>1, <4>2 DEF Rest
      <3> QED BY <3>2, <3>3
    <2>5. ASSUME NEW x \in Threads, WorkerReady(x) PROVE FALSE
      <3>1. inbox[t] \in Seq(Jobs) /\ Append(inbox[t], threadJob[t]) # <<>>
        BY Posted DEF Inv, TypeOK
      <3>2. CASE x = t
        <4>1. running'[t] = (threadJob[t] # NoJob)
          BY <2>5, <3>2 DEF WorkerReady, Inv, TypeOK
        <4>2. inbox'[t] = Append(inbox[t], threadJob[t])
          BY <2>1, <2>5, <3>2, <4>1 DEF WorkerReady, Inv, TypeOK
        <4> QED BY <2>1, <3>1, <4>2
      <3>3. CASE x # t
        BY <2>1, <2>5, <3>3 DEF WorkerReady, Inv, TypeOK, Rest
      <3> QED BY <3>2, <3>3
    <2>6. ASSUME NEW x \in Threads, NEW found, WorkerAnswers(x, found) PROVE FALSE
      <3>1. CASE x = t
        <4>1. outbox'[t] = Append(outbox[t], [job |-> Head(inbox[t]), found |-> found])
          BY <2>6, <3>1 DEF WorkerAnswers, Inv, TypeOK
        <4>2. outbox[t] \in Seq(Rounds)
          BY DEF Inv, TypeOK
        <4> QED BY <2>1, <4>1, <4>2
      <3>2. CASE x # t
        BY <2>1, <2>6, <3>2 DEF WorkerAnswers, Inv, TypeOK, Rest
      <3> QED BY <3>1, <3>2
    <2>7. ASSUME NEW x \in Threads, HandleAnswer(x)
          PROVE  x = t /\ outbox[t] # <<>> /\ SubmitThrows(Head(outbox[t]))
      <3>1. x = t
        BY <2>1, <2>7 DEF HandleAnswer, Inv, TypeOK, Rest
      <3>2. running' = running /\ running'[t]
        BY <2>1, <2>7 DEF HandleAnswer
      <3>3. inbox[t] \in Seq(Jobs) /\ Append(inbox[t], threadJob[t]) # <<>>
        BY Posted DEF Inv, TypeOK
      <3>4. inbox'[t] # Append(inbox[t], threadJob[t])
        BY <2>1, <3>3
      <3>5. SubmitThrows(Head(outbox[t]))
        BY <2>7, <3>1, <3>2, <3>4 DEF HandleAnswer, Inv, TypeOK
      <3> QED BY <2>7, <3>1, <3>5 DEF HandleAnswer
    <2>8. CASE \E x \in Threads : HandleAnswer(x)
      <3>1. outbox[t] # <<>> /\ SubmitThrows(Head(outbox[t]))
        BY <2>7, <2>8
      <3>2. currentJob # NoJob
        BY <3>1 DEF Inv, TypeOK, ThreadsInv, ThreadInv, Rest
      <3> QED BY <3>1, <3>2 DEF SubmitThrows
    <2>9. ASSUME StartNow PROVE FALSE
      <3>1. CASE UNCHANGED threadVars
        BY <2>2, <3>1 DEF threadVars
      <3>2. CASE \E S \in SUBSET Threads : SetThreads(S)
        BY <2>3, <3>2
      <3> QED BY <2>9, <3>1, <3>2 DEF StartNow, SetNumThreads
    <2>10. ASSUME NEW k, Stop(k) PROVE FALSE
      BY <2>3, <2>10 DEF Stop
    <2>11. ASSUME NEW n, UserSetsThreads(n) PROVE FALSE
      BY <2>3, <2>11 DEF UserSetsThreads, SetNumThreads
    <2>12. CASE UNCHANGED threadVars
      BY <2>2, <2>12 DEF threadVars
    <2>13. CASE \E s \in Sockets, n \in 1..2 : SocketCloses(s, n)
      BY <2>3, <2>13 DEF SocketCloses
    <2>14. CASE \E s \in Sockets, j \in Jobs : JobArrives(s, j)
      BY <2>4, <2>14 DEF JobArrives
    <2> QED BY <2>4, <2>5, <2>6, <2>8, <2>9, <2>10, <2>11, <2>12, <2>13, <2>14
        DEF Next, UserStarts, UserStops, ScriptLoaded, ScriptFails, TimerFires, YieldTab,
            TakeTab, OtherTab, GraceEnds, AdjustThreads, UserSetsThrottle, SocketOpens, vars
  <1> QED BY <1>1, Invariance, PTL DEF StallsOnlyBeforeOpen, Safety
=============================================================================
