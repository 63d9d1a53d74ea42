------------------------------- MODULE Miner -------------------------------
(***************************************************************************)
(* The browser miner of src/example/cryptonoter/processor.js: one Miner    *)
(* object with its socket, its reconnect timers, its tab interval and its  *)
(* JobThreads, each the page's end of one Web Worker.  JavaScript runs one *)
(* event handler at a time, so every handler is one action.  What a worker *)
(* does with a job is in HashWorker; here it answers one round per request.*)
(***************************************************************************)
EXTENDS Naturals, Sequences, FiniteSets

CONSTANTS
  Threads,     \* JobThread objects that can exist at once
  Sockets,     \* WebSocket objects that can exist at once
  Jobs,        \* jobs the proxy sends
  Modes,       \* tab modes start() is called with
  MaxTimers,   \* bound: pending reconnect timers
  MaxRequests, \* bound: requests for the worker's script in flight
  NoSocket, NoJob

AllModes == {"ifExclusiveTab", "forceExclusiveTab", "forceMultiTab"}

ASSUME MinerAssumption ==
  /\ Threads # {} /\ IsFiniteSet(Threads)
  /\ Modes \subseteq AllModes
  /\ MaxTimers \in Nat /\ MaxRequests \in Nat
  /\ NoSocket \notin Sockets
  /\ NoJob \notin Jobs

VARIABLES
  mode, ticking, grace, \* _tab: its mode, its interval, and Date.now() <= grace
  other,         \* _otherTabRunning()
  asmjs,         \* _asmjsStatus; "loaded" where _useWASM makes start() ignore it
  autoReconnect, \* _autoReconnect
  requests,      \* XMLHttpRequests for the worker's script in flight
  timers,        \* pending setTimeout(_startNow) of _onClose
  adjusting,     \* _autoThreads.interval is set
  target,        \* _targetNumThreads
  socket,        \* _socket
  sockets,       \* readyState of every WebSocket; "none": closed and gone
  currentJob,    \* _currentJob
  threads,       \* _threads
  worker,        \* worker of a thread: none, loading (not _isReady) or up
  threadJob,     \* JobThread.currentJob
  running,       \* JobThread.running
  inbox,         \* requests posted to the worker and not answered
  outbox,        \* answers of the worker the page has not handled
  started        \* history: _startNow() ran after the last start() and stop()

tabVars == <<mode, ticking, grace, other, started, asmjs>>
schedVars == <<autoReconnect, requests, timers, adjusting, target>>
socketVars == <<socket, sockets>>
threadVars == <<threads, worker, threadJob, running, inbox, outbox>>
vars == <<tabVars, schedVars, socketVars, currentJob, threadVars>>

Rounds == [job : Jobs, found : BOOLEAN]

TypeOK ==
  /\ mode \in AllModes
  /\ {ticking, grace, other, started, autoReconnect, adjusting} \subseteq BOOLEAN
  /\ asmjs \in {"unloaded", "pending", "loaded"}
  /\ requests \in 0..MaxRequests /\ timers \in 0..MaxTimers
  /\ target \in Nat \ {0}
  /\ socket \in Sockets \cup {NoSocket}
  /\ sockets \in [Sockets -> {"none", "connecting", "open", "closing"}]
  /\ currentJob \in Jobs \cup {NoJob}
  /\ threads \subseteq Threads
  /\ worker \in [Threads -> {"none", "loading", "up"}]
  /\ threadJob \in [Threads -> Jobs \cup {NoJob}]
  /\ running \in [Threads -> BOOLEAN]
  /\ inbox \in [Threads -> Seq(Jobs)]
  /\ outbox \in [Threads -> Seq(Rounds)]

Init ==
  /\ mode = "ifExclusiveTab" /\ ticking = FALSE /\ grace = FALSE
  /\ other \in BOOLEAN
  /\ started = FALSE
  /\ asmjs \in {"unloaded", "loaded"}
  /\ autoReconnect = TRUE
  /\ requests = 0 /\ timers = 0 /\ adjusting = FALSE
  /\ target \in 1..Cardinality(Threads)
  /\ socket = NoSocket
  /\ sockets = [s \in Sockets |-> "none"]
  /\ currentJob = NoJob
  /\ threads = {}
  /\ worker = [t \in Threads |-> "none"]
  /\ threadJob = [t \in Threads |-> NoJob]
  /\ running = [t \in Threads |-> FALSE]
  /\ inbox = [t \in Threads |-> <<>>]
  /\ outbox = [t \in Threads |-> <<>>]

-----------------------------------------------------------------------------
(* What the handlers do to the threads. *)

\* A mutant: the messages of a stopped worker are still delivered.
SetThreadsUnterminated(S) ==
  LET reset == (threads \ S) \cup (S \ threads) IN
  /\ threads' = S
  /\ worker' = [t \in Threads |-> IF t \notin reset THEN worker[t]
                                  ELSE IF t \in S THEN "loading" ELSE "none"]
  /\ threadJob' = [t \in Threads |-> IF t \notin reset THEN threadJob[t]
                                     ELSE IF t \in S THEN currentJob ELSE NoJob]
  /\ running' = [t \in Threads |-> t \notin reset /\ running[t]]
  /\ UNCHANGED <<inbox, outbox>>

\* _threads becomes S: threads outside it are stopped, their workers are
\* terminated with the messages still queued; new ones load their worker and
\* take the current job.
SetThreads(S) ==
  LET reset == (threads \ S) \cup (S \ threads) IN
  /\ threads' = S
  /\ worker' = [t \in Threads |-> IF t \notin reset THEN worker[t]
                                  ELSE IF t \in S THEN "loading" ELSE "none"]
  /\ threadJob' = [t \in Threads |-> IF t \notin reset THEN threadJob[t]
                                     ELSE IF t \in S THEN currentJob ELSE NoJob]
  /\ running' = [t \in Threads |-> t \notin reset /\ running[t]]
  /\ inbox' = [t \in Threads |-> IF t \in reset THEN <<>> ELSE inbox[t]]
  /\ outbox' = [t \in Threads |-> IF t \in reset THEN <<>> ELSE outbox[t]]

\* setNumThreads(n) pushes or pops until there are n threads.
SetNumThreads(n) ==
  \E S \in SUBSET Threads :
    /\ Cardinality(S) = n
    /\ S \subseteq threads \/ threads \subseteq S
    /\ SetThreads(S)

\* A mutant: every ready worker counts as idle.
Ready(t) == worker[t] = "up"

\* A thread posts its job when its worker is ready and has nothing to do.
Idle(t) == worker[t] = "up" /\ ~running[t]

\* Mutants: idle threads only; only threads that run already.
SetJobIdleOnly(j) ==
  /\ currentJob' = j
  /\ threadJob' = [t \in Threads |-> IF t \in threads /\ Idle(t) THEN j ELSE threadJob[t]]
  /\ running' = [t \in Threads |-> running[t] \/ (t \in threads /\ Idle(t))]
  /\ inbox' = [t \in Threads |-> IF t \in threads /\ Idle(t)
                                 THEN Append(inbox[t], j) ELSE inbox[t]]
  /\ UNCHANGED <<threads, worker, outbox>>
SetJobUnposted(j) ==
  /\ currentJob' = j
  /\ threadJob' = [t \in Threads |-> IF t \in threads THEN j ELSE threadJob[t]]
  /\ UNCHANGED <<threads, worker, running, inbox, outbox>>

\* _setJob(j): every thread takes the job, the idle ones post it at once.
SetJob(j) ==
  /\ currentJob' = j
  /\ threadJob' = [t \in Threads |-> IF t \in threads THEN j ELSE threadJob[t]]
  /\ running' = [t \in Threads |-> running[t] \/ (t \in threads /\ Idle(t))]
  /\ inbox' = [t \in Threads |-> IF t \in threads /\ Idle(t)
                                 THEN Append(inbox[t], j) ELSE inbox[t]]
  /\ UNCHANGED <<threads, worker, outbox>>

-----------------------------------------------------------------------------
(* start(), stop() and the parts of them that run later. *)

\* A mutant: a socket per call.
ConnectAlways ==
  \E s \in Sockets :
    /\ sockets[s] = "none"
    /\ socket' = s
    /\ sockets' = [sockets EXCEPT ![s] = "connecting"]

\* _connect(): a second socket is not opened while _socket is set.
Connect ==
  \/ socket # NoSocket /\ UNCHANGED socketVars
  \/ /\ socket = NoSocket
     /\ \E s \in Sockets :
          /\ sockets[s] = "none"
          /\ socket' = s
          /\ sockets' = [sockets EXCEPT ![s] = "connecting"]

\* _startNow(): the tab interval first; then nothing if another tab mines.
StartNow ==
  /\ started' = TRUE
  /\ ticking' = (ticking \/ mode # "forceMultiTab")
  /\ \/ /\ mode = "ifExclusiveTab" /\ other
        /\ UNCHANGED <<grace, autoReconnect, socketVars, threadVars>>
     \/ /\ ~(mode = "ifExclusiveTab" /\ other)
        /\ grace' = (grace \/ mode = "forceExclusiveTab")
        /\ SetNumThreads(target)
        /\ autoReconnect' = TRUE
        /\ Connect
  /\ UNCHANGED <<mode, other, adjusting, target, currentJob>>

\* stop(): the threads, the socket and the intervals, but neither the pending
\* reconnect timers nor a request for worker.js.
Stop(keepTicking) ==
  /\ SetThreads({})
  /\ autoReconnect' = FALSE
  /\ sockets' = IF socket = NoSocket THEN sockets
                ELSE [sockets EXCEPT ![socket] = "closing"]
  /\ currentJob' = NoJob
  /\ adjusting' = FALSE
  /\ ticking' = (ticking /\ keepTicking)
  /\ UNCHANGED <<mode, grace, other, asmjs, requests, timers, target, socket>>

\* start(m): the interval is cleared until the worker's script has been loaded.
\* The asm.js build is requested once: while the request is pending, which it is
\* for ever if it fails, start() requests nothing.
UserStarts(m) ==
  /\ mode' = m /\ ticking' = FALSE /\ started' = FALSE
  /\ \/ asmjs = "pending" /\ UNCHANGED <<asmjs, requests>>
     \/ /\ asmjs # "pending" /\ requests < MaxRequests
        /\ asmjs' = IF asmjs = "unloaded" THEN "pending" ELSE asmjs
        /\ requests' = requests + 1
  /\ UNCHANGED <<grace, other, autoReconnect, timers, adjusting, target,
                 socketVars, currentJob, threadVars>>

UserStops == Stop(FALSE) /\ started' = FALSE

\* The load event of the request.
ScriptLoaded ==
  /\ requests > 0
  /\ requests' = requests - 1
  /\ asmjs' = "loaded"
  /\ StartNow
  /\ UNCHANGED timers

\* The request fails: no handler is registered for that.
ScriptFails ==
  /\ requests > 0
  /\ requests' = requests - 1
  /\ UNCHANGED <<tabVars, autoReconnect, timers, adjusting, target,
                 socketVars, currentJob, threadVars>>

\* A reconnect timer set by _onClose fires.
TimerFires ==
  /\ timers > 0
  /\ timers' = timers - 1
  /\ StartNow
  /\ UNCHANGED <<requests, asmjs>>

\* _updateTabs(), every second: yield to another tab, or start again when it
\* has gone; isRunning() only asks whether there are threads.
YieldTab ==
  /\ ticking /\ other /\ threads # {} /\ ~grace
  /\ Stop(TRUE)
  /\ UNCHANGED started

\* The mutant of TakeTab respects _autoReconnect, which YieldTab clears.
TakeTabIfReconnecting ==
  /\ ticking /\ ~other /\ threads = {} /\ autoReconnect
  /\ StartNow
  /\ UNCHANGED <<requests, timers, asmjs>>
TakeTab ==
  /\ ticking /\ ~other /\ threads = {}
  /\ StartNow
  /\ UNCHANGED <<requests, timers, asmjs>>

\* Another tab begins or ends mining; the grace of forceExclusiveTab is over.
OtherTab ==
  /\ other' = ~other
  /\ UNCHANGED <<mode, ticking, grace, started, asmjs, schedVars, socketVars,
                 currentJob, threadVars>>

GraceEnds ==
  /\ grace
  /\ grace' = FALSE
  /\ UNCHANGED <<mode, ticking, other, started, asmjs, schedVars, socketVars,
                 currentJob, threadVars>>

\* setNumThreads() from the page, at any time, and from _adjustThreads().
UserSetsThreads(n) ==
  /\ target' = n
  /\ SetNumThreads(n)
  /\ UNCHANGED <<tabVars, autoReconnect, requests, timers, adjusting,
                 socketVars, currentJob>>

AdjustThreads ==
  /\ adjusting
  /\ \E n \in 1..Cardinality(Threads) :
       (n = target + 1 \/ n + 1 = target) /\ UserSetsThreads(n)

\* setThrottle(): the current job is set again, with its new throttle.
UserSetsThrottle ==
  /\ currentJob # NoJob
  /\ SetJob(currentJob)
  /\ UNCHANGED <<tabVars, schedVars, socketVars>>

-----------------------------------------------------------------------------
(* Events of a socket. *)

SocketOpens(s) ==
  /\ sockets[s] = "connecting"
  /\ sockets' = [sockets EXCEPT ![s] = "open"]
  /\ UNCHANGED <<tabVars, schedVars, socket, currentJob, threadVars>>

\* _onClose(), run n times: a connection that fails fires error, whose handler
\* calls _onClose(), and close in one task.  _currentJob is kept.
\* The mutant forgets the timer after an error.
SocketClosesForGood(s, n) ==
  /\ \/ sockets[s] \in {"open", "closing"}
     \/ sockets[s] = "connecting" /\ n = 2
  /\ timers' = IF autoReconnect /\ n = 1 THEN timers + n ELSE timers
  /\ timers' <= MaxTimers
  /\ SetThreads({})
  /\ socket' = NoSocket
  /\ sockets' = [sockets EXCEPT ![s] = "none"]
  /\ UNCHANGED <<tabVars, autoReconnect, requests, adjusting, target, currentJob>>
SocketCloses(s, n) ==
  /\ \/ sockets[s] \in {"open", "closing"}
     \/ sockets[s] = "connecting" /\ n = 2
  /\ timers' = IF autoReconnect THEN timers + n ELSE timers
  /\ timers' <= MaxTimers
  /\ SetThreads({})
  /\ socket' = NoSocket
  /\ sockets' = [sockets EXCEPT ![s] = "none"]
  /\ UNCHANGED <<tabVars, autoReconnect, requests, adjusting, target, currentJob>>

\* A job message: _setJob(), and automatic threads begin to be adjusted when
\* the miner was created with them.
JobArrives(s, j) ==
  /\ sockets[s] = "open"
  /\ SetJob(j)
  /\ adjusting' \in {adjusting, TRUE}
  /\ UNCHANGED <<tabVars, autoReconnect, requests, timers, target, socketVars>>

-----------------------------------------------------------------------------
(* A thread and its worker. *)

\* onReady(); the mutant takes a thread without a job for running.
WorkerReadyRuns(t) ==
  /\ worker[t] = "loading"
  /\ worker' = [worker EXCEPT ![t] = "up"]
  /\ running' = [running EXCEPT ![t] = TRUE]
  /\ inbox' = [inbox EXCEPT ![t] = IF threadJob[t] = NoJob THEN @
                                   ELSE Append(@, threadJob[t])]
  /\ UNCHANGED <<tabVars, schedVars, socketVars, currentJob, threads,
                 threadJob, outbox>>
WorkerReady(t) ==
  /\ worker[t] = "loading"
  /\ worker' = [worker EXCEPT ![t] = "up"]
  /\ running' = [running EXCEPT ![t] = threadJob[t] # NoJob]
  /\ inbox' = [inbox EXCEPT ![t] = IF threadJob[t] = NoJob THEN @
                                   ELSE Append(@, threadJob[t])]
  /\ UNCHANGED <<tabVars, schedVars, socketVars, currentJob, threads,
                 threadJob, outbox>>

\* The worker ends a round, with a share or without (external to the page).
WorkerAnswers(t, found) ==
  /\ inbox[t] # <<>>
  /\ inbox' = [inbox EXCEPT ![t] = Tail(@)]
  /\ outbox' = [outbox EXCEPT ![t] =
                  Append(@, [job |-> Head(inbox[t]), found |-> found])]
  /\ UNCHANGED <<tabVars, schedVars, socketVars, currentJob, threads, worker,
                 threadJob, running>>

\* _onTargetMet() raises an exception: no current job to compare with, or
\* WebSocket.send() before the socket is open.
SubmitThrows(round) ==
  /\ round.found
  /\ \/ currentJob = NoJob
     \/ /\ round.job = currentJob
        /\ socket # NoSocket
        /\ sockets[socket] = "connecting"

\* onReceiveMsg(): submit, then post the next request.  An exception in the
\* submit skips the rest of the handler.
HandleAnswer(t) ==
  /\ outbox[t] # <<>>
  /\ outbox' = [outbox EXCEPT ![t] = Tail(@)]
  /\ inbox' = IF running[t] /\ ~SubmitThrows(Head(outbox[t]))
              THEN [inbox EXCEPT ![t] = Append(@, threadJob[t])] ELSE inbox
  /\ UNCHANGED <<tabVars, schedVars, socketVars, currentJob, threads, worker,
                 threadJob, running>>

-----------------------------------------------------------------------------
Next ==
  \/ \E m \in Modes : UserStarts(m)
  \/ UserStops
  \/ ScriptLoaded
  \/ ScriptFails
  \/ TimerFires
  \/ YieldTab
  \/ TakeTab
  \/ OtherTab
  \/ GraceEnds
  \/ \E n \in 1..Cardinality(Threads) : UserSetsThreads(n)
  \/ AdjustThreads
  \/ UserSetsThrottle
  \/ \E s \in Sockets : SocketOpens(s)
  \/ \E s \in Sockets, n \in 1..2 : SocketCloses(s, n)
  \/ \E s \in Sockets, j \in Jobs : JobArrives(s, j)
  \/ \E t \in Threads : WorkerReady(t)
  \/ \E t \in Threads, found \in BOOLEAN : WorkerAnswers(t, found)
  \/ \E t \in Threads : HandleAnswer(t)

\* Timers and intervals fire, a worker that can load does, and it ends every
\* round (work() stops after a second); nothing is assumed of the network, of
\* the other tabs or of the user.
Fairness ==
  /\ WF_vars(TimerFires)
  /\ WF_vars(TakeTab)
  /\ \A t \in Threads :
       /\ WF_vars(WorkerReady(t))
       /\ WF_vars(\E found \in BOOLEAN : WorkerAnswers(t, found))
       /\ WF_vars(HandleAnswer(t))

Safety == Init /\ [][Next]_vars
Spec == Safety /\ Fairness

-----------------------------------------------------------------------------
(* Properties. *)

Rest(t) == inbox[t] = <<>> /\ outbox[t] = <<>>

\* A worker has at most one request to answer, whatever order ready, jobs and
\* answers come in: a second one would start a second chain of throttled
\* hashing in worker.js (JobThread posts only while the worker rests).
OneRoundAtATime == \A t \in Threads : Len(inbox[t]) + Len(outbox[t]) <= 1

\* A result that arrives finds a current job to be compared with: stop()
\* clears _currentJob, which _onTargetMet() dereferences without a test.
ResultFindsAJob == \A t \in Threads : outbox[t] # <<>> => currentJob # NoJob

\* Every thread's next round is for the job the proxy sent last, also for
\* threads added, removed or restarted between two jobs.
ThreadsFollowTheJob == \A t \in threads : threadJob[t] = currentJob

\* The miner never has two live connections: reconnect timers, the tab
\* interval and the user all start it, and the close event of an old socket
\* clears the field that holds the new one.
SingleSocket == \A s \in Sockets : sockets[s] # "none" => s = socket

\* A miner that has been started and has no connection has a timer or the tab
\* interval to bring it back, whichever of stop, close and start came last.
NeverStranded == started /\ socket = NoSocket => timers > 0 \/ ticking

Stalled(t) == running[t] /\ Rest(t)

\* A thread that counts as running while its worker rests forever came to it
\* by submitting a share of the last connection's job on a socket that was not
\* open yet, and in no other way.
StallsOnlyBeforeOpen ==
  [][\A t \in Threads : ~Stalled(t) /\ Stalled(t)' =>
       /\ outbox[t] # <<>> /\ Head(outbox[t]).found
       /\ socket # NoSocket /\ sockets[socket] = "connecting"]_vars

\* A started miner with no connection and no threads connects again, unless it
\* is stopped or another tab mines.  (Threads the user adds meanwhile make
\* isRunning() true, and the tab interval then starts nothing.)
ConnectsAgain ==
  started /\ socket = NoSocket /\ threads = {}
    ~> socket # NoSocket \/ threads # {} \/ ~started \/ other

\* A job reaches every thread: its worker mines it, unless the job or the
\* thread is replaced first or the thread has stalled.
JobIsMined ==
  \A t \in Threads, j \in Jobs :
    t \in threads /\ currentJob = j
      ~> \/ \E i \in DOMAIN inbox[t] : inbox[t][i] = j
         \/ \E i \in DOMAIN outbox[t] : outbox[t][i].job = j
         \/ currentJob # j \/ t \notin threads \/ Stalled(t)
=============================================================================
