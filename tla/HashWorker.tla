----------------------------- MODULE HashWorker -----------------------------
(***************************************************************************)
(* One Web Worker of the browser miner: the start-up of the Emscripten     *)
(* runtime in src/example/cryptonoter/worker.js (run dependencies, run(),  *)
(* the onRuntimeInitialized hook) and the CryptonightWASMWrapper that      *)
(* hashes.  A script, a promise callback, a message and a timer are each   *)
(* one task, so each is one action.  The page at the other end is          *)
(* JobThread: a mining worker gets one request at a time (Miner proves     *)
(* it), the worker of verifyThread gets verify messages only.              *)
(***************************************************************************)
EXTENDS Naturals, Sequences

CONSTANTS
  Jobs,       \* jobs by job_id; versions of one differ in the nonce, which hash() overwrites
  MaxHashes,  \* bound: throttled hashes in the second a round may take
  MaxPosted,  \* bound: verify messages and their answers on their way
  NoJob, NoAnswer

ASSUME HashWorkerAssumption ==
  /\ MaxHashes \in Nat \ {0} /\ MaxPosted \in Nat
  /\ NoJob \notin Jobs
  /\ NoAnswer \notin [job : Jobs, found : BOOLEAN]

VARIABLES
  role,       \* which JobThread owns it: "mining" or "verifying"
  native,     \* typeof WebAssembly === "object"
  evaluated,  \* the script has been evaluated
  deps,       \* runDependencies
  hook,       \* Module.onRuntimeInitialized is set
  calledRun,  \* Module.calledRun
  aborted,    \* ABORT
  up,         \* the wrapper exists and handles messages
  posted,     \* messages of the page that are not handled
  out,        \* messages of the worker that the page has not handled
  heard,      \* the page has handled "ready" (JobThread._isReady)
  job,        \* this.currentJob
  blob,       \* the job whose blob this.input holds
  hashes,     \* this.throttledHashes
  chain       \* pending timers for workThrottled

startVars == <<role, native, evaluated, deps, hook, calledRun, aborted, up>>
workVars == <<job, blob, hashes, chain>>
vars == <<startVars, posted, out, heard, workVars>>

Requests == [kind : {"mine", "throttled", "verify"}, job : Jobs]
Messages == [kind : {"found", "nothing", "verified"}, job : Jobs \cup {NoJob}, blob : Jobs]
            \cup {[kind |-> "ready"]}

TypeOK ==
  /\ role \in {"mining", "verifying"}
  /\ native \in BOOLEAN /\ evaluated \in BOOLEAN /\ hook \in BOOLEAN
  /\ calledRun \in BOOLEAN /\ aborted \in BOOLEAN /\ up \in BOOLEAN /\ heard \in BOOLEAN
  /\ deps \in 0..1
  /\ posted \in Seq(Requests) /\ out \in Seq(Messages)
  /\ job \in Jobs \cup {NoJob} /\ blob \in Jobs \cup {NoJob}
  /\ hashes \in 0..MaxHashes /\ chain \in 0..1

Init ==
  /\ role \in {"mining", "verifying"}
  /\ native \in BOOLEAN
  /\ evaluated = FALSE /\ deps = 0 /\ hook = FALSE /\ calledRun = FALSE
  /\ aborted = FALSE /\ up = FALSE /\ heard = FALSE
  /\ posted = <<>> /\ out = <<>>
  /\ job = NoJob /\ blob = NoJob /\ hashes = 0 /\ chain = 0

-----------------------------------------------------------------------------
(* Start-up. *)

\* A mutant: the hash code is compiled before the script goes on.
EvaluateCompiled ==
  /\ ~evaluated
  /\ evaluated' = TRUE
  /\ deps' = 0
  /\ calledRun' = TRUE
  /\ hook' = TRUE
  /\ UNCHANGED <<role, native, aborted, up, posted, out, heard, workVars>>

\* The script: doNativeWasm() adds a run dependency and fetches the hash code;
\* run() returns because of the dependency, or without WebAssembly runs at
\* once; only then does the last line set the hook.
Evaluate ==
  /\ ~evaluated
  /\ evaluated' = TRUE
  /\ deps' = IF native THEN 1 ELSE 0
  /\ calledRun' = ~native
  /\ hook' = TRUE
  /\ UNCHANGED <<role, native, aborted, up, posted, out, heard, workVars>>

\* The code has been instantiated: the last dependency goes, run() runs, and
\* the hook builds the wrapper, which posts "ready" and listens.
WasmArrives ==
  /\ deps = 1 /\ ~aborted
  /\ deps' = 0
  /\ calledRun' = TRUE
  /\ up' = hook
  /\ out' = IF hook THEN Append(out, [kind |-> "ready"]) ELSE out
  /\ UNCHANGED <<role, native, evaluated, hook, aborted, posted, heard, workVars>>

\* It could not be fetched, compiled or instantiated.
WasmFails ==
  /\ deps = 1 /\ ~aborted
  /\ aborted' = TRUE
  /\ UNCHANGED <<role, native, evaluated, deps, hook, calledRun, up, posted, out,
                 heard, workVars>>

-----------------------------------------------------------------------------
(* The page: JobThread. *)

\* onReady() and onReceiveMsg() take the messages in order.
PageTakes ==
  /\ out # <<>>
  /\ out' = Tail(out)
  /\ heard' = TRUE
  /\ UNCHANGED <<startVars, posted, workVars>>

\* A mutant: a job is posted as soon as the last one has been taken.
RestingTaken == posted = <<>>

Resting == posted = <<>> /\ out = <<>> /\ chain = 0

\* A mutant: the mining threads verify as well.
PageAsksAny ==
  /\ heard
  /\ \E r \in Requests :
       /\ Resting
       /\ posted' = Append(posted, r)
  /\ UNCHANGED <<startVars, out, heard, workVars>>

\* A mining thread posts its job when its worker rests; the throttle may have
\* changed since.  verifyThread posts whatever the server wants verified.
PageAsks ==
  /\ heard
  /\ \E r \in Requests :
       /\ IF role = "mining" THEN Resting /\ r.kind # "verify"
                             ELSE Len(posted) + Len(out) < MaxPosted /\ r.kind = "verify"
       /\ posted' = Append(posted, r)
  /\ UNCHANGED <<startVars, out, heard, workVars>>

-----------------------------------------------------------------------------
(* The wrapper. *)

Found(b, j) == [kind |-> "found", job |-> j, blob |-> b]
Nothing(b, j) == [kind |-> "nothing", job |-> j, blob |-> b]

\* A mutant: a timer is set in any case.
HashOnceMore(b, j, h, c) ==
  \/ out' \in {Append(out, Found(b, j)), Append(out, Nothing(b, j))} /\ hashes' = 0 /\ chain' = 1
  \/ h + 1 < MaxHashes /\ hashes' = h + 1 /\ chain' = c + 1 /\ UNCHANGED out

\* workThrottled() with h hashes done and c timers pending: a share, or a
\* second is over, or a timer for the next hash.
HashOnce(b, j, h, c) ==
  \/ out' \in {Append(out, Found(b, j)), Append(out, Nothing(b, j))} /\ hashes' = 0 /\ chain' = c
  \/ h + 1 < MaxHashes /\ hashes' = h + 1 /\ chain' = c + 1 /\ UNCHANGED out

\* setJob() copies blob and target, unless the worker has this job already.
Loaded(r) == IF job = r.job THEN blob ELSE r.job

\* onMessage() with a job: work() ends the round itself, after a share or a
\* second; workThrottled() does one hash.
HandleJob ==
  /\ up /\ posted # <<>> /\ Head(posted).kind # "verify"
  /\ posted' = Tail(posted)
  /\ LET r == Head(posted) IN
       /\ job' = r.job
       /\ blob' = Loaded(r)
       /\ \/ r.kind = "throttled" /\ HashOnce(Loaded(r), r.job, 0, chain)
          \/ /\ r.kind = "mine"
             /\ out' \in {Append(out, Found(Loaded(r), r.job)), Append(out, Nothing(Loaded(r), r.job))}
             /\ UNCHANGED <<hashes, chain>>
  /\ UNCHANGED <<startVars, heard>>

\* verify() overwrites the input, but not currentJob.
HandleVerify ==
  /\ up /\ posted # <<>> /\ Head(posted).kind = "verify"
  /\ posted' = Tail(posted)
  /\ blob' = Head(posted).job
  /\ out' = Append(out, [kind |-> "verified", job |-> job, blob |-> blob'])
  /\ UNCHANGED <<startVars, heard, job, hashes, chain>>

TimerFires ==
  /\ chain > 0
  /\ HashOnce(blob, job, hashes, chain - 1)
  /\ UNCHANGED <<startVars, posted, heard, job, blob>>

-----------------------------------------------------------------------------
Next ==
  \/ Evaluate \/ WasmArrives \/ WasmFails
  \/ PageTakes \/ PageAsks
  \/ HandleJob \/ HandleVerify \/ TimerFires

\* The event loop of the worker delivers messages and timers.
Fairness == WF_vars(HandleJob) /\ WF_vars(TimerFires)

Safety == Init /\ [][Next]_vars
Spec == Safety /\ Fairness

-----------------------------------------------------------------------------
(* Properties. *)

\* A share is submitted for the job whose blob was hashed: the blob is copied
\* only when the job id changes, and verify() overwrites it in between
\* (setJob(), verify() and the choice of threads in processor.js).
ShareMatchesJob ==
  \A i \in DOMAIN out : out[i].kind = "found" => out[i].blob = out[i].job

\* run() runs at most once, and when it does the hook that announces the
\* worker is set, although the script sets it after calling run(): only the
\* pending instantiation keeps run() back.
RunsWithItsHook == native /\ calledRun => up

\* Between "ready" and its end the worker answers each request once, with the
\* job of the request, throttled or not (work(), workThrottled()).
Round == IF role # "mining" THEN NoJob
         ELSE IF posted # <<>> THEN Head(posted).job
         ELSE IF chain > 0 THEN job ELSE NoJob
Pending == IF role # "mining" \/ out = <<>> \/ Head(out).kind = "ready" THEN NoAnswer
           ELSE [job |-> Head(out).job, found |-> Head(out).kind = "found"]
Rounds == INSTANCE HashRounds WITH request <- Round, answer <- Pending
ImplementsRounds == Rounds!Spec
=============================================================================
