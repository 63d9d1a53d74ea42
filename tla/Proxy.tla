------------------------------- MODULE Proxy -------------------------------
(***************************************************************************)
(* One proxy of xmrwasp (proxy/proxy.go): a goroutine, run(), that keeps a *)
(* connection to a mining pool, every now and then a second connection to  *)
(* the donation server, hands jobs to its workers and forwards their       *)
(* shares to the server that issued the job.                               *)
(*                                                                         *)
(* Everything run() does is serialized by its select statement; the model  *)
(* splits a case of the select only where another goroutine can see or     *)
(* change something in between: while a share is on its way to a server,   *)
(* and between the two halves of donate().  The other actors are the       *)
(* goroutines of the workers (Connect, GetJob, Leave), the goroutines that *)
(* serve their submit requests (Submit), the reader goroutines of the      *)
(* stratum clients (PoolNotify, DonorNotify), the timer goroutine that     *)
(* closes the donation connection (CloseDC), and the network.              *)
(*                                                                         *)
(* A job counts as handed out when NextJob() has returned it; the          *)
(* goroutines that then carry it to the worker, in any order, are the      *)
(* subject of module Deliveries.                                           *)
(*                                                                         *)
(* Job ids are values of two finite sets and may come back: nothing        *)
(* depends on an id being new.  The hashing data of a job and the chunk of *)
(* nonces each worker gets are the subject of module JobNonce.             *)
(***************************************************************************)
EXTENDS Integers, Sequences, FiniteSets

CONSTANTS
  Workers,          \* miners' connections, each one served by this proxy
  Requests,         \* goroutines that serve a submit request of some worker
  PoolJobs,         \* ids of the jobs the pool issues
  DonorJobs,        \* ids of the jobs the donation server issues
  NoJob,            \* the id of the empty &Job{} that New() starts with
  BadJobs,          \* the malformed jobs a server may send in a notification:
                    \* "undecodable" (init returns an error) or "truncated"
                    \* (Nonce slices past the end of the blob and panics)
  BadLogins,        \* the same, for the job of a login reply
  Nonces,           \* nonces of the right length
  BadNonces,        \* nonces of a wrong length, or next to such a result
  NotifyBuffer,     \* notificationBufferLength of the stratum client
  MaxWorkers,       \* maxProxyWorkers
  DonateLevel,      \* config.DonateLevel, a percentage
  ShareValidation   \* config.ShareValidation

Jobs == PoolJobs \cup DonorJobs

\* The two servers never use the same job id: ids are opaque tokens of the
\* server that issued them.
ASSUME JobIds ==
  /\ PoolJobs \cap DonorJobs = {}
  /\ NoJob \notin Jobs
  /\ Jobs \cap {"undecodable", "truncated"} = {}
  /\ NoJob \notin {"undecodable", "truncated"}
  /\ BadJobs \cup BadLogins \subseteq {"undecodable", "truncated"}

ASSUME Settings ==
  /\ IsFiniteSet(Workers)
  /\ NotifyBuffer \in Nat \ {0}
  /\ MaxWorkers \in Nat
  /\ DonateLevel \in Int
  /\ ShareValidation \in Int

VARIABLES
  \* where run() is: "login" before the first successful login, "select" at the
  \* select, "calling" inside a submit call, "donate" between the two halves of
  \* donate(), "returning" when it has decided to return, "draining" in the minute
  \* shutdown() waits, "gone" once the director has forgotten the proxy
  loop,
  currentJob, prevJob,           \* jobs of the pool, newest first
  donateJob, prevDonateJob,      \* jobs of the donation server, newest first
  donating,                      \* workers mine for the donation server
  loginJob,      \* in "donate": the job of the donation server's login reply
  sc, dc,        \* p.SC and p.DC: "none" (nil), "up", or "down" (shut client)
  orphan,        \* some open client is no longer referenced by the proxy
  notify, dnotify,               \* the clients' notification channels
  timer,         \* which donation timer is running: "start", "end" or "none"
  closeDue,      \* the AfterFunc of undonate(), which closes p.DC, is pending
  workers,       \* keys of p.workers
  workerCount,
  conn,          \* worker: "out", "adding" (blocked in Add), "in", or "leaving"
                 \* (Remove() called, run() has not taken it from delWorker)
  handed,        \* worker: the job NextJob() last returned for it; a goroutine
                 \* carries it there (module Deliveries)
  stage,         \* request: "idle", "submissions" or "donations" (blocked on
                 \* that channel), "poolCall" or "donorCall" (in handleSubmit)
  share,         \* request: the share it submits
  crashed        \* "no", "panic" (Go runtime panic), "fatal" (log.Fatal)

jobVars == <<currentJob, prevJob, donateJob, prevDonateJob, donating>>
netVars == <<sc, dc, orphan, notify, dnotify>>
timerVars == <<timer, closeDue>>
workerVars == <<workers, workerCount, conn>>
shareVars == <<stage, share>>
vars == <<loop, loginJob, jobVars, netVars, timerVars, workerVars, handed,
          shareVars, crashed>>

\* A share's parameters are strings; newShare() asserts their type (share.go:59-67).
Shares == [job : Jobs, nonce : Nonces \cup BadNonces]
NoShare == [job |-> NoJob]

LoopType ==
  /\ loop \in {"login", "select", "calling", "donate", "returning", "draining", "gone"}
  /\ loginJob \in DonorJobs \cup BadLogins \cup {NoJob}
  /\ timer \in {"none", "start", "end"}
  /\ crashed \in {"no", "panic", "fatal"}

FlagType == {donating, orphan, closeDue} \subseteq BOOLEAN

JobType ==
  /\ {currentJob, prevJob} \subseteq PoolJobs \cup {NoJob}
  /\ {donateJob, prevDonateJob} \subseteq DonorJobs \cup {NoJob}

NetType ==
  /\ {sc, dc} \subseteq {"none", "up", "down"}
  /\ notify \in Seq(PoolJobs \cup BadJobs) /\ Len(notify) <= NotifyBuffer
  /\ dnotify \in Seq(DonorJobs \cup BadJobs) /\ Len(dnotify) <= NotifyBuffer

WorkerType ==
  /\ workers \subseteq Workers
  /\ workerCount \in Int
  /\ conn \in [Workers -> {"out", "adding", "in", "leaving"}]
  /\ handed \in [Workers -> Jobs \cup {NoJob}]

ShareType ==
  /\ stage \in [Requests -> {"idle", "submissions", "donations", "poolCall", "donorCall"}]
  /\ share \in [Requests -> Shares \cup {NoShare}]

TypeOK == LoopType /\ FlagType /\ JobType /\ NetType /\ WorkerType /\ ShareType

\* New(): the proxy exists, run() has been started, no worker knows it yet.
Init ==
  /\ loop = "login"
  /\ currentJob = NoJob /\ prevJob = NoJob
  /\ donateJob = NoJob /\ prevDonateJob = NoJob
  /\ donating = FALSE
  /\ loginJob = NoJob
  /\ sc = "none" /\ dc = "none" /\ orphan = FALSE
  /\ notify = <<>> /\ dnotify = <<>>
  /\ timer = "none" /\ closeDue = FALSE
  /\ workers = {} /\ workerCount = 0
  /\ conn = [w \in Workers |-> "out"]
  /\ handed = [w \in Workers |-> NoJob]
  /\ stage = [r \in Requests |-> "idle"]
  /\ share = [r \in Requests |-> NoShare]
  /\ crashed = "no"

Running == crashed = "no"
Ended == loop \in {"returning", "draining", "gone"}

-----------------------------------------------------------------------------
(***************************************************************************)
(* Jobs                                                                    *)
(***************************************************************************)

\* The job NextJob() reads, under jobMu.  Next() of the empty job slices a nil
\* blob and panics.
Source == IF donating THEN donateJob ELSE currentJob

\* broadcastJob(), called when job is what NextJob() returns: it is evaluated in
\* run() for every worker of the map; one goroutine each, of module Deliveries,
\* carries it there.
Broadcast(job) ==
  IF job = NoJob /\ workers # {}
  THEN crashed' = "panic" /\ UNCHANGED handed
  ELSE /\ handed' = [w \in Workers |->
                       IF w \in workers /\ conn[w] = "in" THEN job ELSE handed[w]]
       /\ UNCHANGED crashed

\* handleJob(job) while p.donating has the value d.
HandleJob(job, d) ==
  /\ prevJob' = currentJob
  /\ currentJob' = job
  /\ IF d THEN UNCHANGED <<handed, crashed>> ELSE Broadcast(job)

\* Mutant: the slots are assigned the wrong way round.
HandleDonateJobSwapped(job, d) ==
  /\ prevDonateJob' = job
  /\ UNCHANGED donateJob
  /\ IF d THEN Broadcast(donateJob) ELSE UNCHANGED <<handed, crashed>>

\* handleDonateJob(job) while p.donating has the value d.  donateJob is never
\* nil, so the previous job is always the one replaced.
HandleDonateJob(job, d) ==
  /\ prevDonateJob' = donateJob
  /\ donateJob' = job
  /\ IF d THEN Broadcast(job) ELSE UNCHANGED <<handed, crashed>>

Panic == /\ crashed' = "panic"
         /\ UNCHANGED <<loop, loginJob, jobVars, netVars, timerVars, workerVars,
                        handed, shareVars>>

\* configureDonations(), in seconds of the one hour donation cycle.
DonateCycle == 3600
DonateShutdownDelayMinutes == 30 * 60     \* mutant: 30 * time.Minute
DonateShutdownDelay == 30
DonateLength == 36 * (IF DonateLevel <= 0 THEN 1 ELSE DonateLevel)
DonateInterval == DonateCycle - DonateLength

-----------------------------------------------------------------------------
(***************************************************************************)
(* run(): the login loop                                                   *)
(***************************************************************************)

\* The login call fails and run() tries again a minute later.  A client whose call
\* timed out or whose reply was unusable stays open, and the next attempt overwrites
\* p.SC; nothing uses p.SC until login() succeeds, so sc stays "none".  A failed
\* Dial changes nothing.
LoginFails ==
  /\ Running /\ loop = "login"
  /\ orphan' = TRUE
  /\ UNCHANGED <<loop, loginJob, jobVars, sc, dc, notify, dnotify, timerVars,
                 workerVars, handed, shareVars, crashed>>

\* login() returns nil: waiting NextJob() calls are released even when the job
\* of the reply was bad.  run() then starts the donation timers.
Login(job) ==
  /\ Running /\ loop = "login"
  /\ IF job = "truncated"
     THEN Panic
     ELSE /\ loop' = "select"
          /\ sc' = "up" /\ notify' = <<>>
          /\ timer' = "start"
          /\ IF job = "undecodable"
             THEN UNCHANGED <<currentJob, prevJob, handed, crashed>>
             ELSE HandleJob(job, donating)
          /\ UNCHANGED <<loginJob, donateJob, prevDonateJob, donating, dc, orphan,
                         dnotify, closeDue, workerVars, shareVars>>

-----------------------------------------------------------------------------
(***************************************************************************)
(* run(): shares                                                           *)
(***************************************************************************)

KnownJobs == {currentJob, prevJob, donateJob, prevDonateJob}

\* job.submittedNonces: init() makes it empty and nothing ever adds to it.
SubmittedNonces(job) == {}

\* share.validate(): no nonce of a job twice, and from ValidateFormat on fields
\* of the right length; ValidateDiff and ValidateFull check nothing more.
Validate(s) ==
  /\ s.nonce \notin SubmittedNonces(s.job)
  /\ ShareValidation >= 2 => s.nonce \in Nonces

\* Mutant of the next one: the job id is looked up by Submit() only.
ValidShareAnyJob(s) == Validate(s)

\* validateShare()
ValidShare(s) == s.job \in KnownJobs /\ Validate(s)

\* Mutant: a return without an answer.
AnsweredSilently(r) == UNCHANGED <<stage, share>>

\* Request r gets an answer or an error from handleSubmit(): Submit() returns.
Answered(r) ==
  /\ stage' = [stage EXCEPT ![r] = "idle"]
  /\ share' = [share EXCEPT ![r] = NoShare]

\* select case p.submissions: a rejected share is answered and forgotten.
TakeSubmission(r) ==
  /\ Running /\ loop = "select" /\ stage[r] = "submissions"
  /\ IF sc # "none" /\ ValidShare(share[r])
     THEN /\ loop' = "calling"
          /\ stage' = [stage EXCEPT ![r] = "poolCall"]
          /\ UNCHANGED share
     ELSE Answered(r) /\ UNCHANGED loop
  /\ UNCHANGED <<loginJob, jobVars, netVars, timerVars, workerVars, handed, crashed>>

\* The pool answers the submit call in time, with whatever status.
PoolAnswers(r) ==
  /\ Running /\ loop = "calling" /\ stage[r] = "poolCall" /\ sc = "up"
  /\ loop' = "select"
  /\ Answered(r)
  /\ UNCHANGED <<loginJob, jobVars, netVars, timerVars, workerVars, handed, crashed>>

\* The pool answers with an error object: the codec returns it from
\* ReadResponseHeader, which shuts the client.  run() gives up only if the error
\* says "banned".
PoolRefuses(r, banned) ==
  /\ Running /\ loop = "calling" /\ stage[r] = "poolCall" /\ sc = "up"
  /\ sc' = "down"
  /\ loop' = IF banned THEN "returning" ELSE "select"
  /\ Answered(r)
  /\ UNCHANGED <<loginJob, jobVars, dc, orphan, notify, dnotify, timerVars,
                 workerVars, handed, crashed>>

\* The call times out, or the client is shut already.
PoolCallFails(r) ==
  /\ Running /\ loop = "calling" /\ stage[r] = "poolCall"
  /\ loop' = "select"
  /\ Answered(r)
  /\ UNCHANGED <<loginJob, jobVars, netVars, timerVars, workerVars, handed, crashed>>

\* select case p.donations: any error at all makes run() return.
TakeDonation(r) ==
  /\ Running /\ loop = "select" /\ stage[r] = "donations"
  /\ IF dc # "none" /\ ValidShare(share[r])
     THEN /\ loop' = "calling"
          /\ stage' = [stage EXCEPT ![r] = "donorCall"]
          /\ UNCHANGED share
     ELSE Answered(r) /\ loop' = "returning"
  /\ UNCHANGED <<loginJob, jobVars, netVars, timerVars, workerVars, handed, crashed>>

\* The donation server answers in time, with whatever status.
DonorAnswers(r) ==
  /\ Running /\ loop = "calling" /\ stage[r] = "donorCall" /\ dc = "up"
  /\ loop' = "select"
  /\ Answered(r)
  /\ UNCHANGED <<loginJob, jobVars, netVars, timerVars, workerVars, handed, crashed>>

\* The donation server refuses the share (which shuts the client), the call
\* times out, or the client is shut or closed already.
DonorCallFails(r) ==
  /\ Running /\ loop = "calling" /\ stage[r] = "donorCall"
  /\ dc' \in {dc, "down"}
  /\ loop' = "returning"
  /\ Answered(r)
  /\ UNCHANGED <<loginJob, jobVars, sc, orphan, notify, dnotify, timerVars,
                 workerVars, handed, crashed>>

-----------------------------------------------------------------------------
(***************************************************************************)
(* run(): workers                                                          *)
(***************************************************************************)

\* receiveWorker() and removeWorker(); the mutant does not count down.
ReceiveWorker(w) ==
  workers' = workers \cup {w} /\ workerCount' = workerCount + 1
RemoveWorkerUncounted(w) ==
  workers' = workers \ {w} /\ UNCHANGED workerCount
RemoveWorker(w) ==
  workers' = workers \ {w} /\ workerCount' = workerCount - 1

\* select case p.addWorker: receiveWorker(), and Add() returns.
AddWorker(w) ==
  /\ Running /\ loop = "select" /\ conn[w] = "adding"
  /\ conn' = [conn EXCEPT ![w] = "in"]
  /\ ReceiveWorker(w)
  /\ UNCHANGED <<loop, loginJob, jobVars, netVars, timerVars, handed, shareVars, crashed>>

\* Mutant: the select has no case for p.delWorker.
DelWorkerMissing(w) == FALSE

\* select case p.delWorker: removeWorker().  delWorker has room for one worker,
\* so Remove() may have returned long before.
DelWorker(w) ==
  /\ Running /\ loop = "select" /\ conn[w] = "leaving"
  /\ conn' = [conn EXCEPT ![w] = "out"]
  /\ RemoveWorker(w)
  /\ UNCHANGED <<loop, loginJob, jobVars, netVars, timerVars, handed, shareVars, crashed>>

-----------------------------------------------------------------------------
(***************************************************************************)
(* run(): notifications                                                    *)
(***************************************************************************)

\* select case p.notify: handleNotification(notif, false).
TakeNotify ==
  /\ Running /\ loop = "select" /\ notify # <<>>
  /\ IF Head(notify) = "truncated"
     THEN Panic
     ELSE /\ notify' = Tail(notify)
          /\ IF Head(notify) = "undecodable"
             THEN UNCHANGED <<currentJob, prevJob, handed, crashed>>
             ELSE HandleJob(Head(notify), donating)
          /\ UNCHANGED <<loop, loginJob, donateJob, prevDonateJob, donating, sc, dc,
                         orphan, dnotify, timerVars, workerVars, shareVars>>

\* select case p.dnotify: handleNotification(notif, true).
TakeDNotify ==
  /\ Running /\ loop = "select" /\ dnotify # <<>>
  /\ IF Head(dnotify) = "truncated"
     THEN Panic
     ELSE /\ dnotify' = Tail(dnotify)
          /\ IF Head(dnotify) = "undecodable"
             THEN UNCHANGED <<donateJob, prevDonateJob, handed, crashed>>
             ELSE HandleDonateJob(Head(dnotify), donating)
          /\ UNCHANGED <<loop, loginJob, currentJob, prevJob, donating, sc, dc,
                         orphan, notify, timerVars, workerVars, shareVars>>

-----------------------------------------------------------------------------
(***************************************************************************)
(* run(): donation cycle and keepalive                                     *)
(***************************************************************************)

\* The donateStart timer has fired.  The 30 seconds of an earlier undonate()
\* are over by then, unless the interval is shorter than that.
DonateStarts ==
  /\ Running /\ loop = "select" /\ timer = "start"
  /\ closeDue => DonateInterval <= DonateShutdownDelay

\* donate() returns early: Dial or the login call failed.  As in login(), the
\* client may stay open.  The end timer is armed all the same.
DonateFails(leaks) ==
  /\ DonateStarts
  /\ timer' = "end"
  /\ orphan' = (orphan \/ leaks)
  /\ UNCHANGED <<loop, loginJob, jobVars, sc, dc, notify, dnotify, closeDue,
                 workerVars, handed, shareVars, crashed>>

\* donate() up to p.dnotify: donating is set before the job of the login reply
\* has been stored.  A client p.DC still held open is overwritten.
DonateLogin(job) ==
  /\ DonateStarts
  /\ loop' = "donate"
  /\ loginJob' = job
  /\ donating' = TRUE
  /\ orphan' = (orphan \/ dc = "up")
  /\ dc' = "up" /\ dnotify' = <<>>
  /\ UNCHANGED <<currentJob, prevJob, donateJob, prevDonateJob, sc, notify,
                 timerVars, workerVars, handed, shareVars, crashed>>

\* The rest of donate(): init() and handleDonateJob() of the login's job; then
\* run() arms the end timer.
DonateJob ==
  /\ Running /\ loop = "donate"
  /\ IF loginJob = "truncated"
     THEN Panic
     ELSE /\ loop' = "select"
          /\ timer' = "end"
          /\ loginJob' = NoJob
          /\ IF loginJob = "undecodable"
             THEN UNCHANGED <<donateJob, prevDonateJob, handed, crashed>>
             ELSE HandleDonateJob(loginJob, donating)
          /\ UNCHANGED <<currentJob, prevJob, donating, netVars, closeDue, workerVars,
                         shareVars>>

\* Mutants: the workers are not told; the flag is not reset.
UndonateQuietly ==
  /\ donating' = FALSE
  /\ closeDue' = TRUE
  /\ UNCHANGED <<currentJob, prevJob, handed, crashed>>
UndonateKeepsFlag ==
  /\ closeDue' = TRUE
  /\ UNCHANGED donating
  /\ HandleJob(currentJob, donating)

\* undonate() hands the current job out again through handleJob(), so prevJob
\* becomes that job too.
Undonate ==
  /\ donating' = FALSE
  /\ closeDue' = TRUE
  /\ HandleJob(currentJob, FALSE)

\* select case donateEnd: undonate() if the login had succeeded.
DonateEnd ==
  /\ Running /\ loop = "select" /\ timer = "end"
  /\ timer' = "start"
  /\ IF donating
     THEN Undonate
     ELSE UNCHANGED <<donating, closeDue, currentJob, prevJob, handed, crashed>>
  /\ UNCHANGED <<loop, loginJob, donateJob, prevDonateJob, netVars, workerVars,
                 shareVars>>

\* The AfterFunc of undonate() closes the client p.DC refers to by then.
CloseDC ==
  /\ Running /\ closeDue
  /\ closeDue' = FALSE
  /\ dc' = "down"
  /\ UNCHANGED <<loop, loginJob, jobVars, sc, orphan, notify, dnotify, timer,
                 workerVars, handed, shareVars, crashed>>

\* Mutant: the error is logged and run() goes on.
KeepaliveIgnored ==
  /\ Running /\ loop = "select"
  /\ sc' \in {sc, "down"}
  /\ UNCHANGED <<loop, loginJob, jobVars, dc, orphan, notify, dnotify, timerVars,
                 workerVars, handed, shareVars, crashed>>

\* select case keepalive: the call fails, by a timeout, an error of the pool
\* (which shuts the client) or because the client is shut.  A keepalive that
\* succeeds changes nothing.
KeepaliveFails ==
  /\ Running /\ loop = "select"
  /\ loop' = "returning"
  /\ sc' \in {sc, "down"}
  /\ UNCHANGED <<loginJob, jobVars, dc, orphan, notify, dnotify, timerVars,
                 workerVars, handed, shareVars, crashed>>

\* Mutant: shutdown() leaves the connections of its workers open.
ShutdownLeavesThem ==
  /\ Running /\ loop = "returning"
  /\ loop' = "draining"
  /\ handed' = [w \in Workers |-> IF w \in workers THEN NoJob ELSE handed[w]]
  /\ UNCHANGED <<loginJob, jobVars, netVars, timerVars, conn, workers, workerCount,
                 shareVars, crashed>>

\* The deferred shutdown(): the proxy is no longer ready and the workers of the
\* map are disconnected.  Neither p.SC nor p.DC is closed.
Shutdown ==
  /\ Running /\ loop = "returning"
  /\ loop' = "draining"
  /\ conn' = [w \in Workers |->
                IF w \in workers /\ conn[w] = "in" THEN "leaving" ELSE conn[w]]
  /\ handed' = [w \in Workers |-> IF w \in workers THEN NoJob ELSE handed[w]]
  /\ UNCHANGED <<loginJob, jobVars, netVars, timerVars, workers, workerCount,
                 shareVars, crashed>>

\* A minute later the director forgets the proxy and run() is over.
Expire ==
  /\ Running /\ loop = "draining"
  /\ loop' = "gone"
  /\ UNCHANGED <<loginJob, jobVars, netVars, timerVars, workerVars, handed,
                 shareVars, crashed>>

-----------------------------------------------------------------------------
(***************************************************************************)
(* Workers                                                                 *)
(***************************************************************************)

\* isReady(): p.ready is cleared by shutdown() only, and the count is read
\* without a lock.
IsReady == loop \notin {"draining", "gone"} /\ workerCount < MaxWorkers

\* Mutant: Add() writes the map itself instead of going through run().
ConnectDirectly(w) ==
  /\ Running /\ conn[w] = "out" /\ IsReady
  /\ conn' = [conn EXCEPT ![w] = "in"]
  /\ ReceiveWorker(w)
  /\ UNCHANGED <<loop, loginJob, jobVars, netVars, timerVars, handed, shareVars, crashed>>

\* A miner connects, the director picks this proxy and Add() blocks on the
\* addWorker channel.
Connect(w) ==
  /\ Running /\ conn[w] = "out" /\ IsReady
  /\ conn' = [conn EXCEPT ![w] = "adding"]
  /\ UNCHANGED <<loop, loginJob, jobVars, netVars, timerVars, workers, workerCount,
                 handed, shareVars, crashed>>

\* Auth, Login or Getjob of a worker: NextJob(), once login() has released
\* jobWaiter.
GetJob(w) ==
  /\ Running /\ conn[w] = "in" /\ loop # "login"
  /\ IF Source = NoJob
     THEN Panic
     ELSE /\ handed' = [handed EXCEPT ![w] = Source]
          /\ UNCHANGED <<loop, loginJob, jobVars, netVars, timerVars, workerVars,
                         shareVars, crashed>>

\* The connection ends and the worker's goroutine calls Remove().
Leave(w) ==
  /\ Running /\ conn[w] = "in"
  /\ conn' = [conn EXCEPT ![w] = "leaving"]
  /\ handed' = [handed EXCEPT ![w] = NoJob]
  /\ UNCHANGED <<loop, loginJob, jobVars, netVars, timerVars, workers, workerCount,
                 shareVars, crashed>>

\* Mutants: prevJob is taken for a donation job; a job that is not the pool's
\* is taken for one of the donation server's.
ChannelPrevDonated(job) ==
  IF job = currentJob THEN "submissions"
  ELSE IF job \in {prevJob, donateJob, prevDonateJob} THEN "donations"
  ELSE "idle"
ChannelElseDonated(job) ==
  IF job \in {currentJob, prevJob} THEN "submissions" ELSE "donations"

\* The channel Submit() chooses for a share, by reading the four job ids.
Channel(job) ==
  IF job \in {currentJob, prevJob} THEN "submissions"
  ELSE IF job \in {donateJob, prevDonateJob} THEN "donations"
  ELSE "idle"

\* Submit() of some worker blocks on a channel.  A share without a job id, or
\* of a job none of the four ids matches, is returned at once with an error.
Submit(r, s) ==
  /\ Running /\ stage[r] = "idle"
  /\ \E w \in Workers : conn[w] = "in"
  /\ Channel(s.job) # "idle"
  /\ stage' = [stage EXCEPT ![r] = Channel(s.job)]
  /\ share' = [share EXCEPT ![r] = s]
  /\ UNCHANGED <<loop, loginJob, jobVars, netVars, timerVars, workerVars, handed, crashed>>

-----------------------------------------------------------------------------
(***************************************************************************)
(* Servers and network                                                     *)
(***************************************************************************)

\* receiveNotification() of the stratum client kills the process when the
\* channel is full.
Full(queue) == Len(queue) >= NotifyBuffer

PoolNotify(job) ==
  /\ Running /\ sc = "up"
  /\ IF Full(notify)
     THEN crashed' = "fatal" /\ UNCHANGED notify
     ELSE notify' = Append(notify, job) /\ UNCHANGED crashed
  /\ UNCHANGED <<loop, loginJob, jobVars, sc, dc, orphan, dnotify, timerVars,
                 workerVars, handed, shareVars>>

DonorNotify(job) ==
  /\ Running /\ dc = "up"
  /\ IF Full(dnotify)
     THEN crashed' = "fatal" /\ UNCHANGED dnotify
     ELSE dnotify' = Append(dnotify, job) /\ UNCHANGED crashed
  /\ UNCHANGED <<loop, loginJob, jobVars, sc, dc, orphan, notify, timerVars,
                 workerVars, handed, shareVars>>

\* A client nobody reads any more has its channel filled by its server.
OrphanFloods ==
  /\ Running /\ orphan
  /\ crashed' = "fatal"
  /\ UNCHANGED <<loop, loginJob, jobVars, netVars, timerVars, workerVars, handed,
                 shareVars>>

\* The pool closes the connection, or the network does.
PoolLost ==
  /\ Running /\ sc = "up"
  /\ sc' = "down"
  /\ UNCHANGED <<loop, loginJob, jobVars, dc, orphan, notify, dnotify, timerVars,
                 workerVars, handed, shareVars, crashed>>

DonorLost ==
  /\ Running /\ dc = "up"
  /\ dc' = "down"
  /\ UNCHANGED <<loop, loginJob, jobVars, sc, orphan, notify, dnotify, timerVars,
                 workerVars, handed, shareVars, crashed>>

-----------------------------------------------------------------------------
\* The steps that hand out no job.  (Login's broadcast meets an empty map.)
Quiet ==
  \/ LoginFails
  \/ \E job \in PoolJobs \cup BadLogins : Login(job)
  \/ \E job \in DonorJobs \cup BadLogins : DonateLogin(job)
  \/ \E job \in PoolJobs \cup BadJobs : PoolNotify(job)
  \/ \E job \in DonorJobs \cup BadJobs : DonorNotify(job)
  \/ \E r \in Requests : \/ TakeSubmission(r) \/ PoolAnswers(r) \/ PoolCallFails(r)
                         \/ TakeDonation(r) \/ DonorAnswers(r) \/ DonorCallFails(r)
                         \/ \E banned \in BOOLEAN : PoolRefuses(r, banned)
                         \/ \E s \in Shares : Submit(r, s)
  \/ \E w \in Workers : AddWorker(w) \/ DelWorker(w) \/ Connect(w) \/ Leave(w)
  \/ \E leaks \in BOOLEAN : DonateFails(leaks)
  \/ CloseDC \/ KeepaliveFails \/ Shutdown \/ Expire
  \/ OrphanFloods \/ PoolLost \/ DonorLost

Next ==
  \/ Quiet
  \/ \E w \in Workers : GetJob(w)
  \/ TakeNotify \/ TakeDNotify \/ DonateJob \/ DonateEnd

Spec == Init /\ [][Next]_vars

\* A share's call returns within CallTimeout, whatever the server does.
PoolCallReturns(r) ==
  PoolAnswers(r) \/ PoolCallFails(r) \/ \E banned \in BOOLEAN : PoolRefuses(r, banned)
DonorCallReturns(r) == DonorAnswers(r) \/ DonorCallFails(r)

\* select picks at random among the ready cases (the Go specification), so a
\* case that is ready again and again is taken in the end: strong fairness of
\* the cases, weak fairness of the steps run() takes on its own.  (Where one
\* condition has several actions, they are for different states of the same
\* request, worker or loop.)  The servers and the workers owe nothing; in
\* particular login() may fail for ever.
Fairness ==
  /\ \A r \in Requests : /\ SF_vars(TakeSubmission(r) \/ TakeDonation(r))
                         /\ WF_vars(PoolCallReturns(r) \/ DonorCallReturns(r))
  /\ \A w \in Workers : SF_vars(AddWorker(w) \/ DelWorker(w))
  /\ SF_vars(DonateEnd)
  /\ SF_vars(sc = "down" /\ KeepaliveFails)
  /\ WF_vars(CloseDC) /\ WF_vars(DonateJob \/ Shutdown \/ Expire)

FairSpec == Spec /\ Fairness

-----------------------------------------------------------------------------
(***************************************************************************)
(* Properties                                                              *)
(***************************************************************************)

\* A share is only ever forwarded on the connection to the server that issued
\* its job: Submit() chooses the channel from ids that may change before run()
\* takes the share from it (proxy.go:488-495, 175-183).
RoutedToIssuer ==
  \A r \in Requests :
    /\ stage[r] = "poolCall" => share[r].job \in PoolJobs
    /\ stage[r] = "donorCall" => share[r].job \in DonorJobs

\* A share is on its way to a server only while its job is still one of the four
\* known ones, even if that job was replaced between Submit() and handleSubmit(),
\* or new jobs arrive during the call (proxy.go:454, 379-399).
NoStaleForwarded ==
  \A r \in Requests :
    stage[r] \in {"poolCall", "donorCall"} => share[r].job \in KnownJobs

\* handleSubmit()'s branch for a nil client (proxy.go:447) is never taken: a
\* share is classified as one of the donation server's only when p.DC is set.
NilClientUnreachable ==
  \A r \in Requests :
    /\ stage[r] = "submissions" => sc # "none"
    /\ stage[r] = "donations" => dc # "none"

\* login() broadcasts its job before jobWaiter.Done() (proxy.go:364, 374), and
\* NextJob() waits for it (502): run() would wait for itself if a worker had
\* been added by then.
BroadcastNeverWaits ==
  loop = "login" => workers = {} /\ \A w \in Workers : conn[w] \in {"out", "adding"}

\* workerCount, which isReady() reads, is the number of entries of p.workers:
\* Add() and Remove() each reach run() once per connection (proxy.go:401-412).
CountMatches == workerCount = Cardinality(workers)

\* The empty job is what NextJob() would return only before the first login and
\* inside donate(), between "donating = true" (proxy.go:249) and handleDonateJob
\* (255): run() itself never broadcasts it.
EmptyJobOnlyInWindow ==
  BadLogins = {} /\ Source = NoJob => loop \in {"login", "donate"}

\* The delayed close of the donation connection (proxy.go:265-268) never hits
\* the connection of a later donation that is under way.
CloseSparesLiveDonation == [][closeDue /\ ~closeDue' => ~donating]_vars

(***************************************************************************)
(* What comments and docs say, and the code does not do: each of these is  *)
(* checked by a run that expects its violation.                            *)
(***************************************************************************)

\* "donate server will handle it's own errors" (proxy.go:186): a share of a
\* donation job that fails is answered and does not end the proxy and with it
\* the pool connection (README.md:152).
DonationKeepsProxy ==
  [][\A r \in Requests :
       stage[r] \in {"donations", "donorCall"} /\ stage'[r] = "idle" =>
         loop' # "returning"]_vars

\* "gets the next job (on the current block)" (proxy.go:501), "now we have a
\* job, so release jobs" (373), "still just wait for the next job" (363): when
\* jobWaiter has been released, NextJob() has a job to return.
NextJobHasAJob == crashed # "panic"

\* "killing proxy" (proxy.go:181): a proxy that has returned from run() has no
\* further effect; in particular its connections cannot stop the process.
EndedProxyIsHarmless == loop = "gone" /\ ~orphan => crashed # "fatal"

-----------------------------------------------------------------------------
(***************************************************************************)
(* Liveness                                                                *)
(***************************************************************************)

Over == Ended \/ ~Running

\* Every submit request is answered, unless the proxy ends or the process does:
\* the loop can be kept busy by jobs, calls that time out and lost connections,
\* but not for ever (proxy.go:491-498, 442-475).
SubmitAnswered ==
  \A r \in Requests : (stage[r] # "idle") ~> (stage[r] = "idle" \/ Over)

\* A pool connection that is lost without run() noticing ends the proxy, so its
\* workers get another one (proxy.go:213-221, 427-435).
LostPoolEndsProxy == (sc = "down") ~> (loop = "gone" \/ ~Running)

\* A donation comes to an end (proxy.go:207-212, 260-270); what its workers mine
\* then is the subject of module Deliveries.
DonationEnds == donating ~> (~donating \/ Over)

\* Once the pool has been reached, a worker that calls Add() is added and one that
\* calls Remove() is removed, unless the proxy ends (proxy.go:191-194, 521, 526).
HandshakesEnd ==
  \A w \in Workers :
    /\ (loop # "login" /\ conn[w] = "adding") ~> (conn[w] = "in" \/ Over)
    /\ (conn[w] = "leaving") ~> (conn[w] = "out" \/ Over)

-----------------------------------------------------------------------------
(***************************************************************************)
(* The proxy as the director and its workers see it                        *)
(***************************************************************************)

Status ==
  CASE loop = "login" -> "login"
    [] loop \in {"select", "calling", "donate"} -> "running"
    [] loop = "returning" -> "returned"
    [] OTHER -> loop

Service == INSTANCE ProxyService WITH status <- Status

\* Whatever run() is busy with, jobs, shares, donations and lost connections make
\* no difference to how connections come and go: none is taken beyond the room of
\* the workers there are, which only the counter isReady() reads stands for; none
\* is served before login or after shutdown() (proxy.go:401-440, 517-529).
ImplementsService == Service!Spec

=============================================================================
