----------------------------- MODULE Deliveries -----------------------------
(***************************************************************************)
(* What the workers of a proxy mine.  NextJob() decides which job a worker *)
(* gets, and module Proxy keeps the last one as handed[w]; but the job is  *)
(* carried to the worker by a goroutine of its own, one for every job of   *)
(* every broadcast ("go w.NewJob(p.NextJob())", proxy.go:291) and of every *)
(* Auth (mining.go:65), or by the goroutine that replies to Login and      *)
(* Getjob.  Nothing orders these goroutines: they race for the connection, *)
(* and the worker mines the job that reached it last, which need not be    *)
(* the one that was sent last.                                             *)
(*                                                                         *)
(* A delivery that fails closes the connection (tcp/worker.go:77-80),      *)
(* which is Leave(w) of Proxy; a worker that is gone gets nothing more.    *)
(***************************************************************************)
EXTENDS Proxy

VARIABLE
  delivery   \* worker: what has become of the jobs sent to it,
             \*   mines   the job that reached it last,
             \*   older   the jobs, other than the newest, that goroutines still
             \*           carry; one job may stand for any number of goroutines,
             \*   newest  what has become of handed[w]: "none" (nothing was sent),
             \*           "coming", "arrived", or "overtaken": it arrived, and an
             \*           older job came after it

dvars == <<vars, delivery>>

Nothing == [mines |-> NoJob, older |-> {}, newest |-> "none"]

DeliveryType ==
  delivery \in [Workers -> [mines  : Jobs \cup {NoJob},
                            older  : SUBSET Jobs,
                            newest : {"none", "coming", "arrived", "overtaken"}]]

DInit == Init /\ delivery = [w \in Workers |-> Nothing]

\* One more job is on its way; one that was still coming is an older one now.
SentOff(w) ==
  [delivery[w] EXCEPT
     !.older = IF delivery[w].newest = "coming" THEN @ \cup {handed[w]} ELSE @,
     !.newest = "coming"]

\* A goroutine starts for each worker of to.  A worker that is gone gets nothing
\* more.  Bound: what arrives after run() has returned is not followed.
SendTo(to) ==
  delivery' = [w \in Workers |->
                 IF handed'[w] = NoJob \/ Over' THEN Nothing
                 ELSE IF w \in to THEN SentOff(w) ELSE delivery[w]]

\* broadcastJob(), where the condition of its caller holds.
BroadcastIf(broadcasts) ==
  SendTo(IF broadcasts THEN {w \in workers : conn[w] = "in"} ELSE {})

\* A step of the proxy, with the deliveries it starts.
ProxyStep ==
  \/ Quiet /\ SendTo({})
  \/ \E w \in Workers : GetJob(w) /\ SendTo({w})
  \/ TakeNotify /\ BroadcastIf(Head(notify) \in PoolJobs /\ ~donating)
  \/ TakeDNotify /\ BroadcastIf(Head(dnotify) \in DonorJobs /\ donating)
  \/ DonateJob /\ BroadcastIf(loginJob \in DonorJobs)
  \/ DonateEnd /\ BroadcastIf(donating)

\* NewJob(), or the reply, of the goroutine that carries the newest job.
Arrives(w) ==
  /\ Running /\ delivery[w].newest = "coming"
  /\ delivery' = [delivery EXCEPT ![w].mines = handed[w], ![w].newest = "arrived"]
  /\ UNCHANGED vars

\* NewJob(), or the reply, of a goroutine that carries an older job: the last one
\* with that job or not.
ArrivesLate(w, job) ==
  /\ Running /\ job \in delivery[w].older
  /\ \E older \in {delivery[w].older, delivery[w].older \ {job}} :
       delivery' = [delivery EXCEPT
                      ![w] = [mines  |-> job,
                              older  |-> older,
                              newest |-> IF @.newest = "coming"
                                         THEN "coming" ELSE "overtaken"]]
  /\ UNCHANGED vars

DNext ==
  \/ ProxyStep
  \/ \E w \in Workers : Arrives(w) \/ \E job \in Jobs : ArrivesLate(w, job)

DSpec == DInit /\ [][DNext]_dvars

\* Besides what Proxy assumes of run(): a goroutine that carries a job to a worker
\* delivers it if the worker stays connected (it reads what it is sent).
Delivers(w, job) == (handed[w] = job /\ Arrives(w)) \/ ArrivesLate(w, job)
DFairSpec ==
  DSpec /\ Fairness /\ \A w \in Workers, job \in Jobs : WF_dvars(Delivers(w, job))

-----------------------------------------------------------------------------
\* Whatever the order of pool jobs, donation jobs, donation starts and ends: a
\* worker that does not mine the job NextJob() would return now has that job still
\* coming, or got an older one after it.
\* A broadcast that is skipped (proxy.go:277, 307) is never one it needed, and
\* undonate() hands the pool's job out again (269).
MinesTheSource ==
  BadLogins = {} /\ loop \in {"select", "calling"} =>
    \A w \in Workers :
      delivery[w].newest = "arrived" => delivery[w].mines = Source

\* A worker that mines for the donation server gets back to jobs of the pool, unless
\* deliveries overtake each other (proxy.go:207-212, 260-270).
WorkersComeBack ==
  \A w \in Workers :
    (delivery[w].mines \in DonorJobs) ~>
      (delivery[w].mines \notin DonorJobs \/ delivery[w].newest = "overtaken" \/ Over)

(***************************************************************************)
(* What the README says and the code does not do.                          *)
(***************************************************************************)

\* "By default it donates for 1 minute and 12 seconds (donate=2) of every hour"
\* (README.md:152): when a donation is over and everything that was sent to a worker
\* has reached it, the worker does not mine for the donation server.
DonationIsOver ==
  ~donating =>
    \A w \in Workers :
      delivery[w].newest # "coming" /\ delivery[w].older = {} =>
        delivery[w].mines \notin DonorJobs
=============================================================================
