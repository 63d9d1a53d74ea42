---------------------------- MODULE Proxy_proofs ----------------------------
(***************************************************************************)
(* The safety properties of Proxy for any number of workers, requests and  *)
(* jobs.  The argument goes up in layers, each an invariant that rests on  *)
(* the ones before it:                                                     *)
(*   TypeOK      what the variables range over;                            *)
(*   WorkerInv   p.workers is the set of connected workers;                *)
(*   ClientInv   the stratum clients exist whenever they may be used;      *)
(*   RouteInv    a waiting request has a share of the server it waits for; *)
(*   CallInv     one submit call at a time, of a job that is still known;  *)
(*   JobInv, LastSentIsSource   which jobs the workers have been sent, as  *)
(*               long as login replies are well formed;                    *)
(*   DeliveryInv what has become of these jobs (module Deliveries);        *)
(*   CloseInv    no donation begins while a close of p.DC is pending;      *)
(*   CountInv    workerCount counts p.workers.                             *)
(* The proof that a step preserves a layer goes through the actions of     *)
(* Next in its order; actions that touch the layer in the same way share a *)
(* step.                                                                   *)
(***************************************************************************)
EXTENDS Deliveries, FiniteSetTheorems, TLAPS

-----------------------------------------------------------------------------
\* broadcastJob() hands out jobs.
LEMMA BroadcastType ==
  ASSUME WorkerType, NEW job \in Jobs \cup {NoJob}, Broadcast(job)
  PROVE  handed' \in [Workers -> Jobs \cup {NoJob}]
BY DEF WorkerType, Broadcast

\* Taking a notification out of a channel.
LEMMA TailKeeps ==
  ASSUME NEW S, NEW q \in Seq(S), q # <<>>, Len(q) <= NotifyBuffer
  PROVE  Tail(q) \in Seq(S) /\ Len(Tail(q)) <= NotifyBuffer
BY Settings

\* A panic leaves the variables as they are.
LEMMA PanicType == TypeOK /\ Panic => TypeOK'
BY DEF Panic, TypeOK, LoopType, FlagType, JobType, NetType, WorkerType,
       ShareType, jobVars, netVars, timerVars, workerVars, shareVars

\* Every action keeps the types.
LEMMA TypeStep ==
  TypeOK /\ [Next]_vars
  => TypeOK'
<1> SUFFICES ASSUME TypeOK, [Next]_vars
             PROVE  TypeOK'
  OBVIOUS
<1> USE JobIds, Settings DEF jobVars, netVars, timerVars, workerVars, shareVars
<1>1. ASSUME NEW job \in PoolJobs \cup BadLogins,
             Login(job)
      PROVE  TypeOK'
  <2>1. CASE job = "truncated"
    BY <1>1, <2>1, PanicType DEF Login
  <2>2. CASE ~(job = "truncated")
    <3>1. FlagType' /\ ShareType'
      BY <1>1, <2>2 DEF Login, TypeOK, FlagType, ShareType
    <3>2. LoopType'
      BY <1>1, <2>2 DEF Login, TypeOK, LoopType, HandleJob, Broadcast
    <3>3. JobType'
      BY <1>1, <2>2 DEF Login, TypeOK, JobType, HandleJob
    <3>4. NetType'
      BY <1>1, <2>2 DEF Login, TypeOK, NetType
    <3>5. WorkerType'
      BY <1>1, <2>2 DEF Login, TypeOK, WorkerType, HandleJob, Broadcast, Jobs
    <3> QED  BY <3>1, <3>2, <3>3, <3>4, <3>5 DEF TypeOK
  <2> QED  BY <2>1, <2>2
<1>2. ASSUME NEW job \in DonorJobs \cup BadLogins,
             DonateLogin(job)
      PROVE  TypeOK'
  <2>1. JobType' /\ WorkerType' /\ ShareType'
    BY <1>2 DEF DonateLogin, TypeOK, JobType, WorkerType, ShareType
  <2>2. LoopType'
    BY <1>2 DEF DonateLogin, TypeOK, LoopType, DonateStarts
  <2>3. FlagType'
    BY <1>2 DEF DonateLogin, TypeOK, FlagType, DonateStarts
  <2>4. NetType'
    BY <1>2 DEF DonateLogin, TypeOK, NetType, DonateStarts
  <2> QED  BY <2>1, <2>2, <2>3, <2>4 DEF TypeOK
<1>3. ASSUME NEW job \in PoolJobs \cup BadJobs,
             PoolNotify(job)
      PROVE  TypeOK'
  <2>1. LoopType' /\ FlagType' /\ JobType' /\ WorkerType' /\ ShareType'
    BY <1>3 DEF PoolNotify, TypeOK, LoopType, FlagType, JobType,
       WorkerType, ShareType
  <2>2. NetType'
    BY <1>3 DEF PoolNotify, TypeOK, NetType, Full
  <2> QED  BY <2>1, <2>2 DEF TypeOK
<1>4. ASSUME NEW job \in DonorJobs \cup BadJobs,
             DonorNotify(job)
      PROVE  TypeOK'
  <2>1. LoopType' /\ FlagType' /\ JobType' /\ WorkerType' /\ ShareType'
    BY <1>4 DEF DonorNotify, TypeOK, LoopType, FlagType, JobType,
       WorkerType, ShareType
  <2>2. NetType'
    BY <1>4 DEF DonorNotify, TypeOK, NetType, Full
  <2> QED  BY <2>1, <2>2 DEF TypeOK
<1>5. ASSUME NEW r \in Requests,
             TakeSubmission(r) \/ PoolAnswers(r) \/
             PoolCallFails(r)
      PROVE  TypeOK'
  <2>1. FlagType' /\ JobType' /\ NetType' /\ WorkerType'
    BY <1>5 DEF TakeSubmission, PoolAnswers, PoolCallFails, TypeOK,
       FlagType, JobType, NetType, WorkerType
  <2>2. LoopType'
    BY <1>5 DEF TakeSubmission, PoolAnswers, PoolCallFails, TypeOK, LoopType
  <2>3. ShareType'
    BY <1>5 DEF TakeSubmission, PoolAnswers, PoolCallFails, TypeOK,
       ShareType, Answered
  <2> QED  BY <2>1, <2>2, <2>3 DEF TypeOK
<1>6. ASSUME NEW r \in Requests,
             TakeDonation(r) \/ DonorAnswers(r)
      PROVE  TypeOK'
  <2>1. FlagType' /\ JobType' /\ NetType' /\ WorkerType'
    BY <1>6 DEF TakeDonation, DonorAnswers, TypeOK, FlagType, JobType,
       NetType, WorkerType
  <2>2. LoopType'
    BY <1>6 DEF TakeDonation, DonorAnswers, TypeOK, LoopType
  <2>3. ShareType'
    BY <1>6 DEF TakeDonation, DonorAnswers, TypeOK, ShareType, Answered
  <2> QED  BY <2>1, <2>2, <2>3 DEF TypeOK
<1>7. ASSUME NEW r \in Requests,
             DonorCallFails(r)
      PROVE  TypeOK'
  <2>1. LoopType' /\ FlagType' /\ JobType' /\ WorkerType'
    BY <1>7 DEF DonorCallFails, TypeOK, LoopType, FlagType, JobType, WorkerType
  <2>2. NetType'
    BY <1>7 DEF DonorCallFails, TypeOK, NetType
  <2>3. ShareType'
    BY <1>7 DEF DonorCallFails, TypeOK, ShareType, Answered
  <2> QED  BY <2>1, <2>2, <2>3 DEF TypeOK
<1>8. ASSUME NEW r \in Requests, NEW banned \in BOOLEAN,
             PoolRefuses(r, banned)
      PROVE  TypeOK'
  BY <1>8 DEF PoolRefuses, Answered, TypeOK, LoopType, FlagType, JobType,
     NetType, WorkerType, ShareType
<1>9. ASSUME NEW r \in Requests, NEW s \in Shares,
             Submit(r, s)
      PROVE  TypeOK'
  BY <1>9 DEF Submit, Channel, TypeOK, LoopType, FlagType, JobType,
     NetType, WorkerType, ShareType
<1>10. ASSUME NEW w \in Workers,
             AddWorker(w) \/ DelWorker(w) \/ Connect(w) \/
             Leave(w)
      PROVE  TypeOK'
  <2>1. LoopType' /\ FlagType' /\ JobType' /\ NetType' /\ ShareType'
    BY <1>10 DEF AddWorker, DelWorker, Connect, Leave, TypeOK, LoopType,
       FlagType, JobType, NetType, ShareType
  <2>2. WorkerType'
    BY <1>10 DEF AddWorker, DelWorker, Connect, Leave, TypeOK,
       WorkerType, ReceiveWorker, RemoveWorker, Jobs
  <2> QED  BY <2>1, <2>2 DEF TypeOK
<1>11. ASSUME NEW w \in Workers,
             GetJob(w)
      PROVE  TypeOK'
  <2>1. CASE Source = NoJob
    BY <1>11, <2>1, PanicType DEF GetJob
  <2>2. CASE ~(Source = NoJob)
    <3>1. LoopType' /\ FlagType' /\ JobType' /\ NetType' /\ ShareType'
      BY <1>11, <2>2 DEF GetJob, TypeOK, LoopType, FlagType, JobType,
         NetType, ShareType
    <3>2. WorkerType'
      BY <1>11, <2>2 DEF GetJob, TypeOK, WorkerType, JobType, Jobs, Source
    <3> QED  BY <3>1, <3>2 DEF TypeOK
  <2> QED  BY <2>1, <2>2
<1>12. ASSUME NEW leaks \in BOOLEAN,
             DonateFails(leaks)
      PROVE  TypeOK'
  <2>1. JobType' /\ NetType' /\ WorkerType' /\ ShareType'
    BY <1>12 DEF DonateFails, TypeOK, JobType, NetType, WorkerType, ShareType
  <2>2. LoopType'
    BY <1>12 DEF DonateFails, TypeOK, LoopType, DonateStarts
  <2>3. FlagType'
    BY <1>12 DEF DonateFails, TypeOK, FlagType, DonateStarts
  <2> QED  BY <2>1, <2>2, <2>3 DEF TypeOK
<1>13. CASE TakeNotify
  <2>1. CASE Head(notify) = "truncated"
    BY <1>13, <2>1, PanicType DEF TakeNotify
  <2>2. CASE ~(Head(notify) = "truncated")
    <3>1. FlagType' /\ ShareType'
      BY <1>13, <2>2 DEF TakeNotify, TypeOK, FlagType, ShareType
    <3>2. LoopType'
      BY <1>13, <2>2 DEF TakeNotify, TypeOK, LoopType, HandleJob, Broadcast
    <3>3. JobType'
      BY <1>13, <2>2 DEF TakeNotify, TypeOK, JobType, NetType, HandleJob
    <3>4. NetType'
      <4>1. notify' = Tail(notify) /\ notify # <<>> /\ UNCHANGED <<sc, dc, dnotify>>
        BY <1>13, <2>2 DEF TakeNotify
      <4>2. Tail(notify) \in Seq(PoolJobs \cup BadJobs) /\ Len(Tail(notify)) <= NotifyBuffer
        <5>1. notify \in Seq(PoolJobs \cup BadJobs) /\ Len(notify) <= NotifyBuffer
          BY DEF TypeOK, NetType
        <5> QED  BY <4>1, <5>1, TailKeeps, Zenon
      <4> QED  BY <4>1, <4>2, Zenon DEF TypeOK, NetType
    <3>5. WorkerType'
      <4>1. Head(notify) \in PoolJobs \cup {"undecodable"}
        BY <1>13, <2>2 DEF TakeNotify, TypeOK, NetType
      <4>2. UNCHANGED handed \/ (Head(notify) \in PoolJobs /\ Broadcast(Head(notify)))
        BY <1>13, <2>2, <4>1 DEF TakeNotify, HandleJob
      <4>3. handed' \in [Workers -> Jobs \cup {NoJob}]
        BY <4>2, BroadcastType DEF TypeOK, WorkerType, Jobs
      <4> QED  BY <1>13, <2>2, <4>3 DEF TakeNotify, TypeOK, WorkerType
    <3> QED  BY <3>1, <3>2, <3>3, <3>4, <3>5 DEF TypeOK
  <2> QED  BY <2>1, <2>2
<1>14. CASE TakeDNotify
  <2>1. CASE Head(dnotify) = "truncated"
    BY <1>14, <2>1, PanicType DEF TakeDNotify
  <2>2. CASE ~(Head(dnotify) = "truncated")
    <3>1. FlagType' /\ ShareType'
      BY <1>14, <2>2 DEF TakeDNotify, TypeOK, FlagType, ShareType
    <3>2. LoopType'
      BY <1>14, <2>2 DEF TakeDNotify, TypeOK, LoopType,
         HandleDonateJob, Broadcast
    <3>3. JobType'
      BY <1>14, <2>2 DEF TakeDNotify, TypeOK, JobType, NetType, HandleDonateJob
    <3>4. NetType'
      <4>1. dnotify' = Tail(dnotify) /\ dnotify # <<>> /\ UNCHANGED <<sc, dc, notify>>
        BY <1>14, <2>2 DEF TakeDNotify
      <4>2. Tail(dnotify) \in Seq(DonorJobs \cup BadJobs) /\ Len(Tail(dnotify)) <= NotifyBuffer
        <5>1. dnotify \in Seq(DonorJobs \cup BadJobs) /\ Len(dnotify) <= NotifyBuffer
          BY DEF TypeOK, NetType
        <5> QED  BY <4>1, <5>1, TailKeeps, Zenon
      <4> QED  BY <4>1, <4>2, Zenon DEF TypeOK, NetType
    <3>5. WorkerType'
      <4>1. Head(dnotify) \in DonorJobs \cup {"undecodable"}
        BY <1>14, <2>2 DEF TakeDNotify, TypeOK, NetType
      <4>2. UNCHANGED handed \/ (Head(dnotify) \in DonorJobs /\ Broadcast(Head(dnotify)))
        BY <1>14, <2>2, <4>1 DEF TakeDNotify, HandleDonateJob
      <4>3. handed' \in [Workers -> Jobs \cup {NoJob}]
        BY <4>2, BroadcastType DEF TypeOK, WorkerType, Jobs
      <4> QED  BY <1>14, <2>2, <4>3 DEF TakeDNotify, TypeOK, WorkerType
    <3> QED  BY <3>1, <3>2, <3>3, <3>4, <3>5 DEF TypeOK
  <2> QED  BY <2>1, <2>2
<1>15. CASE DonateJob
  <2>1. CASE loginJob = "truncated"
    BY <1>15, <2>1, PanicType DEF DonateJob
  <2>2. CASE ~(loginJob = "truncated")
    <3>1. FlagType' /\ NetType' /\ ShareType'
      BY <1>15, <2>2 DEF DonateJob, TypeOK, FlagType, NetType, ShareType
    <3>2. LoopType'
      BY <1>15, <2>2 DEF DonateJob, TypeOK, LoopType, HandleDonateJob,
         Broadcast
    <3>3. JobType'
      BY <1>15, <2>2 DEF DonateJob, TypeOK, JobType, LoopType, HandleDonateJob
    <3>4. WorkerType'
      BY <1>15, <2>2 DEF DonateJob, TypeOK, WorkerType, LoopType,
         HandleDonateJob, Broadcast, Jobs
    <3> QED  BY <3>1, <3>2, <3>3, <3>4 DEF TypeOK
  <2> QED  BY <2>1, <2>2
<1>16. CASE DonateEnd
  <2>1. NetType' /\ ShareType'
    BY <1>16 DEF DonateEnd, TypeOK, NetType, ShareType
  <2>2. LoopType'
    BY <1>16 DEF DonateEnd, TypeOK, LoopType, Undonate, HandleJob, Broadcast
  <2>3. FlagType'
    BY <1>16 DEF DonateEnd, TypeOK, FlagType, Undonate
  <2>4. JobType'
    BY <1>16 DEF DonateEnd, TypeOK, JobType, Undonate, HandleJob
  <2>5. WorkerType'
    BY <1>16 DEF DonateEnd, TypeOK, WorkerType, Undonate, HandleJob,
       Broadcast, JobType, Jobs
  <2> QED  BY <2>1, <2>2, <2>3, <2>4, <2>5 DEF TypeOK
<1>17. CASE CloseDC
  <2>1. LoopType' /\ JobType' /\ NetType' /\ WorkerType' /\ ShareType'
    BY <1>17 DEF CloseDC, TypeOK, LoopType, JobType, NetType,
       WorkerType, ShareType
  <2>2. FlagType'
    BY <1>17 DEF CloseDC, TypeOK, FlagType
  <2> QED  BY <2>1, <2>2 DEF TypeOK
<1>18. CASE LoginFails \/ Shutdown \/ Expire
  <2>1. JobType' /\ NetType' /\ ShareType'
    BY <1>18 DEF LoginFails, Shutdown, Expire, TypeOK, JobType, NetType,
       ShareType
  <2>2. LoopType'
    BY <1>18 DEF LoginFails, Shutdown, Expire, TypeOK, LoopType
  <2>3. FlagType'
    BY <1>18 DEF LoginFails, Shutdown, Expire, TypeOK, FlagType
  <2>4. WorkerType'
    BY <1>18 DEF LoginFails, Shutdown, Expire, TypeOK, WorkerType, Jobs
  <2> QED  BY <2>1, <2>2, <2>3, <2>4 DEF TypeOK
<1>19. CASE KeepaliveFails
  <2>1. FlagType' /\ JobType' /\ WorkerType' /\ ShareType'
    BY <1>19 DEF KeepaliveFails, TypeOK, FlagType, JobType, WorkerType,
       ShareType
  <2>2. LoopType'
    BY <1>19 DEF KeepaliveFails, TypeOK, LoopType
  <2>3. NetType'
    BY <1>19 DEF KeepaliveFails, TypeOK, NetType
  <2> QED  BY <2>1, <2>2, <2>3 DEF TypeOK
<1>20. CASE OrphanFloods \/ PoolLost \/ DonorLost
  BY <1>20 DEF OrphanFloods, PoolLost, DonorLost, TypeOK, LoopType,
     FlagType, JobType, NetType, WorkerType, ShareType
<1>21. CASE UNCHANGED vars
  BY <1>21 DEF vars, TypeOK, LoopType, FlagType, JobType, NetType,
     WorkerType, ShareType
<1> QED
  BY <1>1, <1>2, <1>3, <1>4, <1>5, <1>6, <1>7, <1>8, <1>9, <1>10, <1>11,
     <1>12, <1>13, <1>14, <1>15, <1>16, <1>17, <1>18, <1>19, <1>20, <1>21
     DEF Next, Quiet

-----------------------------------------------------------------------------
\* Who is in p.workers, what is true as long as login() has not returned, and that
\* nobody is connected once shutdown() has disconnected everybody.
WorkerInv ==
  /\ workers = {w \in Workers : conn[w] \in {"in", "leaving"}}
  /\ loop = "login" => workers = {}
  /\ loop \in {"draining", "gone"} => \A w \in Workers : conn[w] # "in"
  /\ \A w \in Workers : conn[w] # "in" => handed[w] = NoJob

\* The clients exist when they are used.
ClientInv ==
  /\ loop # "login" => sc # "none"
  /\ \A r \in Requests : stage[r] # "idle" => loop # "login"
  /\ \/ donateJob # NoJob \/ prevDonateJob # NoJob
     \/ loop = "donate" \/ dnotify # <<>>
     => dc # "none"

\* A request that waits has a share of the server it waits for.
RouteInv ==
  \A r \in Requests :
    /\ stage[r] \in {"submissions", "poolCall"} => share[r].job \in PoolJobs
    /\ stage[r] \in {"donations", "donorCall"} => share[r].job \in DonorJobs
    /\ stage[r] = "donations" => dc # "none"

\* Add(), Remove() and shutdown() keep the map and the connections in step.
LEMMA WorkerStep ==
  TypeOK /\ WorkerInv /\ [Next]_vars
  => WorkerInv'
<1> SUFFICES ASSUME TypeOK, WorkerInv, [Next]_vars
             PROVE  WorkerInv'
  OBVIOUS
<1> USE JobIds, Settings DEF jobVars, netVars, timerVars, workerVars, shareVars
<1>1. ASSUME NEW job \in PoolJobs \cup BadLogins,
             Login(job)
      PROVE  WorkerInv'
  BY <1>1 DEF Login, HandleJob, Broadcast, Panic, WorkerInv, TypeOK,
     WorkerType
<1>2. ASSUME NEW job \in DonorJobs \cup BadLogins,
             DonateLogin(job)
      PROVE  WorkerInv'
  BY <1>2 DEF DonateLogin, DonateStarts, WorkerInv, TypeOK, WorkerType
<1>3. ASSUME NEW job \in PoolJobs \cup BadJobs,
             PoolNotify(job)
      PROVE  WorkerInv'
  BY <1>3 DEF PoolNotify, Full, WorkerInv, TypeOK, WorkerType
<1>4. ASSUME NEW job \in DonorJobs \cup BadJobs,
             DonorNotify(job)
      PROVE  WorkerInv'
  BY <1>4 DEF DonorNotify, Full, WorkerInv, TypeOK, WorkerType
<1>5. ASSUME NEW r \in Requests,
             TakeSubmission(r) \/ PoolAnswers(r) \/
             PoolCallFails(r)
      PROVE  WorkerInv'
  BY <1>5 DEF TakeSubmission, PoolAnswers, PoolCallFails, Answered,
     WorkerInv, TypeOK, WorkerType
<1>6. ASSUME NEW r \in Requests,
             TakeDonation(r) \/ DonorAnswers(r) \/
             DonorCallFails(r)
      PROVE  WorkerInv'
  BY <1>6 DEF TakeDonation, DonorAnswers, DonorCallFails, Answered,
     WorkerInv, TypeOK, WorkerType
<1>7. ASSUME NEW r \in Requests, NEW banned \in BOOLEAN,
             PoolRefuses(r, banned)
      PROVE  WorkerInv'
  BY <1>7 DEF PoolRefuses, Answered, WorkerInv, TypeOK, WorkerType
<1>8. ASSUME NEW r \in Requests, NEW s \in Shares,
             Submit(r, s)
      PROVE  WorkerInv'
  BY <1>8 DEF Submit, Channel, WorkerInv, TypeOK, WorkerType
<1>9. ASSUME NEW w \in Workers,
             AddWorker(w) \/ DelWorker(w) \/ Connect(w) \/
             GetJob(w) \/ Leave(w)
      PROVE  WorkerInv'
  BY <1>9 DEF AddWorker, DelWorker, Connect, GetJob, Leave, ReceiveWorker,
     RemoveWorker, Source, Panic, WorkerInv, TypeOK, WorkerType
<1>10. ASSUME NEW leaks \in BOOLEAN,
             DonateFails(leaks)
      PROVE  WorkerInv'
  BY <1>10 DEF DonateFails, DonateStarts, WorkerInv, TypeOK, WorkerType
<1>11. CASE TakeNotify \/ TakeDNotify
  BY <1>11 DEF TakeNotify, TakeDNotify, HandleJob, Broadcast, Panic,
     HandleDonateJob, WorkerInv, TypeOK, WorkerType
<1>12. CASE DonateJob \/ DonateEnd \/ CloseDC
  BY <1>12 DEF DonateJob, DonateEnd, CloseDC, HandleDonateJob, Broadcast,
     Panic, Undonate, HandleJob, WorkerInv, TypeOK, WorkerType
<1>13. CASE LoginFails \/ KeepaliveFails \/ Shutdown \/ Expire
  BY <1>13 DEF LoginFails, KeepaliveFails, Shutdown, Expire, WorkerInv,
     TypeOK, WorkerType
<1>14. CASE OrphanFloods \/ PoolLost \/ DonorLost
  BY <1>14 DEF OrphanFloods, PoolLost, DonorLost, WorkerInv, TypeOK,
     WorkerType
<1>15. CASE UNCHANGED vars
  BY <1>15 DEF vars, WorkerInv, TypeOK, WorkerType
<1> QED
  BY <1>1, <1>2, <1>3, <1>4, <1>5, <1>6, <1>7, <1>8, <1>9, <1>10, <1>11,
     <1>12, <1>13, <1>14, <1>15 DEF Next, Quiet

\* p.SC is set by login(), p.DC before any donation job can be known.
LEMMA ClientStep ==
  TypeOK /\ WorkerInv /\ ClientInv /\ [Next]_vars
  => ClientInv'
<1> SUFFICES ASSUME TypeOK, WorkerInv, ClientInv, [Next]_vars
             PROVE  ClientInv'
  OBVIOUS
<1> USE JobIds, Settings DEF jobVars, netVars, timerVars, workerVars, shareVars
<1>1. ASSUME NEW job \in PoolJobs \cup BadLogins,
             Login(job)
      PROVE  ClientInv'
  BY <1>1 DEF Login, HandleJob, Broadcast, Panic, ClientInv, WorkerInv,
     TypeOK, NetType, ShareType
<1>2. ASSUME NEW job \in DonorJobs \cup BadLogins,
             DonateLogin(job)
      PROVE  ClientInv'
  BY <1>2 DEF DonateLogin, DonateStarts, ClientInv, WorkerInv, TypeOK,
     NetType, ShareType
<1>3. ASSUME NEW job \in PoolJobs \cup BadJobs,
             PoolNotify(job)
      PROVE  ClientInv'
  BY <1>3 DEF PoolNotify, Full, ClientInv, WorkerInv, TypeOK, NetType,
     ShareType
<1>4. ASSUME NEW job \in DonorJobs \cup BadJobs,
             DonorNotify(job)
      PROVE  ClientInv'
  BY <1>4 DEF DonorNotify, Full, ClientInv, WorkerInv, TypeOK, NetType,
     ShareType
<1>5. ASSUME NEW r \in Requests,
             TakeSubmission(r) \/ PoolAnswers(r) \/
             PoolCallFails(r)
      PROVE  ClientInv'
  BY <1>5 DEF TakeSubmission, PoolAnswers, PoolCallFails, Answered,
     ClientInv, WorkerInv, TypeOK, NetType, ShareType
<1>6. ASSUME NEW r \in Requests,
             TakeDonation(r) \/ DonorAnswers(r) \/
             DonorCallFails(r)
      PROVE  ClientInv'
  BY <1>6 DEF TakeDonation, DonorAnswers, DonorCallFails, Answered,
     ClientInv, WorkerInv, TypeOK, NetType, ShareType
<1>7. ASSUME NEW r \in Requests, NEW banned \in BOOLEAN,
             PoolRefuses(r, banned)
      PROVE  ClientInv'
  BY <1>7 DEF PoolRefuses, Answered, ClientInv, WorkerInv, TypeOK,
     NetType, ShareType
<1>8. ASSUME NEW r \in Requests, NEW s \in Shares,
             Submit(r, s)
      PROVE  ClientInv'
  BY <1>8 DEF Submit, Channel, ClientInv, WorkerInv, TypeOK, NetType,
     ShareType
<1>9. ASSUME NEW w \in Workers,
             AddWorker(w) \/ DelWorker(w) \/ Connect(w) \/
             GetJob(w) \/ Leave(w)
      PROVE  ClientInv'
  BY <1>9 DEF AddWorker, DelWorker, Connect, GetJob, Leave, ReceiveWorker,
     RemoveWorker, Source, Panic, ClientInv, WorkerInv, TypeOK, NetType,
     ShareType
<1>10. ASSUME NEW leaks \in BOOLEAN,
             DonateFails(leaks)
      PROVE  ClientInv'
  BY <1>10 DEF DonateFails, DonateStarts, ClientInv, WorkerInv, TypeOK,
     NetType, ShareType
<1>11. CASE TakeNotify \/ TakeDNotify
  BY <1>11 DEF TakeNotify, TakeDNotify, HandleJob, Broadcast, Panic,
     HandleDonateJob, ClientInv, WorkerInv, TypeOK, NetType, ShareType
<1>12. CASE DonateJob \/ DonateEnd \/ CloseDC
  BY <1>12 DEF DonateJob, DonateEnd, CloseDC, HandleDonateJob, Broadcast,
     Panic, Undonate, HandleJob, ClientInv, WorkerInv, TypeOK, NetType,
     ShareType
<1>13. CASE LoginFails \/ KeepaliveFails \/ Shutdown \/ Expire
  BY <1>13 DEF LoginFails, KeepaliveFails, Shutdown, Expire, ClientInv,
     WorkerInv, TypeOK, NetType, ShareType
<1>14. CASE OrphanFloods \/ PoolLost \/ DonorLost
  BY <1>14 DEF OrphanFloods, PoolLost, DonorLost, ClientInv, WorkerInv,
     TypeOK, NetType, ShareType
<1>15. CASE UNCHANGED vars
  BY <1>15 DEF vars, ClientInv, WorkerInv, TypeOK, NetType, ShareType
<1> QED
  BY <1>1, <1>2, <1>3, <1>4, <1>5, <1>6, <1>7, <1>8, <1>9, <1>10, <1>11,
     <1>12, <1>13, <1>14, <1>15 DEF Next, Quiet

\* Submit() alone makes a request wait, by the ids it reads.
LEMMA RouteStep ==
  TypeOK /\ ClientInv /\ RouteInv /\ [Next]_vars
  => RouteInv'
<1> SUFFICES ASSUME TypeOK, ClientInv, RouteInv, [Next]_vars
             PROVE  RouteInv'
  OBVIOUS
<1> USE JobIds, Settings DEF jobVars, netVars, timerVars, workerVars, shareVars
<1>1. ASSUME NEW job \in PoolJobs \cup BadLogins,
             Login(job)
      PROVE  RouteInv'
  BY <1>1 DEF Login, HandleJob, Broadcast, Panic, RouteInv, ClientInv,
     TypeOK, ShareType
<1>2. ASSUME NEW job \in DonorJobs \cup BadLogins,
             DonateLogin(job)
      PROVE  RouteInv'
  BY <1>2 DEF DonateLogin, DonateStarts, RouteInv, ClientInv, TypeOK,
     ShareType
<1>3. ASSUME NEW job \in PoolJobs \cup BadJobs,
             PoolNotify(job)
      PROVE  RouteInv'
  BY <1>3 DEF PoolNotify, Full, RouteInv, ClientInv, TypeOK, ShareType
<1>4. ASSUME NEW job \in DonorJobs \cup BadJobs,
             DonorNotify(job)
      PROVE  RouteInv'
  BY <1>4 DEF DonorNotify, Full, RouteInv, ClientInv, TypeOK, ShareType
<1>5. ASSUME NEW r \in Requests,
             TakeSubmission(r) \/ PoolAnswers(r) \/
             PoolCallFails(r)
      PROVE  RouteInv'
  BY <1>5 DEF TakeSubmission, PoolAnswers, PoolCallFails, Answered,
     RouteInv, ClientInv, TypeOK, ShareType
<1>6. ASSUME NEW r \in Requests,
             TakeDonation(r) \/ DonorAnswers(r) \/
             DonorCallFails(r)
      PROVE  RouteInv'
  BY <1>6 DEF TakeDonation, DonorAnswers, DonorCallFails, Answered,
     RouteInv, ClientInv, TypeOK, ShareType
<1>7. ASSUME NEW r \in Requests, NEW banned \in BOOLEAN,
             PoolRefuses(r, banned)
      PROVE  RouteInv'
  BY <1>7 DEF PoolRefuses, Answered, RouteInv, ClientInv, TypeOK,
     ShareType
<1>8. ASSUME NEW r \in Requests, NEW s \in Shares,
             Submit(r, s)
      PROVE  RouteInv'
  <2>1. share'[r] = s /\ stage'[r] = Channel(s.job)
    BY <1>8 DEF Submit, TypeOK, ShareType
  <2>2. stage'[r] = "submissions" => s.job \in PoolJobs
    BY <2>1 DEF Channel, TypeOK, JobType, Shares, Jobs
  <2>3. stage'[r] = "donations" => s.job \in DonorJobs /\ dc # "none"
    BY <2>1 DEF Channel, ClientInv, TypeOK, JobType, Shares, Jobs
  <2>4. stage'[r] \notin {"poolCall", "donorCall"}
    BY <2>1 DEF Channel
  <2>5. ASSUME NEW q \in Requests, q # r
        PROVE  share'[q] = share[q] /\ stage'[q] = stage[q]
    BY <1>8, <2>5 DEF Submit, TypeOK, ShareType
  <2>6. dc' = dc
    BY <1>8 DEF Submit
  <2> QED  BY <2>1, <2>2, <2>3, <2>4, <2>5, <2>6 DEF RouteInv
<1>9. ASSUME NEW w \in Workers,
             AddWorker(w) \/ DelWorker(w) \/ Connect(w) \/
             GetJob(w) \/ Leave(w)
      PROVE  RouteInv'
  BY <1>9 DEF AddWorker, DelWorker, Connect, GetJob, Leave, ReceiveWorker,
     RemoveWorker, Source, Panic, RouteInv, ClientInv, TypeOK, ShareType
<1>10. ASSUME NEW leaks \in BOOLEAN,
             DonateFails(leaks)
      PROVE  RouteInv'
  BY <1>10 DEF DonateFails, DonateStarts, RouteInv, ClientInv, TypeOK,
     ShareType
<1>11. CASE TakeNotify \/ TakeDNotify
  BY <1>11 DEF TakeNotify, TakeDNotify, HandleJob, Broadcast, Panic,
     HandleDonateJob, RouteInv, ClientInv, TypeOK, ShareType
<1>12. CASE DonateJob \/ DonateEnd \/ CloseDC
  BY <1>12 DEF DonateJob, DonateEnd, CloseDC, HandleDonateJob, Broadcast,
     Panic, Undonate, HandleJob, RouteInv, ClientInv, TypeOK, ShareType
<1>13. CASE LoginFails \/ KeepaliveFails \/ Shutdown \/ Expire
  BY <1>13 DEF LoginFails, KeepaliveFails, Shutdown, Expire, RouteInv,
     ClientInv, TypeOK, ShareType
<1>14. CASE OrphanFloods \/ PoolLost \/ DonorLost
  BY <1>14 DEF OrphanFloods, PoolLost, DonorLost, RouteInv, ClientInv,
     TypeOK, ShareType
<1>15. CASE UNCHANGED vars
  BY <1>15 DEF vars, RouteInv, ClientInv, TypeOK, ShareType
<1> QED
  BY <1>1, <1>2, <1>3, <1>4, <1>5, <1>6, <1>7, <1>8, <1>9, <1>10, <1>11,
     <1>12, <1>13, <1>14, <1>15 DEF Next, Quiet

\* While run() is inside a submit call nothing else can be, and the jobs stay.
CallInv ==
  \A r \in Requests :
    stage[r] \in {"poolCall", "donorCall"} =>
      /\ loop = "calling"
      /\ share[r].job \in KnownJobs
      /\ \A q \in Requests : stage[q] \in {"poolCall", "donorCall"} => q = r

LEMMA CallStep ==
  TypeOK /\ CallInv /\ [Next]_vars
  => CallInv'
<1> SUFFICES ASSUME TypeOK, CallInv, [Next]_vars
             PROVE  CallInv'
  OBVIOUS
<1> USE JobIds, Settings DEF jobVars, netVars, timerVars, workerVars, shareVars
<1>1. ASSUME NEW job \in PoolJobs \cup BadLogins,
             Login(job)
      PROVE  CallInv'
  BY <1>1 DEF Login, HandleJob, Broadcast, Panic, CallInv, KnownJobs,
     TypeOK, ShareType
<1>2. ASSUME NEW job \in DonorJobs \cup BadLogins,
             DonateLogin(job)
      PROVE  CallInv'
  BY <1>2 DEF DonateLogin, DonateStarts, CallInv, KnownJobs, TypeOK,
     ShareType
<1>3. ASSUME NEW job \in PoolJobs \cup BadJobs,
             PoolNotify(job)
      PROVE  CallInv'
  BY <1>3 DEF PoolNotify, Full, CallInv, KnownJobs, TypeOK, ShareType
<1>4. ASSUME NEW job \in DonorJobs \cup BadJobs,
             DonorNotify(job)
      PROVE  CallInv'
  BY <1>4 DEF DonorNotify, Full, CallInv, KnownJobs, TypeOK, ShareType
<1>5. ASSUME NEW r \in Requests,
             PoolAnswers(r) \/ PoolCallFails(r)
      PROVE  CallInv'
  BY <1>5 DEF PoolAnswers, PoolCallFails, Answered, CallInv, KnownJobs,
     TypeOK, ShareType
<1>6. ASSUME NEW r \in Requests,
             TakeSubmission(r)
      PROVE  CallInv'
  <2>1. \A q \in Requests : stage[q] \notin {"poolCall", "donorCall"}
    BY <1>6 DEF TakeSubmission, CallInv
  <2>2. UNCHANGED KnownJobs
    BY <1>6 DEF TakeSubmission, KnownJobs
  <2>3. \A q \in Requests : q # r => stage'[q] = stage[q]
    BY <1>6 DEF TakeSubmission, Answered, TypeOK, ShareType
  <2>4. stage'[r] \in {"poolCall", "donorCall"} =>
          loop' = "calling" /\ share' = share /\ share[r].job \in KnownJobs
    BY <1>6 DEF TakeSubmission, Answered, ValidShare, TypeOK, ShareType
  <2> QED  BY <2>1, <2>2, <2>3, <2>4 DEF CallInv
<1>7. ASSUME NEW r \in Requests,
             DonorAnswers(r) \/ DonorCallFails(r)
      PROVE  CallInv'
  BY <1>7 DEF DonorAnswers, DonorCallFails, Answered, CallInv, KnownJobs,
     TypeOK, ShareType
<1>8. ASSUME NEW r \in Requests,
             TakeDonation(r)
      PROVE  CallInv'
  <2>1. \A q \in Requests : stage[q] \notin {"poolCall", "donorCall"}
    BY <1>8 DEF TakeDonation, CallInv
  <2>2. UNCHANGED KnownJobs
    BY <1>8 DEF TakeDonation, KnownJobs
  <2>3. \A q \in Requests : q # r => stage'[q] = stage[q]
    BY <1>8 DEF TakeDonation, Answered, TypeOK, ShareType
  <2>4. stage'[r] \in {"poolCall", "donorCall"} =>
          loop' = "calling" /\ share' = share /\ share[r].job \in KnownJobs
    BY <1>8 DEF TakeDonation, Answered, ValidShare, TypeOK, ShareType
  <2> QED  BY <2>1, <2>2, <2>3, <2>4 DEF CallInv
<1>9. ASSUME NEW r \in Requests, NEW banned \in BOOLEAN,
             PoolRefuses(r, banned)
      PROVE  CallInv'
  BY <1>9 DEF PoolRefuses, Answered, CallInv, KnownJobs, TypeOK, ShareType
<1>10. ASSUME NEW r \in Requests, NEW s \in Shares,
             Submit(r, s)
      PROVE  CallInv'
  BY <1>10 DEF Submit, Channel, CallInv, KnownJobs, TypeOK, ShareType
<1>11. ASSUME NEW w \in Workers,
             AddWorker(w) \/ DelWorker(w) \/ Connect(w) \/
             GetJob(w) \/ Leave(w)
      PROVE  CallInv'
  BY <1>11 DEF AddWorker, DelWorker, Connect, GetJob, Leave,
     ReceiveWorker, RemoveWorker, Source, Panic, CallInv, KnownJobs,
     TypeOK, ShareType
<1>12. ASSUME NEW leaks \in BOOLEAN,
             DonateFails(leaks)
      PROVE  CallInv'
  BY <1>12 DEF DonateFails, DonateStarts, CallInv, KnownJobs, TypeOK,
     ShareType
<1>13. CASE TakeNotify \/ TakeDNotify
  BY <1>13 DEF TakeNotify, TakeDNotify, HandleJob, Broadcast, Panic,
     HandleDonateJob, CallInv, KnownJobs, TypeOK, ShareType
<1>14. CASE DonateJob \/ DonateEnd \/ CloseDC
  BY <1>14 DEF DonateJob, DonateEnd, CloseDC, HandleDonateJob, Broadcast,
     Panic, Undonate, HandleJob, CallInv, KnownJobs, TypeOK, ShareType
<1>15. CASE LoginFails \/ KeepaliveFails \/ Shutdown \/ Expire
  BY <1>15 DEF LoginFails, KeepaliveFails, Shutdown, Expire, CallInv,
     KnownJobs, TypeOK, ShareType
<1>16. CASE OrphanFloods \/ PoolLost \/ DonorLost
  BY <1>16 DEF OrphanFloods, PoolLost, DonorLost, CallInv, KnownJobs,
     TypeOK, ShareType
<1>17. CASE UNCHANGED vars
  BY <1>17 DEF vars, CallInv, KnownJobs, TypeOK, ShareType
<1> QED
  BY <1>1, <1>2, <1>3, <1>4, <1>5, <1>6, <1>7, <1>8, <1>9, <1>10, <1>11,
     <1>12, <1>13, <1>14, <1>15, <1>16, <1>17 DEF Next, Quiet

-----------------------------------------------------------------------------
\* As long as login replies are well formed: there is a job to hand out except
\* inside donate(), and the workers have that job.
JobInv ==
  /\ loop # "login" => currentJob # NoJob
  /\ loop = "donate" => donating /\ loginJob \in DonorJobs
  /\ donating /\ loop # "donate" => donateJob # NoJob

\* The delayed close comes before the next donation.
CloseInv == DonateInterval > DonateShutdownDelay => ~(closeDue /\ donating)

CountInv == IsFiniteSet(workers) /\ CountMatches

\* Jobs only ever replace jobs.
LEMMA JobStep ==
  BadLogins = {} /\ TypeOK /\ JobInv /\ [Next]_vars
  => JobInv'
<1> SUFFICES ASSUME BadLogins = {}, TypeOK, JobInv, [Next]_vars
             PROVE  JobInv'
  OBVIOUS
<1> USE JobIds, Settings DEF jobVars, netVars, timerVars, workerVars, shareVars
<1>1. ASSUME NEW job \in PoolJobs \cup BadLogins,
             Login(job)
      PROVE  JobInv'
  BY <1>1 DEF Login, HandleJob, Broadcast, Panic, JobInv, TypeOK,
     LoopType, JobType, NetType, Jobs
<1>2. ASSUME NEW job \in DonorJobs \cup BadLogins,
             DonateLogin(job)
      PROVE  JobInv'
  BY <1>2 DEF DonateLogin, DonateStarts, JobInv, TypeOK, LoopType,
     JobType, NetType, Jobs
<1>3. ASSUME NEW job \in PoolJobs \cup BadJobs,
             PoolNotify(job)
      PROVE  JobInv'
  BY <1>3 DEF PoolNotify, Full, JobInv, TypeOK, LoopType, JobType,
     NetType, Jobs
<1>4. ASSUME NEW job \in DonorJobs \cup BadJobs,
             DonorNotify(job)
      PROVE  JobInv'
  BY <1>4 DEF DonorNotify, Full, JobInv, TypeOK, LoopType, JobType,
     NetType, Jobs
<1>5. ASSUME NEW r \in Requests,
             TakeSubmission(r) \/ PoolAnswers(r) \/
             PoolCallFails(r)
      PROVE  JobInv'
  BY <1>5 DEF TakeSubmission, PoolAnswers, PoolCallFails, Answered,
     JobInv, TypeOK, LoopType, JobType, NetType, Jobs
<1>6. ASSUME NEW r \in Requests,
             TakeDonation(r) \/ DonorAnswers(r) \/
             DonorCallFails(r)
      PROVE  JobInv'
  BY <1>6 DEF TakeDonation, DonorAnswers, DonorCallFails, Answered,
     JobInv, TypeOK, LoopType, JobType, NetType, Jobs
<1>7. ASSUME NEW r \in Requests, NEW banned \in BOOLEAN,
             PoolRefuses(r, banned)
      PROVE  JobInv'
  BY <1>7 DEF PoolRefuses, Answered, JobInv, TypeOK, LoopType, JobType,
     NetType, Jobs
<1>8. ASSUME NEW r \in Requests, NEW s \in Shares,
             Submit(r, s)
      PROVE  JobInv'
  BY <1>8 DEF Submit, Channel, JobInv, TypeOK, LoopType, JobType, NetType,
     Jobs
<1>9. ASSUME NEW w \in Workers,
             AddWorker(w) \/ DelWorker(w) \/ Connect(w) \/
             GetJob(w) \/ Leave(w)
      PROVE  JobInv'
  BY <1>9 DEF AddWorker, DelWorker, Connect, GetJob, Leave, ReceiveWorker,
     RemoveWorker, Source, Panic, JobInv, TypeOK, LoopType, JobType,
     NetType, Jobs
<1>10. ASSUME NEW leaks \in BOOLEAN,
             DonateFails(leaks)
      PROVE  JobInv'
  BY <1>10 DEF DonateFails, DonateStarts, JobInv, TypeOK, LoopType,
     JobType, NetType, Jobs
<1>11. CASE TakeNotify \/ TakeDNotify
  BY <1>11 DEF TakeNotify, TakeDNotify, HandleJob, Broadcast, Panic,
     HandleDonateJob, JobInv, TypeOK, LoopType, JobType, NetType, Jobs
<1>12. CASE DonateJob \/ DonateEnd \/ CloseDC
  BY <1>12 DEF DonateJob, DonateEnd, CloseDC, HandleDonateJob, Broadcast,
     Panic, Undonate, HandleJob, JobInv, TypeOK, LoopType, JobType,
     NetType, Jobs
<1>13. CASE LoginFails \/ KeepaliveFails \/ Shutdown \/ Expire
  BY <1>13 DEF LoginFails, KeepaliveFails, Shutdown, Expire, JobInv,
     TypeOK, LoopType, JobType, NetType, Jobs
<1>14. CASE OrphanFloods \/ PoolLost \/ DonorLost
  BY <1>14 DEF OrphanFloods, PoolLost, DonorLost, JobInv, TypeOK,
     LoopType, JobType, NetType, Jobs
<1>15. CASE UNCHANGED vars
  BY <1>15 DEF vars, JobInv, TypeOK, LoopType, JobType, NetType, Jobs
<1> QED
  BY <1>1, <1>2, <1>3, <1>4, <1>5, <1>6, <1>7, <1>8, <1>9, <1>10, <1>11,
     <1>12, <1>13, <1>14, <1>15 DEF Next, Quiet

\* broadcastJob() reaches every worker that is still connected.
LEMMA BroadcastReaches ==
  ASSUME TypeOK, WorkerInv, NEW job, job # NoJob, Broadcast(job)
  PROVE  \A w \in Workers : conn[w] = "in" => handed'[w] = job
BY DEF Broadcast, WorkerInv, TypeOK, WorkerType

\* The last job sent off to a worker is the one NextJob() would return now.
LastSentIsSource ==
  BadLogins = {} /\ loop \in {"select", "calling"} =>
    \A w \in Workers : conn[w] = "in" /\ handed[w] # NoJob => handed[w] = Source

\* A switch of the source broadcasts the new job, a new job of the other
\* source does not.
LEMMA MiningStep ==
  BadLogins = {} /\ TypeOK /\ WorkerInv /\ JobInv /\ LastSentIsSource /\ [Next]_vars
  => LastSentIsSource'
<1> SUFFICES ASSUME BadLogins = {}, TypeOK, WorkerInv, JobInv,
                    LastSentIsSource, [Next]_vars
             PROVE  LastSentIsSource'
  OBVIOUS
<1> USE JobIds, Settings DEF jobVars, netVars, timerVars, workerVars, shareVars
<1>1. ASSUME NEW job \in PoolJobs \cup BadLogins,
             Login(job)
      PROVE  LastSentIsSource'
  BY <1>1 DEF Login, HandleJob, Broadcast, Panic, LastSentIsSource,
     JobInv, WorkerInv, Source, TypeOK, WorkerType
<1>2. ASSUME NEW job \in DonorJobs \cup BadLogins,
             DonateLogin(job)
      PROVE  LastSentIsSource'
  BY <1>2 DEF DonateLogin, DonateStarts, LastSentIsSource, JobInv,
     WorkerInv, Source, TypeOK, WorkerType
<1>3. ASSUME NEW job \in PoolJobs \cup BadJobs,
             PoolNotify(job)
      PROVE  LastSentIsSource'
  BY <1>3 DEF PoolNotify, Full, LastSentIsSource, JobInv, WorkerInv,
     Source, TypeOK, WorkerType
<1>4. ASSUME NEW job \in DonorJobs \cup BadJobs,
             DonorNotify(job)
      PROVE  LastSentIsSource'
  BY <1>4 DEF DonorNotify, Full, LastSentIsSource, JobInv, WorkerInv,
     Source, TypeOK, WorkerType
<1>5. ASSUME NEW r \in Requests,
             TakeSubmission(r) \/ PoolAnswers(r) \/
             PoolCallFails(r)
      PROVE  LastSentIsSource'
  BY <1>5 DEF TakeSubmission, PoolAnswers, PoolCallFails, Answered,
     LastSentIsSource, JobInv, WorkerInv, Source, TypeOK, WorkerType
<1>6. ASSUME NEW r \in Requests,
             TakeDonation(r) \/ DonorAnswers(r) \/
             DonorCallFails(r)
      PROVE  LastSentIsSource'
  BY <1>6 DEF TakeDonation, DonorAnswers, DonorCallFails, Answered,
     LastSentIsSource, JobInv, WorkerInv, Source, TypeOK, WorkerType
<1>7. ASSUME NEW r \in Requests, NEW banned \in BOOLEAN,
             PoolRefuses(r, banned)
      PROVE  LastSentIsSource'
  BY <1>7 DEF PoolRefuses, Answered, LastSentIsSource, JobInv,
     WorkerInv, Source, TypeOK, WorkerType
<1>8. ASSUME NEW r \in Requests, NEW s \in Shares,
             Submit(r, s)
      PROVE  LastSentIsSource'
  BY <1>8 DEF Submit, Channel, LastSentIsSource, JobInv, WorkerInv,
     Source, TypeOK, WorkerType
<1>9. ASSUME NEW w \in Workers,
             AddWorker(w) \/ DelWorker(w) \/ Connect(w) \/
             GetJob(w) \/ Leave(w)
      PROVE  LastSentIsSource'
  BY <1>9 DEF AddWorker, DelWorker, Connect, GetJob, Leave, ReceiveWorker,
     RemoveWorker, Source, Panic, LastSentIsSource, JobInv, WorkerInv,
     TypeOK, WorkerType
<1>10. ASSUME NEW leaks \in BOOLEAN,
             DonateFails(leaks)
      PROVE  LastSentIsSource'
  BY <1>10 DEF DonateFails, DonateStarts, LastSentIsSource, JobInv,
     WorkerInv, Source, TypeOK, WorkerType
<1>11. CASE TakeNotify
  <2>1. CASE Head(notify) = "truncated"
    BY <1>11, <2>1 DEF TakeNotify, Panic, LastSentIsSource, Source
  <2>2. CASE Head(notify) = "undecodable"
    BY <1>11, <2>2 DEF TakeNotify, LastSentIsSource, Source
  <2>3. CASE Head(notify) \notin {"truncated", "undecodable"}
    <3>1. Head(notify) # NoJob
      BY <1>11, <2>3 DEF TakeNotify, TypeOK, NetType, Jobs
    <3>2. HandleJob(Head(notify), donating) /\ UNCHANGED <<loop, donating, conn>>
      BY <1>11, <2>3 DEF TakeNotify
    <3>3. CASE ~donating
      <4>1. Broadcast(Head(notify))
        BY <3>2, <3>3 DEF HandleJob
      <4>2. Source' = Head(notify)
        BY <3>2, <3>3 DEF HandleJob, Source
      <4> QED  BY <3>1, <3>2, <4>1, <4>2, BroadcastReaches DEF LastSentIsSource
    <3>4. CASE donating
      BY <1>11, <2>3, <3>2, <3>4 DEF TakeNotify, HandleJob,
         LastSentIsSource, Source
    <3> QED  BY <3>3, <3>4
  <2> QED  BY <2>1, <2>2, <2>3
<1>12. CASE TakeDNotify
  <2>1. CASE Head(dnotify) = "truncated"
    BY <1>12, <2>1 DEF TakeDNotify, Panic, LastSentIsSource, Source
  <2>2. CASE Head(dnotify) = "undecodable"
    BY <1>12, <2>2 DEF TakeDNotify, LastSentIsSource, Source
  <2>3. CASE Head(dnotify) \notin {"truncated", "undecodable"}
    <3>1. Head(dnotify) # NoJob
      BY <1>12, <2>3 DEF TakeDNotify, TypeOK, NetType, Jobs
    <3>2. /\ HandleDonateJob(Head(dnotify), donating)
          /\ UNCHANGED <<loop, donating, conn>>
      BY <1>12, <2>3 DEF TakeDNotify
    <3>3. CASE donating
      <4>1. Broadcast(Head(dnotify))
        BY <3>2, <3>3 DEF HandleDonateJob
      <4>2. Source' = Head(dnotify)
        BY <3>2, <3>3 DEF HandleDonateJob, Source
      <4> QED  BY <3>1, <3>2, <4>1, <4>2, BroadcastReaches DEF LastSentIsSource
    <3>4. CASE ~donating
      BY <1>12, <2>3, <3>2, <3>4 DEF TakeDNotify, HandleDonateJob,
         LastSentIsSource, Source
    <3> QED  BY <3>3, <3>4
  <2> QED  BY <2>1, <2>2, <2>3
<1>13. CASE DonateEnd \/ CloseDC
  BY <1>13 DEF DonateEnd, CloseDC, Undonate, HandleJob, Broadcast,
     LastSentIsSource, JobInv, WorkerInv, Source, TypeOK, WorkerType
<1>14. CASE DonateJob
  <2>1. loginJob \in DonorJobs /\ donating
    BY <1>14 DEF DonateJob, JobInv
  <2>2. loginJob \notin {"truncated", "undecodable", NoJob}
    BY <2>1 DEF Jobs
  <2>3. HandleDonateJob(loginJob, donating) /\ UNCHANGED <<donating, conn>>
    BY <1>14, <2>2 DEF DonateJob, workerVars
  <2>4. Broadcast(loginJob) /\ Source' = loginJob
    BY <2>1, <2>3 DEF HandleDonateJob, Source
  <2> QED  BY <2>2, <2>3, <2>4, BroadcastReaches DEF LastSentIsSource
<1>15. CASE LoginFails \/ KeepaliveFails \/ Shutdown \/ Expire
  BY <1>15 DEF LoginFails, KeepaliveFails, Shutdown, Expire,
     LastSentIsSource, JobInv, WorkerInv, Source, TypeOK, WorkerType
<1>16. CASE OrphanFloods \/ PoolLost \/ DonorLost
  BY <1>16 DEF OrphanFloods, PoolLost, DonorLost, LastSentIsSource,
     JobInv, WorkerInv, Source, TypeOK, WorkerType
<1>17. CASE UNCHANGED vars
  BY <1>17 DEF vars, LastSentIsSource, JobInv, WorkerInv, Source,
     TypeOK, WorkerType
<1> QED
  BY <1>1, <1>2, <1>3, <1>4, <1>5, <1>6, <1>7, <1>8, <1>9, <1>10, <1>11,
     <1>12, <1>13, <1>14, <1>15, <1>16, <1>17 DEF Next, Quiet

\* donate() waits for a pending close if the interval is longer than its delay.
LEMMA CloseStep ==
  CloseInv /\ [Next]_vars
  => CloseInv'
<1> SUFFICES ASSUME CloseInv, [Next]_vars
             PROVE  CloseInv'
  OBVIOUS
<1> USE JobIds, Settings DEF jobVars, netVars, timerVars, workerVars, shareVars
<1>1. ASSUME NEW job \in PoolJobs \cup BadLogins,
             Login(job)
      PROVE  CloseInv'
  BY <1>1 DEF Login, HandleJob, Broadcast, Panic, CloseInv
<1>2. ASSUME NEW job \in DonorJobs \cup BadLogins,
             DonateLogin(job)
      PROVE  CloseInv'
  BY <1>2 DEF DonateLogin, DonateStarts, CloseInv, DonateInterval,
     DonateLength, DonateCycle, DonateShutdownDelay
<1>3. ASSUME NEW job \in PoolJobs \cup BadJobs,
             PoolNotify(job)
      PROVE  CloseInv'
  BY <1>3 DEF PoolNotify, Full, CloseInv
<1>4. ASSUME NEW job \in DonorJobs \cup BadJobs,
             DonorNotify(job)
      PROVE  CloseInv'
  BY <1>4 DEF DonorNotify, Full, CloseInv
<1>5. ASSUME NEW r \in Requests,
             TakeSubmission(r) \/ PoolAnswers(r) \/
             PoolCallFails(r)
      PROVE  CloseInv'
  BY <1>5 DEF TakeSubmission, PoolAnswers, PoolCallFails, Answered,
     CloseInv
<1>6. ASSUME NEW r \in Requests,
             TakeDonation(r) \/ DonorAnswers(r) \/
             DonorCallFails(r)
      PROVE  CloseInv'
  BY <1>6 DEF TakeDonation, DonorAnswers, DonorCallFails, Answered,
     CloseInv
<1>7. ASSUME NEW r \in Requests, NEW banned \in BOOLEAN,
             PoolRefuses(r, banned)
      PROVE  CloseInv'
  BY <1>7 DEF PoolRefuses, Answered, CloseInv
<1>8. ASSUME NEW r \in Requests, NEW s \in Shares,
             Submit(r, s)
      PROVE  CloseInv'
  BY <1>8 DEF Submit, Channel, CloseInv
<1>9. ASSUME NEW w \in Workers,
             AddWorker(w) \/ DelWorker(w) \/ Connect(w) \/
             GetJob(w) \/ Leave(w)
      PROVE  CloseInv'
  BY <1>9 DEF AddWorker, DelWorker, Connect, GetJob, Leave, ReceiveWorker,
     RemoveWorker, Source, Panic, CloseInv
<1>10. ASSUME NEW leaks \in BOOLEAN,
             DonateFails(leaks)
      PROVE  CloseInv'
  BY <1>10 DEF DonateFails, DonateStarts, CloseInv
<1>11. CASE TakeNotify \/ TakeDNotify
  BY <1>11 DEF TakeNotify, TakeDNotify, HandleJob, Broadcast, Panic,
     HandleDonateJob, CloseInv
<1>12. CASE DonateJob \/ DonateEnd \/ CloseDC
  BY <1>12 DEF DonateJob, DonateEnd, CloseDC, HandleDonateJob, Broadcast,
     Panic, Undonate, HandleJob, CloseInv
<1>13. CASE LoginFails \/ KeepaliveFails \/ Shutdown \/ Expire
  BY <1>13 DEF LoginFails, KeepaliveFails, Shutdown, Expire, CloseInv
<1>14. CASE OrphanFloods \/ PoolLost \/ DonorLost
  BY <1>14 DEF OrphanFloods, PoolLost, DonorLost, CloseInv
<1>15. CASE UNCHANGED vars
  BY <1>15 DEF vars, CloseInv
<1> QED
  BY <1>1, <1>2, <1>3, <1>4, <1>5, <1>6, <1>7, <1>8, <1>9, <1>10, <1>11,
     <1>12, <1>13, <1>14, <1>15 DEF Next, Quiet

\* Each connection is added and removed once.
LEMMA CountStep ==
  TypeOK /\ WorkerInv /\ CountInv /\ [Next]_vars
  => CountInv'
<1> SUFFICES ASSUME TypeOK, WorkerInv, CountInv, [Next]_vars
             PROVE  CountInv'
  OBVIOUS
<1> USE JobIds, Settings DEF jobVars, netVars, timerVars, workerVars, shareVars
<1>1. ASSUME NEW job \in PoolJobs \cup BadLogins,
             Login(job)
      PROVE  CountInv'
  BY <1>1 DEF Login, HandleJob, Broadcast, Panic, CountInv, CountMatches
<1>2. ASSUME NEW job \in DonorJobs \cup BadLogins,
             DonateLogin(job)
      PROVE  CountInv'
  BY <1>2 DEF DonateLogin, DonateStarts, CountInv, CountMatches
<1>3. ASSUME NEW job \in PoolJobs \cup BadJobs,
             PoolNotify(job)
      PROVE  CountInv'
  BY <1>3 DEF PoolNotify, Full, CountInv, CountMatches
<1>4. ASSUME NEW job \in DonorJobs \cup BadJobs,
             DonorNotify(job)
      PROVE  CountInv'
  BY <1>4 DEF DonorNotify, Full, CountInv, CountMatches
<1>5. ASSUME NEW r \in Requests,
             TakeSubmission(r) \/ PoolAnswers(r) \/
             PoolCallFails(r)
      PROVE  CountInv'
  BY <1>5 DEF TakeSubmission, PoolAnswers, PoolCallFails, Answered,
     CountInv, CountMatches
<1>6. ASSUME NEW r \in Requests,
             TakeDonation(r) \/ DonorAnswers(r) \/
             DonorCallFails(r)
      PROVE  CountInv'
  BY <1>6 DEF TakeDonation, DonorAnswers, DonorCallFails, Answered,
     CountInv, CountMatches
<1>7. ASSUME NEW r \in Requests, NEW banned \in BOOLEAN,
             PoolRefuses(r, banned)
      PROVE  CountInv'
  BY <1>7 DEF PoolRefuses, Answered, CountInv, CountMatches
<1>8. ASSUME NEW r \in Requests, NEW s \in Shares,
             Submit(r, s)
      PROVE  CountInv'
  BY <1>8 DEF Submit, Channel, CountInv, CountMatches
<1>9. ASSUME NEW w \in Workers,
             Connect(w) \/ GetJob(w) \/ Leave(w)
      PROVE  CountInv'
  BY <1>9 DEF Connect, GetJob, Leave, Source, Panic, CountInv,
     CountMatches
<1>10. ASSUME NEW w \in Workers,
             AddWorker(w)
      PROVE  CountInv'
  <2>1. w \notin workers
    BY <1>10 DEF AddWorker, WorkerInv
  <2>2. workers' = workers \cup {w} /\ workerCount' = workerCount + 1
    BY <1>10 DEF AddWorker, ReceiveWorker
  <2> QED  BY <2>1, <2>2, FS_AddElement DEF CountInv, CountMatches
<1>11. ASSUME NEW w \in Workers,
             DelWorker(w)
      PROVE  CountInv'
  <2>1. w \in workers
    BY <1>11 DEF DelWorker, WorkerInv
  <2>2. workers' = workers \ {w} /\ workerCount' = workerCount - 1
    BY <1>11 DEF DelWorker, RemoveWorker
  <2> QED  BY <2>1, <2>2, FS_RemoveElement DEF CountInv, CountMatches
<1>12. ASSUME NEW leaks \in BOOLEAN,
             DonateFails(leaks)
      PROVE  CountInv'
  BY <1>12 DEF DonateFails, DonateStarts, CountInv, CountMatches
<1>13. CASE TakeNotify \/ TakeDNotify
  BY <1>13 DEF TakeNotify, TakeDNotify, HandleJob, Broadcast, Panic,
     HandleDonateJob, CountInv, CountMatches
<1>14. CASE DonateJob \/ DonateEnd \/ CloseDC
  BY <1>14 DEF DonateJob, DonateEnd, CloseDC, HandleDonateJob, Broadcast,
     Panic, Undonate, HandleJob, CountInv, CountMatches
<1>15. CASE LoginFails \/ KeepaliveFails \/ Shutdown \/ Expire
  BY <1>15 DEF LoginFails, KeepaliveFails, Shutdown, Expire, CountInv,
     CountMatches
<1>16. CASE OrphanFloods \/ PoolLost \/ DonorLost
  BY <1>16 DEF OrphanFloods, PoolLost, DonorLost, CountInv, CountMatches
<1>17. CASE UNCHANGED vars
  BY <1>17 DEF vars, CountInv, CountMatches
<1> QED
  BY <1>1, <1>2, <1>3, <1>4, <1>5, <1>6, <1>7, <1>8, <1>9, <1>10, <1>11,
     <1>12, <1>13, <1>14, <1>15, <1>16, <1>17 DEF Next, Quiet

-----------------------------------------------------------------------------
LEMMA InitInv ==
  Init => /\ TypeOK /\ WorkerInv /\ ClientInv /\ RouteInv /\ CallInv
          /\ JobInv /\ LastSentIsSource /\ CloseInv /\ CountInv
<1> SUFFICES ASSUME Init
             PROVE  /\ TypeOK /\ WorkerInv /\ ClientInv /\ RouteInv /\ CallInv
                    /\ JobInv /\ LastSentIsSource /\ CloseInv /\ CountInv
  OBVIOUS
<1> USE JobIds, Settings DEF Init
<1>1. TypeOK
  <2>1. LoopType /\ JobType /\ NetType
    BY DEF LoopType, JobType, NetType
  <2>2. FlagType
    BY DEF FlagType
  <2>3. WorkerType /\ ShareType
    BY DEF WorkerType, ShareType
  <2> QED  BY <2>1, <2>2, <2>3 DEF TypeOK
<1>2. WorkerInv /\ ClientInv /\ RouteInv /\ CallInv
  BY DEF WorkerInv, ClientInv, RouteInv, CallInv
<1>3. JobInv /\ LastSentIsSource /\ CloseInv
  BY DEF JobInv, LastSentIsSource, CloseInv
<1>4. CountInv
  BY FS_EmptySet DEF CountInv, CountMatches
<1> QED  BY <1>1, <1>2, <1>3, <1>4

\* The layers that need no assumption on the servers.
LEMMA BaseInvariance ==
  Spec => [](/\ TypeOK /\ WorkerInv /\ ClientInv /\ RouteInv
             /\ CallInv /\ CloseInv /\ CountInv)
<1>1. /\ TypeOK /\ WorkerInv /\ ClientInv /\ RouteInv
      /\ CallInv /\ CloseInv /\ CountInv /\ [Next]_vars
      => (/\ TypeOK /\ WorkerInv /\ ClientInv /\ RouteInv
          /\ CallInv /\ CloseInv /\ CountInv)'
  BY TypeStep, WorkerStep, ClientStep, RouteStep, CallStep, CloseStep, CountStep
<1> QED  BY InitInv, <1>1, PTL DEF Spec

\* Job ids and job slots always come from the right server, the channels of the
\* clients never exceed their capacity and no flag or counter leaves its range
\* (proxy.go:51-98).
THEOREM TypeCorrect == Spec => []TypeOK
BY BaseInvariance, PTL

\* Shares only go to the server that issued their job (proxy.go:488-495).
THEOREM Routing == Spec => []RoutedToIssuer
<1>1. RouteInv => RoutedToIssuer
  BY DEF RouteInv, RoutedToIssuer
<1> QED  BY BaseInvariance, <1>1, PTL

\* A share whose job has been replaced twice stays in the proxy
\* (proxy.go:379-399, 454).
THEOREM StaleStopped == Spec => []NoStaleForwarded
<1>1. CallInv => NoStaleForwarded
  BY DEF CallInv, NoStaleForwarded
<1> QED  BY BaseInvariance, <1>1, PTL

\* handleSubmit() never meets a nil client (proxy.go:447-452).
THEOREM ClientsExist == Spec => []NilClientUnreachable
<1>1. ClientInv /\ RouteInv => NilClientUnreachable
  BY DEF ClientInv, RouteInv, NilClientUnreachable
<1> QED  BY BaseInvariance, <1>1, PTL

\* login() cannot wait for itself (proxy.go:364-374, 502).
THEOREM LoginNeverWaits == Spec => []BroadcastNeverWaits
<1>1. TypeOK /\ WorkerInv => BroadcastNeverWaits
  BY DEF TypeOK, WorkerType, WorkerInv, BroadcastNeverWaits
<1> QED  BY BaseInvariance, <1>1, PTL

\* isReady() reads the number of workers there are (proxy.go:401-412, 439).
THEOREM CountExact == Spec => []CountMatches
<1>1. CountInv => CountMatches
  BY DEF CountInv
<1> QED  BY BaseInvariance, <1>1, PTL

\* Up to donate=99 the delayed close of p.DC never hits a later donation
\* (proxy.go:265-268, 421-422).
THEOREM CloseIsSafe == DonateLevel <= 99 => (Spec => CloseSparesLiveDonation)
<1> SUFFICES ASSUME DonateLevel <= 99
             PROVE  Spec => CloseSparesLiveDonation
  OBVIOUS
<1>1. DonateInterval > DonateShutdownDelay
  BY Settings DEF DonateInterval, DonateLength, DonateCycle, DonateShutdownDelay
<1>2. CloseInv /\ [Next]_vars => [closeDue /\ ~closeDue' => ~donating]_vars
  BY <1>1 DEF CloseInv
<1> QED  BY BaseInvariance, <1>2, PTL DEF Spec, CloseSparesLiveDonation

-----------------------------------------------------------------------------
\* The layers that hold as long as login replies are well formed.
LEMMA MiningInvariance ==
  ASSUME BadLogins = {}
  PROVE  Spec => [](TypeOK /\ WorkerInv /\ JobInv /\ LastSentIsSource)
<1>1. TypeOK /\ WorkerInv /\ JobInv /\ LastSentIsSource /\ [Next]_vars
      => (TypeOK /\ WorkerInv /\ JobInv /\ LastSentIsSource)'
  BY TypeStep, WorkerStep, JobStep, MiningStep
<1> QED  BY InitInv, <1>1, PTL DEF Spec

\* A worker whose newest job has arrived, and no older one after it, mines that job.
DeliveryInv ==
  /\ DeliveryType
  /\ \A w \in Workers :
       /\ delivery[w].newest = "none" => delivery[w].older = {}
       /\ delivery[w].newest # "none" => handed[w] # NoJob
       /\ delivery[w].newest = "arrived" => delivery[w].mines = handed[w]

\* NextJob() never has another job for a worker than before without a goroutine
\* that takes it there.
LEMMA HandedIsSent ==
  ASSUME TypeOK, WorkerInv, ProxyStep
  PROVE  \E to \in SUBSET Workers :
           /\ SendTo(to)
           /\ \A w \in Workers : \/ handed'[w] = NoJob \/ handed'[w] = handed[w]
                                 \/ w \in to /\ crashed' = "no"
<1> DEFINE Connected == {w \in workers : conn[w] = "in"}
           Fine(to) == \A w \in Workers : \/ handed'[w] = NoJob
                                          \/ handed'[w] = handed[w]
                                          \/ w \in to /\ crashed' = "no"
<1> USE JobIds, Settings DEF jobVars, netVars, timerVars, workerVars, shareVars
<1>1. Connected \in SUBSET Workers
  BY DEF TypeOK, WorkerType
<1>0. crashed = "no"
  BY DEF ProxyStep, Quiet, Running, LoginFails, Login, DonateLogin, PoolNotify,
     DonorNotify, TakeSubmission, PoolAnswers, PoolCallFails, TakeDonation, DonorAnswers,
     DonorCallFails, PoolRefuses, Submit, AddWorker, DelWorker, Connect, Leave, GetJob,
     DonateFails, DonateStarts, CloseDC, KeepaliveFails, Shutdown, Expire, OrphanFloods,
     PoolLost, DonorLost, TakeNotify, TakeDNotify, DonateJob, DonateEnd
<1>2. ASSUME NEW job \in Jobs \cup {NoJob}, Broadcast(job)
      PROVE  Fine(Connected)
  BY <1>0, <1>2 DEF Broadcast, TypeOK, WorkerType
<1>3. CASE Quiet /\ SendTo({})
  <2>1. Fine({})
    <3>1. ASSUME NEW job \in PoolJobs \cup BadLogins, Login(job)
          PROVE  handed' = handed
      <4>1. workers = {}
        BY <3>1 DEF Login, WorkerInv
      <4>2. ASSUME Broadcast(job)
            PROVE  handed' = handed
        BY <4>1, <4>2 DEF Broadcast, TypeOK, WorkerType
      <4> QED  BY <3>1, <4>2 DEF Login, HandleJob, Panic
    <3>2. ASSUME NEW w \in Workers,
                 AddWorker(w) \/ DelWorker(w) \/ Connect(w) \/ Leave(w)
          PROVE  Fine({})
      BY <3>2 DEF AddWorker, DelWorker, Connect, Leave, TypeOK, WorkerType
    <3>3. CASE Shutdown
      BY <3>3 DEF Shutdown, TypeOK, WorkerType
    <3>4. CASE \/ LoginFails \/ CloseDC \/ KeepaliveFails \/ Expire
               \/ OrphanFloods \/ PoolLost \/ DonorLost
      BY <3>4 DEF LoginFails, CloseDC, KeepaliveFails, Expire, OrphanFloods,
         PoolLost, DonorLost
    <3>5. CASE \/ \E job : DonateLogin(job) \/ PoolNotify(job) \/ DonorNotify(job)
               \/ \E leaks : DonateFails(leaks)
      BY <3>5 DEF DonateLogin, DonateStarts, PoolNotify, DonorNotify, DonateFails
    <3>6. ASSUME NEW r \in Requests,
                 \/ TakeSubmission(r) \/ PoolAnswers(r) \/ PoolCallFails(r)
                 \/ TakeDonation(r) \/ DonorAnswers(r) \/ DonorCallFails(r)
                 \/ \E banned \in BOOLEAN : PoolRefuses(r, banned)
                 \/ \E s \in Shares : Submit(r, s)
          PROVE  handed' = handed
      BY <3>6 DEF TakeSubmission, PoolAnswers, PoolCallFails, TakeDonation,
         DonorAnswers, DonorCallFails, PoolRefuses, Submit
    <3> QED  BY <1>3, <3>1, <3>2, <3>3, <3>4, <3>5, <3>6 DEF Quiet
  <2> QED  BY <1>3, <2>1
<1>4. ASSUME NEW w \in Workers, GetJob(w), SendTo({w})
      PROVE  \E to \in SUBSET Workers : SendTo(to) /\ Fine(to)
  <2>1. Fine({w})
    BY <1>0, <1>4 DEF GetJob, Panic, TypeOK, WorkerType
  <2> QED  BY <1>4, <2>1
<1>5. CASE TakeNotify /\ BroadcastIf(Head(notify) \in PoolJobs /\ ~donating)
  <2>1. CASE Head(notify) \in PoolJobs /\ ~donating
    <3>1. Broadcast(Head(notify)) /\ Head(notify) \in Jobs
      BY <1>5, <2>1 DEF TakeNotify, HandleJob, Jobs
    <3> QED  BY <1>1, <1>2, <1>5, <2>1, <3>1 DEF BroadcastIf
  <2>2. CASE ~(Head(notify) \in PoolJobs /\ ~donating)
    <3>1. Head(notify) \in PoolJobs \cup {"undecodable", "truncated"}
      BY <1>5 DEF TakeNotify, TypeOK, NetType
    <3>2. handed' = handed
      BY <1>5, <2>2, <3>1 DEF TakeNotify, HandleJob, Panic
    <3> QED  BY <1>5, <2>2, <3>2 DEF BroadcastIf
  <2> QED  BY <2>1, <2>2
<1>6. CASE TakeDNotify /\ BroadcastIf(Head(dnotify) \in DonorJobs /\ donating)
  <2>1. CASE Head(dnotify) \in DonorJobs /\ donating
    <3>1. Broadcast(Head(dnotify)) /\ Head(dnotify) \in Jobs
      BY <1>6, <2>1 DEF TakeDNotify, HandleDonateJob, Jobs
    <3> QED  BY <1>1, <1>2, <1>6, <2>1, <3>1 DEF BroadcastIf
  <2>2. CASE ~(Head(dnotify) \in DonorJobs /\ donating)
    <3>1. Head(dnotify) \in DonorJobs \cup {"undecodable", "truncated"}
      BY <1>6 DEF TakeDNotify, TypeOK, NetType
    <3>2. handed' = handed
      BY <1>6, <2>2, <3>1 DEF TakeDNotify, HandleDonateJob, Panic
    <3> QED  BY <1>6, <2>2, <3>2 DEF BroadcastIf
  <2> QED  BY <2>1, <2>2
<1>7. CASE DonateJob /\ BroadcastIf(loginJob \in DonorJobs)
  <2>1. CASE loginJob \in DonorJobs
    <3>1. Broadcast(loginJob) \/ handed' = handed
      BY <1>7, <2>1 DEF DonateJob, HandleDonateJob, Jobs
    <3> QED  BY <1>1, <1>2, <1>7, <2>1, <3>1 DEF BroadcastIf, Jobs
  <2>2. CASE loginJob \notin DonorJobs
    <3>1. loginJob \in {"undecodable", "truncated", NoJob}
      BY <2>2 DEF TypeOK, LoopType
    <3>2. ASSUME Broadcast(NoJob)
          PROVE  handed' = handed
      BY <3>2 DEF Broadcast, TypeOK, WorkerType
    <3>3. handed' = handed
      BY <1>7, <3>1, <3>2 DEF DonateJob, HandleDonateJob, Panic
    <3> QED  BY <1>7, <2>2, <3>3 DEF BroadcastIf
  <2> QED  BY <2>1, <2>2
<1>8. CASE DonateEnd /\ BroadcastIf(donating)
  <2>1. CASE donating
    <3>1. Broadcast(currentJob)
      BY <1>8, <2>1 DEF DonateEnd, Undonate, HandleJob
    <3>2. currentJob \in Jobs \cup {NoJob}
      BY DEF TypeOK, JobType, Jobs
    <3> QED  BY <1>1, <1>2, <1>8, <2>1, <3>1, <3>2 DEF BroadcastIf
  <2>2. CASE ~donating
    <3>1. handed' = handed
      BY <1>8, <2>2 DEF DonateEnd
    <3> QED  BY <1>8, <2>2, <3>1 DEF BroadcastIf
  <2> QED  BY <2>1, <2>2
<1> QED  BY <1>3, <1>4, <1>5, <1>6, <1>7, <1>8 DEF ProxyStep

\* A step of the deliveries is a step of the proxy or leaves it alone.
LEMMA DeliveriesStep == [DNext]_dvars => [Next]_vars
BY DEF DNext, dvars, ProxyStep, Arrives, ArrivesLate, Next

LEMMA DeliveryStep ==
  TypeOK /\ WorkerInv /\ DeliveryInv /\ [DNext]_dvars => DeliveryInv'
<1> SUFFICES ASSUME TypeOK, WorkerInv, DeliveryInv, [DNext]_dvars
             PROVE  DeliveryInv'
  OBVIOUS
<1> USE JobIds DEF DeliveryInv, DeliveryType
<1>1. CASE ProxyStep
  <2>1. PICK to \in SUBSET Workers :
          /\ SendTo(to)
          /\ \A w \in Workers : \/ handed'[w] = NoJob \/ handed'[w] = handed[w]
                                \/ w \in to /\ crashed' = "no"
    BY <1>1, HandedIsSent
  <2>2. ASSUME NEW w \in Workers
        PROVE  /\ SentOff(w) \in [mines : Jobs \cup {NoJob}, older : SUBSET Jobs,
                                  newest : {"none", "coming", "arrived", "overtaken"}]
               /\ SentOff(w).newest = "coming"
    <3>1. delivery[w].newest = "coming" => handed[w] \in Jobs
      BY DEF TypeOK, WorkerType
    <3>2. delivery[w] \in [mines : Jobs \cup {NoJob}, older : SUBSET Jobs,
                           newest : {"none", "coming", "arrived", "overtaken"}]
      OBVIOUS
    <3> QED  BY <3>1, <3>2 DEF SentOff
  <2>3. Nothing \in [mines : Jobs \cup {NoJob}, older : SUBSET Jobs,
                     newest : {"none", "coming", "arrived", "overtaken"}]
    BY DEF Nothing
  <2>4. DeliveryType'
    BY <2>1, <2>2, <2>3 DEF SendTo
  <2>5. ASSUME NEW w \in Workers
        PROVE  /\ delivery'[w].newest = "none" => delivery'[w].older = {}
               /\ delivery'[w].newest # "none" => handed'[w] # NoJob
               /\ delivery'[w].newest = "arrived" => delivery'[w].mines = handed'[w]
    BY <2>1, <2>2 DEF SendTo, Nothing
  <2> QED  BY <2>4, <2>5
<1>2. ASSUME NEW w \in Workers, Arrives(w)
      PROVE  DeliveryInv'
  <2>1. handed' = handed /\ handed[w] \in Jobs \cup {NoJob}
    BY <1>2 DEF Arrives, vars, workerVars, TypeOK, WorkerType
  <2> QED  BY <1>2, <2>1 DEF Arrives
<1>3. ASSUME NEW w \in Workers, NEW job \in Jobs, ArrivesLate(w, job)
      PROVE  DeliveryInv'
  <2>1. PICK older \in SUBSET Jobs :
          delivery' = [delivery EXCEPT
                         ![w] = [mines  |-> job,
                                 older  |-> older,
                                 newest |-> IF @.newest = "coming"
                                            THEN "coming" ELSE "overtaken"]]
    BY <1>3 DEF ArrivesLate
  <2>2. handed' = handed /\ handed[w] # NoJob
    BY <1>3 DEF ArrivesLate, vars
  <2> QED  BY <2>1, <2>2
<1>4. CASE UNCHANGED dvars
  BY <1>4 DEF dvars, vars
<1> QED  BY <1>1, <1>2, <1>3, <1>4 DEF DNext

\* A worker that has the newest job mines what NextJob() would return now, whatever
\* the order of jobs, donations, calls and deliveries (proxy.go:269, 277, 291, 307).
THEOREM SourceIsMined == DSpec => []MinesTheSource
<1>1. CASE BadLogins = {}
  <2>1. DSpec => Spec
    BY DeliveriesStep, PTL DEF DSpec, DInit, Spec
  <2>2. DInit => DeliveryInv
    BY JobIds DEF DInit, DeliveryInv, DeliveryType, Nothing
  <2>3. TypeOK /\ WorkerInv /\ LastSentIsSource /\ DeliveryInv => MinesTheSource
    BY DEF WorkerInv, LastSentIsSource, DeliveryInv, MinesTheSource
  <2> QED  BY <1>1, <2>1, <2>2, <2>3, DeliveryStep, MiningInvariance, PTL DEF DSpec
<1>2. CASE BadLogins # {}
  <2>1. MinesTheSource
    BY <1>2 DEF MinesTheSource
  <2> QED  BY <2>1, PTL
<1> QED  BY <1>1, <1>2

\* run() itself never hands out the empty job: a worker can only meet it inside
\* donate() (proxy.go:249-255).
THEOREM EmptyJobConfined == Spec => []EmptyJobOnlyInWindow
<1>1. CASE BadLogins = {}
  <2>1. TypeOK /\ JobInv => EmptyJobOnlyInWindow
    BY DEF JobInv, EmptyJobOnlyInWindow, Source
  <2> QED  BY <1>1, <2>1, MiningInvariance, PTL
<1>2. CASE BadLogins # {}
  <2>1. EmptyJobOnlyInWindow
    BY <1>2 DEF EmptyJobOnlyInWindow
  <2> QED  BY <2>1, PTL
<1> QED  BY <1>1, <1>2

-----------------------------------------------------------------------------
(* The proxy keeps the promise of ProxyService. *)

LEMMA ServiceInit == Init => Service!Init
BY DEF Init, Service!Init, Status

\* What ProxyService sees does not change.
LEMMA Unseen ==
  ASSUME conn' = conn,
         loop' = loop \/ {loop, loop'} \subseteq {"select", "calling", "donate"}
  PROVE  UNCHANGED Service!vars
<1>1. Status' = Status
  BY DEF Status
<1> QED  BY <1>1 DEF Service!vars

LEMMA ReturnSeen ==
  ASSUME conn' = conn, loop \in {"select", "calling"}, loop' = "returning"
  PROVE  Service!Next
<1>1. Status = "running" /\ Status' = "returned"
  BY DEF Status
<1> QED  BY <1>1 DEF Service!Next, Service!Return, Service!Becomes

\* Both count with the same definition.
LEMMA SameSize ==
  ASSUME NEW S
  PROVE  Service!Cardinality(S) = Cardinality(S)
BY Zenon DEF Service!Cardinality, Cardinality

LEMMA ServiceKept ==
  ASSUME TypeOK, WorkerInv, CountInv, [Next]_vars
  PROVE  [Service!Next]_(Service!vars)
<1> USE DEF jobVars, netVars, timerVars, workerVars, shareVars
<1>1. ASSUME NEW job \in PoolJobs \cup BadLogins, Login(job)
      PROVE  [Service!Next]_(Service!vars)
  <2>1. CASE job = "truncated"
    BY <1>1, <2>1, Unseen DEF Login, Panic
  <2>2. CASE job # "truncated"
    <3>1. loop = "login" /\ loop' = "select" /\ conn' = conn
      BY <1>1, <2>2 DEF Login
    <3>2. Status = "login" /\ Status' = "running"
      BY <3>1 DEF Status
    <3> QED  BY <3>1, <3>2 DEF Service!Next, Service!Login, Service!Becomes
  <2> QED  BY <2>1, <2>2
<1>2. ASSUME NEW r \in Requests,
             \/ TakeSubmission(r) \/ PoolAnswers(r) \/ PoolCallFails(r)
             \/ TakeDonation(r) \/ DonorAnswers(r) \/ DonorCallFails(r)
             \/ \E banned \in BOOLEAN : PoolRefuses(r, banned)
      PROVE  [Service!Next]_(Service!vars)
  <2>1. /\ conn' = conn /\ loop \in {"select", "calling"}
        /\ loop' \in {"select", "calling", "returning"}
    BY <1>2 DEF TakeSubmission, PoolAnswers, PoolCallFails, TakeDonation, DonorAnswers,
       DonorCallFails, PoolRefuses
  <2>2. CASE loop' = "returning"
    BY <2>1, <2>2, ReturnSeen
  <2>3. CASE loop' # "returning"
    BY <2>1, <2>3, Unseen
  <2> QED  BY <2>2, <2>3
<1>3. CASE KeepaliveFails
  BY <1>3, ReturnSeen DEF KeepaliveFails
<1>4. ASSUME \/ LoginFails \/ TakeNotify \/ TakeDNotify \/ DonateJob \/ DonateEnd \/ CloseDC
             \/ OrphanFloods \/ PoolLost \/ DonorLost \/ UNCHANGED vars
             \/ \E job : DonateLogin(job) \/ PoolNotify(job) \/ DonorNotify(job)
             \/ \E leaks : DonateFails(leaks)
             \/ \E w : GetJob(w)
             \/ \E r, s : Submit(r, s)
      PROVE  [Service!Next]_(Service!vars)
  <2>1. /\ conn' = conn
        /\ loop' = loop \/ {loop, loop'} \subseteq {"select", "calling", "donate"}
    BY <1>4 DEF LoginFails, TakeNotify, TakeDNotify, DonateJob, DonateEnd, CloseDC,
       OrphanFloods, PoolLost, DonorLost, vars, DonateLogin, DonateStarts, PoolNotify,
       DonorNotify, DonateFails, GetJob, Submit, Panic
  <2> QED  BY <2>1, Unseen
<1>5. ASSUME NEW w \in Workers, Connect(w) \/ AddWorker(w) \/ Leave(w) \/ DelWorker(w)
      PROVE  [Service!Next]_(Service!vars)
  <2>1. loop' = loop /\ Status' = Status
    BY <1>5 DEF Connect, AddWorker, Leave, DelWorker, Status
  <2>2. CASE Connect(w)
    <3>1. Service!Served = workers
      BY DEF Service!Served, WorkerInv
    <3>2. Cardinality(Service!Served) < MaxWorkers
      BY <2>2, <3>1 DEF Connect, IsReady, CountInv, CountMatches
    <3>3. Status \in {"login", "running", "returned"}
      BY <2>2 DEF Connect, IsReady, Status, TypeOK, LoopType
    <3>4. Service!Connect(w)
      BY <2>1, <2>2, <3>2, <3>3, SameSize DEF Connect, Service!Connect, Service!Goes
    <3> QED  BY <3>4 DEF Service!Next
  <2>3. CASE AddWorker(w)
    <3>1. Status = "running"
      BY <2>3 DEF AddWorker, Status
    <3>2. Service!Add(w)
      BY <2>1, <2>3, <3>1 DEF AddWorker, Service!Add, Service!Goes
    <3> QED  BY <3>2 DEF Service!Next
  <2>4. CASE Leave(w)
    <3>1. w \in workers
      BY <2>4 DEF Leave, WorkerInv
    <3>2. loop \notin {"login", "draining", "gone"}
      BY <2>4, <3>1 DEF Leave, WorkerInv
    <3>3. Status \in {"running", "returned"}
      BY <3>2 DEF Status, TypeOK, LoopType
    <3>4. Service!Leave(w)
      BY <2>1, <2>4, <3>3 DEF Leave, Service!Leave, Service!Goes
    <3> QED  BY <3>4 DEF Service!Next
  <2>5. CASE DelWorker(w)
    <3>1. Status # "login"
      BY <2>5 DEF DelWorker, Status
    <3>2. Service!Remove(w)
      BY <2>1, <2>5, <3>1 DEF DelWorker, Service!Remove, Service!Goes
    <3> QED  BY <3>2 DEF Service!Next
  <2> QED  BY <1>5, <2>2, <2>3, <2>4, <2>5
<1>6. CASE Shutdown
  <2>1. Status = "returned" /\ Status' = "draining"
    BY <1>6 DEF Shutdown, Status
  <2>2. conn' = [w \in Workers |-> IF conn[w] = "in" THEN "leaving" ELSE conn[w]]
    BY <1>6 DEF Shutdown, WorkerInv
  <2> QED  BY <2>1, <2>2 DEF Service!Next, Service!Shutdown, Service!Becomes
<1>7. CASE Expire
  <2>1. Status = "draining" /\ Status' = "gone" /\ conn' = conn
    BY <1>7 DEF Expire, Status
  <2> QED  BY <2>1 DEF Service!Next, Service!Forget, Service!Becomes
<1> QED
  BY <1>1, <1>2, <1>3, <1>4, <1>5, <1>6, <1>7 DEF Next, Quiet

\* Whatever run() does with jobs, shares and donations, and whatever becomes of its
\* servers, the proxy serves its workers as ProxyService promises, for any number
\* of them (proxy.go:401-440, 517-529).
THEOREM ServicePromised == Spec => ImplementsService
<1>1. TypeOK /\ WorkerInv /\ CountInv /\ [Next]_vars => [Service!Next]_(Service!vars)
  BY ServiceKept
<1> QED
  BY <1>1, ServiceInit, BaseInvariance, PTL DEF Spec, ImplementsService, Service!Spec
=============================================================================
