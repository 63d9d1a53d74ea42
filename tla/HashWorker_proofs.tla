------------------------- MODULE HashWorker_proofs -------------------------
(***************************************************************************)
(* Safety of the hashing worker for any set of jobs and any bounds, and    *)
(* that its mining side implements HashRounds (its liveness is TLC's).     *)
(***************************************************************************)
EXTENDS HashWorker, TLAPS

USE HashWorkerAssumption

\* The start-up: the dependency is the only thing that keeps run() back.
StartInv ==
  /\ ~evaluated => deps = 0 /\ ~calledRun /\ ~up
  /\ deps = 1 => hook /\ native /\ ~calledRun /\ ~up
  /\ native /\ calledRun => up
  /\ ~up => posted = <<>> /\ out = <<>> /\ chain = 0 /\ ~heard
  /\ heard => up

\* A mining worker holds one thing at a time and the blob of its job.
MiningInv ==
  role = "mining" =>
    /\ blob = job
    /\ chain = 1 => job # NoJob /\ posted = <<>> /\ out = <<>>
    /\ posted = <<>> \/ (out = <<>> /\ Len(posted) = 1 /\ posted[1].kind # "verify")
    /\ out = <<>> \/ (/\ Len(out) = 1
                      /\ out[1].kind \in {"found", "nothing", "ready"}
                      /\ out[1].kind # "ready" => /\ out[1].job = job /\ out[1].blob = job
                                                  /\ job # NoJob)
    /\ up /\ ~heard => Len(out) = 1 /\ out[1] = [kind |-> "ready"]
    /\ heard /\ out # <<>> => out[1].kind # "ready"

\* A verifying worker has no rounds.
VerifyingInv ==
  role = "verifying" =>
    /\ chain = 0
    /\ \A i \in 1..Len(posted) : posted[i].kind = "verify"
    /\ \A i \in 1..Len(out) : out[i].kind # "found"

Inv == TypeOK /\ StartInv /\ MiningInv /\ VerifyingInv

\* Sequences with what is appended and what is left.
LEMMA Appended ==
  ASSUME NEW A, NEW s \in Seq(A), NEW x \in A
  PROVE  /\ Append(s, x) \in Seq(A) /\ Len(Append(s, x)) = Len(s) + 1
         /\ Append(s, x) # <<>> /\ Append(s, x)[Len(s) + 1] = x
         /\ \A i \in 1..Len(s) : Append(s, x)[i] = s[i]
  <1>1. Append(s, x) \in Seq(A) /\ Len(Append(s, x)) = Len(s) + 1 /\ Len(s) \in Nat
    OBVIOUS
  <1>2. Append(s, x) # <<>>
    BY <1>1
  <1> QED BY <1>1, <1>2

LEMMA Rest ==
  ASSUME NEW A, NEW s \in Seq(A), s # <<>>
  PROVE  /\ Tail(s) \in Seq(A) /\ Len(Tail(s)) = Len(s) - 1
         /\ Head(s) = s[1] /\ s[1] \in A /\ Len(s) \in Nat /\ Len(s) >= 1
         /\ \A i \in 1..Len(Tail(s)) : Tail(s)[i] = s[i + 1]
         /\ Len(s) = 1 => Tail(s) = <<>>
  <1>1. Len(s) \in Nat /\ Len(s) >= 1 /\ Head(s) = s[1] /\ s[1] \in A
    OBVIOUS
  <1>2. Tail(s) \in Seq(A) /\ Len(Tail(s)) = Len(s) - 1
    OBVIOUS
  <1>3. \A i \in 1..Len(Tail(s)) : Tail(s)[i] = s[i + 1]
    BY <1>1
  <1> QED BY <1>1, <1>2, <1>3

LEMMA Empty == ASSUME NEW A PROVE <<>> \in Seq(A)
  OBVIOUS

LEMMA One == ASSUME NEW A, NEW x \in A
             PROVE  /\ Append(<<>>, x) \in Seq(A) /\ Len(Append(<<>>, x)) = 1
                    /\ Append(<<>>, x)[1] = x /\ Append(<<>>, x) # <<>>
  OBVIOUS

\* One hash of the only round leaves its answer, or a timer.
LEMMA HashOnceKeeps ==
  ASSUME NEW j \in Jobs, NEW h \in 0..MaxHashes, out = <<>>, HashOnce(j, j, h, 0)
  PROVE  /\ hashes' \in 0..MaxHashes /\ out' \in Seq(Messages) /\ chain' \in 0..1
         /\ \/ /\ chain' = 0 /\ Len(out') = 1 /\ out' # <<>>
               /\ out'[1].kind \in {"found", "nothing"} /\ out'[1].job = j /\ out'[1].blob = j
            \/ chain' = 1 /\ out' = <<>>
  <1>1. Found(j, j) \in Messages /\ Nothing(j, j) \in Messages
    BY DEF Found, Nothing, Messages
  <1>2. CASE out' = Append(<<>>, Found(j, j)) /\ hashes' = 0 /\ chain' = 0
    BY <1>1, <1>2, One DEF Found
  <1>3. CASE out' = Append(<<>>, Nothing(j, j)) /\ hashes' = 0 /\ chain' = 0
    BY <1>1, <1>3, One DEF Nothing
  <1>4. CASE h + 1 < MaxHashes /\ hashes' = h + 1 /\ chain' = 1 /\ out' = <<>>
    BY <1>4, Empty
  <1> QED BY <1>2, <1>3, <1>4 DEF HashOnce

LEMMA InitInv == Init => Inv
  <1>1. Init => TypeOK
    <2> SUFFICES ASSUME Init PROVE TypeOK
      OBVIOUS
    <2>1. /\ native \in BOOLEAN /\ evaluated \in BOOLEAN /\ hook \in BOOLEAN
          /\ calledRun \in BOOLEAN /\ aborted \in BOOLEAN /\ up \in BOOLEAN /\ heard \in BOOLEAN
      BY Zenon DEF Init
    <2>2. posted \in Seq(Requests) /\ out \in Seq(Messages)
      BY Empty DEF Init
    <2>3. deps \in 0..1 /\ hashes \in 0..MaxHashes /\ chain \in 0..1
      BY DEF Init
    <2> QED BY <2>1, <2>2, <2>3 DEF Init, TypeOK
  <1>2. Init => StartInv /\ MiningInv /\ VerifyingInv
    BY DEF Init, StartInv, MiningInv, VerifyingInv
  <1> QED BY <1>1, <1>2 DEF Inv

\* Every task keeps Inv.
LEMMA StepInv == Inv /\ [Next]_vars => Inv'
  <1> SUFFICES ASSUME Inv, [Next]_vars PROVE Inv'
    OBVIOUS
  <1> USE DEF startVars, workVars
  <1>0. TypeOK /\ StartInv /\ MiningInv /\ VerifyingInv
    BY DEF Inv
  <1>1. ASSUME Evaluate PROVE Inv'
    BY <1>0, <1>1 DEF Evaluate, Inv, TypeOK, StartInv, MiningInv, VerifyingInv
  <1>2. ASSUME WasmArrives PROVE Inv'
    <2>1. hook /\ ~up /\ ~calledRun /\ out = <<>> /\ posted = <<>> /\ chain = 0 /\ ~heard
      BY <1>0, <1>2 DEF WasmArrives, StartInv
    <2>2. [kind |-> "ready"] \in Messages
      BY DEF Messages
    <2>3. /\ out' \in Seq(Messages) /\ Len(out') = 1 /\ out' # <<>>
          /\ out'[1] = [kind |-> "ready"]
      BY <1>2, <2>1, <2>2, One DEF WasmArrives
    <2>4. TypeOK'
      BY <1>0, <1>2, <2>1, <2>3 DEF WasmArrives, TypeOK
    <2>5. StartInv'
      BY <1>0, <1>2, <2>1 DEF WasmArrives, StartInv
    <2>6. MiningInv' /\ VerifyingInv'
      BY <1>0, <1>2, <2>1, <2>3 DEF WasmArrives, MiningInv, VerifyingInv
    <2> QED BY <2>4, <2>5, <2>6 DEF Inv
  <1>3. ASSUME WasmFails PROVE Inv'
    BY <1>0, <1>3 DEF WasmFails, Inv, TypeOK, StartInv, MiningInv, VerifyingInv
  <1>4. ASSUME PageTakes PROVE Inv'
    <2>1. /\ out' = Tail(out) /\ out # <<>> /\ heard'
          /\ UNCHANGED <<startVars, posted, workVars>>
      BY <1>4 DEF PageTakes
    <2>2. out \in Seq(Messages)
      BY <1>0 DEF TypeOK
    <2>3. /\ out' \in Seq(Messages) /\ Len(out') = Len(out) - 1 /\ Len(out) \in Nat
          /\ \A i \in 1..Len(out') : out'[i] = out[i + 1]
          /\ Len(out) = 1 => out' = <<>>
      BY <2>1, <2>2, Rest
    <2>4. TypeOK' /\ StartInv'
      BY <1>0, <1>4, <2>1, <2>3 DEF PageTakes, TypeOK, StartInv
    <2>5. MiningInv'
      BY <1>0, <2>1, <2>3 DEF MiningInv
    <2>6. VerifyingInv'
      <3> SUFFICES ASSUME role = "verifying", NEW i \in 1..Len(out') PROVE out'[i].kind # "found"
        BY <1>0, <2>1 DEF VerifyingInv
      <3>1. i + 1 \in 1..Len(out) /\ out'[i] = out[i + 1]
        BY <2>3
      <3> QED BY <1>0, <3>1 DEF VerifyingInv
    <2> QED BY <2>4, <2>5, <2>6 DEF Inv
  <1>5. ASSUME PageAsks PROVE Inv'
    <2>1. PICK r \in Requests :
            /\ IF role = "mining" THEN Resting /\ r.kind # "verify" ELSE r.kind = "verify"
            /\ posted' = Append(posted, r)
      BY <1>5 DEF PageAsks
    <2>2. heard /\ up /\ UNCHANGED <<startVars, out, heard, workVars>>
      BY <1>0, <1>5 DEF PageAsks, StartInv
    <2>3. posted \in Seq(Requests)
      BY <1>0 DEF TypeOK
    <2>4. /\ posted' \in Seq(Requests) /\ Len(posted') = Len(posted) + 1 /\ Len(posted) \in Nat
          /\ posted' # <<>> /\ posted'[Len(posted) + 1] = r
          /\ \A i \in 1..Len(posted) : posted'[i] = posted[i]
      BY <2>1, <2>3, Appended
    <2>5. TypeOK' /\ StartInv'
      BY <1>0, <2>2, <2>4 DEF TypeOK, StartInv
    <2>6. MiningInv'
      <3> SUFFICES ASSUME role = "mining" PROVE MiningInv'
        BY <2>2 DEF MiningInv
      <3>1. posted = <<>> /\ out = <<>> /\ chain = 0 /\ r.kind # "verify" /\ blob = job
        BY <1>0, <2>1 DEF Resting, MiningInv
      <3>2. Len(posted') = 1 /\ posted'[1] = r
        BY <2>4, <3>1
      <3> QED BY <2>2, <3>1, <3>2 DEF MiningInv
    <2>7. VerifyingInv'
      BY <1>0, <2>1, <2>2, <2>4 DEF VerifyingInv
    <2> QED BY <2>5, <2>6, <2>7 DEF Inv
  <1>6. ASSUME HandleJob PROVE Inv'
    <2>1. posted \in Seq(Requests) /\ posted # <<>> /\ Head(posted) = posted[1]
          /\ posted[1] \in Requests /\ 1 \in 1..Len(posted) /\ posted[1].kind # "verify"
      BY <1>0, <1>6, Rest DEF HandleJob, TypeOK
    <2>2. role = "mining"
      BY <1>0, <2>1 DEF VerifyingInv, TypeOK
    <2>3. out = <<>> /\ chain = 0 /\ Len(posted) = 1 /\ blob = job /\ up /\ heard
      BY <1>0, <2>1, <2>2, <1>6 DEF MiningInv, TypeOK, HandleJob
    <2>4. posted' = <<>>
      BY <1>6, <2>1, <2>3, Rest DEF HandleJob
    <2> DEFINE j == posted[1].job
    <2>5. j \in Jobs /\ Loaded(posted[1]) = j /\ job' = j /\ blob' = j
      BY <1>6, <2>1, <2>3 DEF HandleJob, Requests, Loaded
    <2>6. \/ HashOnce(j, j, 0, 0)
          \/ /\ out' \in {Append(<<>>, Found(j, j)), Append(<<>>, Nothing(j, j))}
             /\ hashes' = hashes /\ chain' = 0
      BY <1>6, <2>1, <2>3, <2>5 DEF HandleJob
    <2>7. UNCHANGED <<startVars, heard>>
      BY <1>6 DEF HandleJob
    <2> HIDE DEF j
    <2>8. /\ hashes' \in 0..MaxHashes /\ out' \in Seq(Messages) /\ chain' \in 0..1
          /\ \/ /\ chain' = 0 /\ Len(out') = 1 /\ out' # <<>>
                /\ out'[1].kind \in {"found", "nothing"} /\ out'[1].job = j /\ out'[1].blob = j
             \/ chain' = 1 /\ out' = <<>>
      <3>1. CASE HashOnce(j, j, 0, 0)
        BY <2>3, <2>5, <3>1, HashOnceKeeps
      <3>2. CASE out' = Append(<<>>, Found(j, j)) /\ hashes' = hashes /\ chain' = 0
        <4>1. Found(j, j) \in Messages
          BY <2>5 DEF Found, Messages
        <4> QED BY <1>0, <3>2, <4>1, One DEF Found, TypeOK
      <3>3. CASE out' = Append(<<>>, Nothing(j, j)) /\ hashes' = hashes /\ chain' = 0
        <4>1. Nothing(j, j) \in Messages
          BY <2>5 DEF Nothing, Messages
        <4> QED BY <1>0, <3>3, <4>1, One DEF Nothing, TypeOK
      <3> QED BY <2>6, <3>1, <3>2, <3>3
    <2>9. TypeOK'
      <3>1. posted' \in Seq(Requests) /\ job' \in Jobs /\ blob' \in Jobs
        BY <2>4, <2>5
      <3> QED BY <1>0, <2>7, <2>8, <3>1 DEF TypeOK
    <2>10. StartInv' /\ VerifyingInv'
      BY <1>0, <2>2, <2>3, <2>7 DEF StartInv, VerifyingInv
    <2>11. MiningInv'
      BY <2>2, <2>3, <2>4, <2>5, <2>7, <2>8 DEF MiningInv
    <2> QED BY <2>9, <2>10, <2>11 DEF Inv
  <1>7. ASSUME HandleVerify PROVE Inv'
    <2>1. posted \in Seq(Requests) /\ posted # <<>> /\ Head(posted) = posted[1]
          /\ posted[1] \in Requests /\ posted[1].kind = "verify" /\ posted' = Tail(posted)
      BY <1>0, <1>7, Rest DEF HandleVerify, TypeOK
    <2>2. role = "verifying"
      BY <1>0, <2>1 DEF MiningInv, TypeOK
    <2> DEFINE x == [kind |-> "verified", job |-> job, blob |-> posted[1].job]
    <2>3. blob' \in Jobs /\ x \in Messages /\ out' = Append(out, x)
      BY <1>0, <1>7, <2>1 DEF HandleVerify, Requests, Messages, TypeOK
    <2>4. UNCHANGED <<startVars, heard, job, hashes, chain>> /\ up
      BY <1>7 DEF HandleVerify
    <2>5. x.kind # "found"
      OBVIOUS
    <2> HIDE DEF x
    <2>6. /\ out \in Seq(Messages) /\ out' \in Seq(Messages) /\ Len(out') = Len(out) + 1
          /\ Len(out) \in Nat /\ out'[Len(out) + 1] = x
          /\ \A i \in 1..Len(out) : out'[i] = out[i]
      BY <1>0, <2>3, Appended DEF TypeOK
    <2>7. /\ posted' \in Seq(Requests) /\ Len(posted') = Len(posted) - 1 /\ Len(posted) \in Nat
          /\ \A i \in 1..Len(posted') : posted'[i] = posted[i + 1]
      BY <2>1, Rest
    <2>8. TypeOK'
      BY <1>0, <2>3, <2>4, <2>6, <2>7 DEF TypeOK
    <2>9. StartInv' /\ MiningInv'
      BY <1>0, <2>2, <2>4 DEF StartInv, MiningInv
    <2>10. VerifyingInv'
      <3>1. ASSUME NEW i \in 1..Len(out') PROVE out'[i].kind # "found"
        BY <1>0, <2>2, <2>5, <2>6 DEF VerifyingInv
      <3>2. ASSUME NEW i \in 1..Len(posted') PROVE posted'[i].kind = "verify"
        <4>1. i + 1 \in 1..Len(posted) /\ posted'[i] = posted[i + 1]
          BY <2>7
        <4> QED BY <1>0, <2>2, <4>1 DEF VerifyingInv
      <3> QED BY <1>0, <2>2, <2>4, <3>1, <3>2 DEF VerifyingInv
    <2> QED BY <2>8, <2>9, <2>10 DEF Inv
  <1>8. ASSUME TimerFires PROVE Inv'
    <2>1. role = "mining" /\ chain = 1
      BY <1>0, <1>8 DEF TimerFires, VerifyingInv, TypeOK
    <2>2. posted = <<>> /\ out = <<>> /\ blob = job /\ job \in Jobs /\ up /\ heard
      BY <1>0, <2>1 DEF MiningInv, TypeOK, StartInv
    <2>3. HashOnce(job, job, hashes, 0) /\ UNCHANGED <<startVars, posted, heard, job, blob>>
      BY <1>8, <2>1, <2>2 DEF TimerFires
    <2>4. /\ hashes' \in 0..MaxHashes /\ out' \in Seq(Messages) /\ chain' \in 0..1
          /\ \/ /\ chain' = 0 /\ Len(out') = 1 /\ out' # <<>>
                /\ out'[1].kind \in {"found", "nothing"} /\ out'[1].job = job
                /\ out'[1].blob = job
             \/ chain' = 1 /\ out' = <<>>
      BY <1>0, <2>2, <2>3, HashOnceKeeps DEF TypeOK
    <2>5. TypeOK' /\ StartInv' /\ VerifyingInv'
      <3>1. TypeOK'
        BY <1>0, <2>3, <2>4 DEF TypeOK
      <3> QED BY <1>0, <2>1, <2>2, <2>3, <3>1 DEF StartInv, VerifyingInv
    <2>6. MiningInv'
      BY <2>1, <2>2, <2>3, <2>4 DEF MiningInv
    <2> QED BY <2>5, <2>6 DEF Inv
  <1>9. CASE UNCHANGED vars
    BY <1>0, <1>9 DEF vars, Inv, TypeOK, StartInv, MiningInv, VerifyingInv
  <1> QED BY <1>1, <1>2, <1>3, <1>4, <1>5, <1>6, <1>7, <1>8, <1>9 DEF Next

\* Inv holds throughout.
THEOREM Invariance == Safety => []Inv
  BY InitInv, StepInv, PTL DEF Safety

\* One request, one chain of timers and one dependency at most.
THEOREM TypeCorrect == Safety => []TypeOK
  BY Invariance, PTL DEF Inv

\* What is reported as a share of a job was hashed from the blob of that job.
THEOREM SharesMatch == Safety => []ShareMatchesJob
  <1>1. Inv => ShareMatchesJob
    <2> SUFFICES ASSUME Inv, NEW i \in DOMAIN out, out[i].kind = "found"
                 PROVE  out[i].blob = out[i].job
      BY DEF ShareMatchesJob
    <2>1. DOMAIN out = 1..Len(out)
      BY DEF Inv, TypeOK
    <2>2. role = "mining"
      BY <2>1 DEF Inv, TypeOK, VerifyingInv
    <2> QED BY <2>1, <2>2 DEF Inv, MiningInv
  <1> QED BY <1>1, Invariance, PTL

\* The worker that has run has announced itself.
THEOREM HookInTime == Safety => []RunsWithItsHook
  BY Invariance, PTL DEF Inv, StartInv, RunsWithItsHook

\* Every task of the worker is a step of HashRounds or none.
LEMMA StepRefines == Inv /\ Inv' /\ [Next]_vars => [Rounds!Next]_(Rounds!vars)
  <1> SUFFICES ASSUME Inv, Inv', [Next]_vars
               PROVE  [Rounds!Next]_(Rounds!vars)
    OBVIOUS
  <1> USE DEF startVars, workVars
  <1>a. UNCHANGED <<up, Round, Pending>> => [Rounds!Next]_(Rounds!vars)
    BY DEF Rounds!vars
  <1>b. TypeOK /\ StartInv /\ MiningInv /\ VerifyingInv /\ TypeOK' /\ StartInv' /\ MiningInv'
    BY DEF Inv
  <1>c. role' = role
    BY DEF Next, vars, Evaluate, WasmArrives, WasmFails, PageTakes, PageAsks, HandleJob,
           HandleVerify, TimerFires
  <1>1. CASE UNCHANGED <<role, up, posted, out, job, chain>>
    BY <1>1, <1>a DEF Round, Pending
  <1>2. CASE role = "verifying" /\ UNCHANGED up
    BY <1>2, <1>a, <1>c DEF Round, Pending
  <1>3. CASE WasmArrives
    <2>1. out = <<>> /\ posted = <<>> /\ chain = 0 /\ ~up /\ up'
      BY <1>3, <1>b DEF WasmArrives, StartInv
    <2>2. UNCHANGED <<role, posted, chain, job>> /\ out' = Append(<<>>, [kind |-> "ready"])
      BY <1>3, <2>1, <1>b DEF WasmArrives, StartInv
    <2>3. out' # <<>> /\ Head(out') = [kind |-> "ready"]
      BY <2>2
    <2>4. UNCHANGED <<Round, Pending>>
      BY <2>1, <2>2, <2>3 DEF Round, Pending
    <2> QED BY <2>1, <2>4 DEF Rounds!Next, Rounds!Start
  <1>4. CASE PageTakes /\ role = "mining"
    <2>1. out # <<>> /\ out' = Tail(out) /\ Len(out) = 1 /\ UNCHANGED <<posted, job, chain, up>>
      BY <1>4, <1>b DEF PageTakes, MiningInv
    <2>2. out' = <<>>
      BY <2>1, <1>b, Rest DEF TypeOK
    <2>3. Round' = Round /\ Pending' = NoAnswer
      BY <2>1, <2>2, <1>c DEF Round, Pending
    <2> QED BY <2>1, <2>3 DEF Rounds!Next, Rounds!Take, Rounds!vars
  <1>5. CASE PageAsks /\ role = "mining"
    <2>1. PICK r \in Requests : Resting /\ posted' = Append(posted, r)
      BY <1>5 DEF PageAsks
    <2>2. posted' = Append(<<>>, r) /\ posted = <<>> /\ out = <<>> /\ chain = 0 /\ up
          /\ UNCHANGED <<up, out, job, chain>>
      BY <1>5, <1>b, <2>1 DEF PageAsks, Resting, StartInv
    <2>3. posted' # <<>> /\ Head(posted') = r /\ r.job \in Jobs
      BY <2>2 DEF Requests
    <2>4. Round = NoJob /\ Round' = r.job /\ Pending = NoAnswer /\ Pending' = NoAnswer
      BY <1>5, <1>c, <2>2, <2>3 DEF Round, Pending
    <2> QED BY <2>2, <2>3, <2>4 DEF Rounds!Next, Rounds!Ask
  <1>6. CASE (HandleJob \/ TimerFires) /\ role = "mining"
    <2>1. Round \in Jobs /\ out = <<>> /\ posted' = <<>> /\ job' = Round /\ up' = up
      <3>1. CASE HandleJob
        <4>1. posted # <<>> /\ posted' = Tail(posted) /\ job' = Head(posted).job /\ up' = up
          BY <3>1 DEF HandleJob
        <4>2. Len(posted) = 1 /\ out = <<>>
          BY <1>6, <1>b, <4>1 DEF MiningInv
        <4>3. posted' = <<>> /\ Head(posted).job \in Jobs
          <5>1. posted \in Seq(Requests)
            BY <1>b DEF TypeOK
          <5>2. posted[1] \in Requests /\ Head(posted) = posted[1] /\ Tail(posted) = <<>>
            BY <4>1, <4>2, <5>1, Rest
          <5> QED BY <4>1, <5>2 DEF Requests
        <4> QED BY <1>6, <4>1, <4>2, <4>3 DEF Round
      <3>2. CASE TimerFires
        BY <1>6, <1>b, <3>2 DEF TimerFires, MiningInv, TypeOK, Round
      <3> QED BY <1>6, <3>1, <3>2
    <2>2. Pending = NoAnswer
      BY <2>1 DEF Pending
    <2>3. CASE out' = <<>> /\ chain' = 1
      <3>1. Round' = Round /\ Pending' = NoAnswer
        BY <1>6, <1>c, <2>1, <2>3 DEF Round, Pending
      <3> QED BY <1>a, <2>1, <2>2, <3>1
    <2>4. CASE out' # <<>>
      <3>1. out' \in Seq(Messages) /\ Head(out') = out'[1]
        BY <2>4, <1>b, Rest DEF TypeOK
      <3>2. heard' /\ role' = "mining"
        BY <1>6, <1>b, <1>c, <2>1 DEF HandleJob, TimerFires, MiningInv, StartInv
      <3>3. /\ chain' = 0 /\ out'[1].job = job'
            /\ out'[1].kind # "ready" /\ out'[1].kind \in {"found", "nothing", "ready"}
        BY <1>b, <2>4, <3>2 DEF MiningInv, TypeOK
      <3>4. Round' = NoJob
        BY <2>1, <3>3 DEF Round
      <3>5. Pending' = [job |-> Round, found |-> out'[1].kind = "found"]
        BY <2>1, <2>4, <3>1, <3>2, <3>3 DEF Pending
      <3>6. (out'[1].kind = "found") \in BOOLEAN
        OBVIOUS
      <3>7. Pending' \in {a \in Rounds!Answers : a.job = Round}
        BY <2>1, <3>5, <3>6 DEF Rounds!Answers
      <3>8. Rounds!Answer
        BY <2>1, <3>4, <3>7 DEF Rounds!Answer
      <3> QED BY <3>8 DEF Rounds!Next
    <2>5. out' = <<>> => chain' = 1
      <3>1. \A x : Append(<<>>, x) # <<>>
        OBVIOUS
      <3>2. ASSUME NEW b, NEW j, NEW h, NEW c \in 0..1, HashOnce(b, j, h, c), out' = <<>>
            PROVE  chain' = c + 1
        BY <2>1, <3>1, <3>2 DEF HashOnce
      <3>3. CASE HandleJob
        <4>1. chain = 0
          BY <1>6, <1>b, <3>3 DEF MiningInv, TypeOK, HandleJob
        <4>2. \/ HashOnce(Loaded(Head(posted)), Head(posted).job, 0, chain)
              \/ out' \in {Append(out, Found(Loaded(Head(posted)), Head(posted).job)),
                          Append(out, Nothing(Loaded(Head(posted)), Head(posted).job))}
          BY <3>3 DEF HandleJob
        <4> QED BY <2>1, <3>1, <3>2, <4>1, <4>2
      <3>4. CASE TimerFires
        <4>1. chain = 1
          BY <1>b, <3>4 DEF TypeOK, TimerFires
        <4> QED BY <3>2, <3>4, <4>1 DEF TimerFires
      <3> QED BY <1>6, <3>3, <3>4
    <2> QED BY <2>3, <2>4, <2>5
  <1>7. role \in {"mining", "verifying"}
    BY <1>b DEF TypeOK
  <1>8. HandleVerify => role = "verifying"
    <2> SUFFICES ASSUME HandleVerify, role = "mining" PROVE FALSE
      BY <1>7
    <2>1. posted \in Seq(Requests) /\ posted # <<>> /\ Head(posted).kind = "verify"
      BY <1>b DEF HandleVerify, TypeOK
    <2> QED BY <1>b, <2>1, Rest DEF MiningInv
  <1>9. CASE Evaluate \/ WasmFails \/ UNCHANGED vars
    BY <1>1, <1>9 DEF Evaluate, WasmFails, vars
  <1>10. (PageTakes \/ PageAsks \/ HandleJob \/ HandleVerify \/ TimerFires) => UNCHANGED up
    BY DEF PageTakes, PageAsks, HandleJob, HandleVerify, TimerFires
  <1> QED BY <1>2, <1>3, <1>4, <1>5, <1>6, <1>7, <1>8, <1>9, <1>10 DEF Next

\* A mining worker answers as HashRounds says: after "ready", once for each
\* request, with the request's job (work(), workThrottled(), setJob()).
THEOREM Refines == Safety => Rounds!Safety
  <1>1. Init => Rounds!Init
    BY DEF Init, Rounds!Init, Round, Pending
  <1> QED BY <1>1, StepRefines, Invariance, PTL DEF Safety, Rounds!Safety
=============================================================================
