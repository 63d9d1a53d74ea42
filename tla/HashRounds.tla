----------------------------- MODULE HashRounds -----------------------------
(***************************************************************************)
(* What a page may rely on of a hashing worker (worker.js as JobThread of  *)
(* processor.js uses it): once it has said "ready" it answers every        *)
(* request, once, and the answer belongs to the job of the request.        *)
(***************************************************************************)
CONSTANTS Jobs, NoJob, NoAnswer

VARIABLES
  up,       \* the worker has posted "ready"
  request,  \* the job it was asked to mine, NoJob: it rests
  answer    \* its answer, until the page has taken it

vars == <<up, request, answer>>

Answers == [job : Jobs, found : BOOLEAN]

Init == up = FALSE /\ request = NoJob /\ answer = NoAnswer

Start == ~up /\ up' = TRUE /\ UNCHANGED <<request, answer>>

\* JobThread posts a job when nothing is outstanding.
Ask ==
  /\ up /\ request = NoJob /\ answer = NoAnswer
  /\ request' \in Jobs
  /\ UNCHANGED <<up, answer>>

Answer ==
  /\ request # NoJob
  /\ answer' \in {a \in Answers : a.job = request}
  /\ request' = NoJob
  /\ UNCHANGED up

Take ==
  /\ answer # NoAnswer
  /\ answer' = NoAnswer
  /\ UNCHANGED <<up, request>>

Next == Start \/ Ask \/ Answer \/ Take

Safety == Init /\ [][Next]_vars
Spec == Safety /\ WF_vars(Answer)
=============================================================================
