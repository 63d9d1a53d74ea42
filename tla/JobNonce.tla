------------------------------ MODULE JobNonce ------------------------------
(***************************************************************************)
(* How one mining job is split among the workers of a proxy (proxy/job.go):*)
(* every call of Job.Next() gives away the chunk of NonceIncrement nonces  *)
(* that starts at the job's uint32 counter and moves the counter on.       *)
(* Calls are serialized by the proxy's jobMu.                              *)
(*                                                                         *)
(* A lap is the longest run of calls in which the counter only advances;   *)
(* the miners repeat no work as long as the chunks of a lap do not overlap.*)
(***************************************************************************)
EXTENDS Integers

CONSTANTS
  UintSize,         \* number of values of the counter's type, 2^32
  NonceIncrement    \* nonceIncrement, 0x7a120

ASSUME Sizes ==
  /\ UintSize \in Nat
  /\ NonceIncrement \in Nat \ {0}
  /\ 2 * NonceIncrement + 1 < UintSize

Uint == 0 .. UintSize - 1

\* maxNonceValue: math.MaxUint32 - nonceIncrement.
MaxNonceValue == UintSize - 1 - NonceIncrement

VARIABLES
  initialNonce,     \* the nonce in the blob the server sent
  currentNonce,     \* where the next chunk starts
  lap,              \* starts of the chunks given away in this lap
  lapOver           \* the counter went back: the next call begins a lap

vars == <<initialNonce, currentNonce, lap, lapOver>>

TypeOK ==
  /\ initialNonce \in Uint
  /\ currentNonce \in Uint
  /\ lap \subseteq Uint
  /\ lapOver \in BOOLEAN

\* init(): the counter starts at the nonce of the blob, whatever it is.
Init ==
  /\ initialNonce \in Uint
  /\ currentNonce = initialNonce
  /\ lap = {}
  /\ lapOver = FALSE

\* Mutants: a chunk too short by one, no reset at MaxNonceValue, no uint32.
AdvanceShort(n) ==
  LET sum == (n + NonceIncrement - 1) % UintSize
  IN  IF sum >= MaxNonceValue THEN 1 ELSE sum
AdvanceNoReset(n) == (n + NonceIncrement) % UintSize
AdvanceUnbounded(n) == n + NonceIncrement

\* The counter after a chunk at n: uint32 addition, then back to 1 from
\* MaxNonceValue on.
Advance(n) ==
  LET sum == (n + NonceIncrement) % UintSize
  IN  IF sum >= MaxNonceValue THEN 1 ELSE sum

\* Job.Next()
NextChunk ==
  /\ lap' = (IF lapOver THEN {} ELSE lap) \cup {currentNonce}
  /\ currentNonce' = Advance(currentNonce)
  /\ lapOver' = (currentNonce' <= currentNonce)
  /\ UNCHANGED initialNonce

Spec == Init /\ [][NextChunk]_vars

-----------------------------------------------------------------------------
\* No two chunks of a lap share a nonce, the one that is next included: two
\* workers never search the same nonces of a job before its range has been
\* used up (job.go:85-88).
ChunksDisjoint ==
  LET given == IF lapOver THEN lap ELSE lap \cup {currentNonce}
  IN  /\ \A a, b \in given : a # b => a + NonceIncrement <= b \/ b + NonceIncrement <= a
      /\ ~lapOver => currentNonce \notin lap

\* A worker that counts through its chunk stays within a uint32: only the very
\* first chunk, which starts where the server said, may run past the end.
ChunkFits ==
  \A a \in lap : a # initialNonce => a + NonceIncrement < UintSize

=============================================================================
