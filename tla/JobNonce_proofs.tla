--------------------------- MODULE JobNonce_proofs ---------------------------
(***************************************************************************)
(* The properties of JobNonce for every width of the counter and every     *)
(* chunk size, the program's 2^32 and 500000 among them.                   *)
(***************************************************************************)
EXTENDS JobNonce, TLAPS

\* What the counter can do in one call: wrap around or be reset, or advance by
\* exactly one chunk; either way it ends below MaxNonceValue, or at 1.
LEMMA AdvanceCases ==
  ASSUME NEW n \in Uint
  PROVE  /\ Advance(n) \in Uint
         /\ Advance(n) + NonceIncrement < UintSize
         /\ Advance(n) <= n \/ Advance(n) = n + NonceIncrement
<1> DEFINE sum == (n + NonceIncrement) % UintSize
<1>1. sum = n + NonceIncrement \/ sum = n + NonceIncrement - UintSize
  <2>1. CASE n + NonceIncrement < UintSize
    BY <2>1, Sizes DEF Uint
  <2>2. CASE n + NonceIncrement >= UintSize
    BY <2>2, Sizes DEF Uint
  <2> QED  BY <2>1, <2>2, Sizes DEF Uint
<1>2. sum \in 0 .. UintSize - 1
  BY Sizes DEF Uint
<1> HIDE DEF sum
<1>3. Advance(n) = IF sum >= MaxNonceValue THEN 1 ELSE sum
  BY DEF Advance, sum
<1>4. CASE sum >= MaxNonceValue
  <2>1. Advance(n) = 1
    BY <1>3, <1>4
  <2>2. 1 <= n
    BY <1>1, <1>4, Sizes DEF Uint, MaxNonceValue
  <2> QED  BY <2>1, <2>2, Sizes DEF Uint
<1>5. CASE sum < MaxNonceValue
  <2>1. Advance(n) = sum
    BY <1>2, <1>3, <1>5, Sizes DEF MaxNonceValue
  <2> QED  BY <2>1, <1>1, <1>2, <1>5, Sizes DEF Uint, MaxNonceValue
<1> QED  BY <1>2, <1>4, <1>5, Sizes DEF MaxNonceValue

\* Inductive strengthening of both properties: as long as the lap goes on, the
\* counter is at least a chunk beyond everything that was given away, and a
\* counter that is no longer the initial one leaves room for its chunk.
Beyond == ~lapOver => \A a \in lap : a + NonceIncrement <= currentNonce
Apart == \A a, b \in lap : a # b => a + NonceIncrement <= b \/ b + NonceIncrement <= a
Room == currentNonce # initialNonce => currentNonce + NonceIncrement < UintSize

IInv == TypeOK /\ Beyond /\ Apart /\ Room /\ ChunkFits

LEMMA InitIInv == Init => IInv
BY DEF Init, IInv, TypeOK, Beyond, Apart, Room, ChunkFits

LEMMA StepIInv == IInv /\ [NextChunk]_vars => IInv'
<1> SUFFICES ASSUME IInv, [NextChunk]_vars
             PROVE  IInv'
  OBVIOUS
<1> USE Sizes
<1>1. CASE NextChunk
  <2>1. /\ initialNonce' = initialNonce
        /\ currentNonce' = Advance(currentNonce)
        /\ lapOver' = (currentNonce' <= currentNonce)
        /\ lap' = (IF lapOver THEN {} ELSE lap) \cup {currentNonce}
    BY <1>1 DEF NextChunk
  <2>2. /\ currentNonce' \in Uint
        /\ currentNonce' + NonceIncrement < UintSize
        /\ currentNonce' <= currentNonce
             \/ currentNonce' = currentNonce + NonceIncrement
    BY <2>1, AdvanceCases DEF IInv, TypeOK
  <2>3. TypeOK'
    <3>1. lap' \subseteq Uint
      BY <2>1 DEF IInv, TypeOK
    <3>2. lapOver' \in BOOLEAN
      BY <2>1
    <3> QED  BY <2>1, <2>2, <3>1, <3>2 DEF IInv, TypeOK
  <2>4. \A a \in lap' : a = currentNonce \/ (~lapOver /\ a \in lap)
    BY <2>1
  <2>5. Beyond'
    <3> SUFFICES ASSUME ~lapOver', NEW a \in lap'
                 PROVE  a + NonceIncrement <= currentNonce'
      BY DEF Beyond
    <3>1. currentNonce' = currentNonce + NonceIncrement
      BY <2>1, <2>2
    <3>2. a \in Int /\ currentNonce \in Int
      BY <2>3, <2>1 DEF IInv, TypeOK, Uint
    <3>3. a = currentNonce \/ a + NonceIncrement <= currentNonce
      BY <2>4 DEF IInv, Beyond
    <3> QED  BY <3>1, <3>2, <3>3
  <2>6. Apart'
    <3> SUFFICES ASSUME NEW a \in lap', NEW b \in lap', a # b
                 PROVE  a + NonceIncrement <= b \/ b + NonceIncrement <= a
      BY DEF Apart
    <3>1. CASE a = currentNonce
      BY <3>1, <2>4 DEF IInv, Beyond
    <3>2. CASE b = currentNonce
      BY <3>2, <2>4 DEF IInv, Beyond
    <3>3. CASE a # currentNonce /\ b # currentNonce
      BY <3>3, <2>4 DEF IInv, Apart
    <3> QED  BY <3>1, <3>2, <3>3
  <2>7. Room'
    BY <2>2 DEF Room
  <2>8. ChunkFits'
    <3> SUFFICES ASSUME NEW a \in lap', a # initialNonce
                 PROVE  a + NonceIncrement < UintSize
      BY <2>1 DEF ChunkFits
    <3>1. CASE a = currentNonce
      BY <3>1 DEF IInv, Room
    <3>2. CASE a # currentNonce
      BY <3>2, <2>4 DEF IInv, ChunkFits
    <3> QED  BY <3>1, <3>2
  <2> QED  BY <2>3, <2>5, <2>6, <2>7, <2>8 DEF IInv
<1>2. CASE UNCHANGED vars
  BY <1>2 DEF vars, IInv, TypeOK, Beyond, Apart, Room, ChunkFits
<1> QED  BY <1>1, <1>2

LEMMA IInvImplies == IInv => ChunksDisjoint
<1> SUFFICES ASSUME IInv PROVE ChunksDisjoint
  OBVIOUS
<1> USE Sizes
<1>1. lap \subseteq Int /\ currentNonce \in Int
  BY DEF IInv, TypeOK, Uint
<1>2. CASE lapOver
  BY <1>2 DEF IInv, Apart, ChunksDisjoint
<1>3. CASE ~lapOver
  <2>1. \A a \in lap : a + NonceIncrement <= currentNonce
    BY <1>3 DEF IInv, Beyond
  <2>2. currentNonce \notin lap
    BY <1>1, <2>1
  <2>3. \A a, b \in lap \cup {currentNonce} :
          a # b => a + NonceIncrement <= b \/ b + NonceIncrement <= a
    BY <1>1, <2>1 DEF IInv, Apart
  <2> QED  BY <1>3, <2>2, <2>3 DEF ChunksDisjoint
<1> QED  BY <1>2, <1>3

LEMMA Invariance == Spec => []IInv
BY InitIInv, StepIInv, PTL DEF Spec

\* The counter is always a uint32 value (job.go:72-91).
THEOREM TypeCorrect == Spec => []TypeOK
<1>1. IInv => TypeOK
  BY DEF IInv
<1> QED  BY Invariance, <1>1, PTL

\* The chunks of a lap are disjoint: no nonce of a job is searched by two
\* workers before the counter starts over (job.go:85-88).
THEOREM NoOverlap == Spec => []ChunksDisjoint
BY Invariance, IInvImplies, PTL

\* Only the chunk that starts at the server's own nonce may run past the
\* largest uint32 (job.go:18, 86).
THEOREM Fits == Spec => []ChunkFits
<1>1. IInv => ChunkFits
  BY DEF IInv
<1> QED  BY Invariance, <1>1, PTL
=============================================================================
