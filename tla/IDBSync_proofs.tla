--------------------------- MODULE IDBSync_proofs ---------------------------
(***************************************************************************)
(* Every call of syncfs() counts its callbacks right, for any tree, any    *)
(* number of calls and any failures: at most one error or success, and a   *)
(* null after an error only if one of its own requests failed.  The        *)
(* invariant is the account of one call: what is completed and what is     *)
(* requested make up the total unless an error was reported, and then they *)
(* stay below it, unless a request failed, which counts as completed too.  *)
(*                                                                         *)
(* And a call that nobody disturbs says that all went well only when both  *)
(* sides agree.  There the invariant follows the work of such a call path  *)
(* by path, and says why a call that failed before and still writes comes  *)
(* to no harm: the queue has it before every one that waits to read.       *)
(***************************************************************************)
EXTENDS IDBSync, FiniteSetTheorems, TLAPS

Left(r) == r.completed + Cardinality(r.create) + Cardinality(r.remove)

Account(r) ==
  /\ r.create \cap r.remove = {}
  /\ IF r.result = "err" THEN Left(r) <= r.total /\ (~r.failed => Left(r) < r.total)
     ELSE Left(r) = r.total /\ ~r.failed
  /\ r.called = IF r.result = "err" \/ r.completed >= r.total THEN 1 ELSE 0
  /\ r.again = IF r.result = "err" /\ r.completed >= r.total THEN 1 ELSE 0

Balanced(r) ==
  CASE r.stage = "write" -> Account(r)
    [] r.stage = "ended" -> /\ r.called = 1 /\ r.again \in {0, 1}
                            /\ r.again = 1 => r.result = "err" /\ r.failed
    [] OTHER -> r.called = 0 /\ r.completed = 0 /\ r.result # "err" /\ r.again = 0 /\ ~r.failed

Types ==
  /\ now \in Times /\ local \in Trees /\ remote \in Trees /\ stored \in Trees
  /\ syncs \in [Ids -> Sync]

InFlight == {s \in Ids : Uncalled(s)}
Again == {s \in Ids : syncs[s].again > 0}

Inv ==
  /\ Types
  /\ \A s \in Ids : Balanced(syncs[s])
  /\ requests = Cardinality(InFlight) - Cardinality(Again)

-----------------------------------------------------------------------------
(* Finite sets of paths, and records of calls. *)

LEMMA PathsFinite ==
  ASSUME NEW S \in SUBSET Paths
  PROVE  IsFiniteSet(S) /\ Cardinality(S) \in Nat
<1>1. IsFiniteSet(Paths)
  BY IDBSyncAssumption, FS_Interval DEF Paths
<1> QED  BY <1>1, FS_Subset, FS_CardinalityType

LEMMA Apart ==
  ASSUME NEW S \in SUBSET Paths, NEW T \in SUBSET Paths, S \cap T = {}
  PROVE  Cardinality(S \cup T) = Cardinality(S) + Cardinality(T)
<1>1. IsFiniteSet(S) /\ IsFiniteSet(T) /\ Cardinality(S) \in Nat /\ Cardinality(T) \in Nat
  BY PathsFinite
<1>2. Cardinality(S \cap T) = 0
  BY FS_EmptySet
<1>3. Cardinality(S \cup T) = Cardinality(S) + Cardinality(T) - Cardinality(S \cap T)
  BY <1>1, FS_Union
<1> QED  BY <1>1, <1>2, <1>3

LEMMA Fewer ==
  ASSUME NEW S \in SUBSET Paths, NEW p \in S
  PROVE  Cardinality(S \ {p}) = Cardinality(S) - 1 /\ Cardinality(S) > 0
<1>1. IsFiniteSet(S) /\ Cardinality(S) \in Nat /\ Cardinality(S \ {p}) \in Nat
  BY PathsFinite
<1>2. Cardinality(S \ {p}) = Cardinality(S) - 1
  BY <1>1, FS_RemoveElement
<1> QED  BY <1>1, <1>2

LEMMA NoneLeft ==
  ASSUME NEW S \in SUBSET Paths
  PROVE  Cardinality(S) = 0 <=> S = {}
BY PathsFinite, FS_EmptySet

-----------------------------------------------------------------------------
(* What done() makes of a call. *)

LEMMA Returns ==
  ASSUME NEW r \in Sync, NEW result \in {"ok", "err"}
  PROVE  LET y == Returned(r, result) IN
         /\ y \in Sync /\ y.stage = r.stage /\ y.create = r.create /\ y.remove = r.remove
         /\ y.total = r.total /\ y.completed = r.completed
         /\ y.called = r.called + 1 /\ y.result = result
         /\ y.again = r.again /\ y.failed = r.failed
         /\ y.populate = r.populate /\ y.entries = r.entries
<1>1. PICK c : c = [r EXCEPT !.called = r.called + 1]
  OBVIOUS
<1>2. /\ c \in Sync /\ c.stage = r.stage /\ c.create = r.create /\ c.remove = r.remove
      /\ c.total = r.total /\ c.completed = r.completed /\ c.called = r.called + 1
      /\ c.again = r.again /\ c.failed = r.failed
      /\ c.populate = r.populate /\ c.entries = r.entries
  BY <1>1 DEF Sync
<1>3. Returned(r, result) = [c EXCEPT !.result = result]
  BY <1>1 DEF Returned
<1> QED  BY <1>2, <1>3 DEF Sync

LEMMA Completes ==
  ASSUME NEW r \in Sync, NEW good \in Nat
  PROVE  LET x == Completed(r, good)
             full == good > 0 /\ r.completed + good >= r.total
         IN
         /\ x \in Sync /\ x.stage = r.stage /\ x.create = r.create /\ x.remove = r.remove
         /\ x.total = r.total /\ x.completed = r.completed + good
         /\ x.populate = r.populate /\ x.entries = r.entries /\ x.failed = r.failed
         /\ IF full /\ r.result # "err" THEN x.called = r.called + 1 /\ x.result = "ok"
            ELSE x.called = r.called /\ x.result = r.result
         /\ x.again = IF full /\ r.result = "err" THEN r.again + 1 ELSE r.again
<1> DEFINE full == good > 0 /\ r.completed + good >= r.total
           x == [r EXCEPT !.completed = @ + good]
<1>1. /\ x \in Sync /\ x.stage = r.stage /\ x.create = r.create /\ x.remove = r.remove
      /\ x.total = r.total /\ x.completed = r.completed + good
      /\ x.populate = r.populate /\ x.entries = r.entries /\ x.failed = r.failed
      /\ x.called = r.called /\ x.result = r.result /\ x.again = r.again
  BY DEF Sync
<1>2. Completed(r, good) =
        IF full THEN IF x.result = "err" THEN [x EXCEPT !.again = @ + 1] ELSE Returned(x, "ok")
        ELSE x
  BY Zenon DEF Completed
<1> HIDE DEF x, full
<1>3. CASE ~full
  BY <1>1, <1>2, <1>3 DEF full
<1>4. CASE full /\ r.result # "err"
  <2>1. Completed(r, good) = Returned(x, "ok")
    BY <1>1, <1>2, <1>4
  <2>2. LET y == Returned(x, "ok") IN
        /\ y \in Sync /\ y.stage = x.stage /\ y.create = x.create /\ y.remove = x.remove
        /\ y.total = x.total /\ y.completed = x.completed
        /\ y.called = x.called + 1 /\ y.result = "ok"
        /\ y.again = x.again /\ y.failed = x.failed
        /\ y.populate = x.populate /\ y.entries = x.entries
    BY <1>1, Returns
  <2> QED  BY <1>1, <1>4, <2>1, <2>2 DEF full
<1>5. CASE full /\ r.result = "err"
  <2>1. Completed(r, good) = [x EXCEPT !.again = x.again + 1]
    BY <1>1, <1>2, <1>5
  <2>2. PICK y : y = [x EXCEPT !.again = x.again + 1]
    OBVIOUS
  <2>3. /\ y \in Sync /\ y.stage = x.stage /\ y.create = x.create /\ y.remove = x.remove
        /\ y.total = x.total /\ y.completed = x.completed
        /\ y.called = x.called /\ y.result = x.result
        /\ y.again = x.again + 1 /\ y.failed = x.failed
        /\ y.populate = x.populate /\ y.entries = x.entries
    BY <1>1, <2>2 DEF Sync
  <2> QED  BY <1>1, <1>5, <2>1, <2>2, <2>3 DEF full
<1> QED  BY <1>3, <1>4, <1>5

\* x is r after done(err) for bad entries and done(null) for good ones.
Settling(r, good, bad, x) ==
  LET full == good > 0 /\ r.completed + good >= r.total IN
  /\ x \in Sync /\ x.stage = r.stage /\ x.create = r.create /\ x.remove = r.remove
  /\ x.total = r.total /\ x.completed = r.completed + good
  /\ x.populate = r.populate /\ x.entries = r.entries /\ x.failed = r.failed
  /\ IF bad > 0 /\ r.result # "err"
     THEN x.called = r.called + 1 /\ x.result = "err"
     ELSE IF full /\ r.result # "err"
     THEN x.called = r.called + 1 /\ x.result = "ok"
     ELSE x.called = r.called /\ x.result = r.result
  /\ x.again = IF full /\ (bad > 0 \/ r.result = "err") THEN r.again + 1 ELSE r.again

LEMMA Settles ==
  ASSUME NEW r \in Sync, NEW good \in Nat, NEW bad \in Nat
  PROVE  Settling(r, good, bad, Settled(r, good, bad))
<1>1. PICK y : y = IF bad > 0 /\ r.result # "err" THEN Returned(r, "err") ELSE r
  OBVIOUS
<1>2. /\ y \in Sync /\ y.stage = r.stage /\ y.create = r.create /\ y.remove = r.remove
      /\ y.total = r.total /\ y.completed = r.completed
      /\ y.populate = r.populate /\ y.entries = r.entries
      /\ y.again = r.again /\ y.failed = r.failed
      /\ IF bad > 0 /\ r.result # "err" THEN y.called = r.called + 1 /\ y.result = "err"
         ELSE y.called = r.called /\ y.result = r.result
  <2>1. CASE bad > 0 /\ r.result # "err"
    <3>1. y = Returned(r, "err")
      BY <1>1, <2>1
    <3> QED  BY <2>1, <3>1, Returns
  <2>2. CASE ~(bad > 0 /\ r.result # "err")
    BY <1>1, <2>2
  <2> QED  BY <2>1, <2>2
<1>3. PICK x : x = Completed(y, good)
  OBVIOUS
<1>4. LET full == good > 0 /\ y.completed + good >= y.total
      IN
      /\ x \in Sync /\ x.stage = y.stage /\ x.create = y.create /\ x.remove = y.remove
      /\ x.total = y.total /\ x.completed = y.completed + good
      /\ x.populate = y.populate /\ x.entries = y.entries /\ x.failed = y.failed
      /\ IF full /\ y.result # "err" THEN x.called = y.called + 1 /\ x.result = "ok"
         ELSE x.called = y.called /\ x.result = y.result
      /\ x.again = IF full /\ y.result = "err" THEN y.again + 1 ELSE y.again
  BY <1>2, <1>3, Completes
<1>5. x = Settled(r, good, bad)
  BY <1>1, <1>3 DEF Settled
<1>6. CASE bad > 0 /\ r.result # "err"
  <2>1. Settling(r, good, bad, x)
    BY <1>2, <1>4, <1>6 DEF Settling
  <2> QED  BY <1>5, <2>1
<1>7. CASE ~(bad > 0 /\ r.result # "err")
  <2>1. Settling(r, good, bad, x)
    BY <1>2, <1>4, <1>7 DEF Settling
  <2> QED  BY <1>5, <2>1
<1> QED  BY <1>6, <1>7

LEMMA Ends ==
  ASSUME NEW r \in Sync
  PROVE  /\ Ended(r) \in Sync /\ Ended(r).stage = "ended" /\ Ended(r).called = r.called
         /\ Ended(r).result = r.result /\ Ended(r).again = r.again /\ Ended(r).failed = r.failed
BY DEF Ended, Idle, Sync, Set, Trees

\* The account after some good and some bad entries have left what was to do.
LEMMA Settlement ==
  ASSUME NEW r \in Sync, NEW good \in Nat, NEW bad \in Nat, r.stage = "write",
         r.create \cap r.remove = {}, r.completed < r.total,
         r.called = IF r.result = "err" THEN 1 ELSE 0, r.again = 0,
         IF r.result = "err" \/ bad > 0
         THEN Left(r) + good <= r.total /\ (~r.failed => Left(r) + good < r.total)
         ELSE Left(r) + good = r.total /\ ~r.failed
  PROVE  LET x == Settled(r, good, bad) IN
         /\ x \in Sync /\ x.stage = "write" /\ Account(x)
         /\ x.called \in {r.called, r.called + 1} /\ x.again \in {0, 1}
<1>1. PICK x : x = Settled(r, good, bad)
  OBVIOUS
<1>2. LET full == good > 0 /\ r.completed + good >= r.total
      IN
      /\ x \in Sync /\ x.stage = r.stage /\ x.create = r.create /\ x.remove = r.remove
      /\ x.total = r.total /\ x.completed = r.completed + good /\ x.failed = r.failed
      /\ IF bad > 0 /\ r.result # "err"
         THEN x.called = r.called + 1 /\ x.result = "err"
         ELSE IF full /\ r.result # "err"
         THEN x.called = r.called + 1 /\ x.result = "ok"
         ELSE x.called = r.called /\ x.result = r.result
  <2>1. Settling(r, good, bad, x)
    BY <1>1, Settles
  <2> QED  BY <2>1 DEF Settling
<1>12. x.again = IF (good > 0 /\ r.completed + good >= r.total) /\ (bad > 0 \/ r.result = "err")
                 THEN r.again + 1 ELSE r.again
  <2>1. Settling(r, good, bad, x)
    BY <1>1, Settles
  <2> QED  BY <2>1 DEF Settling
<1>3. /\ r.create \in SUBSET Paths /\ r.remove \in SUBSET Paths
      /\ r.completed \in Nat /\ r.total \in Nat
  BY DEF Sync
<1>4. Cardinality(r.create) \in Nat /\ Cardinality(r.remove) \in Nat
  BY <1>3, PathsFinite
<1>5. Left(x) = Left(r) + good /\ Left(r) \in Nat
  BY <1>2, <1>3, <1>4 DEF Left
<1>6. (good > 0 /\ r.completed + good >= r.total) <=> x.completed >= x.total
  BY <1>2, <1>3
<1>7. x.result = "err" <=> (r.result = "err" \/ bad > 0)
  BY <1>2
<1>8. /\ x.called = IF x.result = "err" \/ x.completed >= x.total THEN 1 ELSE 0
      /\ x.called \in {r.called, r.called + 1}
  BY <1>2, <1>6
<1>9. x.again = IF x.result = "err" /\ x.completed >= x.total THEN 1 ELSE 0
  BY <1>6, <1>7, <1>12
<1>10. IF x.result = "err" THEN Left(x) <= x.total /\ (~x.failed => Left(x) < x.total)
       ELSE Left(x) = x.total /\ ~x.failed
  BY <1>2, <1>5, <1>7
<1>11. x.create \cap x.remove = {}
  BY <1>2
<1> QED  BY <1>1, <1>2, <1>8, <1>9, <1>10, <1>11 DEF Account

\* What every call has in common.
LEMMA BalancedMeans ==
  ASSUME NEW r \in Sync, Balanced(r)
  PROVE  /\ r.called \in {0, 1} /\ r.again \in {0, 1}
         /\ r.again = 1 => r.result = "err" /\ r.failed
<1>1. CASE r.stage = "write"
  <2>1. Account(r)
    BY <1>1 DEF Balanced
  <2>2. /\ r.create \in SUBSET Paths /\ r.remove \in SUBSET Paths
        /\ r.completed \in Nat /\ r.total \in Nat
    BY DEF Sync
  <2>3. Cardinality(r.create) \in Nat /\ Cardinality(r.remove) \in Nat
    BY <2>2, PathsFinite
  <2>4. r.called \in {0, 1} /\ r.again \in {0, 1}
    BY <2>1 DEF Account
  <2>5. ASSUME r.again = 1 PROVE r.result = "err" /\ r.failed
    <3>1. r.result = "err" /\ r.completed >= r.total
      BY <2>1, <2>5 DEF Account
    <3>2. ~(Left(r) < r.total)
      BY <2>2, <2>3, <3>1 DEF Left
    <3> QED  BY <2>1, <3>1, <3>2 DEF Account
  <2> QED  BY <2>4, <2>5
<1>2. CASE r.stage # "write"
  BY <1>2 DEF Balanced
<1> QED  BY <1>1, <1>2
-----------------------------------------------------------------------------
(* A call that goes on keeps the count of the calls in flight. *)

LEMMA GoesOn ==
  ASSUME Inv, NEW s \in Ids, NEW r \in Sync, Becomes(s, r), Balanced(r),
         syncs[s].stage # "idle", r.stage # "idle",
         r.called \in {syncs[s].called, syncs[s].called + 1},
         r.again \in {syncs[s].again, syncs[s].again + 1}
  PROVE  /\ syncs' \in [Ids -> Sync] /\ \A t \in Ids : Balanced(syncs'[t])
         /\ requests' = Cardinality(InFlight') - Cardinality(Again')
<1>1. syncs \in [Ids -> Sync] /\ syncs' = [syncs EXCEPT ![s] = r]
  BY DEF Inv, Types, Becomes
<1>2. \A t \in Ids : Balanced(syncs'[t])
  BY <1>1 DEF Inv
<1>3. /\ IsFiniteSet(InFlight) /\ IsFiniteSet(Again)
      /\ requests = Cardinality(InFlight) - Cardinality(Again)
  BY IDBSyncAssumption, FS_Subset DEF InFlight, Again, Inv
<1>4. Cardinality(InFlight) \in Nat /\ Cardinality(Again) \in Nat
  BY <1>3, FS_CardinalityType
<1>5. syncs[s] \in Sync
  BY <1>1
<1>6. /\ syncs[s].called \in {0, 1} /\ r.called \in {0, 1}
      /\ syncs[s].again \in {0, 1} /\ r.again \in {0, 1}
  BY <1>5, BalancedMeans DEF Inv
<1>7. \A t \in Ids \ {s} : syncs'[t] = syncs[t]
  BY <1>1
<1>8. syncs'[s] = r
  BY <1>1
<1>9. Cardinality(InFlight') = Cardinality(InFlight) - (r.called - syncs[s].called)
  <2>1. CASE r.called = syncs[s].called
    <3>1. InFlight' = InFlight
      BY <1>7, <1>8, <2>1 DEF InFlight, Uncalled
    <3> QED  BY <1>4, <1>6, <2>1, <3>1
  <2>2. CASE syncs[s].called = 0 /\ r.called = 1
    <3>1. s \in InFlight /\ InFlight' = InFlight \ {s}
      BY <1>7, <1>8, <2>2 DEF InFlight, Uncalled
    <3>2. Cardinality(InFlight \ {s}) = Cardinality(InFlight) - 1
      BY <1>3, <3>1, FS_RemoveElement
    <3> QED  BY <1>4, <2>2, <3>1, <3>2
  <2> QED  BY <1>6, <2>1, <2>2
<1>10. Cardinality(Again') = Cardinality(Again) + (r.again - syncs[s].again)
  <2>1. CASE r.again = syncs[s].again
    <3>1. Again' = Again
      BY <1>7, <1>8, <2>1 DEF Again
    <3> QED  BY <1>4, <1>6, <2>1, <3>1
  <2>2. CASE syncs[s].again = 0 /\ r.again = 1
    <3>1. s \notin Again /\ Again' = Again \cup {s}
      BY <1>7, <1>8, <2>2 DEF Again
    <3>2. Cardinality(Again \cup {s}) = Cardinality(Again) + 1
      BY <1>3, <3>1, FS_AddElement
    <3> QED  BY <1>4, <2>2, <3>1, <3>2
  <2> QED  BY <1>6, <2>1, <2>2
<1>11. requests' = requests - ((r.called + r.again) - (syncs[s].called + syncs[s].again))
  BY DEF Becomes
<1> QED
  <2>1. PICK m \in Int, n \in Int : m = Cardinality(InFlight') /\ n = Cardinality(Again')
    BY <1>4, <1>6, <1>9, <1>10
  <2>2. requests' = m - n
    BY <1>3, <1>4, <1>6, <1>9, <1>10, <1>11, <2>1
  <2> QED  BY <1>1, <1>2, <2>1, <2>2

\* A call that is only handed on, or is called back and leaves, needs no account.
LEMMA Waiting ==
  ASSUME NEW r \in Sync, Balanced(r), r.stage \in {"open", "read"}
  PROVE  r.called = 0 /\ r.completed = 0 /\ r.result # "err" /\ r.again = 0 /\ ~r.failed
BY DEF Balanced

LEMMA CalledAndGone ==
  ASSUME NEW r \in Sync, Balanced(r), r.stage \in {"open", "read"}, NEW result \in {"ok", "err"}
  PROVE  LET x == Ended(Returned(r, result)) IN
         /\ x \in Sync /\ Balanced(x) /\ x.stage # "idle" /\ x.called = r.called + 1
         /\ x.again = r.again
<1>1. PICK y : y = Returned(r, result)
  OBVIOUS
<1>2. y \in Sync /\ y.called = r.called + 1 /\ y.again = r.again /\ y.failed = r.failed
  BY <1>1, Returns
<1>3. r.called = 0 /\ r.again = 0
  BY Waiting
<1>4. PICK x : x = Ended(y)
  OBVIOUS
<1>5. x \in Sync /\ x.stage = "ended" /\ x.called = 1 /\ x.again = 0
  BY <1>2, <1>3, <1>4, Ends
<1> QED  BY <1>1, <1>3, <1>4, <1>5 DEF Balanced

\* A call whose cursor fails is left as if it had not begun.
LEMMA LostIs ==
  ASSUME NEW r, r = [Idle EXCEPT !.stage = "lost"]
  PROVE  /\ r \in Sync /\ Balanced(r) /\ r.stage = "lost" /\ r.called = 0 /\ r.again = 0
         /\ r.result = "none"
BY DEF Idle, Sync, Set, Trees, Balanced

-----------------------------------------------------------------------------
(* The program. *)

LEMMA SetType ==
  ASSUME NEW tree \in Trees
  PROVE  SetOf(tree) \in Set
BY DEF SetOf, Set, Trees, Entry

LEMMA Same ==
  ASSUME Inv, UNCHANGED <<requests, syncs>>, Types'
  PROVE  Inv'
BY DEF Inv, Types, InFlight, Again, Uncalled

LEMMA StoreKeeps ==
  ASSUME Inv, NEW p \in Paths, NEW dir \in Kinds(p), Store(p, dir)
  PROVE  Inv'
<1>1. dir \in BOOLEAN
  BY DEF Kinds
<1>2. [dir |-> dir, time |-> now] \in Entry
  BY <1>1, Zenon DEF Inv, Types, Entry
<1>3. PICK e \in Entry : local' = [local EXCEPT ![p] = e]
  BY <1>2, Zenon DEF Store, Changes
<1>4. local' \in Trees
  BY <1>3 DEF Inv, Types, Trees
<1> QED  BY <1>4, Same DEF Store, Inv, Types

LEMMA RemoveKeeps ==
  ASSUME Inv, NEW p \in Paths, Remove(p)
  PROVE  Inv'
<1>1. local' \in Trees
  BY DEF Inv, Types, Trees, Remove, Changes
<1> QED  BY <1>1, Same DEF Remove, Inv, Types

LEMMA SyncfsKeeps ==
  ASSUME Inv, NEW s \in Ids, NEW populate \in BOOLEAN, Syncfs(s, populate)
  PROVE  Inv'
<1> DEFINE r == [Idle EXCEPT !.stage = IF db THEN "read" ELSE "open",
                             !.populate = populate, !.set = SetOf(local)]
<1>1. SetOf(local) \in Set
  BY SetType DEF Inv, Types
<1>2. PICK st \in {"read", "open"} : st = IF db THEN "read" ELSE "open"
  OBVIOUS
<1>3. PICK a : a = [Idle EXCEPT !.stage = st]
  OBVIOUS
<1>4. [p \in Paths |-> None] \in Trees
  BY DEF Trees
<1>5. r \in Sync /\ Balanced(r) /\ r.stage # "idle" /\ r.called = 0 /\ r.again = 0
  <2> DEFINE New(x) == /\ x \in Sync /\ x.called = 0 /\ x.completed = 0 /\ x.result = "none"
                       /\ x.again = 0 /\ ~x.failed
  <2>1. New(Idle)
    BY <1>4 DEF Idle, Sync, Set
  <2>2. New(a) /\ a.stage = st
    BY <1>2, <1>3, <2>1 DEF Sync
  <2>3. PICK b : b = [a EXCEPT !.populate = populate]
    OBVIOUS
  <2>4. New(b) /\ b.stage = st
    BY <2>2, <2>3 DEF Sync
  <2>5. r = [b EXCEPT !.set = SetOf(local)]
    BY <1>2, <1>3, <2>3
  <2> HIDE DEF r
  <2>6. New(r) /\ r.stage = st
    BY <1>1, <2>4, <2>5 DEF Sync
  <2> QED  BY <1>2, <2>6 DEF Balanced
<1>6. syncs' = [syncs EXCEPT ![s] = r] /\ requests' = requests + 1
      /\ syncs[s].stage = "idle" /\ UNCHANGED <<now, local, remote, stored>>
  BY DEF Syncfs
<1> HIDE DEF r
<1>7. syncs' \in [Ids -> Sync] /\ syncs'[s] = r /\ \A t \in Ids \ {s} : syncs'[t] = syncs[t]
  BY <1>5, <1>6 DEF Inv, Types
<1>8. IsFiniteSet(InFlight) /\ s \notin InFlight /\ InFlight' = InFlight \cup {s}
  <2>1. IsFiniteSet(InFlight)
    BY IDBSyncAssumption, FS_Subset DEF InFlight
  <2> QED  BY <1>5, <1>6, <1>7, <2>1 DEF InFlight, Uncalled
<1>9. IsFiniteSet(Again) /\ Again' = Again
  <2>1. IsFiniteSet(Again)
    BY IDBSyncAssumption, FS_Subset DEF Again
  <2>2. syncs[s].again = 0
    BY <1>6 DEF Inv, Balanced
  <2> QED  BY <1>5, <1>7, <2>1, <2>2 DEF Again
<1>10. requests' = Cardinality(InFlight') - Cardinality(Again')
  <2>1. Cardinality(InFlight') = Cardinality(InFlight) + 1
    BY <1>8, FS_AddElement
  <2>2. Cardinality(InFlight) \in Nat /\ Cardinality(Again) \in Nat
    BY <1>8, <1>9, FS_CardinalityType
  <2>3. requests' = Cardinality(InFlight) - Cardinality(Again) + 1
    BY <1>6 DEF Inv
  <2>4. PICK m \in Int : m = Cardinality(InFlight')
    BY <2>1, <2>2
  <2> QED  BY <1>9, <2>1, <2>2, <2>3, <2>4
<1> QED  BY <1>5, <1>6, <1>7, <1>10 DEF Inv, Types

-----------------------------------------------------------------------------
(* The events of IndexedDB. *)

LEMMA OpenedKeeps ==
  ASSUME Inv, NEW s \in Ids, Opened(s)
  PROVE  Inv'
<1> DEFINE r == [syncs[s] EXCEPT !.stage = "read"]
<1>1. syncs[s] \in Sync /\ Balanced(syncs[s]) /\ syncs[s].stage = "open"
  BY DEF Inv, Types, Opened
<1>2. r \in Sync /\ r.stage = "read" /\ r.called = syncs[s].called
      /\ r.completed = syncs[s].completed /\ r.result = syncs[s].result
      /\ r.again = syncs[s].again /\ r.failed = syncs[s].failed
  BY <1>1 DEF Sync
<1>3. Becomes(s, r)
  BY DEF Opened
<1> HIDE DEF r
<1>4. Balanced(r)
  BY <1>1, <1>2, Waiting DEF Balanced
<1>5. /\ syncs' \in [Ids -> Sync] /\ \A t \in Ids : Balanced(syncs'[t])
      /\ requests' = Cardinality(InFlight') - Cardinality(Again')
  BY <1>1, <1>2, <1>3, <1>4, GoesOn
<1> QED  BY <1>5 DEF Inv, Types, Opened

LEMMA AnsweredKeeps ==
  ASSUME Inv, NEW s \in Ids, OpenFails(s) \/ ReadAborts(s) \/ NothingToDo(s)
  PROVE  Inv'
<1>1. syncs[s] \in Sync /\ Balanced(syncs[s]) /\ syncs[s].stage \in {"open", "read"}
  BY DEF Inv, Types, OpenFails, ReadAborts, NothingToDo, MayRead
<1>2. PICK result \in {"ok", "err"} : Becomes(s, Ended(Returned(syncs[s], result)))
  BY DEF OpenFails, ReadAborts, NothingToDo
<1>3. LET x == Ended(Returned(syncs[s], result)) IN
      /\ x \in Sync /\ Balanced(x) /\ x.stage # "idle" /\ x.called = syncs[s].called + 1
      /\ x.again = syncs[s].again
  BY <1>1, CalledAndGone
<1>4. /\ syncs' \in [Ids -> Sync] /\ \A t \in Ids : Balanced(syncs'[t])
      /\ requests' = Cardinality(InFlight') - Cardinality(Again')
  BY <1>1, <1>2, <1>3, GoesOn
<1> QED  BY <1>4 DEF Inv, Types, OpenFails, ReadAborts, NothingToDo

LEMMA LostKeeps ==
  ASSUME Inv, NEW s \in Ids, ReadFails(s)
  PROVE  Inv'
<1>1. syncs[s] \in Sync /\ Balanced(syncs[s]) /\ syncs[s].stage = "read"
  BY DEF Inv, Types, ReadFails, MayRead
<1>2. PICK r : r = [Idle EXCEPT !.stage = "lost"]
  OBVIOUS
<1>3. Becomes(s, r)
  BY <1>2 DEF ReadFails
<1>4. r \in Sync /\ Balanced(r) /\ r.stage # "idle" /\ r.called = 0 /\ r.again = 0
  BY <1>2, LostIs
<1>5. syncs[s].called = 0 /\ syncs[s].again = 0
  BY <1>1, Waiting
<1>6. /\ syncs' \in [Ids -> Sync] /\ \A t \in Ids : Balanced(syncs'[t])
      /\ requests' = Cardinality(InFlight') - Cardinality(Again')
  BY <1>1, <1>3, <1>4, <1>5, GoesOn
<1> QED  BY <1>6 DEF Inv, Types, ReadFails

LEMMA CommitKeeps ==
  ASSUME Inv, NEW s \in Ids, Commit(s)
  PROVE  Inv'
<1> DEFINE r == Ended(syncs[s])
<1>1. /\ syncs[s] \in Sync /\ Account(syncs[s]) /\ syncs[s].stage = "write"
      /\ syncs[s].create = {} /\ syncs[s].remove = {}
  BY DEF Inv, Types, Commit, Writes, Pending, Balanced
<1>2. Cardinality({}) = 0 /\ syncs[s].completed \in Nat /\ syncs[s].total \in Nat
  BY <1>1, FS_EmptySet DEF Sync
<1>3. syncs[s].called = 1
  BY <1>1, <1>2 DEF Account, Left
<1>4. /\ r \in Sync /\ r.stage = "ended" /\ r.called = syncs[s].called
      /\ r.again = syncs[s].again /\ r.failed = syncs[s].failed /\ r.result = syncs[s].result
  BY <1>1, Ends
<1>5. Becomes(s, r)
  BY DEF Commit
<1> HIDE DEF r
<1>6. Balanced(r)
  <2>1. syncs[s].again \in {0, 1} /\ (syncs[s].again = 1 => syncs[s].result = "err" /\ syncs[s].failed)
    BY <1>1, BalancedMeans DEF Balanced
  <2> QED  BY <1>3, <1>4, <2>1 DEF Balanced
<1>7. /\ syncs' \in [Ids -> Sync] /\ \A t \in Ids : Balanced(syncs'[t])
      /\ requests' = Cardinality(InFlight') - Cardinality(Again')
  BY <1>1, <1>4, <1>5, <1>6, GoesOn
<1> QED  BY <1>7 DEF Inv, Types, Commit

\* One request of call r has its answer, which v and the numbers of good and bad
\* entries say: one entry, or one that is counted as both when the request fails.
Given(v, r, p, good, bad) ==
  /\ v \in Sync /\ v.stage = r.stage /\ v.create = r.create \ {p} /\ v.remove = r.remove \ {p}
  /\ v.total = r.total /\ v.completed = r.completed /\ v.called = r.called /\ v.again = r.again
  /\ v.result = r.result /\ v.populate = r.populate /\ v.entries = r.entries
  /\ \/ good + bad = 1 /\ v.failed = r.failed
     \/ good = 1 /\ bad = 1 /\ v.failed

LEMMA ServedIs ==
  ASSUME NEW s \in Ids, syncs[s] \in Sync, NEW p
  PROVE  /\ Given(Served(s, p), syncs[s], p, 1, 0) /\ Given(Served(s, p), syncs[s], p, 0, 1)
         /\ Given([Served(s, p) EXCEPT !.failed = TRUE], syncs[s], p, 1, 1)
<1> DEFINE r == syncs[s]
           Is(v) == /\ v \in Sync /\ v.stage = r.stage
                    /\ v.create = r.create \ {p} /\ v.remove = r.remove \ {p}
                    /\ v.total = r.total /\ v.completed = r.completed /\ v.called = r.called
                    /\ v.again = r.again /\ v.result = r.result /\ v.populate = r.populate
                    /\ v.entries = r.entries
<1>1. PICK c : c = [r EXCEPT !.create = @ \ {p}]
  OBVIOUS
<1>2. /\ c \in Sync /\ c.stage = r.stage /\ c.create = r.create \ {p} /\ c.remove = r.remove
      /\ c.total = r.total /\ c.completed = r.completed /\ c.called = r.called
      /\ c.again = r.again /\ c.failed = r.failed
      /\ c.result = r.result /\ c.populate = r.populate /\ c.entries = r.entries
  BY <1>1 DEF Sync
<1>3. PICK v : v = [c EXCEPT !.remove = @ \ {p}]
  OBVIOUS
<1>4. Is(v) /\ v.failed = r.failed
  BY <1>2, <1>3 DEF Sync
<1>5. v = Served(s, p)
  BY <1>1, <1>3 DEF Served
<1>6. PICK w : w = [v EXCEPT !.failed = TRUE]
  OBVIOUS
<1>7. Is(w) /\ w.failed
  BY <1>4, <1>6 DEF Sync
<1> QED  BY <1>4, <1>5, <1>6, <1>7 DEF Given

\* Every answer to a request, and which of them is good alone.
LEMMA RequestGives ==
  ASSUME NEW s \in Ids, syncs[s] \in Sync, NEW p \in Paths,
         WriteRemote(s, p) \/ ReadRemote(s, p) \/ RequestFails(s, p)
  PROVE  /\ NextRequest(s, p)
         /\ \E v \in Sync, good \in Nat, bad \in Nat :
              /\ Given(v, syncs[s], p, good, bad) /\ Becomes(s, Settled(v, good, bad))
              /\ bad = 0 => \/ WriteRemote(s, p)
                            \/ ReadRemote(s, p) /\ CanStore(local, p, remote[p])
<1> DEFINE Well == WriteRemote(s, p) \/ (ReadRemote(s, p) /\ CanStore(local, p, remote[p]))
<1>1. NextRequest(s, p)
  BY DEF WriteRemote, ReadRemote, RequestFails
<1>2. CASE Well
  <2>1. Becomes(s, Settled(Served(s, p), 1, 0))
    BY <1>2, Zenon DEF WriteRemote, ReadRemote
  <2>2. PICK v : v = Served(s, p)
    OBVIOUS
  <2>3. Given(v, syncs[s], p, 1, 0) /\ Becomes(s, Settled(v, 1, 0))
    BY <2>1, <2>2, ServedIs
  <2> QED  BY <1>1, <1>2, <2>3 DEF Given
<1>3. CASE ReadRemote(s, p) /\ ~CanStore(local, p, remote[p])
  <2>1. Becomes(s, Settled(Served(s, p), 0, 1))
    BY <1>3, Zenon DEF ReadRemote
  <2>2. PICK v : v = Served(s, p)
    OBVIOUS
  <2>3. Given(v, syncs[s], p, 0, 1) /\ Becomes(s, Settled(v, 0, 1))
    BY <2>1, <2>2, ServedIs
  <2> QED  BY <1>1, <2>3 DEF Given
<1>4. CASE RequestFails(s, p)
  <2>1. Becomes(s, Settled([Served(s, p) EXCEPT !.failed = TRUE], 1, 1))
    BY <1>4, Zenon DEF RequestFails
  <2>2. PICK v : v = [Served(s, p) EXCEPT !.failed = TRUE]
    OBVIOUS
  <2>3. Given(v, syncs[s], p, 1, 1) /\ Becomes(s, Settled(v, 1, 1))
    BY <2>1, <2>2, ServedIs
  <2> QED  BY <1>1, <2>3 DEF Given
<1> QED  BY <1>2, <1>3, <1>4

LEMMA Answering ==
  ASSUME NEW r \in Sync, Account(r), r.stage = "write", NEW p \in r.create \cup r.remove,
         NEW v \in Sync, NEW good \in Nat, NEW bad \in Nat, Given(v, r, p, good, bad)
  PROVE  LET y == Settled(v, good, bad) IN
         /\ y \in Sync /\ y.stage = "write" /\ Account(y)
         /\ y.called \in {r.called, r.called + 1} /\ y.again \in {r.again, r.again + 1}
<1>1. /\ r.create \in SUBSET Paths /\ r.remove \in SUBSET Paths
      /\ r.completed \in Nat /\ r.total \in Nat /\ r.create \cap r.remove = {}
  BY DEF Sync, Account
<1>2. /\ v.stage = "write" /\ v.create = r.create \ {p} /\ v.remove = r.remove \ {p}
      /\ v.total = r.total /\ v.completed = r.completed /\ v.called = r.called
      /\ v.again = r.again /\ v.result = r.result
      /\ \/ good + bad = 1 /\ v.failed = r.failed
         \/ good = 1 /\ bad = 1 /\ v.failed
  BY DEF Given
<1>3. /\ Cardinality(r.create) \in Nat /\ Cardinality(r.remove) \in Nat
      /\ Cardinality(v.create) \in Nat /\ Cardinality(v.remove) \in Nat
  BY <1>1, <1>2, PathsFinite
<1>4. Left(v) = Left(r) - 1 /\ r.completed < Left(r) /\ Left(r) \in Nat
  <2>1. CASE p \in r.create
    <3>1. v.remove = r.remove
      BY <1>1, <1>2, <2>1
    <3>2. Cardinality(v.create) = Cardinality(r.create) - 1 /\ Cardinality(r.create) > 0
      BY <1>1, <1>2, <2>1, Fewer
    <3>3. PICK c \in Nat, d \in Nat, m \in Nat, n \in Nat :
            /\ c = Cardinality(r.create) /\ d = Cardinality(r.remove)
            /\ m = Cardinality(v.create) /\ n = Cardinality(v.remove)
      BY <1>3
    <3>4. Left(v) = r.completed + m + n /\ Left(r) = r.completed + c + d
      BY <1>2, <3>3 DEF Left
    <3> QED  BY <1>1, <3>1, <3>2, <3>3, <3>4
  <2>2. CASE p \notin r.create
    <3>1. v.create = r.create
      BY <1>1, <1>2, <2>2
    <3>2. Cardinality(v.remove) = Cardinality(r.remove) - 1 /\ Cardinality(r.remove) > 0
      BY <1>1, <1>2, <2>2, Fewer
    <3>3. PICK c \in Nat, d \in Nat, m \in Nat, n \in Nat :
            /\ c = Cardinality(r.create) /\ d = Cardinality(r.remove)
            /\ m = Cardinality(v.create) /\ n = Cardinality(v.remove)
      BY <1>3
    <3>4. Left(v) = r.completed + m + n /\ Left(r) = r.completed + c + d
      BY <1>2, <3>3 DEF Left
    <3> QED  BY <1>1, <3>1, <3>2, <3>3, <3>4
  <2> QED  BY <2>1, <2>2
<1>5. v.completed < v.total
  BY <1>1, <1>2, <1>4 DEF Account
<1>6. /\ v.called = IF v.result = "err" THEN 1 ELSE 0
      /\ v.again = 0
  BY <1>1, <1>2, <1>5 DEF Account
<1>7. v.create \cap v.remove = {}
  BY <1>1, <1>2
<1>8. IF v.result = "err" \/ bad > 0
      THEN Left(v) + good <= v.total /\ (~v.failed => Left(v) + good < v.total)
      ELSE Left(v) + good = v.total /\ ~v.failed
  <2>1. CASE r.result = "err"
    <3>1. Left(r) <= r.total /\ (~r.failed => Left(r) < r.total)
      BY <2>1 DEF Account
    <3>2. good <= 1 /\ (~v.failed => ~r.failed)
      BY <1>2
    <3> QED  BY <1>1, <1>2, <1>4, <2>1, <3>1, <3>2
  <2>2. CASE r.result # "err"
    <3>1. Left(r) = r.total /\ ~r.failed
      BY <2>2 DEF Account
    <3>2. CASE good + bad = 1 /\ v.failed = r.failed
      BY <1>1, <1>2, <1>4, <2>2, <3>1, <3>2
    <3>3. CASE good = 1 /\ bad = 1 /\ v.failed
      BY <1>1, <1>2, <1>4, <2>2, <3>1, <3>3
    <3> QED  BY <1>2, <3>2, <3>3
  <2> QED  BY <2>1, <2>2
<1>9. PICK y : y = Settled(v, good, bad)
  OBVIOUS
<1>10. /\ y \in Sync /\ y.stage = "write" /\ Account(y)
       /\ y.called \in {v.called, v.called + 1} /\ y.again \in {0, 1}
  BY <1>2, <1>5, <1>6, <1>7, <1>8, <1>9, Settlement
<1> QED  BY <1>2, <1>6, <1>9, <1>10

LEMMA Answered ==
  ASSUME Inv, NEW s \in Ids, NEW p \in Paths,
         WriteRemote(s, p) \/ ReadRemote(s, p) \/ RequestFails(s, p)
  PROVE  /\ syncs' \in [Ids -> Sync] /\ \A t \in Ids : Balanced(syncs'[t])
         /\ requests' = Cardinality(InFlight') - Cardinality(Again')
<1>1. syncs[s] \in Sync
  BY DEF Inv, Types
<1>2. NextRequest(s, p)
  BY <1>1, RequestGives
<1>3. Account(syncs[s]) /\ syncs[s].stage = "write" /\ p \in syncs[s].create \cup syncs[s].remove
  BY <1>2 DEF Inv, NextRequest, Writes, Balanced
<1>4. PICK v \in Sync, good \in Nat, bad \in Nat :
        Given(v, syncs[s], p, good, bad) /\ Becomes(s, Settled(v, good, bad))
  BY <1>1, RequestGives
<1>5. PICK y : y = Settled(v, good, bad)
  OBVIOUS
<1>6. /\ y \in Sync /\ y.stage = "write" /\ Account(y)
      /\ y.called \in {syncs[s].called, syncs[s].called + 1}
      /\ y.again \in {syncs[s].again, syncs[s].again + 1}
  BY <1>1, <1>3, <1>4, <1>5, Answering
<1>7. Balanced(y) /\ Becomes(s, y)
  BY <1>4, <1>5, <1>6 DEF Balanced
<1> QED  BY <1>3, <1>6, <1>7, GoesOn

LEMMA RequestKeeps ==
  ASSUME Inv, NEW s \in Ids, NEW p \in Paths,
         WriteRemote(s, p) \/ ReadRemote(s, p) \/ RequestFails(s, p)
  PROVE  Inv'
<1>0. /\ syncs' \in [Ids -> Sync] /\ \A t \in Ids : Balanced(syncs'[t])
      /\ requests' = Cardinality(InFlight') - Cardinality(Again')
  BY Answered
<1>1. CASE WriteRemote(s, p)
  <2>1. syncs[s].entries \in Trees
    BY DEF Inv, Types, Sync
  <2>2. PICK e \in Entry \cup {None} : remote' = [remote EXCEPT ![p] = e]
    BY <1>1, <2>1 DEF WriteRemote, Trees
  <2>3. remote' \in Trees
    BY <2>2 DEF Inv, Types, Trees
  <2> QED  BY <1>0, <1>1, <2>3 DEF Inv, Types, WriteRemote
<1>2. CASE ReadRemote(s, p)
  <2>1. local' = local \/ local' = [local EXCEPT ![p] = remote[p]]
    BY <1>2 DEF ReadRemote, Changes
  <2>2. local' \in Trees
    BY <2>1 DEF Inv, Types, Trees
  <2> QED  BY <1>0, <1>2, <2>2 DEF Inv, Types, ReadRemote
<1>3. CASE RequestFails(s, p)
  BY <1>0, <1>3 DEF Inv, Types, RequestFails
<1> QED  BY <1>1, <1>2, <1>3

\* An aborted transaction reports what has no answer yet, unless an error was.
LEMMA Aborting ==
  ASSUME NEW r \in Sync, Account(r)
  PROVE  LET y == Ended(Settled(r, 0, Cardinality(r.create \cup r.remove))) IN
         /\ y \in Sync /\ y.stage = "ended" /\ y.called = 1 /\ r.called \in {0, 1}
         /\ y.again = r.again /\ y.failed = r.failed /\ y.result \in {r.result, "err"}
<1>1. PICK n : n = Cardinality(r.create \cup r.remove)
  OBVIOUS
<1>2. /\ r.create \in SUBSET Paths /\ r.remove \in SUBSET Paths
      /\ r.completed \in Nat /\ r.total \in Nat /\ r.create \cap r.remove = {}
  BY DEF Sync, Account
<1>3. /\ Cardinality(r.create) \in Nat /\ Cardinality(r.remove) \in Nat /\ n \in Nat
      /\ n = Cardinality(r.create) + Cardinality(r.remove)
  BY <1>1, <1>2, PathsFinite, Apart
<1>4. PICK x : x = Settled(r, 0, n)
  OBVIOUS
<1>5. PICK good \in Nat : good = 0
  OBVIOUS
<1>6. LET full == good > 0 /\ r.completed + good >= r.total
      IN
      /\ x \in Sync /\ x.failed = r.failed
      /\ IF n > 0 /\ r.result # "err"
         THEN x.called = r.called + 1 /\ x.result = "err"
         ELSE IF full /\ r.result # "err"
         THEN x.called = r.called + 1 /\ x.result = "ok"
         ELSE x.called = r.called /\ x.result = r.result
  <2>1. PICK bad \in Nat : bad = n
    BY <1>3
  <2>2. x = Settled(r, good, bad)
    BY <1>4, <1>5, <2>1
  <2>3. Settling(r, good, bad, x)
    BY <2>2, Settles
  <2> QED  BY <2>1, <2>3 DEF Settling
<1>9. x.again = IF (good > 0 /\ r.completed + good >= r.total) /\ (n > 0 \/ r.result = "err")
                THEN r.again + 1 ELSE r.again
  <2>1. PICK bad \in Nat : bad = n
    BY <1>3
  <2>2. x = Settled(r, good, bad)
    BY <1>4, <1>5, <2>1
  <2>3. Settling(r, good, bad, x)
    BY <2>2, Settles
  <2> QED  BY <2>1, <2>3 DEF Settling
<1>7. /\ x \in Sync /\ x.failed = r.failed /\ x.again = r.again
      /\ x.result \in {r.result, "err"}
      /\ x.called = IF n > 0 /\ r.result # "err" THEN r.called + 1 ELSE r.called
  BY <1>5, <1>6, <1>9
<1>8. x.called = 1 /\ r.called \in {0, 1}
  <2>1. CASE r.result = "err"
    BY <1>7, <2>1 DEF Account
  <2>2. CASE r.result # "err" /\ n > 0
    <3>1. r.completed < r.total
      BY <1>2, <1>3, <2>2 DEF Account, Left
    <3>2. r.called = 0
      BY <1>2, <2>2, <3>1 DEF Account
    <3> QED  BY <1>7, <2>2, <3>2
  <2>3. CASE r.result # "err" /\ ~(n > 0)
    <3>1. r.completed >= r.total
      BY <1>2, <1>3, <2>3 DEF Account, Left
    <3> QED  BY <1>7, <2>3, <3>1 DEF Account
  <2> QED  BY <2>1, <2>2, <2>3
<1> QED  BY <1>1, <1>4, <1>7, <1>8, Ends

LEMMA AbortKeeps ==
  ASSUME Inv, NEW s \in Ids, Abort(s)
  PROVE  Inv'
<1>1. syncs[s] \in Sync /\ Account(syncs[s]) /\ syncs[s].stage = "write"
  BY DEF Inv, Types, Abort, Writes, Balanced
<1>2. PICK y : y = Ended(Settled(syncs[s], 0, Cardinality(syncs[s].create \cup syncs[s].remove)))
  OBVIOUS
<1>3. /\ y \in Sync /\ y.stage = "ended" /\ y.called = 1 /\ syncs[s].called \in {0, 1}
      /\ y.again = syncs[s].again /\ y.failed = syncs[s].failed
      /\ y.result \in {syncs[s].result, "err"}
  BY <1>1, <1>2, Aborting
<1>4. Becomes(s, y)
  BY <1>2 DEF Abort
<1>5. /\ syncs[s].again \in {0, 1}
      /\ syncs[s].again = 1 => syncs[s].result = "err" /\ syncs[s].failed
  BY <1>1, BalancedMeans DEF Balanced
<1>6. Balanced(y) /\ y.called \in {syncs[s].called, syncs[s].called + 1}
  BY <1>3, <1>5 DEF Balanced
<1>7. /\ syncs' \in [Ids -> Sync] /\ \A t \in Ids : Balanced(syncs'[t])
      /\ requests' = Cardinality(InFlight') - Cardinality(Again')
  BY <1>1, <1>3, <1>4, <1>6, GoesOn
<1> QED  BY <1>7 DEF Inv, Types, Abort

-----------------------------------------------------------------------------
(* Reconciling. *)

LEMMA Disjoint ==
  ASSUME Inv, NEW s \in Ids
  PROVE  /\ ToCreate(s) \in SUBSET Paths /\ ToRemove(s) \in SUBSET Paths
         /\ ToCreate(s) \cap ToRemove(s) = {}
<1>1. SetOf(remote) \in Set /\ syncs[s].set \in Set
  BY SetType DEF Inv, Types, Sync
<1>2. Source(s) \in Set /\ Target(s) \in Set
  BY <1>1 DEF Source, Target
<1>3. \A p \in Paths : Target(s)[p] \in Int /\ Target(s)[p] >= -1
  BY <1>2, IDBSyncAssumption DEF Set, Times
<1>4. ASSUME NEW p \in ToCreate(s), p \in ToRemove(s)
      PROVE  FALSE
  BY <1>3, <1>4 DEF ToCreate, ToRemove
<1> QED  BY <1>4 DEF ToCreate, ToRemove

\* A call that begins to write, with the total of what is to do.
LEMMA Begins ==
  ASSUME NEW r \in Sync, r.stage = "write", r.called = 0, r.result # "err", r.completed = 0,
         r.again = 0, ~r.failed,
         NEW good \in Nat, NEW bad \in Nat, r.create \cap r.remove = {}, r.total > 0,
         r.total = Cardinality(r.create) + Cardinality(r.remove) + good + bad
  PROVE  LET x == Settled(r, good, bad) IN
         /\ x \in Sync /\ x.stage = "write" /\ Account(x) /\ x.called \in {0, 1}
         /\ x.again \in {0, 1}
<1>1. r.create \in SUBSET Paths /\ r.remove \in SUBSET Paths /\ r.total \in Nat
  BY DEF Sync
<1>2. Cardinality(r.create) \in Nat /\ Cardinality(r.remove) \in Nat
  BY <1>1, PathsFinite
<1>3. r.completed < r.total
  BY <1>1
<1>4. r.called = IF r.result = "err" THEN 1 ELSE 0
  OBVIOUS
<1>5. IF r.result = "err" \/ bad > 0
      THEN Left(r) + good <= r.total /\ (~r.failed => Left(r) + good < r.total)
      ELSE Left(r) + good = r.total /\ ~r.failed
  <2>1. CASE bad > 0
    BY <1>1, <1>2, <2>1 DEF Left
  <2>2. CASE ~(bad > 0)
    BY <1>1, <1>2, <2>2 DEF Left
  <2> QED  BY <2>1, <2>2
<1>6. LET x == Settled(r, good, bad) IN
      /\ x \in Sync /\ x.stage = "write" /\ Account(x)
      /\ x.called \in {r.called, r.called + 1} /\ x.again \in {0, 1}
  BY <1>3, <1>4, <1>5, Settlement
<1> QED  BY <1>6

\* The record of a call that begins to write, one field after the other.
Filled(r, create, remove, total, entries) ==
  [r EXCEPT !.stage = "write", !.set = Idle.set, !.create = create, !.remove = remove,
            !.total = total, !.entries = entries]

LEMMA Written ==
  ASSUME NEW r \in Sync, NEW create \in SUBSET Paths, NEW remove \in SUBSET Paths,
         NEW total \in Nat, NEW entries \in Trees
  PROVE  LET x == Filled(r, create, remove, total, entries) IN
         /\ x \in Sync /\ x.stage = "write" /\ x.create = create /\ x.remove = remove
         /\ x.total = total /\ x.called = r.called /\ x.completed = r.completed
         /\ x.result = r.result /\ x.again = r.again /\ x.failed = r.failed
         /\ x.populate = r.populate /\ x.entries = entries
<1>1. Idle.set \in Set
  BY DEF Idle, Set
<1>2. PICK set \in Set : set = Idle.set
  BY <1>1
<1>3. PICK a : a = [r EXCEPT !.stage = "write"]
  OBVIOUS
<1>4. PICK b : b = [a EXCEPT !.set = set]
  OBVIOUS
<1>5. PICK c : c = [b EXCEPT !.create = create]
  OBVIOUS
<1>6. PICK d : d = [c EXCEPT !.remove = remove]
  OBVIOUS
<1>7. PICK e : e = [d EXCEPT !.total = total]
  OBVIOUS
<1>8. PICK x : x = [e EXCEPT !.entries = entries]
  OBVIOUS
<1>9. /\ a \in Sync /\ a.stage = "write" /\ a.called = r.called
      /\ a.completed = r.completed /\ a.result = r.result
       /\ a.again = r.again /\ a.failed = r.failed /\ a.populate = r.populate
  BY <1>3 DEF Sync
<1>10. /\ b \in Sync /\ b.stage = "write" /\ b.called = r.called
       /\ b.completed = r.completed /\ b.result = r.result
       /\ b.again = r.again /\ b.failed = r.failed /\ b.populate = r.populate
  BY <1>4, <1>9 DEF Sync
<1>11. /\ c \in Sync /\ c.stage = "write" /\ c.called = r.called /\ c.create = create
       /\ c.completed = r.completed /\ c.result = r.result
       /\ c.again = r.again /\ c.failed = r.failed /\ c.populate = r.populate
  BY <1>5, <1>10 DEF Sync
<1>12. /\ d \in Sync /\ d.stage = "write" /\ d.called = r.called /\ d.create = create
       /\ d.completed = r.completed /\ d.result = r.result
       /\ d.again = r.again /\ d.failed = r.failed /\ d.populate = r.populate
       /\ d.remove = remove
  BY <1>6, <1>11 DEF Sync
<1>13. /\ e \in Sync /\ e.stage = "write" /\ e.called = r.called /\ e.create = create
       /\ e.completed = r.completed /\ e.result = r.result
       /\ e.again = r.again /\ e.failed = r.failed /\ e.populate = r.populate
       /\ e.remove = remove /\ e.total = total
  BY <1>7, <1>12 DEF Sync
<1>14. /\ x \in Sync /\ x.stage = "write" /\ x.called = r.called /\ x.create = create
       /\ x.completed = r.completed /\ x.result = r.result
       /\ x.again = r.again /\ x.failed = r.failed /\ x.populate = r.populate
       /\ x.entries = entries /\ x.remove = remove /\ x.total = total
  BY <1>8, <1>13 DEF Sync
<1>15. x = Filled(r, create, remove, total, entries)
  BY <1>2, <1>3, <1>4, <1>5, <1>6, <1>7, <1>8 DEF Filled
<1> QED  BY <1>14, <1>15

LEMMA PersistKeeps ==
  ASSUME Inv, NEW s \in Ids, Persist(s)
  PROVE  Inv'
<1> DEFINE gone == {p \in ToCreate(s) : local[p] = None}
           kept == ToCreate(s) \ gone
           entries == [p \in Paths |-> IF p \in kept THEN local[p] ELSE None]
<1>1. /\ syncs[s] \in Sync /\ syncs[s].stage = "read" /\ Balanced(syncs[s])
  BY DEF Inv, Types, Persist, MayRead
<1>2. /\ syncs[s].called = 0 /\ syncs[s].completed = 0 /\ syncs[s].result # "err"
      /\ syncs[s].again = 0 /\ ~syncs[s].failed
  BY <1>1, Waiting
<1>3. /\ ToCreate(s) \in SUBSET Paths /\ ToRemove(s) \in SUBSET Paths
      /\ ToCreate(s) \cap ToRemove(s) = {}
  BY Disjoint
<1>4. entries \in Trees
  BY DEF Inv, Types, Trees
<1>5. Becomes(s, Settled(Writing(s, kept, ToRemove(s), entries), 0, Cardinality(gone)))
      /\ Work(s) # {}
  BY DEF Persist
<1> HIDE DEF entries
<1>6. /\ kept \in SUBSET Work(s) /\ gone \in SUBSET Work(s) /\ ToRemove(s) \in SUBSET Work(s)
      /\ kept \cap gone = {} /\ kept \cap ToRemove(s) = {} /\ gone \cap ToRemove(s) = {}
      /\ kept \cup gone \cup ToRemove(s) = Work(s) /\ Work(s) \in SUBSET Paths
      /\ kept \in SUBSET Paths /\ gone \in SUBSET Paths
  BY <1>3 DEF Work
<1> HIDE DEF gone, kept
<1>7. /\ Cardinality(kept) \in Nat /\ Cardinality(gone) \in Nat /\ Cardinality(ToRemove(s)) \in Nat
      /\ Cardinality(Work(s)) = Cardinality(kept) + Cardinality(gone) + Cardinality(ToRemove(s))
  <2>1. Cardinality(kept \cup gone) = Cardinality(kept) + Cardinality(gone)
    BY <1>6, Apart
  <2>2. /\ kept \cup gone \in SUBSET Paths /\ (kept \cup gone) \cap ToRemove(s) = {}
        /\ ToRemove(s) \in SUBSET Paths
    BY <1>6
  <2>3. Cardinality((kept \cup gone) \cup ToRemove(s)) = Cardinality(kept \cup gone) + Cardinality(ToRemove(s))
    BY <2>2, Apart
  <2>4. Cardinality(kept) \in Nat /\ Cardinality(gone) \in Nat /\ Cardinality(ToRemove(s)) \in Nat
    BY <1>6, PathsFinite
  <2> QED  BY <1>6, <2>1, <2>3, <2>4
<1>8. Cardinality(Work(s)) \in Nat /\ Cardinality(Work(s)) # 0
  BY <1>5, <1>6, PathsFinite, NoneLeft
<1>9. PICK r : r = Writing(s, kept, ToRemove(s), entries)
  OBVIOUS
<1>10. /\ r \in Sync /\ r.stage = "write" /\ r.create = kept /\ r.remove = ToRemove(s)
       /\ r.total = Cardinality(Work(s)) /\ r.called = 0 /\ r.completed = 0 /\ r.result # "err"
       /\ r.again = 0 /\ ~r.failed
  <2>1. Cardinality(Work(s)) \in Nat /\ kept \in SUBSET Paths /\ ToRemove(s) \in SUBSET Paths
    BY <1>3, <1>6, <1>8
  <2>2. r = Filled(syncs[s], kept, ToRemove(s), Cardinality(Work(s)), entries)
    BY <1>9, Zenon DEF Writing, Filled
  <2>3. /\ r \in Sync /\ r.stage = "write" /\ r.create = kept /\ r.remove = ToRemove(s)
        /\ r.total = Cardinality(Work(s)) /\ r.called = syncs[s].called
        /\ r.completed = syncs[s].completed /\ r.result = syncs[s].result
        /\ r.again = syncs[s].again /\ r.failed = syncs[s].failed
    BY <1>1, <1>4, <2>1, <2>2, Written
  <2> QED  BY <1>2, <2>3
<1>11. /\ r.total > 0 /\ r.create \cap r.remove = {}
       /\ r.total = Cardinality(r.create) + Cardinality(r.remove) + 0 + Cardinality(gone)
  BY <1>6, <1>7, <1>8, <1>10
<1>12. LET x == Settled(r, 0, Cardinality(gone)) IN
       /\ x \in Sync /\ x.stage = "write" /\ Account(x) /\ x.called \in {0, 1}
       /\ x.again \in {0, 1}
  BY <1>7, <1>10, <1>11, Begins
<1>13. PICK y \in Sync : /\ Becomes(s, y) /\ y.stage = "write" /\ Account(y) /\ y.called \in {0, 1}
                         /\ y.again \in {0, 1}
  BY <1>5, <1>9, <1>12
<1>14. Balanced(y)
  BY <1>13 DEF Balanced
<1>15. /\ syncs' \in [Ids -> Sync] /\ \A t \in Ids : Balanced(syncs'[t])
       /\ requests' = Cardinality(InFlight') - Cardinality(Again')
  BY <1>1, <1>2, <1>13, <1>14, GoesOn
<1> QED  BY <1>15 DEF Inv, Types, Persist

LEMMA PopulateKeeps ==
  ASSUME Inv, NEW s \in Ids, Populate(s)
  PROVE  Inv'
<1> DEFINE removed == {p \in ToRemove(s) :
                         local[p] # None
                         /\ \A q \in Paths : p \in Above[q] /\ local[q] # None => q \in ToRemove(s)}
           failed == ToRemove(s) \ removed
           after == [p \in Paths |-> IF p \in removed THEN None ELSE local[p]]
<1>1. /\ syncs[s] \in Sync /\ syncs[s].stage = "read" /\ Balanced(syncs[s])
  BY DEF Inv, Types, Populate, MayRead
<1>2. /\ syncs[s].called = 0 /\ syncs[s].completed = 0 /\ syncs[s].result # "err"
      /\ syncs[s].again = 0 /\ ~syncs[s].failed
  BY <1>1, Waiting
<1>3. /\ ToCreate(s) \in SUBSET Paths /\ ToRemove(s) \in SUBSET Paths
      /\ ToCreate(s) \cap ToRemove(s) = {}
  BY Disjoint
<1>4. after \in Trees /\ Idle.entries \in Trees
  BY DEF Inv, Types, Trees, Idle
<1>5. /\ Becomes(s, Settled(Writing(s, ToCreate(s), {}, Idle.entries),
                            Cardinality(removed), Cardinality(failed)))
      /\ Work(s) # {} /\ local' = after
  BY DEF Populate, Changes
<1> HIDE DEF after
<1>6. /\ removed \in SUBSET Work(s) /\ failed \in SUBSET Work(s) /\ ToCreate(s) \in SUBSET Work(s)
      /\ removed \cap failed = {} /\ ToCreate(s) \cap removed = {} /\ ToCreate(s) \cap failed = {}
      /\ ToCreate(s) \cup removed \cup failed = Work(s) /\ Work(s) \in SUBSET Paths
  <2>1. removed \in SUBSET ToRemove(s)
    OBVIOUS
  <2> HIDE DEF removed
  <2> QED  BY <1>3, <2>1 DEF Work
<1> HIDE DEF removed, failed
<1>7. /\ Cardinality(removed) \in Nat /\ Cardinality(failed) \in Nat /\ Cardinality(ToCreate(s)) \in Nat
      /\ Cardinality(Work(s)) = Cardinality(ToCreate(s)) + Cardinality(removed) + Cardinality(failed)
  <2>1. Cardinality(ToCreate(s) \cup removed) = Cardinality(ToCreate(s)) + Cardinality(removed)
    BY <1>6, Apart
  <2>2. /\ ToCreate(s) \cup removed \in SUBSET Paths /\ (ToCreate(s) \cup removed) \cap failed = {}
        /\ failed \in SUBSET Paths
    BY <1>6
  <2>3. Cardinality((ToCreate(s) \cup removed) \cup failed) = Cardinality(ToCreate(s) \cup removed) + Cardinality(failed)
    BY <2>2, Apart
  <2>4. Cardinality(ToCreate(s)) \in Nat /\ Cardinality(removed) \in Nat /\ Cardinality(failed) \in Nat
    BY <1>6, PathsFinite
  <2> QED  BY <1>6, <2>1, <2>3, <2>4
<1>8. Cardinality(Work(s)) \in Nat /\ Cardinality(Work(s)) # 0 /\ Cardinality({}) = 0
  BY <1>5, <1>6, PathsFinite, NoneLeft, FS_EmptySet
<1>9. PICK r : r = Writing(s, ToCreate(s), {}, Idle.entries)
  OBVIOUS
<1>10. /\ r \in Sync /\ r.stage = "write" /\ r.create = ToCreate(s) /\ r.remove = {}
       /\ r.total = Cardinality(Work(s)) /\ r.called = 0 /\ r.completed = 0 /\ r.result # "err"
       /\ r.again = 0 /\ ~r.failed
  <2>1. Cardinality(Work(s)) \in Nat /\ ToCreate(s) \in SUBSET Paths /\ {} \in SUBSET Paths
    BY <1>3, <1>6, <1>8
  <2>2. r = Filled(syncs[s], ToCreate(s), {}, Cardinality(Work(s)), Idle.entries)
    BY <1>9, Zenon DEF Writing, Filled
  <2>3. /\ r \in Sync /\ r.stage = "write" /\ r.create = ToCreate(s) /\ r.remove = {}
        /\ r.total = Cardinality(Work(s)) /\ r.called = syncs[s].called
        /\ r.completed = syncs[s].completed /\ r.result = syncs[s].result
        /\ r.again = syncs[s].again /\ r.failed = syncs[s].failed
    BY <1>1, <1>4, <2>1, <2>2, Written
  <2> QED  BY <1>2, <2>3
<1>11. /\ r.total > 0 /\ r.create \cap r.remove = {}
       /\ r.total = Cardinality(r.create) + Cardinality(r.remove) + Cardinality(removed) + Cardinality(failed)
  BY <1>7, <1>8, <1>10
<1>12. LET x == Settled(r, Cardinality(removed), Cardinality(failed)) IN
       /\ x \in Sync /\ x.stage = "write" /\ Account(x) /\ x.called \in {0, 1}
       /\ x.again \in {0, 1}
  BY <1>7, <1>10, <1>11, Begins
<1>13. PICK y \in Sync : /\ Becomes(s, y) /\ y.stage = "write" /\ Account(y) /\ y.called \in {0, 1}
                         /\ y.again \in {0, 1}
  BY <1>5, <1>9, <1>12
<1>14. Balanced(y)
  BY <1>13 DEF Balanced
<1>15. /\ syncs' \in [Ids -> Sync] /\ \A t \in Ids : Balanced(syncs'[t])
       /\ requests' = Cardinality(InFlight') - Cardinality(Again')
  BY <1>1, <1>2, <1>13, <1>14, GoesOn
<1> QED  BY <1>4, <1>5, <1>15 DEF Inv, Types, Populate

-----------------------------------------------------------------------------
LEMMA Beginning == Init => Inv
<1> SUFFICES ASSUME Init PROVE Inv
  OBVIOUS
<1>1. stored \in Trees
  BY IDBSyncAssumption DEF Init, Trees, Entry, Times
<1>2. Idle \in Sync /\ Balanced(Idle)
  BY DEF Idle, Sync, Set, Trees, Balanced
<1>3. now \in Times /\ local \in Trees
  BY IDBSyncAssumption DEF Init, Times, Trees
<1>4. InFlight = {} /\ Again = {} /\ Cardinality({}) = 0
  BY FS_EmptySet DEF Init, InFlight, Again, Uncalled, Idle
<1>5. requests = 0 /\ syncs = [s \in Ids |-> Idle]
  BY DEF Init
<1> QED  BY <1>1, <1>2, <1>3, <1>4, <1>5 DEF Init, Inv, Types

LEMMA Step == Inv /\ [Next]_vars => Inv'
<1> SUFFICES ASSUME Inv, [Next]_vars PROVE Inv'
  OBVIOUS
<1>1. CASE Tick
  <2>1. now' \in Times
    BY <1>1, IDBSyncAssumption DEF Tick, Inv, Types, Times
  <2> QED  BY <1>1, <2>1, Same DEF Tick, Inv, Types
<1>2. ASSUME NEW p \in Paths, Remove(p)
      PROVE  Inv'
  BY <1>2, RemoveKeeps
<1>3. ASSUME NEW p \in Paths, NEW dir \in Kinds(p), Store(p, dir)
      PROVE  Inv'
  BY <1>3, StoreKeeps
<1>4. ASSUME NEW s \in Ids, NEW populate \in BOOLEAN, Syncfs(s, populate)
      PROVE  Inv'
  BY <1>4, SyncfsKeeps
<1>5. ASSUME NEW s \in Ids, Answer(s)
      PROVE  Inv'
  <2>0. CASE ReadFails(s)
    BY <2>0, LostKeeps
  <2>1. CASE Opened(s)
    BY <2>1, OpenedKeeps
  <2>2. CASE OpenFails(s) \/ ReadAborts(s) \/ NothingToDo(s)
    BY <2>2, AnsweredKeeps
  <2>3. CASE Persist(s)
    BY <2>3, PersistKeeps
  <2>4. CASE Populate(s)
    BY <2>4, PopulateKeeps
  <2>5. CASE \E p \in Paths : WriteRemote(s, p) \/ ReadRemote(s, p) \/ RequestFails(s, p)
    BY <2>5, RequestKeeps
  <2>6. CASE Commit(s)
    BY <2>6, CommitKeeps
  <2>7. CASE Abort(s)
    BY <2>7, AbortKeeps
  <2> QED  BY <1>5, <2>0, <2>1, <2>2, <2>3, <2>4, <2>5, <2>6, <2>7 DEF Answer, Event
<1>6. CASE UNCHANGED vars
  BY <1>6, Same DEF vars, Inv, Types
<1> QED  BY <1>1, <1>2, <1>3, <1>4, <1>5, <1>6 DEF Next

\* A call of syncfs() reports at most one error or one success, and a null after
\* the error only if one of its requests failed, and once; syncFSRequests counts
\* the calls without a callback, less those with two: for every tree, every number
\* of calls and every failure.  So doCallback()'s assertion can fail only when a
\* request has failed in a transaction that goes on.
THEOREM CalledBack == Spec => []CallbacksCounted
<1>1. Inv => CallbacksCounted
  <2> SUFFICES ASSUME Inv PROVE CallbacksCounted
    OBVIOUS
  <2>1. \A s \in Ids : /\ syncs[s].called \in {0, 1} /\ syncs[s].again \in {0, 1}
                       /\ syncs[s].again = 1 => syncs[s].result = "err" /\ syncs[s].failed
    BY BalancedMeans DEF Inv, Types
  <2>2. requests = Cardinality({s \in Ids : Uncalled(s)})
                   - Cardinality({s \in Ids : syncs[s].again > 0})
    BY DEF Inv, InFlight, Again
  <2> QED  BY <2>1, <2>2 DEF CallbacksCounted
<1> QED  BY <1>1, Beginning, Step, PTL DEF Spec

-----------------------------------------------------------------------------
(* What a call that nobody disturbs has done so far. *)

\* What has no answer yet is as it was requested; the rest is the same on both
\* sides, or newer in the target.
AgreeAt(source, target, p) ==
  /\ source[p] = None <=> target[p] = None
  /\ SetOf(target)[p] >= SetOf(source)[p]

PersistSoFar(s) ==
  \A p \in Paths :
    IF p \in syncs[s].create THEN syncs[s].entries[p] = local[p] /\ local[p] # None
    ELSE IF p \in syncs[s].remove THEN local[p] = None
    ELSE AgreeAt(local, remote, p)

PopulateSoFar(s) ==
  /\ syncs[s].remove = {}
  /\ \A p \in Paths \ syncs[s].create : AgreeAt(remote, local, p)

\* A call that was the only one in flight.
Calm(s) == Flying(s) /\ s \notin disturbed

\* It is the last that waits to read, and alone when it writes.
Progress(s) ==
  /\ syncs[s].stage \in {"open", "read"} => syncs[s].set = SetOf(local)
  /\ syncs[s].stage = "read" =>
       /\ queue # <<>> /\ queue[Len(queue)] = s
       /\ \A i \in 1..(Len(queue) - 1) : syncs[queue[i]].stage # "read"
  /\ syncs[s].stage = "write" =>
       /\ queue = <<s>>
       /\ IF syncs[s].populate THEN PopulateSoFar(s) ELSE PersistSoFar(s)

CalmInv ==
  /\ queue \in Seq(Ids)
  /\ \A i \in DOMAIN queue : syncs[queue[i]].stage \notin {"idle", "open"}
  /\ \A s \in Ids : Calm(s) => Progress(s) /\ \A t \in Ids \ {s} : ~Flying(t)

\* A call says that all went well, and nobody disturbed it: the two sides agree.
Synced(s) ==
  syncs[s].result = "none" /\ syncs'[s].result = "ok" /\ s \notin disturbed =>
    IF syncs[s].populate THEN Agree(remote', local') ELSE Agree(local', remote')

LEMMA Leaves ==
  ASSUME NEW q \in Seq(Ids), NEW s, \E i \in DOMAIN q : q[i] = s
  PROVE  /\ Leave(q, s) \in Seq(Ids)
         /\ \A i \in DOMAIN Leave(q, s) : \E j \in DOMAIN q : Leave(q, s)[i] = q[j]
<1>1. PICK k \in DOMAIN q : k = CHOOSE i \in DOMAIN q : q[i] = s
  OBVIOUS
<1>2. k \in 1..Len(q) /\ Len(q) \in Nat
  OBVIOUS
<1> DEFINE a == SubSeq(q, 1, k - 1)
           b == SubSeq(q, k + 1, Len(q))
<1>3. /\ a \in Seq(Ids) /\ Len(a) = k - 1
      /\ \A i \in 1..Len(a) : a[i] = q[i]
  BY <1>2
<1>4. /\ b \in Seq(Ids) /\ Len(b) = Len(q) - k
      /\ \A i \in 1..Len(b) : b[i] = q[k + i]
  BY <1>2
<1>5. Leave(q, s) = a \o b
  BY <1>1 DEF Leave
<1> HIDE DEF a, b
<1>6. /\ a \o b \in Seq(Ids) /\ Len(a \o b) = Len(q) - 1
      /\ \A i \in 1..Len(a \o b) : (a \o b)[i] = IF i <= Len(a) THEN a[i] ELSE b[i - Len(a)]
  <2>1. /\ a \o b \in Seq(Ids) /\ Len(a \o b) = Len(a) + Len(b)
        /\ \A i \in 1..(Len(a) + Len(b)) : (a \o b)[i] = IF i <= Len(a) THEN a[i] ELSE b[i - Len(a)]
    BY <1>3, <1>4
  <2>2. Len(a) + Len(b) = Len(q) - 1
    BY <1>2, <1>3, <1>4
  <2> QED  BY <2>1, <2>2
<1>7. ASSUME NEW i \in 1..Len(a \o b) PROVE \E j \in DOMAIN q : (a \o b)[i] = q[j]
  <2>1. CASE i <= Len(a)
    <3>1. i \in 1..Len(a) /\ i \in DOMAIN q
      BY <1>2, <1>3, <1>6, <2>1
    <3>2. (a \o b)[i] = a[i]
      BY <1>6, <2>1
    <3>3. a[i] = q[i]
      BY <1>3, <3>1
    <3> QED  BY <3>1, <3>2, <3>3
  <2>2. CASE ~(i <= Len(a))
    <3>1. i - Len(a) \in 1..Len(b) /\ k + (i - Len(a)) \in DOMAIN q
      BY <1>2, <1>3, <1>4, <1>6, <2>2
    <3>2. (a \o b)[i] = q[k + (i - Len(a))]
      BY <1>4, <1>6, <2>2, <3>1
    <3> QED  BY <3>1, <3>2
  <2> QED  BY <2>1, <2>2
<1>8. DOMAIN (a \o b) = 1..Len(a \o b)
  BY <1>6
<1> QED  BY <1>5, <1>6, <1>7, <1>8

LEMMA LeavesAlone == ASSUME NEW s \in Ids PROVE Leave(<<s>>, s) = <<>>
<1>1. DOMAIN <<s>> = {1} /\ <<s>>[1] = s /\ Len(<<s>>) = 1
  OBVIOUS
<1>2. (CHOOSE i \in DOMAIN <<s>> : <<s>>[i] = s) = 1
  BY <1>1
<1> QED  BY <1>1, <1>2 DEF Leave

-----------------------------------------------------------------------------
(* What an event does to its call. *)

\* A success is reported when nothing is left to do.
LEMMA NothingLeft ==
  ASSUME NEW r \in Sync, Account(r), r.result # "err", r.completed >= r.total
  PROVE  r.create = {} /\ r.remove = {}
<1>1. /\ r.create \in SUBSET Paths /\ r.remove \in SUBSET Paths
      /\ r.completed \in Nat /\ r.total \in Nat
  BY DEF Sync
<1>2. Cardinality(r.create) \in Nat /\ Cardinality(r.remove) \in Nat
  BY <1>1, PathsFinite
<1>3. r.completed + Cardinality(r.create) + Cardinality(r.remove) = r.total
  BY DEF Account, Left
<1>4. Cardinality(r.create) = 0 /\ Cardinality(r.remove) = 0
  BY <1>1, <1>2, <1>3
<1> QED  BY <1>1, <1>4, NoneLeft

\* As long as something is left, a call without an error was not called back.
LEMMA StillOpen ==
  ASSUME NEW r \in Sync, Account(r), r.result # "err", NEW p \in r.create \cup r.remove
  PROVE  r.called = 0
<1>1. r.completed \in Nat /\ r.total \in Nat
  BY DEF Sync
<1>2. ~(r.completed >= r.total)
  BY NothingLeft
<1> QED  BY <1>1, <1>2 DEF Account

LEMMA RequestEffect ==
  ASSUME Inv, Inv', NEW s \in Ids, NEW p \in Paths, NextRequest(s, p),
         NEW v \in Sync, NEW good \in Nat, NEW bad \in Nat, Given(v, syncs[s], p, good, bad),
         Becomes(s, Settled(v, good, bad))
  PROVE  LET r == syncs[s]
             x == syncs'[s]
         IN  /\ \A t \in Ids \ {s} : syncs'[t] = syncs[t]
             /\ r.stage = "write" /\ x.stage = "write" /\ x.called >= r.called
             /\ x.create = r.create \ {p} /\ x.remove = r.remove \ {p}
             /\ x.populate = r.populate /\ x.entries = r.entries
             /\ x.called = 0 => bad = 0 /\ r.called = 0
             /\ r.result = "none" /\ x.result = "ok" =>
                  bad = 0 /\ r.called = 0 /\ x.create = {} /\ x.remove = {}
<1> DEFINE r == syncs[s]
<1>1. r \in Sync /\ r.stage = "write" /\ Account(r) /\ p \in r.create \cup r.remove
  BY DEF Inv, Types, NextRequest, Writes, Balanced
<1>2. /\ v.stage = r.stage /\ v.create = r.create \ {p} /\ v.remove = r.remove \ {p}
      /\ v.total = r.total /\ v.completed = r.completed /\ v.called = r.called
      /\ v.result = r.result /\ v.populate = r.populate /\ v.entries = r.entries
  BY DEF Given
<1>3. PICK x : x = Settled(v, good, bad)
  OBVIOUS
<1>11. x = syncs'[s] /\ \A t \in Ids \ {s} : syncs'[t] = syncs[t]
  BY <1>3 DEF Inv, Types, Becomes
<1>4. LET full == good > 0 /\ v.completed + good >= v.total
      IN
      /\ x \in Sync /\ x.stage = v.stage /\ x.create = v.create /\ x.remove = v.remove
      /\ x.total = v.total /\ x.completed = v.completed + good
      /\ x.populate = v.populate /\ x.entries = v.entries
      /\ IF bad > 0 /\ v.result # "err"
         THEN x.called = v.called + 1 /\ x.result = "err"
         ELSE IF full /\ v.result # "err"
         THEN x.called = v.called + 1 /\ x.result = "ok"
         ELSE x.called = v.called /\ x.result = v.result
  <2>1. Settling(v, good, bad, x)
    BY <1>3, Settles
  <2> QED  BY <2>1 DEF Settling
<1>6. Account(x)
  BY <1>1, <1>2, <1>4, <1>11 DEF Inv, Balanced
<1>7. r.called \in Nat /\ r.result \in {"ok", "err", "none"}
  BY <1>1 DEF Sync
<1> HIDE DEF r
<1>8. x.called >= r.called
  BY <1>2, <1>4, <1>7
<1>9. x.called = 0 => bad = 0 /\ r.called = 0
  <2>1. CASE r.result = "err"
    BY <1>1, <1>7, <1>8, <2>1 DEF Account
  <2>2. CASE r.result # "err"
    BY <1>2, <1>4, <1>7, <2>2
  <2> QED  BY <2>1, <2>2
<1>10. ASSUME r.result = "none", x.result = "ok"
       PROVE  bad = 0 /\ r.called = 0 /\ x.create = {} /\ x.remove = {}
  <2>1. bad = 0 /\ x.completed >= x.total
    BY <1>2, <1>4, <1>10
  <2>2. r.called = 0
    BY <1>1, <1>10, StillOpen
  <2> QED  BY <1>4, <1>6, <1>10, <2>1, <2>2, NothingLeft
<1> QED  BY <1>1, <1>2, <1>4, <1>8, <1>9, <1>10, <1>11 DEF r

LEMMA BeginEffect ==
  ASSUME Inv, Inv', NEW s \in Ids, syncs[s].stage = "read",
         NEW create \in SUBSET Paths, NEW remove \in SUBSET Paths, NEW entries \in Trees,
         NEW good \in Nat, NEW bad \in Nat,
         Becomes(s, Settled(Writing(s, create, remove, entries), good, bad))
  PROVE  LET r == syncs[s]
             x == syncs'[s]
         IN  /\ \A t \in Ids \ {s} : syncs'[t] = syncs[t]
             /\ x.stage = "write" /\ r.called = 0 /\ x.called >= 0
             /\ x.create = create /\ x.remove = remove
             /\ x.populate = r.populate /\ x.entries = entries
             /\ x.called = 0 => bad = 0
             /\ r.result = "none" /\ x.result = "ok" =>
                  bad = 0 /\ good > 0 /\ create = {} /\ remove = {}
<1> DEFINE r == syncs[s]
<1>0. PICK v : v = Writing(s, create, remove, entries)
  OBVIOUS
<1>1. r \in Sync /\ Balanced(r) /\ r.stage = "read"
  BY DEF Inv, Types
<1>2. r.called = 0 /\ r.result # "err"
  BY <1>1, Waiting
<1>3. Work(s) \in SUBSET Paths /\ Cardinality(Work(s)) \in Nat
  <2>1. Work(s) \in SUBSET Paths
    BY Disjoint DEF Work
  <2> QED  BY <2>1, PathsFinite
<1>4. v = Filled(r, create, remove, Cardinality(Work(s)), entries)
  BY <1>0, Zenon DEF Writing, Filled
<1>5. /\ v \in Sync /\ v.stage = "write" /\ v.create = create /\ v.remove = remove
      /\ v.called = r.called /\ v.completed = r.completed /\ v.result = r.result
  BY <1>1, <1>3, <1>4, Written
<1>6. v.populate = r.populate /\ v.entries = entries
  BY <1>1, <1>3, <1>4, Written
<1>7. PICK x : x = Settled(v, good, bad)
  OBVIOUS
<1>14. x = syncs'[s] /\ \A t \in Ids \ {s} : syncs'[t] = syncs[t]
  BY <1>0, <1>7 DEF Inv, Types, Becomes
<1>8. LET full == good > 0 /\ v.completed + good >= v.total
      IN
      /\ x \in Sync /\ x.stage = v.stage /\ x.create = v.create /\ x.remove = v.remove
      /\ x.total = v.total /\ x.completed = v.completed + good
      /\ x.populate = v.populate /\ x.entries = v.entries
      /\ IF bad > 0 /\ v.result # "err"
         THEN x.called = v.called + 1 /\ x.result = "err"
         ELSE IF full /\ v.result # "err"
         THEN x.called = v.called + 1 /\ x.result = "ok"
         ELSE x.called = v.called /\ x.result = v.result
  <2>1. Settling(v, good, bad, x)
    BY <1>5, <1>7, Settles
  <2> QED  BY <2>1 DEF Settling
<1>9. x.populate = v.populate /\ x.entries = v.entries
  BY <1>8
<1>10. Account(x)
  BY <1>5, <1>8, <1>14 DEF Inv, Balanced
<1> HIDE DEF r
<1>11. x.called = 0 => bad = 0
  BY <1>2, <1>5, <1>8
<1>12. ASSUME r.result = "none", x.result = "ok"
       PROVE  bad = 0 /\ good > 0 /\ create = {} /\ remove = {}
  <2>1. bad = 0 /\ good > 0 /\ x.completed >= x.total
    BY <1>5, <1>8, <1>12
  <2> QED  BY <1>5, <1>8, <1>10, <1>12, <2>1, NothingLeft
<1>13. x.called >= 0
  BY <1>8 DEF Sync
<1> QED  BY <1>2, <1>5, <1>6, <1>8, <1>9, <1>11, <1>12, <1>13, <1>14 DEF r

LEMMA PersistEffect ==
  ASSUME Inv, Inv', NEW s \in Ids, Persist(s)
  PROVE  LET r == syncs[s]
             x == syncs'[s]
             gone == {p \in ToCreate(s) : local[p] = None}
         IN  /\ \A t \in Ids \ {s} : syncs'[t] = syncs[t]
             /\ x.stage = "write" /\ r.called = 0 /\ x.called >= 0
             /\ x.create = ToCreate(s) \ gone /\ x.remove = ToRemove(s) /\ ~x.populate
             /\ \A p \in ToCreate(s) \ gone : x.entries[p] = local[p]
             /\ x.called = 0 => gone = {}
             /\ ~(r.result = "none" /\ x.result = "ok")
<1> DEFINE gone == {p \in ToCreate(s) : local[p] = None}
           kept == ToCreate(s) \ gone
           entries == [p \in Paths |-> IF p \in kept THEN local[p] ELSE None]
<1>1. /\ syncs[s].stage = "read" /\ ~syncs[s].populate
      /\ Becomes(s, Settled(Writing(s, kept, ToRemove(s), entries), 0, Cardinality(gone)))
  BY DEF Persist, MayRead
<1>2. ToCreate(s) \in SUBSET Paths /\ ToRemove(s) \in SUBSET Paths
  BY Disjoint
<1>3. entries \in Trees /\ \A p \in kept : entries[p] = local[p]
  BY <1>2 DEF Inv, Types, Trees
<1>4. gone \in SUBSET Paths
  BY <1>2
<1>5. kept \in SUBSET Paths
  BY <1>2
<1> HIDE DEF entries, gone
<1>6. Cardinality(gone) \in Nat /\ (Cardinality(gone) = 0 => gone = {})
  BY <1>4, PathsFinite, NoneLeft
<1>7. PICK bad \in Nat : bad = Cardinality(gone)
  BY <1>6
<1>8. PICK create \in SUBSET Paths : create = kept
  BY <1>5
<1>9. PICK made \in Trees : made = entries
  BY <1>3
<1>10. PICK remove \in SUBSET Paths : remove = ToRemove(s)
  BY <1>2
<1>11. Becomes(s, Settled(Writing(s, create, remove, made), 0, bad))
  BY <1>1, <1>7, <1>8, <1>9, <1>10, Zenon
<1>12. LET r == syncs[s]
           x == syncs'[s]
       IN  /\ \A t \in Ids \ {s} : syncs'[t] = syncs[t]
           /\ x.stage = "write" /\ r.called = 0 /\ x.called >= 0
           /\ x.create = create /\ x.remove = remove
           /\ x.populate = r.populate /\ x.entries = made
           /\ x.called = 0 => bad = 0
           /\ r.result = "none" /\ x.result = "ok" =>
                bad = 0 /\ 0 > 0 /\ create = {} /\ remove = {}
  BY <1>1, <1>11, BeginEffect
<1>13. ~(0 > 0)
  OBVIOUS
<1> QED  BY <1>1, <1>3, <1>6, <1>7, <1>8, <1>9, <1>10, <1>12, <1>13 DEF gone

\* What a populate removes at once, and what it fails to remove.
Removed(s) ==
  {p \in ToRemove(s) :
     local[p] # None
     /\ \A q \in Paths : p \in Above[q] /\ local[q] # None => q \in ToRemove(s)}

LEMMA PopulateEffect ==
  ASSUME Inv, Inv', NEW s \in Ids, Populate(s)
  PROVE  LET r == syncs[s]
             x == syncs'[s]
         IN  /\ \A t \in Ids \ {s} : syncs'[t] = syncs[t]
             /\ x.stage = "write" /\ r.called = 0 /\ x.called >= 0
             /\ x.create = ToCreate(s) /\ x.remove = {} /\ x.populate /\ r.populate
             /\ local' = [p \in Paths |-> IF p \in Removed(s) THEN None ELSE local[p]]
             /\ x.called = 0 => ToRemove(s) = Removed(s)
             /\ r.result = "none" /\ x.result = "ok" =>
                  ToCreate(s) = {} /\ ToRemove(s) = Removed(s)
<1>1. /\ syncs[s].stage = "read" /\ syncs[s].populate
      /\ Becomes(s, Settled(Writing(s, ToCreate(s), {}, Idle.entries),
                            Cardinality(Removed(s)), Cardinality(ToRemove(s) \ Removed(s))))
      /\ local' = [p \in Paths |-> IF p \in Removed(s) THEN None ELSE local[p]]
  BY DEF Populate, MayRead, Changes, Removed
<1>2. ToCreate(s) \in SUBSET Paths /\ ToRemove(s) \in SUBSET Paths
  BY Disjoint
<1>3. Removed(s) \subseteq ToRemove(s)
  BY DEF Removed
<1>4. PICK good : good = Cardinality(Removed(s))
  OBVIOUS
<1>5. PICK bad : bad = Cardinality(ToRemove(s) \ Removed(s))
  OBVIOUS
<1>6. good \in Nat /\ bad \in Nat /\ (bad = 0 => ToRemove(s) \ Removed(s) = {})
  <2>1. Removed(s) \in SUBSET Paths /\ ToRemove(s) \ Removed(s) \in SUBSET Paths
    BY <1>2, <1>3
  <2> QED  BY <1>4, <1>5, <2>1, PathsFinite, NoneLeft
<1>7. PICK create \in SUBSET Paths : create = ToCreate(s)
  BY <1>2
<1>8. PICK made \in Trees : made = Idle.entries
  BY DEF Idle, Trees
<1>9. Becomes(s, Settled(Writing(s, create, {}, made), good, bad))
  BY <1>1, <1>4, <1>5, <1>7, <1>8, Zenon
<1>10. LET r == syncs[s]
           x == syncs'[s]
       IN  /\ \A t \in Ids \ {s} : syncs'[t] = syncs[t]
           /\ x.stage = "write" /\ r.called = 0 /\ x.called >= 0
           /\ x.create = create /\ x.remove = {}
           /\ x.populate = r.populate /\ x.entries = made
           /\ x.called = 0 => bad = 0
           /\ r.result = "none" /\ x.result = "ok" =>
                bad = 0 /\ good > 0 /\ create = {} /\ {} = {}
  BY <1>1, <1>6, <1>9, BeginEffect
<1> QED  BY <1>1, <1>3, <1>6, <1>7, <1>10

LEMMA AnswerEffect ==
  ASSUME Inv, Inv', NEW s \in Ids, Answer(s)
  PROVE  /\ \A t \in Ids \ {s} : syncs'[t] = syncs[t]
         /\ syncs'[s].stage \in {"read", "write", "ended", "lost"}
         /\ syncs'[s].called >= syncs[s].called
         /\ syncs[s].stage = "write" => syncs'[s].stage # "read"
         /\ disturbed \subseteq disturbed'
<1> USE DEF Inv, Types
<1>1. syncs[s] \in Sync /\ syncs[s].called \in Nat /\ Balanced(syncs[s])
  BY DEF Sync
<1>2. CASE Opened(s)
  BY <1>1, <1>2 DEF Opened, Becomes, Sync
<1>3. CASE OpenFails(s) \/ ReadAborts(s) \/ NothingToDo(s)
  <2>1. syncs[s].stage \in {"open", "read"}
    BY <1>3 DEF OpenFails, ReadAborts, NothingToDo, MayRead
  <2>2. PICK result \in {"ok", "err"} : Becomes(s, Ended(Returned(syncs[s], result)))
    BY <1>3 DEF OpenFails, ReadAborts, NothingToDo
  <2>3. PICK x : x = Returned(syncs[s], result)
    OBVIOUS
  <2>4. x \in Sync /\ x.called = syncs[s].called + 1
    BY <1>1, <2>3, Returns
  <2>5. syncs'[s] = Ended(x) /\ \A t \in Ids \ {s} : syncs'[t] = syncs[t]
    BY <2>2, <2>3 DEF Becomes
  <2>6. Ended(x).stage = "ended" /\ Ended(x).called = x.called
    BY <2>4, Ends
  <2>7. disturbed' = disturbed
    BY <1>3 DEF OpenFails, ReadAborts, NothingToDo
  <2> QED  BY <1>1, <2>1, <2>4, <2>5, <2>6, <2>7
<1>9. CASE ReadFails(s)
  <2>1. PICK x : x = [Idle EXCEPT !.stage = "lost"]
    OBVIOUS
  <2>2. /\ syncs'[s] = x /\ disturbed' = disturbed /\ syncs[s].stage = "read"
        /\ \A t \in Ids \ {s} : syncs'[t] = syncs[t]
    BY <1>9, <2>1 DEF ReadFails, Becomes, MayRead
  <2>3. x.stage = "lost" /\ x.called = 0
    BY <2>1, LostIs
  <2>4. syncs[s].called = 0
    BY <1>1, <2>2, Waiting
  <2> QED  BY <2>2, <2>3, <2>4
<1>4. CASE Persist(s)
  <2>1. disturbed' = disturbed /\ syncs[s].stage = "read"
    BY <1>4 DEF Persist, MayRead
  <2> QED  BY <1>4, <2>1, PersistEffect
<1>5. CASE Populate(s)
  <2>1. disturbed \subseteq disturbed' /\ syncs[s].stage = "read"
    BY <1>5 DEF Populate, MayRead, Changes
  <2> QED  BY <1>5, <2>1, PopulateEffect
<1>6. ASSUME NEW p \in Paths, WriteRemote(s, p) \/ ReadRemote(s, p) \/ RequestFails(s, p)
      PROVE  /\ \A t \in Ids \ {s} : syncs'[t] = syncs[t]
             /\ syncs'[s].stage = "write" /\ syncs'[s].called >= syncs[s].called
             /\ disturbed \subseteq disturbed'
  <2>1. NextRequest(s, p)
    BY <1>1, <1>6, RequestGives
  <2>2. PICK v \in Sync, good \in Nat, bad \in Nat :
          Given(v, syncs[s], p, good, bad) /\ Becomes(s, Settled(v, good, bad))
    BY <1>1, <1>6, RequestGives
  <2>3. disturbed \subseteq disturbed'
    BY <1>6 DEF WriteRemote, ReadRemote, RequestFails, Changes
  <2> QED  BY <2>1, <2>2, <2>3, RequestEffect
<1>7. CASE Commit(s)
  <2>1. syncs'[s] = Ended(syncs[s]) /\ disturbed' = disturbed
        /\ \A t \in Ids \ {s} : syncs'[t] = syncs[t]
    BY <1>7 DEF Commit, Becomes
  <2> QED  BY <1>1, <2>1, Ends
<1>8. CASE Abort(s)
  <2>1. PICK y : y = Ended(Settled(syncs[s], 0, Cardinality(syncs[s].create \cup syncs[s].remove)))
    OBVIOUS
  <2>2. syncs'[s] = y /\ disturbed' = disturbed /\ \A t \in Ids \ {s} : syncs'[t] = syncs[t]
    BY <1>8, <2>1 DEF Abort, Becomes
  <2>3. Account(syncs[s])
    BY <1>1, <1>8 DEF Abort, Writes, Balanced
  <2>4. y.stage = "ended" /\ y.called = 1 /\ syncs[s].called \in {0, 1}
    BY <1>1, <2>1, <2>3, Aborting
  <2> QED  BY <2>2, <2>4
<1> QED  BY <1>2, <1>3, <1>4, <1>5, <1>6, <1>7, <1>8, <1>9 DEF Answer, Event

-----------------------------------------------------------------------------
(* The queue, and the calm calls. *)

\* A call is in the queue only while it reads or writes.
LEMMA QueueKept ==
  ASSUME Inv, Inv', CalmInv, NEW s \in Ids, Answer(s)
  PROVE  /\ queue' \in Seq(Ids)
         /\ \A i \in DOMAIN queue' : syncs'[queue'[i]].stage \notin {"idle", "open"}
<1>1. queue \in Seq(Ids)
  BY DEF CalmInv
<1>2. ASSUME MayRead(s)
      PROVE  /\ Leave(queue, s) \in Seq(Ids)
             /\ \A i \in DOMAIN Leave(queue, s) : \E j \in DOMAIN queue : Leave(queue, s)[i] = queue[j]
  <2>1. \E i \in DOMAIN queue : queue[i] = s
    BY <1>2 DEF MayRead
  <2> QED  BY <1>1, <2>1, Leaves
<1>3. \/ queue' = queue \/ queue' = Append(queue, s)
      \/ MayRead(s) /\ (queue' = Leave(queue, s) \/ queue' = Append(Leave(queue, s), s))
      \/ queue # <<>> /\ queue' = Tail(queue)
  BY DEF Answer, Event, Opened, OpenFails, ReadFails, ReadAborts, NothingToDo, Persist, Populate, WriteRemote,
         ReadRemote, RequestFails, Commit, Abort, Writes
<1>4. /\ queue' \in Seq(Ids)
      /\ \A i \in DOMAIN queue' : queue'[i] = s \/ \E j \in DOMAIN queue : queue'[i] = queue[j]
  <2>1. ASSUME NEW q \in Seq(Ids), queue' = q \/ queue' = Append(q, s),
               \A i \in DOMAIN q : \E j \in DOMAIN queue : q[i] = queue[j]
        PROVE  /\ queue' \in Seq(Ids)
               /\ \A i \in DOMAIN queue' : queue'[i] = s \/ \E j \in DOMAIN queue : queue'[i] = queue[j]
    <3>1. CASE queue' = q
      BY <2>1, <3>1
    <3>2. CASE queue' = Append(q, s)
      <4>1. Append(q, s) \in Seq(Ids) /\ Len(Append(q, s)) = Len(q) + 1 /\ Len(q) \in Nat
        OBVIOUS
      <4>2. \A i \in 1..(Len(q) + 1) : Append(q, s)[i] = IF i <= Len(q) THEN q[i] ELSE s
        OBVIOUS
      <4>3. ASSUME NEW i \in 1..(Len(q) + 1)
            PROVE  Append(q, s)[i] = s \/ \E j \in DOMAIN queue : Append(q, s)[i] = queue[j]
        BY <2>1, <4>1, <4>2
      <4> QED  BY <3>2, <4>1, <4>3
    <3> QED  BY <2>1, <3>1, <3>2
  <2>2. CASE queue' = queue \/ queue' = Append(queue, s)
    BY <1>1, <2>1, <2>2
  <2>3. CASE MayRead(s) /\ (queue' = Leave(queue, s) \/ queue' = Append(Leave(queue, s), s))
    BY <1>2, <2>1, <2>3
  <2>4. CASE queue # <<>> /\ queue' = Tail(queue)
    <3>1. /\ Tail(queue) \in Seq(Ids) /\ Len(queue) \in Nat
          /\ Len(Tail(queue)) = Len(queue) - 1
          /\ \A i \in 1..(Len(queue) - 1) : Tail(queue)[i] = queue[i + 1]
      BY <1>1, <2>4
    <3>2. \A i \in 1..(Len(queue) - 1) : i + 1 \in DOMAIN queue
      BY <1>1, <3>1
    <3> QED  BY <2>4, <3>1, <3>2
  <2> QED  BY <1>3, <2>2, <2>3, <2>4
<1>5. \A t \in Ids \ {s} : syncs'[t] = syncs[t]
  BY AnswerEffect
<1>6. syncs'[s].stage \notin {"idle", "open"}
  BY AnswerEffect
<1> SUFFICES ASSUME NEW i \in DOMAIN queue'
             PROVE  syncs'[queue'[i]].stage \notin {"idle", "open"}
  BY <1>4
<1>7. queue'[i] \in Ids
  BY <1>4
<1>8. CASE queue'[i] = s
  BY <1>6, <1>8
<1>9. CASE queue'[i] # s
  <2>1. PICK j \in DOMAIN queue : queue'[i] = queue[j]
    BY <1>4, <1>9
  <2>2. syncs[queue[j]].stage \notin {"idle", "open"}
    BY DEF CalmInv
  <2> QED  BY <1>5, <1>7, <1>9, <2>1, <2>2
<1> QED  BY <1>8, <1>9

\* A call that waits to be opened or to read has not been called back.
LEMMA WaitingFlies ==
  ASSUME Inv, NEW s \in Ids, syncs[s].stage \in {"open", "read"}
  PROVE  Flying(s)
BY Waiting DEF Inv, Types, Flying

\* A calm call that reads is alone in the queue: nothing can be written meanwhile.
LEMMA CalmReadsAlone ==
  ASSUME Inv, CalmInv, NEW s \in Ids, Calm(s), MayRead(s)
  PROVE  queue = <<s>>
<1>1. queue \in Seq(Ids) /\ Len(queue) \in Nat /\ syncs[s].stage = "read"
  BY DEF CalmInv, MayRead
<1>2. /\ queue # <<>> /\ queue[Len(queue)] = s
      /\ \A i \in 1..(Len(queue) - 1) : syncs[queue[i]].stage # "read"
  BY <1>1 DEF CalmInv, Progress
<1>3. PICK i \in 1..Len(queue) :
        queue[i] = s /\ \A j \in 1..(i - 1) : syncs[queue[j]].stage = "read"
  BY <1>1 DEF MayRead
<1>4. i = Len(queue)
  BY <1>1, <1>2, <1>3
<1>5. Len(queue) = 1
  <2>1. Len(queue) > 0
    BY <1>1, <1>3
  <2>2. ~(Len(queue) > 1)
    <3> SUFFICES ASSUME Len(queue) > 1 PROVE FALSE
      OBVIOUS
    <3>1. 1 \in 1..(i - 1) /\ 1 \in 1..(Len(queue) - 1)
      BY <1>1, <1>4
    <3> QED  BY <1>2, <1>3, <3>1
  <2>3. PICK n \in Nat : n = Len(queue)
    BY <1>1
  <2> QED  BY <2>1, <2>2, <2>3
<1> QED  BY <1>1, <1>2, <1>5

\* A calm call stays so, and where it is, when another one goes on.
LEMMA OthersCalm ==
  ASSUME Inv, Inv', CalmInv, NEW s \in Ids, Answer(s), NEW t \in Ids \ {s}, Calm(t)'
  PROVE  Progress(t)' /\ \A u \in Ids \ {t} : ~Flying(u)'
<1>1. /\ \A u \in Ids \ {s} : syncs'[u] = syncs[u]
      /\ syncs'[s].called >= syncs[s].called
      /\ syncs[s].stage = "write" => syncs'[s].stage # "read"
      /\ disturbed \subseteq disturbed'
  BY AnswerEffect
<1>2. Calm(t)
  BY <1>1 DEF Calm, Flying
<1>3. Progress(t) /\ ~Flying(s) /\ \A u \in Ids \ {t} : ~Flying(u)
  BY <1>2 DEF CalmInv
<1>4. syncs[s].stage \notin {"open", "read"}
  BY <1>3, WaitingFlies
<1>5. /\ Writes(s) /\ (queue' = queue \/ queue' = Tail(queue))
      /\ local' = local \/ \E p \in Paths : ReadRemote(s, p)
  BY <1>4 DEF Answer, Event, Opened, OpenFails, ReadFails, ReadAborts, NothingToDo, Persist, Populate, MayRead,
              WriteRemote, ReadRemote, RequestFails, NextRequest, Commit, Abort
<1>6. /\ syncs[s].stage = "write" /\ queue # <<>> /\ Head(queue) = s
      /\ queue \in Seq(Ids) /\ Len(queue) \in Nat
  BY <1>5 DEF Writes, CalmInv
<1>7. syncs[t].stage \in {"open", "read"}
  <2>1. syncs[t].stage # "write"
    BY <1>3, <1>6 DEF Progress
  <2>2. syncs[t].stage # "ended"
    BY <1>2 DEF Calm, Flying, Inv, Balanced
  <2> QED  BY <1>2, <2>1, <2>2 DEF Calm, Flying, Inv, Types, Sync
<1>8. local' = local
  <2>1. ASSUME local' # local PROVE t \in disturbed'
    BY <1>2, <1>5, <2>1 DEF ReadRemote, Changes, Calm
  <2> QED  BY <2>1 DEF Calm
<1>9. \A u \in Ids \ {t} : ~Flying(u)'
  <2>1. ~Flying(s)'
    <3>1. syncs[s].called \in Nat /\ syncs'[s].called \in Nat
      BY DEF Inv, Types, Sync
    <3> QED  BY <1>1, <1>3, <1>6, <3>1 DEF Flying
  <2> QED  BY <1>1, <1>3, <2>1 DEF Flying
<1>10. syncs[t].stage = "open" => Progress(t)'
  BY <1>1, <1>3, <1>8 DEF Progress
<1>11. ASSUME syncs[t].stage = "read" PROVE Progress(t)'
  <2>1. /\ queue[Len(queue)] = t /\ syncs[t].set = SetOf(local)
        /\ \A i \in 1..(Len(queue) - 1) : syncs[queue[i]].stage # "read"
    BY <1>3, <1>11 DEF Progress
  <2>2. syncs'[t].set = SetOf(local') /\ syncs'[t].stage = "read"
    BY <1>1, <1>8, <1>11, <2>1
  <2>3. \A i \in 1..(Len(queue) - 1) : syncs'[queue[i]].stage # "read"
    BY <1>1, <1>6, <2>1
  <2>4. CASE queue' = queue
    BY <1>6, <2>1, <2>2, <2>3, <2>4 DEF Progress
  <2>5. CASE queue' = Tail(queue)
    <3>1. Len(queue) > 1
      BY <1>6, <2>1
    <3>2. /\ Len(queue') = Len(queue) - 1 /\ queue' # <<>>
          /\ \A i \in 1..(Len(queue) - 1) : queue'[i] = queue[i + 1]
      <4>1. /\ Len(Tail(queue)) = Len(queue) - 1
            /\ \A i \in 1..(Len(queue) - 1) : Tail(queue)[i] = queue[i + 1]
        BY <1>6
      <4>2. Len(queue') = Len(queue) - 1
        BY <2>5, <4>1
      <4>3. queue' # <<>>
        <5>1. Len(queue') # 0
          BY <1>6, <3>1, <4>2
        <5> QED  BY <5>1
      <4> QED  BY <2>5, <4>1, <4>2, <4>3
    <3>3. queue'[Len(queue')] = t
      BY <1>6, <2>1, <3>1, <3>2
    <3>4. ASSUME NEW i \in 1..(Len(queue') - 1) PROVE syncs'[queue'[i]].stage # "read"
      <4>1. i \in 1..(Len(queue) - 1) /\ i + 1 \in 1..(Len(queue) - 1)
        BY <1>6, <3>1, <3>2
      <4> QED  BY <2>3, <3>2, <4>1
    <3> QED  BY <2>2, <3>2, <3>3, <3>4 DEF Progress
  <2> QED  BY <1>5, <2>4, <2>5
<1> QED  BY <1>7, <1>9, <1>10, <1>11

-----------------------------------------------------------------------------
(* Source and target. *)

LEMMA SetOfAt ==
  ASSUME NEW tree \in Trees, NEW p \in Paths
  PROVE  /\ SetOf(tree)[p] \in Int /\ SetOf(tree)[p] >= -1
         /\ SetOf(tree)[p] = -1 <=> tree[p] = None
<1>1. CASE tree[p] = None
  BY <1>1 DEF SetOf
<1>2. CASE tree[p] # None
  <2>1. tree[p].time \in Nat
    BY <1>2, IDBSyncAssumption DEF Trees, Entry, Times
  <2>2. SetOf(tree)[p] = tree[p].time
    BY <1>2 DEF SetOf
  <2> QED  BY <1>2, <2>1, <2>2
<1> QED  BY <1>1, <1>2

\* Two trees have the same at a path.
LEMMA SameAgrees ==
  ASSUME NEW a \in Trees, NEW b \in Trees, NEW p \in Paths, a[p] = b[p]
  PROVE  AgreeAt(a, b, p)
<1>1. SetOf(a)[p] = SetOf(b)[p]
  BY DEF SetOf
<1> QED  BY <1>1, SetOfAt DEF AgreeAt

\* Whether they agree at a path depends on nothing else.
LEMMA AgreesStill ==
  ASSUME NEW a, NEW b, NEW c, NEW d, NEW p \in Paths, AgreeAt(a, b, p), c[p] = a[p], d[p] = b[p]
  PROVE  AgreeAt(c, d, p)
BY DEF AgreeAt, SetOf

\* Where there is nothing to do, they agree.
LEMMA WorklessAgrees ==
  ASSUME Inv, CalmInv, NEW s \in Ids, Calm(s), syncs[s].stage = "read",
         NEW p \in Paths
  PROVE  /\ p \notin Work(s) => IF syncs[s].populate THEN AgreeAt(remote, local, p)
                                ELSE AgreeAt(local, remote, p)
         /\ p \in ToRemove(s) => IF syncs[s].populate THEN remote[p] = None
                                 ELSE local[p] = None
<1>1. syncs[s].set = SetOf(local)
  BY DEF CalmInv, Progress
<1>2. local \in Trees /\ remote \in Trees
  BY DEF Inv, Types
<1>3. /\ SetOf(local)[p] \in Int /\ SetOf(local)[p] >= -1
      /\ SetOf(local)[p] = -1 <=> local[p] = None
      /\ SetOf(remote)[p] \in Int /\ SetOf(remote)[p] >= -1
      /\ SetOf(remote)[p] = -1 <=> remote[p] = None
  BY <1>2, SetOfAt
<1>4. CASE syncs[s].populate
  <2>1. Source(s) = SetOf(remote) /\ Target(s) = SetOf(local)
    BY <1>1, <1>4 DEF Source, Target
  <2>2. p \notin Work(s) => AgreeAt(remote, local, p)
    BY <1>3, <2>1 DEF Work, ToCreate, ToRemove, AgreeAt
  <2>3. p \in ToRemove(s) => remote[p] = None
    BY <1>3, <2>1 DEF ToRemove
  <2> QED  BY <1>4, <2>2, <2>3
<1>5. CASE ~syncs[s].populate
  <2>1. Source(s) = SetOf(local) /\ Target(s) = SetOf(remote)
    BY <1>1, <1>5 DEF Source, Target
  <2>2. p \notin Work(s) => AgreeAt(local, remote, p)
    BY <1>3, <2>1 DEF Work, ToCreate, ToRemove, AgreeAt
  <2>3. p \in ToRemove(s) => local[p] = None
    BY <1>3, <2>1 DEF ToRemove
  <2> QED  BY <1>5, <2>2, <2>3
<1> QED  BY <1>4, <1>5

-----------------------------------------------------------------------------
(* A calm call goes on. *)

LEMMA PersistCalm ==
  ASSUME Inv, Inv', CalmInv, NEW s \in Ids, Persist(s), Calm(s), syncs'[s].called = 0
  PROVE  Progress(s)'
<1>1. /\ syncs'[s].stage = "write" /\ ~syncs'[s].populate
      /\ syncs'[s].create = ToCreate(s) /\ syncs'[s].remove = ToRemove(s)
      /\ \A p \in ToCreate(s) : syncs'[s].entries[p] = local[p] /\ local[p] # None
  BY PersistEffect
<1>2. /\ MayRead(s) /\ syncs[s].stage = "read" /\ ~syncs[s].populate
      /\ queue' = Append(Leave(queue, s), s) /\ local' = local /\ remote' = remote
  BY DEF Persist, MayRead
<1>3. queue' = <<s>>
  <2>1. queue = <<s>>
    BY <1>2, CalmReadsAlone
  <2>2. Leave(queue, s) = <<>>
    BY <2>1, LeavesAlone
  <2> QED  BY <1>2, <2>2
<1>4. PersistSoFar(s)'
  <2> SUFFICES ASSUME NEW p \in Paths
               PROVE  IF p \in syncs'[s].create
                      THEN syncs'[s].entries[p] = local'[p] /\ local'[p] # None
                      ELSE IF p \in syncs'[s].remove THEN local'[p] = None
                      ELSE AgreeAt(local', remote', p)
    BY DEF PersistSoFar
  <2>1. p \notin ToCreate(s) /\ p \notin ToRemove(s) => AgreeAt(local, remote, p)
    BY <1>2, WorklessAgrees DEF Work
  <2>2. p \in ToRemove(s) => local[p] = None
    BY <1>2, WorklessAgrees
  <2> QED  BY <1>1, <1>2, <2>1, <2>2
<1> QED  BY <1>1, <1>3, <1>4 DEF Progress

LEMMA PopulateCalm ==
  ASSUME Inv, Inv', CalmInv, NEW s \in Ids, Populate(s), Calm(s), ToRemove(s) = Removed(s)
  PROVE  /\ PopulateSoFar(s)'
         /\ syncs'[s].called = 0 => Progress(s)'
<1>1. /\ syncs'[s].stage = "write" /\ syncs'[s].populate
      /\ syncs'[s].create = ToCreate(s) /\ syncs'[s].remove = {}
      /\ local' = [p \in Paths |-> IF p \in Removed(s) THEN None ELSE local[p]]
  BY PopulateEffect
<1>2. /\ MayRead(s) /\ syncs[s].stage = "read" /\ syncs[s].populate
      /\ queue' = Append(Leave(queue, s), s) /\ remote' = remote
  BY DEF Populate, MayRead
<1>3. queue' = <<s>>
  <2>1. queue = <<s>>
    BY <1>2, CalmReadsAlone
  <2>2. Leave(queue, s) = <<>>
    BY <2>1, LeavesAlone
  <2> QED  BY <1>2, <2>2
<1>4. local' \in Trees /\ remote \in Trees
  BY DEF Inv, Types
<1>5. ASSUME NEW p \in Paths, p \notin ToCreate(s)
      PROVE  AgreeAt(remote, local', p)
  <2>1. CASE p \in ToRemove(s)
    <3>1. remote[p] = None /\ local'[p] = None
      BY <1>1, <1>2, <2>1, WorklessAgrees
    <3> QED  BY <1>4, <3>1, SameAgrees
  <2>2. CASE p \notin ToRemove(s)
    <3>1. AgreeAt(remote, local, p)
      BY <1>2, <1>5, <2>2, WorklessAgrees DEF Work
    <3>2. local'[p] = local[p]
      BY <1>1, <2>2
    <3> QED  BY <3>1, <3>2, AgreesStill
  <2> QED  BY <2>1, <2>2
<1>6. PopulateSoFar(s)'
  BY <1>1, <1>2, <1>5 DEF PopulateSoFar
<1> QED  BY <1>1, <1>3, <1>6 DEF Progress

\* An entry is written, or deleted, in the store.
LEMMA WriteCalm ==
  ASSUME Inv, Inv', CalmInv, NEW s \in Ids, NEW p \in Paths, WriteRemote(s, p), Calm(s)
  PROVE  PersistSoFar(s)' /\ Progress(s)'
<1>0. Served(s, p) \in Sync /\ Given(Served(s, p), syncs[s], p, 1, 0)
  <2>1. syncs[s] \in Sync
    BY DEF Inv, Types
  <2>2. Given(Served(s, p), syncs[s], p, 1, 0)
    BY <2>1, ServedIs
  <2> QED  BY <2>2 DEF Given
<1>1. NextRequest(s, p) /\ Becomes(s, Settled(Served(s, p), 1, 0)) /\ ~syncs[s].populate
  BY DEF WriteRemote
<1>2. /\ syncs[s].stage = "write" /\ syncs'[s].stage = "write"
      /\ syncs'[s].create = syncs[s].create \ {p} /\ syncs'[s].remove = syncs[s].remove \ {p}
      /\ ~syncs'[s].populate /\ syncs'[s].entries = syncs[s].entries
  BY <1>0, <1>1, RequestEffect
<1>3. /\ local' = local /\ queue' = queue
      /\ remote' = [remote EXCEPT ![p] = IF p \in syncs[s].create THEN syncs[s].entries[p] ELSE None]
      /\ p \in syncs[s].create \cup syncs[s].remove
  BY <1>1 DEF WriteRemote, NextRequest
<1>4. queue = <<s>> /\ PersistSoFar(s)
  BY <1>1, <1>2 DEF CalmInv, Progress
<1>5. local \in Trees /\ remote' \in Trees /\ remote \in Trees
  BY DEF Inv, Types
<1>6. /\ remote'[p] = IF p \in syncs[s].create THEN syncs[s].entries[p] ELSE None
      /\ \A q \in Paths : q # p => remote'[q] = remote[q]
  BY <1>3, <1>5 DEF Trees
<1>7. PersistSoFar(s)'
  <2> SUFFICES ASSUME NEW q \in Paths
               PROVE  IF q \in syncs'[s].create
                      THEN syncs'[s].entries[q] = local'[q] /\ local'[q] # None
                      ELSE IF q \in syncs'[s].remove THEN local'[q] = None
                      ELSE AgreeAt(local', remote', q)
    BY DEF PersistSoFar
  <2>1. IF q \in syncs[s].create THEN syncs[s].entries[q] = local[q] /\ local[q] # None
        ELSE IF q \in syncs[s].remove THEN local[q] = None
        ELSE AgreeAt(local, remote, q)
    BY <1>4 DEF PersistSoFar
  <2>2. CASE q = p
    <3>1. local[p] = remote'[p]
      BY <1>3, <1>6, <2>1, <2>2
    <3> QED  BY <1>2, <1>3, <1>5, <2>2, <3>1, SameAgrees
  <2>3. CASE q # p
    <3>1. AgreeAt(local, remote, q) => AgreeAt(local, remote', q)
      BY <1>6, <2>3, AgreesStill
    <3> QED  BY <1>2, <1>3, <2>1, <2>3, <3>1
  <2> QED  BY <2>2, <2>3
<1> QED  BY <1>2, <1>3, <1>4, <1>7 DEF Progress

\* An entry is copied from the store.
LEMMA ReadCalm ==
  ASSUME Inv, Inv', CalmInv, NEW s \in Ids, NEW p \in Paths, ReadRemote(s, p), Calm(s),
         CanStore(local, p, remote[p])
  PROVE  PopulateSoFar(s)' /\ Progress(s)'
<1>0. Served(s, p) \in Sync /\ Given(Served(s, p), syncs[s], p, 1, 0)
  <2>1. syncs[s] \in Sync
    BY DEF Inv, Types
  <2>2. Given(Served(s, p), syncs[s], p, 1, 0)
    BY <2>1, ServedIs
  <2> QED  BY <2>2 DEF Given
<1>1. NextRequest(s, p) /\ Becomes(s, Settled(Served(s, p), 1, 0)) /\ syncs[s].populate
  BY DEF ReadRemote
<1>2. /\ syncs[s].stage = "write" /\ syncs'[s].stage = "write"
      /\ syncs'[s].create = syncs[s].create \ {p} /\ syncs'[s].remove = syncs[s].remove \ {p}
      /\ syncs'[s].populate
  BY <1>0, <1>1, RequestEffect
<1>3. remote' = remote /\ queue' = queue /\ local' = [local EXCEPT ![p] = remote[p]]
  BY DEF ReadRemote, Changes
<1>4. queue = <<s>> /\ PopulateSoFar(s)
  BY <1>1, <1>2 DEF CalmInv, Progress
<1>5. local \in Trees /\ local' \in Trees /\ remote \in Trees
  BY DEF Inv, Types
<1>6. local'[p] = remote[p] /\ \A q \in Paths : q # p => local'[q] = local[q]
  BY <1>3, <1>5 DEF Trees
<1>7. ASSUME NEW q \in Paths, q \notin syncs[s].create \ {p}
      PROVE  AgreeAt(remote, local', q)
  <2>1. CASE q = p
    BY <1>5, <1>6, <2>1, SameAgrees
  <2>2. CASE q # p
    <3>1. AgreeAt(remote, local, q)
      BY <1>4, <1>7, <2>2 DEF PopulateSoFar
    <3> QED  BY <1>6, <2>2, <3>1, AgreesStill
  <2> QED  BY <2>1, <2>2
<1>8. PopulateSoFar(s)'
  BY <1>2, <1>3, <1>4, <1>7 DEF PopulateSoFar
<1> QED  BY <1>2, <1>3, <1>4, <1>8 DEF Progress

\* A call that asks to read when no other is in flight is the last to wait.
LEMMA LastToRead ==
  ASSUME Inv, CalmInv, NEW s \in Ids, queue' = Append(queue, s),
         syncs[s].stage \in {"idle", "open"}, \A t \in Ids \ {s} : ~Flying(t) /\ syncs'[t] = syncs[t]
  PROVE  /\ queue' # <<>> /\ queue'[Len(queue')] = s
         /\ \A i \in 1..(Len(queue') - 1) : syncs'[queue'[i]].stage # "read"
<1>1. queue \in Seq(Ids) /\ Len(queue) \in Nat
  BY DEF CalmInv
<1>2. /\ Len(queue') = Len(queue) + 1 /\ queue' # <<>> /\ queue'[Len(queue')] = s
      /\ \A i \in 1..(Len(queue') - 1) : queue'[i] = queue[i] /\ i \in DOMAIN queue
  <2>1. Len(queue') = Len(queue) + 1
    BY <1>1
  <2>2. \A i \in 1..(Len(queue) + 1) : queue'[i] = IF i <= Len(queue) THEN queue[i] ELSE s
    BY <1>1
  <2>3. queue' # <<>>
    <3>1. Len(queue') # 0
      BY <1>1, <2>1
    <3> QED  BY <3>1
  <2> QED  BY <1>1, <2>1, <2>2, <2>3
<1>3. ASSUME NEW i \in 1..(Len(queue') - 1)
      PROVE  syncs'[queue'[i]].stage # "read"
  <2>1. queue'[i] = queue[i] /\ i \in DOMAIN queue /\ queue[i] \in Ids
    BY <1>1, <1>2
  <2>2. syncs[queue[i]].stage \notin {"idle", "open"}
    BY <2>1 DEF CalmInv
  <2>3. queue[i] # s
    BY <2>2
  <2> QED  BY <2>1, <2>3, WaitingFlies
<1> QED  BY <1>2, <1>3

LEMMA OpenedCalm ==
  ASSUME Inv, Inv', CalmInv, NEW s \in Ids, Opened(s), Calm(s)
  PROVE  Progress(s)'
<1>1. /\ syncs[s] \in Sync /\ syncs[s].stage = "open" /\ syncs[s].set = SetOf(local)
      /\ \A t \in Ids \ {s} : ~Flying(t)
  BY DEF Inv, Types, Opened, CalmInv, Progress
<1>2. /\ syncs' = [syncs EXCEPT ![s] = [syncs[s] EXCEPT !.stage = "read"]]
      /\ queue' = Append(queue, s) /\ local' = local
  BY DEF Opened, Becomes
<1>3. /\ syncs'[s].stage = "read" /\ syncs'[s].set = syncs[s].set
      /\ \A t \in Ids \ {s} : syncs'[t] = syncs[t]
  BY <1>1, <1>2 DEF Inv, Types, Sync
<1>4. /\ queue' # <<>> /\ queue'[Len(queue')] = s
      /\ \A i \in 1..(Len(queue') - 1) : syncs'[queue'[i]].stage # "read"
  BY <1>1, <1>2, <1>3, LastToRead
<1> QED  BY <1>1, <1>2, <1>3, <1>4 DEF Progress

\* The call that goes on: it stays where a calm one is, and says that all went
\* well only if it did.
LEMMA OwnCalm ==
  ASSUME Inv, Inv', CalmInv, NEW s \in Ids, Answer(s)
  PROVE  /\ Calm(s)' => Progress(s)' /\ \A u \in Ids \ {s} : ~Flying(u)'
         /\ Synced(s)
<1>1. /\ \A u \in Ids \ {s} : syncs'[u] = syncs[u]
      /\ syncs'[s].called >= syncs[s].called
      /\ disturbed \subseteq disturbed'
  BY AnswerEffect
<1>2. syncs[s] \in Sync /\ syncs[s].called \in Nat /\ syncs'[s].called \in Nat /\ Balanced(syncs[s])
  BY DEF Inv, Types, Sync
<1>3. syncs[s].stage \notin {"idle", "lost"}
  BY DEF Answer, Event, Opened, OpenFails, ReadFails, ReadAborts, NothingToDo, Persist, Populate, MayRead,
         WriteRemote, ReadRemote, RequestFails, NextRequest, Commit, Abort, Writes
<1>4. Calm(s)' => Calm(s)
  BY <1>1, <1>2, <1>3 DEF Calm, Flying
<1>5. Calm(s)' => \A u \in Ids \ {s} : ~Flying(u)'
  BY <1>1, <1>4 DEF CalmInv, Flying
<1>6. syncs[s].stage = "read" /\ s \notin disturbed => Calm(s)
  BY WaitingFlies DEF Calm
<1>7. ASSUME syncs'[s].stage \in {"ended", "lost"} PROVE ~Calm(s)'
  BY <1>7 DEF Inv, Balanced, Calm, Flying
<1> SUFFICES (Calm(s)' => Progress(s)') /\ Synced(s)
  BY <1>5
<1>8. CASE Opened(s)
  <2>1. syncs'[s].result = syncs[s].result
    BY <1>2, <1>8 DEF Opened, Becomes, Inv, Types, Sync
  <2> QED  BY <1>4, <1>8, <2>1, OpenedCalm DEF Synced
<1>9. CASE OpenFails(s) \/ ReadAborts(s) \/ NothingToDo(s)
  <2>1. PICK result \in {"ok", "err"} :
          /\ Becomes(s, Ended(Returned(syncs[s], result)))
          /\ result = "ok" => NothingToDo(s)
    BY <1>9 DEF OpenFails, ReadAborts, NothingToDo
  <2>2. PICK x : x = Returned(syncs[s], result)
    OBVIOUS
  <2>3. x \in Sync /\ x.result = result
    BY <1>2, <2>2, Returns
  <2>4. syncs'[s] = Ended(x)
    BY <2>1, <2>2 DEF Becomes, Inv, Types
  <2>5. syncs'[s].stage = "ended" /\ syncs'[s].result = result
    BY <2>3, <2>4, Ends
  <2>6. ASSUME result = "ok", s \notin disturbed
        PROVE  IF syncs[s].populate THEN Agree(remote', local') ELSE Agree(local', remote')
    <3>1. syncs[s].stage = "read" /\ Work(s) = {} /\ local' = local /\ remote' = remote
      BY <2>1, <2>6 DEF NothingToDo, MayRead
    <3>2. Calm(s)
      BY <1>6, <2>6, <3>1
    <3>3. \A p \in Paths : IF syncs[s].populate THEN AgreeAt(remote, local, p)
                           ELSE AgreeAt(local, remote, p)
      BY <3>1, <3>2, WorklessAgrees
    <3> QED  BY <3>1, <3>3 DEF Agree, AgreeAt
  <2> QED  BY <1>7, <2>5, <2>6 DEF Synced
<1>15. CASE ReadFails(s)
  <2>1. PICK x : x = [Idle EXCEPT !.stage = "lost"]
    OBVIOUS
  <2>2. syncs'[s] = x
    BY <1>15, <2>1 DEF ReadFails, Becomes, Inv, Types
  <2>3. syncs'[s].stage = "lost" /\ syncs'[s].result = "none"
    BY <2>1, <2>2, LostIs
  <2> QED  BY <1>7, <2>3 DEF Synced
<1>10. CASE Persist(s)
  <2>1. ~(syncs[s].result = "none" /\ syncs'[s].result = "ok")
    BY <1>10, PersistEffect
  <2>2. ASSUME Calm(s)' PROVE Progress(s)'
    BY <1>4, <1>10, <2>2, PersistCalm DEF Calm, Flying
  <2> QED  BY <2>1, <2>2 DEF Synced
<1>11. CASE Populate(s)
  <2>1. /\ syncs[s].populate /\ syncs'[s].create = ToCreate(s)
        /\ syncs'[s].called = 0 => ToRemove(s) = Removed(s)
        /\ syncs[s].result = "none" /\ syncs'[s].result = "ok" =>
             ToCreate(s) = {} /\ ToRemove(s) = Removed(s)
    BY <1>11, PopulateEffect
  <2>2. ASSUME Calm(s)' PROVE Progress(s)'
    <3>1. syncs'[s].called = 0
      BY <2>2 DEF Calm, Flying
    <3> QED  BY <1>4, <1>11, <2>1, <2>2, <3>1, PopulateCalm
  <2>3. ASSUME syncs[s].result = "none", syncs'[s].result = "ok", s \notin disturbed
        PROVE  Agree(remote', local')
    <3>1. syncs[s].stage = "read"
      BY <1>11 DEF Populate, MayRead
    <3>2. PopulateSoFar(s)'
      BY <1>6, <1>11, <2>1, <2>3, <3>1, PopulateCalm
    <3>3. \A p \in Paths : AgreeAt(remote', local', p)
      BY <2>1, <2>3, <3>2 DEF PopulateSoFar
    <3> QED  BY <3>3 DEF Agree, AgreeAt
  <2> QED  BY <2>1, <2>2, <2>3 DEF Synced
<1>12. ASSUME NEW p \in Paths, WriteRemote(s, p) \/ ReadRemote(s, p) \/ RequestFails(s, p)
       PROVE  (Calm(s)' => Progress(s)') /\ Synced(s)
  <2> DEFINE Well == WriteRemote(s, p) \/ (ReadRemote(s, p) /\ CanStore(local, p, remote[p]))
  <2>1. NextRequest(s, p)
    BY <1>2, <1>12, RequestGives
  <2>2. PICK v \in Sync, good \in Nat, bad \in Nat :
          /\ Given(v, syncs[s], p, good, bad) /\ Becomes(s, Settled(v, good, bad))
          /\ bad = 0 => Well
    BY <1>2, <1>12, RequestGives
  <2>3. /\ syncs[s].stage = "write"
        /\ syncs'[s].called = 0 => bad = 0
        /\ syncs[s].result = "none" /\ syncs'[s].result = "ok" =>
             bad = 0 /\ syncs[s].called = 0 /\ syncs'[s].create = {} /\ syncs'[s].remove = {}
    BY <2>1, <2>2, RequestEffect
  <2>4. ASSUME Well, Calm(s)
        PROVE  /\ Progress(s)'
               /\ IF syncs[s].populate THEN PopulateSoFar(s)' ELSE PersistSoFar(s)'
    <3>1. CASE WriteRemote(s, p)
      BY <2>4, <3>1, WriteCalm DEF WriteRemote
    <3>2. CASE ReadRemote(s, p) /\ CanStore(local, p, remote[p])
      BY <2>4, <3>2, ReadCalm DEF ReadRemote
    <3> QED  BY <2>4, <3>1, <3>2
  <2>5. ASSUME Calm(s)' PROVE Progress(s)'
    <3>1. syncs'[s].called = 0
      BY <2>5 DEF Calm, Flying
    <3> QED  BY <1>4, <2>2, <2>3, <2>4, <2>5, <3>1
  <2>6. ASSUME syncs[s].result = "none", syncs'[s].result = "ok", s \notin disturbed
        PROVE  IF syncs[s].populate THEN Agree(remote', local') ELSE Agree(local', remote')
    <3>1. Calm(s)
      BY <2>3, <2>6 DEF Calm, Flying
    <3>2. IF syncs[s].populate THEN PopulateSoFar(s)' ELSE PersistSoFar(s)'
      BY <2>2, <2>3, <2>4, <2>6, <3>1
    <3>3. \A q \in Paths : IF syncs[s].populate THEN AgreeAt(remote', local', q)
                           ELSE AgreeAt(local', remote', q)
      BY <2>3, <2>6, <3>2 DEF PopulateSoFar, PersistSoFar
    <3> QED  BY <3>3 DEF Agree, AgreeAt
  <2> QED  BY <2>5, <2>6 DEF Synced
<1>13. CASE Commit(s)
  <2>1. syncs'[s] = Ended(syncs[s])
    BY <1>13 DEF Commit, Becomes, Inv, Types
  <2>2. syncs'[s].stage = "ended" /\ syncs'[s].result = syncs[s].result
    BY <1>2, <2>1, Ends
  <2> QED  BY <1>7, <2>2 DEF Synced
<1>14. CASE Abort(s)
  <2>1. PICK bad : bad = Cardinality(syncs[s].create \cup syncs[s].remove)
    OBVIOUS
  <2>2. bad \in Nat
    <3>1. syncs[s].create \cup syncs[s].remove \in SUBSET Paths
      BY <1>2 DEF Sync
    <3> QED  BY <2>1, <3>1, PathsFinite
  <2>3. PICK x : x = Settled(syncs[s], 0, bad)
    OBVIOUS
  <2>4. x \in Sync /\ x.result \in {"err", syncs[s].result}
    <3>1. PICK good \in Nat : good = 0
      OBVIOUS
    <3>2. LET full == good > 0 /\ syncs[s].completed + good >= syncs[s].total
          IN  /\ x \in Sync
              /\ IF bad > 0 /\ syncs[s].result # "err" THEN x.result = "err"
                 ELSE IF full /\ syncs[s].result # "err" THEN x.result = "ok"
                 ELSE x.result = syncs[s].result
      <4>1. syncs[s] \in Sync /\ x = Settled(syncs[s], good, bad)
        BY <1>2, <2>3, <3>1
      <4>2. Settling(syncs[s], good, bad, x)
        BY <2>2, <4>1, Settles
      <4> QED  BY <4>2 DEF Settling
    <3> QED  BY <3>1, <3>2
  <2>5. syncs'[s] = Ended(x)
    BY <1>14, <2>1, <2>3 DEF Abort, Becomes, Inv, Types
  <2>6. syncs'[s].stage = "ended" /\ syncs'[s].result = x.result
    BY <2>4, <2>5, Ends
  <2> QED  BY <1>7, <2>4, <2>6 DEF Synced
<1> QED  BY <1>8, <1>9, <1>10, <1>11, <1>12, <1>13, <1>14, <1>15 DEF Answer, Event

-----------------------------------------------------------------------------
(* The program: a change of the tree, or another call, ends the calm. *)

LEMMA TreeCalm ==
  ASSUME CalmInv, NEW tree, Changes(tree, None), UNCHANGED <<remote, queue, syncs>>
  PROVE  CalmInv'
<1>1. ASSUME NEW s \in Ids, Calm(s)'
      PROVE  Progress(s)' /\ \A t \in Ids \ {s} : ~Flying(t)'
  <2>1. Calm(s) /\ s \notin disturbed'
    BY <1>1 DEF Changes, Calm, Flying
  <2>2. s \in Ids \ {None} /\ Flying(s)
    BY <2>1, IDBSyncAssumption DEF Calm
  <2>3. local' = local
    BY <2>1, <2>2 DEF Changes
  <2>4. Progress(s) /\ \A t \in Ids \ {s} : ~Flying(t)
    BY <2>1 DEF CalmInv
  <2> QED  BY <2>3, <2>4 DEF Progress, PopulateSoFar, PersistSoFar, Flying
<1> QED  BY <1>1 DEF CalmInv

LEMMA SyncfsCalm ==
  ASSUME Inv, Inv', CalmInv, NEW s \in Ids, NEW populate \in BOOLEAN, Syncfs(s, populate)
  PROVE  CalmInv' /\ \A t \in Ids : Synced(t)
<1>1. /\ syncs[s].stage = "idle" /\ local' = local /\ queue \in Seq(Ids)
      /\ queue' = IF db THEN Append(queue, s) ELSE queue
      /\ \A t \in Ids \ {s} : syncs'[t] = syncs[t]
  BY DEF Syncfs, Inv, Types, CalmInv
<1>2. /\ syncs'[s].stage = IF db THEN "read" ELSE "open"
      /\ syncs'[s].set = SetOf(local) /\ syncs'[s].result = "none"
  <2>1. PICK st : st = IF db THEN "read" ELSE "open"
    OBVIOUS
  <2>2. PICK r : r = [Idle EXCEPT !.stage = st, !.populate = populate, !.set = SetOf(local)]
    OBVIOUS
  <2>3. r.stage = st /\ r.set = SetOf(local) /\ r.result = "none"
    BY <2>2 DEF Idle
  <2>4. syncs'[s] = r
    BY <2>1, <2>2 DEF Syncfs, Inv, Types
  <2> QED  BY <2>1, <2>3, <2>4
<1>3. \A t \in Ids \ {s} : Flying(t) => t \in disturbed'
  BY DEF Syncfs
<1>4. s \in disturbed' \/ \A t \in Ids \ {s} : ~Flying(t)
  BY DEF Syncfs
<1>5. \A t \in Ids : Synced(t)
  <2>1. \A t \in Ids \ {s} : Synced(t)
    BY <1>1 DEF Synced
  <2>2. Synced(s)
    BY <1>2 DEF Synced
  <2> QED  BY <2>1, <2>2
<1>6. /\ queue' \in Seq(Ids)
      /\ \A i \in DOMAIN queue' : syncs'[queue'[i]].stage \notin {"idle", "open"}
  <2>1. ASSUME NEW i \in DOMAIN queue
        PROVE  queue[i] \in Ids \ {s} /\ syncs'[queue[i]].stage \notin {"idle", "open"}
    <3>1. queue[i] \in Ids /\ syncs[queue[i]].stage \notin {"idle", "open"}
      BY <1>1, <2>1 DEF CalmInv
    <3> QED  BY <1>1, <3>1
  <2>2. CASE ~db
    BY <1>1, <2>1, <2>2
  <2>3. CASE db
    <3>1. queue' = Append(queue, s) /\ syncs'[s].stage = "read"
      BY <1>1, <1>2, <2>3
    <3>2. /\ Append(queue, s) \in Seq(Ids) /\ Len(Append(queue, s)) = Len(queue) + 1
          /\ Len(queue) \in Nat
          /\ \A i \in 1..(Len(queue) + 1) :
               Append(queue, s)[i] = IF i <= Len(queue) THEN queue[i] ELSE s
      BY <1>1
    <3>3. ASSUME NEW i \in 1..(Len(queue) + 1)
          PROVE  syncs'[Append(queue, s)[i]].stage \notin {"idle", "open"}
      <4>1. CASE i <= Len(queue)
        <5>1. i \in DOMAIN queue /\ Append(queue, s)[i] = queue[i]
          BY <1>1, <3>2, <4>1
        <5> QED  BY <2>1, <5>1
      <4>2. CASE ~(i <= Len(queue))
        BY <3>1, <3>2, <4>2
      <4> QED  BY <4>1, <4>2
    <3> QED  BY <3>1, <3>2, <3>3
  <2> QED  BY <2>2, <2>3
<1>7. ASSUME NEW t \in Ids, Calm(t)'
      PROVE  Progress(t)' /\ \A u \in Ids \ {t} : ~Flying(u)'
  <2>1. t = s
    BY <1>1, <1>3, <1>7 DEF Calm, Flying
  <2>2. \A u \in Ids \ {s} : ~Flying(u) /\ ~Flying(u)'
    BY <1>1, <1>4, <1>7, <2>1 DEF Calm, Flying
  <2>3. Progress(s)'
    <3>1. CASE ~db
      BY <1>1, <1>2, <3>1 DEF Progress
    <3>2. CASE db
      <4>1. queue' = Append(queue, s)
        BY <1>1, <3>2
      <4>2. /\ queue' # <<>> /\ queue'[Len(queue')] = s
            /\ \A i \in 1..(Len(queue') - 1) : syncs'[queue'[i]].stage # "read"
        BY <1>1, <2>2, <4>1, LastToRead
      <4> QED  BY <1>1, <1>2, <3>2, <4>2 DEF Progress
    <3> QED  BY <3>1, <3>2
  <2> QED  BY <2>1, <2>2, <2>3
<1> QED  BY <1>5, <1>6, <1>7 DEF CalmInv

LEMMA BeginningCalm == Init => CalmInv
BY DEF Init, CalmInv, Calm, Flying, Idle

LEMMA StepCalm == Inv /\ Inv' /\ CalmInv /\ [Next]_vars => CalmInv' /\ \A s \in Ids : Synced(s)
<1> SUFFICES ASSUME Inv, Inv', CalmInv, [Next]_vars
             PROVE  CalmInv' /\ \A s \in Ids : Synced(s)
  OBVIOUS
<1>1. CASE UNCHANGED <<local, remote, queue, syncs, disturbed>>
  <2>1. CalmInv'
    BY <1>1 DEF CalmInv, Calm, Flying, Progress, PopulateSoFar, PersistSoFar
  <2> QED  BY <1>1, <2>1 DEF Synced
<1>2. ASSUME NEW tree, Changes(tree, None), UNCHANGED <<remote, queue, syncs>>
      PROVE  CalmInv' /\ \A s \in Ids : Synced(s)
  BY <1>2, TreeCalm DEF Synced
<1>3. CASE Tick
  BY <1>1, <1>3 DEF Tick
<1>4. ASSUME NEW p \in Paths, Remove(p)
      PROVE  CalmInv' /\ \A s \in Ids : Synced(s)
  BY <1>2, <1>4 DEF Remove
<1>5. ASSUME NEW p \in Paths, NEW dir \in Kinds(p), Store(p, dir)
      PROVE  CalmInv' /\ \A s \in Ids : Synced(s)
  BY <1>2, <1>5 DEF Store
<1>6. ASSUME NEW s \in Ids, NEW populate \in BOOLEAN, Syncfs(s, populate)
      PROVE  CalmInv' /\ \A t \in Ids : Synced(t)
  BY <1>6, SyncfsCalm
<1>7. ASSUME NEW s \in Ids, Answer(s)
      PROVE  CalmInv' /\ \A t \in Ids : Synced(t)
  <2>1. /\ queue' \in Seq(Ids)
        /\ \A i \in DOMAIN queue' : syncs'[queue'[i]].stage \notin {"idle", "open"}
    BY <1>7, QueueKept
  <2>2. ASSUME NEW t \in Ids, Calm(t)'
        PROVE  Progress(t)' /\ \A u \in Ids \ {t} : ~Flying(u)'
    <3>1. CASE t = s
      BY <1>7, <2>2, <3>1, OwnCalm
    <3>2. CASE t # s
      BY <1>7, <2>2, <3>2, OthersCalm
    <3> QED  BY <3>1, <3>2
  <2>3. \A t \in Ids \ {s} : syncs'[t] = syncs[t]
    BY <1>7, AnswerEffect
  <2>4. Synced(s)
    BY <1>7, OwnCalm
  <2>5. \A t \in Ids : Synced(t)
    BY <2>3, <2>4 DEF Synced
  <2> QED  BY <2>1, <2>2, <2>5 DEF CalmInv
<1>8. CASE UNCHANGED vars
  BY <1>1, <1>8 DEF vars
<1> QED  BY <1>3, <1>4, <1>5, <1>6, <1>7, <1>8 DEF Next

\* A call of syncfs() that nothing disturbs first reports success only when source and
\* target have the same entries and none of the target is older: whatever the
\* store and the tree were, and whatever an earlier call that failed still writes.
THEOREM SyncedTrees == Spec => SuccessMeansSynced
<1>1. Inv /\ Inv' /\ CalmInv /\ [Next]_vars =>
        [\A s \in Ids :
           syncs[s].result = "none" /\ syncs'[s].result = "ok" /\ s \notin disturbed =>
             IF syncs[s].populate THEN Agree(remote', local') ELSE Agree(local', remote')]_vars
  BY StepCalm DEF Synced
<1> QED  BY <1>1, Beginning, Step, BeginningCalm, StepCalm, PTL DEF Spec, SuccessMeansSynced
=============================================================================
