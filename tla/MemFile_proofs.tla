--------------------------- MODULE MemFile_proofs ---------------------------
(***************************************************************************)
(* The contents of a node are the bytes of its file, in each of its forms, *)
(* and every call is one of File's: MEMFS implements File.                 *)
(***************************************************************************)
EXTENDS MemFile, TLAPS

Valid(x) ==
  /\ x \in Node
  /\ Len(x.contents) = x.usedBytes /\ x.usedBytes <= MaxSize
  /\ x.form = "null" => x.usedBytes = 0
  /\ x.form = "array" => x.usedBytes > 0

Inv ==
  /\ node \in [Files -> Node] /\ streams \in [Fds -> Stream \cup {Closed}]
  /\ \A f \in Files : Valid(node[f])

-----------------------------------------------------------------------------
(* Sequences of bytes. *)

LEMMA IsSeq ==
  ASSUME NEW n \in Nat, NEW s \in [1..n -> Bytes]
  PROVE  s \in Seq(Bytes) /\ Len(s) = n
OBVIOUS

LEMMA SeqIs ==
  ASSUME NEW s \in Seq(Bytes)
  PROVE  s \in [1..Len(s) -> Bytes] /\ Len(s) \in Nat
OBVIOUS

LEMMA SameBytes ==
  ASSUME NEW s \in Seq(Bytes), NEW t \in Seq(Bytes), Len(s) = Len(t),
         \A i \in 1..Len(s) : s[i] = t[i]
  PROVE  s = t
OBVIOUS

LEMMA CutAll ==
  ASSUME NEW s \in Seq(Bytes)
  PROVE  Cut(s, Len(s)) = s
BY SeqIs DEF Cut

LEMMA PaddedIs ==
  ASSUME NEW s \in Seq(Bytes), NEW n \in Nat
  PROVE  /\ Padded(s, n) \in Seq(Bytes) /\ Len(Padded(s, n)) = Max2(n, Len(s))
         /\ \A i \in 1..Max2(n, Len(s)) :
              Padded(s, n)[i] = IF i <= Len(s) THEN s[i] ELSE Zero
<1>1. Max2(n, Len(s)) \in Nat /\ s \in [1..Len(s) -> Bytes] /\ Len(s) \in Nat
  BY DEF Max2
<1>2. Padded(s, n) \in [1..Max2(n, Len(s)) -> Bytes]
  BY <1>1, MemFileAssumption DEF Padded
<1> QED  BY <1>1, <1>2, IsSeq DEF Padded

LEMMA PaddedNone ==
  ASSUME NEW s \in Seq(Bytes), NEW n \in Nat, n <= Len(s)
  PROVE  Padded(s, n) = s
BY SeqIs DEF Padded, Max2

\* Padding and then setting bytes is patching.
LEMMA Patching ==
  ASSUME NEW s \in Seq(Bytes), NEW p \in Nat, NEW buf \in Seq(Bytes), buf # <<>>
  PROVE  LET t == SetBytes(Padded(s, p + Len(buf)), p, buf) IN
         /\ t \in Seq(Bytes) /\ Len(t) = Max2(Len(s), p + Len(buf))
         /\ t = F!Patched(s, p, buf)
<1>1. /\ s \in [1..Len(s) -> Bytes] /\ Len(s) \in Nat
      /\ buf \in [1..Len(buf) -> Bytes] /\ Len(buf) \in Nat
  BY SeqIs
<1> DEFINE m == Max2(Len(s), p + Len(buf))
<1>2. m \in Nat /\ m = Max2(p + Len(buf), Len(s)) /\ m >= Len(s) /\ m >= p + Len(buf)
  BY <1>1 DEF Max2
<1> HIDE DEF m
<1>3. PICK q \in Seq(Bytes) :
        /\ q = Padded(s, p + Len(buf)) /\ Len(q) = m
        /\ \A i \in 1..m : q[i] = IF i <= Len(s) THEN s[i] ELSE Zero
  <2>1. p + Len(buf) \in Nat
    BY <1>1
  <2>2. PICK n \in Nat : n = p + Len(buf)
    BY <2>1
  <2>3. /\ Padded(s, n) \in Seq(Bytes) /\ Len(Padded(s, n)) = m
        /\ \A i \in 1..m : Padded(s, n)[i] = IF i <= Len(s) THEN s[i] ELSE Zero
    BY <1>2, <2>2, PaddedIs
  <2> QED  BY <2>2, <2>3
<1>4. SetBytes(q, p, buf) \in [1..m -> Bytes]
  <2>1. q \in [1..m -> Bytes]
    BY <1>2, <1>3, SeqIs
  <2>2. ASSUME NEW i \in 1..m, i > p, i <= p + Len(buf)
        PROVE  buf[i - p] \in Bytes
    <3>1. i - p \in 1..Len(buf)
      BY <1>1, <1>2, <2>2
    <3> QED  BY <1>1, <3>1
  <2> QED  BY <1>2, <1>3, <2>1, <2>2 DEF SetBytes
<1>5. SetBytes(q, p, buf) = F!Patched(s, p, buf)
  BY <1>2, <1>3 DEF SetBytes, F!Patched, F!Max2, Max2, m
<1> QED  BY <1>2, <1>3, <1>4, <1>5, IsSeq DEF m

-----------------------------------------------------------------------------
(* The contents of one node. *)

LEMMA Made ==
  ASSUME NEW form \in {"null", "typed", "array"}, NEW s \in Seq(Bytes), Len(s) <= MaxSize,
         form = "null" => Len(s) = 0, form = "array" => Len(s) > 0
  PROVE  Valid([form |-> form, contents |-> s, usedBytes |-> Len(s)])
<1>1. Len(s) \in Nat
  BY SeqIs
<1> QED  BY <1>1 DEF Valid, Node

LEMMA Kept ==
  ASSUME NEW x, Valid(x)
  PROVE  /\ x.contents \in Seq(Bytes) /\ x.usedBytes \in Nat /\ x.usedBytes = Len(x.contents)
         /\ Cut(x.contents, x.usedBytes) = x.contents
         /\ x = [form |-> x.form, contents |-> x.contents, usedBytes |-> x.usedBytes]
         /\ x.form \in {"null", "typed", "array"}
<1>1. /\ x.contents \in Seq(Bytes) /\ x.usedBytes \in Nat /\ x.usedBytes = Len(x.contents)
      /\ x = [form |-> x.form, contents |-> x.contents, usedBytes |-> x.usedBytes]
      /\ x.form \in {"null", "typed", "array"}
  BY DEF Valid, Node
<1> QED  BY <1>1, CutAll

\* Room for n bytes, in whatever form.
LEMMA Expanding ==
  ASSUME NEW x, Valid(x), NEW n \in 1..MaxSize
  PROVE  LET y == Expanded(x, n) IN
         /\ y = [form |-> y.form, contents |-> Padded(x.contents, n), usedBytes |-> x.usedBytes]
         /\ y.form \in {"typed", "array"}
<1> DEFINE s == x.contents
<1>1. /\ s \in Seq(Bytes) /\ x.usedBytes \in Nat /\ x.usedBytes = Len(s) /\ Cut(s, x.usedBytes) = s
      /\ x = [form |-> x.form, contents |-> s, usedBytes |-> x.usedBytes]
      /\ x.form \in {"null", "typed", "array"}
  BY Kept
<1>2. n \in Nat /\ n > 0
  BY MemFileAssumption
<1>3. CASE x.form = "array"
  <2>1. AsArray(x, n) = x
    BY <1>3 DEF AsArray
  <2>2. Expanded(x, n) = [x EXCEPT !.contents = Padded(@, n)]
    BY <1>3, <2>1 DEF Expanded
  <2> QED  BY <1>1, <1>3, <2>2
<1>4. CASE x.form = "typed" /\ n > Len(s)
  <2>1. AsArray(x, n) = [form |-> "array", contents |-> s, usedBytes |-> x.usedBytes]
    BY <1>1, <1>4 DEF AsArray
  <2>2. Expanded(x, n) = [form |-> "array", contents |-> Padded(s, n), usedBytes |-> x.usedBytes]
    BY <2>1 DEF Expanded
  <2> QED  BY <2>2
<1>5. CASE x.form = "typed" /\ ~(n > Len(s))
  <2>1. AsArray(x, n) = x
    BY <1>5 DEF AsArray
  <2>2. Padded(s, n) = s
    BY <1>1, <1>2, <1>5, PaddedNone
  <2>3. Expanded(x, n) = x
    BY <1>1, <1>2, <1>5, <2>1 DEF Expanded
  <2> QED  BY <1>1, <1>5, <2>2, <2>3
<1>6. CASE x.form = "null"
  <2>1. AsArray(x, n) = x /\ Len(s) = 0
    BY <1>1, <1>6 DEF AsArray, Valid
  <2>2. NewCapacity(Len(s), n) = n
    BY <1>2, <2>1 DEF NewCapacity, Max2
  <2>3. ~(Len(s) >= n)
    BY <1>2, <2>1
  <2>4. Expanded(x, n) = [x EXCEPT !.form = "typed", !.contents = Padded(Cut(@, x.usedBytes), n)]
    BY <1>6, <2>1, <2>2, <2>3 DEF Expanded
  <2> QED  BY <1>1, <2>4
<1> QED  BY <1>1, <1>3, <1>4, <1>5, <1>6

LEMMA NoneValid == Valid(Null)
<1>1. <<>> \in Seq(Bytes) /\ Len(<<>>) = 0
  OBVIOUS
<1>2. PICK e \in Seq(Bytes) : e = <<>> /\ Len(e) = 0
  BY <1>1, Zenon
<1>3. Null = [form |-> "null", contents |-> e, usedBytes |-> Len(e)]
  BY <1>2 DEF Null
<1>4. Len(e) <= MaxSize /\ ~(Len(e) > 0)
  BY <1>2, MemFileAssumption
<1>5. Valid([form |-> "null", contents |-> e, usedBytes |-> Len(e)])
  BY <1>2, <1>4, Made
<1> QED  BY <1>3, <1>5

LEMMA Resizing ==
  ASSUME NEW x, Valid(x), NEW n \in 0..MaxSize
  PROVE  Valid(ResizedTo(x, n)) /\ ResizedTo(x, n).contents = F!Resized(x.contents, n)
<1> DEFINE s == x.contents
           k == Min2(n, Len(s))
<1>1. /\ s \in Seq(Bytes) /\ x.usedBytes \in Nat /\ x.usedBytes = Len(s)
      /\ x.form \in {"null", "typed", "array"} /\ n \in Nat /\ n <= MaxSize
  BY Kept, MemFileAssumption
<1>2. s \in [1..Len(s) -> Bytes] /\ Len(s) \in Nat
  BY <1>1, SeqIs
<1>3. CASE x.usedBytes = n
  <2>1. ResizedTo(x, n) = x
    BY <1>3 DEF ResizedTo
  <2>2. F!Resized(s, n) = s
    BY <1>1, <1>2, <1>3 DEF F!Resized
  <2> QED  BY <2>1, <2>2
<1>4. CASE x.usedBytes # n /\ n = 0
  <2>1. ResizedTo(x, n) = Null
    BY <1>4 DEF ResizedTo
  <2>2. <<>> \in Seq(Bytes) /\ Len(<<>>) = 0
    OBVIOUS
  <2>3. Valid(Null)
    BY NoneValid
  <2>4. F!Resized(s, n) \in [1..0 -> Bytes]
    BY <1>4 DEF F!Resized
  <2>5. F!Resized(s, n) = <<>>
    BY <1>4 DEF F!Resized
  <2> QED  BY <2>1, <2>3, <2>5 DEF Null
<1>5. CASE x.usedBytes # n /\ n # 0
  <2>1. k \in Nat /\ k <= n /\ k <= Len(s)
    BY <1>1, <1>2 DEF Min2
  <2>2. Cut(s, k) \in Seq(Bytes) /\ Len(Cut(s, k)) = k
    <3>1. Cut(s, k) \in [1..k -> Bytes]
      BY <1>2, <2>1 DEF Cut
    <3> QED  BY <2>1, <3>1, IsSeq
  <2>3. PICK t \in Seq(Bytes) : t = Cut(s, k)
    BY <2>2
  <2>4. /\ Padded(t, n) \in Seq(Bytes) /\ Len(Padded(t, n)) = n
        /\ \A i \in 1..n : Padded(t, n)[i] = IF i <= Len(t) THEN t[i] ELSE Zero
    <3>1. Max2(n, Len(t)) = n
      BY <1>1, <2>1, <2>2, <2>3 DEF Max2
    <3> QED  BY <1>1, <3>1, PaddedIs
  <2>5. Padded(t, n) = F!Resized(s, n)
    <3>1. Padded(t, n) \in [1..n -> Bytes]
      BY <2>4, SeqIs
    <3>2. ASSUME NEW i \in 1..n
          PROVE  Padded(t, n)[i] = F!Resized(s, n)[i]
      <4>1. CASE i <= k
        <5>1. t[i] = s[i]
          BY <1>1, <2>1, <2>3, <4>1 DEF Cut
        <5> QED  BY <1>1, <2>1, <2>2, <2>3, <2>4, <4>1, <5>1 DEF F!Resized
      <4>2. CASE ~(i <= k)
        <5>1. ~(i <= Len(s))
          BY <1>1, <1>2, <4>2 DEF Min2
        <5> QED  BY <1>1, <2>1, <2>2, <2>3, <2>4, <4>2, <5>1 DEF F!Resized
      <4> QED  BY <4>1, <4>2
    <3> QED  BY <3>1, <3>2 DEF F!Resized
  <2>6. PICK form \in {"typed", "array"} :
          ResizedTo(x, n) = [form |-> form, contents |-> Padded(t, n), usedBytes |-> n]
    <3>1. ResizedTo(x, n) = [form      |-> IF x.form = "array" THEN "array" ELSE "typed",
                             contents  |-> Padded(t, n), usedBytes |-> n]
      BY <1>1, <1>5, <2>3 DEF ResizedTo
    <3> QED  BY <3>1
  <2>7. Valid(ResizedTo(x, n))
    BY <1>1, <1>5, <2>4, <2>6 DEF Valid, Node
  <2> QED  BY <2>5, <2>6, <2>7
<1> QED  BY <1>3, <1>4, <1>5

LEMMA Writing ==
  ASSUME NEW x, Valid(x), NEW p \in Nat, NEW buf \in Seq(Bytes), p + Len(buf) <= MaxSize,
         NEW typed \in BOOLEAN, NEW canOwn \in BOOLEAN, canOwn => x.usedBytes = 0 /\ p = 0
  PROVE  LET y == Written(x, p, buf, typed, canOwn) IN
         Valid(y) /\ y.contents = F!Patched(x.contents, p, buf)
<1> DEFINE s == x.contents
           fits == typed /\ x.form # "array"
           owns == fits /\ (canOwn \/ (x.usedBytes = 0 /\ p = 0))
<1>1. /\ s \in Seq(Bytes) /\ x.usedBytes \in Nat /\ x.usedBytes = Len(s)
      /\ x = [form |-> x.form, contents |-> s, usedBytes |-> x.usedBytes]
      /\ x.form \in {"null", "typed", "array"}
  BY Kept
<1>2. s \in [1..Len(s) -> Bytes] /\ Len(buf) \in Nat /\ buf \in [1..Len(buf) -> Bytes]
  BY <1>1, SeqIs
<1>3. CASE buf = <<>>
  <2>1. Written(x, p, buf, typed, canOwn) = x
    BY <1>3, Zenon DEF Written
  <2>2. F!Patched(s, p, buf) = s
    BY <1>3, Zenon DEF F!Patched
  <2> QED  BY <2>1, <2>2
<1>4. CASE buf # <<>> /\ owns
  <2>1. Written(x, p, buf, typed, canOwn) = [form |-> "typed", contents |-> buf, usedBytes |-> Len(buf)]
    BY <1>4, Zenon DEF Written
  <2>2. Len(s) = 0 /\ p = 0
    BY <1>1, <1>4
  <2>3. F!Patched(s, p, buf) = buf
    BY <1>2, <1>4, <2>2 DEF F!Patched, F!Max2
  <2>4. Valid([form |-> "typed", contents |-> buf, usedBytes |-> Len(buf)])
    BY <1>2, <2>2, Made
  <2> QED  BY <2>1, <2>3, <2>4
<1>5. PICK t \in Seq(Bytes) :
        /\ t = SetBytes(Padded(s, p + Len(buf)), p, buf)
        /\ buf # <<>> => t = F!Patched(s, p, buf) /\ Len(t) = Max2(Len(s), p + Len(buf))
  <2>1. CASE buf # <<>>
    BY <1>1, <2>1, Patching
  <2>2. CASE buf = <<>>
    <3>1. Padded(s, p + Len(buf)) \in Seq(Bytes)
      BY <1>1, <1>2, PaddedIs
    <3>2. SetBytes(Padded(s, p + Len(buf)), p, buf) \in Seq(Bytes)
      <4>1. PICK q \in Seq(Bytes) : q = Padded(s, p + Len(buf))
        BY <3>1
      <4>2. q \in [1..Len(q) -> Bytes] /\ Len(q) \in Nat /\ Len(buf) = 0
        BY <2>2, SeqIs
      <4>3. SetBytes(q, p, buf) \in [1..Len(q) -> Bytes]
        BY <4>2 DEF SetBytes
      <4> QED  BY <4>1, <4>2, <4>3, IsSeq
    <3> QED  BY <2>2, <3>2
  <2> QED  BY <2>1, <2>2
<1>6. CASE buf # <<>> /\ ~owns /\ fits /\ p + Len(buf) <= x.usedBytes
  <2>1. Written(x, p, buf, typed, canOwn) = [x EXCEPT !.contents = SetBytes(@, p, buf)]
    BY <1>6, Zenon DEF Written
  <2>2. SetBytes(s, p, buf) = t
    BY <1>1, <1>2, <1>5, <1>6, PaddedNone
  <2>3. Written(x, p, buf, typed, canOwn) = [form |-> x.form, contents |-> t, usedBytes |-> x.usedBytes]
    BY <1>1, <2>1, <2>2
  <2>4. Len(t) = x.usedBytes
    BY <1>1, <1>2, <1>5, <1>6 DEF Max2
  <2>5. Valid([form |-> x.form, contents |-> t, usedBytes |-> Len(t)])
    BY <1>1, <2>4, Made DEF Valid
  <2>6. Written(x, p, buf, typed, canOwn) = [form |-> x.form, contents |-> t, usedBytes |-> Len(t)]
    BY <2>3, <2>4
  <2>7. t = F!Patched(s, p, buf)
    BY <1>5, <1>6
  <2>8. Written(x, p, buf, typed, canOwn).contents = t
    BY <2>6
  <2>9. Valid(Written(x, p, buf, typed, canOwn))
    BY <2>5, <2>6, Zenon
  <2> HIDE DEF s
  <2> QED  BY <2>7, <2>8, <2>9 DEF s
<1>7. CASE buf # <<>> /\ ~owns /\ ~(fits /\ p + Len(buf) <= x.usedBytes)
  <2>1. PICK y : y = Expanded(x, p + Len(buf))
    OBVIOUS
  <2>2. Written(x, p, buf, typed, canOwn) =
          [y EXCEPT !.contents = SetBytes(@, p, buf), !.usedBytes = Max2(@, p + Len(buf))]
    BY <1>7, <2>1, Zenon DEF Written
  <2>3. p + Len(buf) \in 1..MaxSize
    <3>1. Len(buf) > 0
      BY <1>2, <1>7
    <3> QED  BY <1>2, <3>1, MemFileAssumption
  <2>4. /\ y = [form |-> y.form, contents |-> Padded(s, p + Len(buf)), usedBytes |-> x.usedBytes]
        /\ y.form \in {"typed", "array"}
    BY <2>1, <2>3, Expanding
  <2>5. Written(x, p, buf, typed, canOwn) =
          [form |-> y.form, contents |-> t, usedBytes |-> Max2(x.usedBytes, p + Len(buf))]
    <3>1. PICK z : z = [y EXCEPT !.contents = SetBytes(@, p, buf)]
      OBVIOUS
    <3>2. SetBytes(y.contents, p, buf) = t
      BY <1>5, <2>4
    <3>3. z = [form |-> y.form, contents |-> t, usedBytes |-> x.usedBytes]
      BY <2>4, <3>1, <3>2
    <3>4. Written(x, p, buf, typed, canOwn) = [z EXCEPT !.usedBytes = Max2(@, p + Len(buf))]
      BY <2>2, <3>1
    <3> QED  BY <3>3, <3>4
  <2>6. Len(t) = Max2(x.usedBytes, p + Len(buf)) /\ Len(t) > 0 /\ Len(t) <= MaxSize
    BY <1>1, <1>2, <1>5, <1>7, <2>3, MemFileAssumption DEF Max2, Valid
  <2>7. Valid([form |-> y.form, contents |-> t, usedBytes |-> Len(t)])
    BY <2>4, <2>6, Made
  <2> QED  BY <1>5, <1>7, <2>5, <2>6, <2>7
<1> QED  BY <1>3, <1>4, <1>6, <1>7

LEMMA Allocating ==
  ASSUME NEW x, Valid(x), NEW p \in Nat, NEW n \in Nat, n > 0, p + n <= MaxSize
  PROVE  LET y == Allocated(x, p, n)
             m == Max2(x.usedBytes, p + n)
         IN  Valid(y) /\ y.contents = F!Resized(x.contents, m) /\ m \in 0..MaxSize
<1> DEFINE s == x.contents
           m == Max2(x.usedBytes, p + n)
<1>1. /\ s \in Seq(Bytes) /\ x.usedBytes \in Nat /\ x.usedBytes = Len(s) /\ x.usedBytes <= MaxSize
  BY Kept DEF Valid
<1>2. p + n \in 1..MaxSize /\ m \in 1..MaxSize /\ m = Max2(p + n, Len(s))
  BY <1>1, MemFileAssumption DEF Max2
<1>3. PICK y : y = Expanded(x, p + n)
  OBVIOUS
<1>4. /\ y = [form |-> y.form, contents |-> Padded(s, p + n), usedBytes |-> x.usedBytes]
      /\ y.form \in {"typed", "array"}
  BY <1>2, <1>3, Expanding
<1>5. Allocated(x, p, n) = [form |-> y.form, contents |-> Padded(s, p + n), usedBytes |-> m]
  BY <1>3, <1>4 DEF Allocated
<1>6. Padded(s, p + n) \in Seq(Bytes) /\ Len(Padded(s, p + n)) = m
  <2>1. PICK k \in Nat : k = p + n
    OBVIOUS
  <2>2. Padded(s, k) \in Seq(Bytes) /\ Len(Padded(s, k)) = Max2(k, Len(s))
    BY <1>1, PaddedIs
  <2> QED  BY <1>2, <2>1, <2>2
<1>7. Padded(s, p + n) = F!Resized(s, m)
  BY <1>2 DEF Padded, F!Resized
<1> HIDE DEF m
<1>8. Valid([form |-> y.form, contents |-> Padded(s, p + n), usedBytes |-> m])
  BY <1>2, <1>4, <1>6, Made, MemFileAssumption
<1> QED  BY <1>2, <1>5, <1>7, <1>8, MemFileAssumption DEF m

-----------------------------------------------------------------------------
(* The files, as File has them. *)

Data == [f \in Files |-> Cut(node[f].contents, node[f].usedBytes)]

LEMMA DataIs ==
  ASSUME Inv
  PROVE  Data = [f \in Files |-> node[f].contents]
BY Kept DEF Data, Inv

LEMMA OneFile ==
  ASSUME Inv, NEW f \in Files, NEW y, Valid(y), node' = [node EXCEPT ![f] = y],
         streams' \in [Fds -> Stream \cup {Closed}]
  PROVE  Inv' /\ Data' = [Data EXCEPT ![f] = y.contents]
<1>1. Inv'
  BY DEF Inv, Valid
<1>2. Data' = [g \in Files |-> node'[g].contents]
  BY <1>1, Kept DEF Data, Inv
<1> QED  BY <1>1, <1>2, DataIs DEF Inv

LEMMA Untouched ==
  ASSUME Inv, node' = node, streams' \in [Fds -> Stream \cup {Closed}]
  PROVE  Inv' /\ Data' = Data
BY DEF Inv, Data

\* Moving a stream within the bound.
LEMMA Moving ==
  ASSUME Inv, NEW fd \in Fds, IsOpen(fd), NEW p \in 0..MaxSize, MovedTo(fd, p)
  PROVE  streams' \in [Fds -> Stream \cup {Closed}]
<1>1. streams \in [Fds -> Stream \cup {Closed}] /\ streams[fd] \in Stream
  BY DEF Inv, IsOpen
<1>2. [streams[fd] EXCEPT !.position = p] \in Stream
  BY <1>1 DEF Stream
<1> QED  BY <1>1, <1>2 DEF MovedTo

LEMMA StreamIs ==
  ASSUME Inv, NEW fd \in Fds, IsOpen(fd)
  PROVE  /\ streams[fd].file \in Files /\ streams[fd].position \in 0..MaxSize
         /\ Valid(node[streams[fd].file])
         /\ Size(fd) = Len(node[streams[fd].file].contents) /\ Size(fd) \in 0..MaxSize
         /\ Start(fd) \in 0..MaxSize
<1>1. streams[fd] \in Stream
  BY DEF Inv, IsOpen
<1>2. streams[fd].file \in Files /\ streams[fd].position \in 0..MaxSize
  BY <1>1 DEF Stream
<1>3. Valid(node[streams[fd].file])
  BY <1>2 DEF Inv
<1>4. Size(fd) = Len(node[streams[fd].file].contents) /\ Size(fd) \in 0..MaxSize
  BY <1>3, Kept, MemFileAssumption DEF Size, Valid
<1> QED  BY <1>2, <1>3, <1>4 DEF Start

\* File sees the same sizes and positions.
LEMMA SameSize ==
  ASSUME Inv, NEW fd \in Fds, IsOpen(fd)
  PROVE  F!Size(fd) = Size(fd) /\ F!At(fd) = Start(fd)
<1>1. Data[streams[fd].file] = node[streams[fd].file].contents
  BY DataIs, StreamIs
<1>2. F!Size(fd) = Size(fd)
  BY <1>1, StreamIs DEF F!Size, Data
<1> QED  BY <1>2 DEF F!At, Start

LEMMA BufferIs ==
  ASSUME NEW buf \in Buffers
  PROVE  buf \in Seq(Bytes) /\ Len(buf) \in 0..MaxSize
<1>1. PICK n \in 0..MaxSize : buf \in [1..n -> Bytes]
  BY DEF Buffers
<1> QED  BY <1>1, IsSeq, MemFileAssumption

-----------------------------------------------------------------------------
(* One step of MemFile is one of File. *)

LEMMA Emptying ==
  ASSUME NEW x, Valid(x)
  PROVE  Valid(ResizedTo(x, 0)) /\ ResizedTo(x, 0).contents = <<>>
<1>1. 0 \in 0..MaxSize
  BY MemFileAssumption
<1>2. Valid(ResizedTo(x, 0)) /\ ResizedTo(x, 0).contents = F!Resized(x.contents, 0)
  BY <1>1, Resizing
<1>3. F!Resized(x.contents, 0) = <<>>
  BY DEF F!Resized
<1> QED  BY <1>2, <1>3

LEMMA OpenStep ==
  ASSUME Inv, NEW f \in Files, NEW mode \in Modes, NEW append \in BOOLEAN, NEW trunc \in BOOLEAN,
         NEW fd \in Fds, NextFd(fd), Truncated(f, trunc),
         streams' = [streams EXCEPT ![fd] =
           [file |-> f, mode |-> mode, append |-> append, position |-> 0]]
  PROVE  Inv' /\ F!Open(fd, f, mode, append, trunc)
<1>1. [file |-> f, mode |-> mode, append |-> append, position |-> 0] \in Stream
  <2>1. 0 \in 0..MaxSize
    BY MemFileAssumption
  <2> QED  BY <2>1, Zenon DEF Stream
<1>2. PICK st \in Stream :
        /\ st = [file |-> f, mode |-> mode, append |-> append, position |-> 0]
        /\ streams' = [streams EXCEPT ![fd] = st]
  BY <1>1, Zenon
<1>3. streams' \in [Fds -> Stream \cup {Closed}]
  BY <1>2 DEF Inv
<1>4. streams[fd] = Closed
  BY DEF NextFd, IsOpen
<1>5. CASE trunc = TRUE
  <2>1. node' = [node EXCEPT ![f] = ResizedTo(node[f], 0)]
    BY <1>5 DEF Truncated
  <2>2. Valid(ResizedTo(node[f], 0)) /\ ResizedTo(node[f], 0).contents = <<>>
    BY Emptying DEF Inv
  <2>3. Inv' /\ Data' = [Data EXCEPT ![f] = <<>>]
    <3>1. Inv' /\ Data' = [Data EXCEPT ![f] = ResizedTo(node[f], 0).contents]
      BY <1>3, <2>1, <2>2, OneFile
    <3> QED  BY <2>2, <3>1
  <2>4. Data' = [Data EXCEPT ![f] = IF trunc THEN <<>> ELSE @]
    BY <1>5, <2>3
  <2> QED  BY <1>4, <2>3, <2>4, Zenon DEF F!Open, Data
<1>6. CASE trunc = FALSE
  <2>1. node' = node
    BY <1>6 DEF Truncated, Inv
  <2>2. Inv' /\ Data' = Data
    BY <1>3, <2>1, Untouched
  <2>3. Data' = [Data EXCEPT ![f] = IF trunc THEN <<>> ELSE @]
    BY <1>6, <2>2 DEF Data
  <2> QED  BY <1>4, <2>2, <2>3, Zenon DEF F!Open, Data
<1> QED  BY <1>5, <1>6

\* A file is changed and no stream.
LEMMA ResizeStep ==
  ASSUME Inv, NEW f \in Files, NEW n \in 0..MaxSize, NEW y, Valid(y),
         y.contents = F!Resized(node[f].contents, n),
         node' = [node EXCEPT ![f] = y], UNCHANGED streams
  PROVE  Inv' /\ F!Resize(f, n)
<1>1. streams' \in [Fds -> Stream \cup {Closed}]
  BY DEF Inv
<1>2. Inv' /\ Data' = [Data EXCEPT ![f] = y.contents]
  BY <1>1, OneFile
<1>3. Data[f] = node[f].contents
  BY DataIs
<1>4. Data' = [Data EXCEPT ![f] = F!Resized(@, n)]
  BY <1>2, <1>3
<1> QED  BY <1>2, <1>4, Zenon DEF F!Resize, Data

LEMMA WriteFileStep ==
  ASSUME Inv, NEW f \in Files, NEW buf \in Buffers, NEW typed \in BOOLEAN, NEW canOwn \in BOOLEAN,
         WriteFile(f, buf, typed, canOwn)
  PROVE  Inv' /\ F!Replace(f, buf)
<1>1. PICK x : x = ResizedTo(node[f], 0)
  OBVIOUS
<1>2. Valid(x) /\ x.contents = <<>> /\ x.usedBytes = 0
  <2>1. Valid(x) /\ x.contents = <<>>
    BY <1>1, Emptying DEF Inv
  <2>2. Len(<<>>) = 0
    OBVIOUS
  <2> QED  BY <2>1, <2>2, Kept
<1>3. buf \in Seq(Bytes) /\ Len(buf) \in 0..MaxSize
  BY BufferIs
<1>4. PICK y : y = Written(x, 0, buf, typed, canOwn)
  OBVIOUS
<1>5. Valid(y) /\ y.contents = F!Patched(<<>>, 0, buf)
  <2>1. 0 \in Nat /\ 0 + Len(buf) <= MaxSize
    BY <1>3, MemFileAssumption
  <2> QED  BY <1>2, <1>3, <1>4, <2>1, Writing
<1>6. F!Patched(<<>>, 0, buf) = buf
  <2>1. CASE buf = <<>>
    BY <2>1, Zenon DEF F!Patched
  <2>2. CASE buf # <<>>
    <3>1. buf \in [1..Len(buf) -> Bytes] /\ Len(buf) \in Nat
      BY <1>3, SeqIs
    <3>2. F!Max2(Len(<<>>), 0 + Len(buf)) = Len(buf)
      BY <3>1 DEF F!Max2
    <3>3. F!Patched(<<>>, 0, buf) = [i \in 1..Len(buf) |-> buf[i]]
      BY <2>2, <3>1, <3>2 DEF F!Patched
    <3> QED  BY <3>1, <3>3
  <2> QED  BY <2>1, <2>2
<1>7. node' = [node EXCEPT ![f] = y] /\ UNCHANGED streams
  BY <1>1, <1>4 DEF WriteFile
<1>8. streams' \in [Fds -> Stream \cup {Closed}]
  BY <1>7 DEF Inv
<1>9. Inv' /\ Data' = [Data EXCEPT ![f] = y.contents]
  BY <1>5, <1>7, <1>8, OneFile
<1>10. Data' = [Data EXCEPT ![f] = buf]
  BY <1>5, <1>6, <1>9
<1> QED  BY <1>7, <1>9, <1>10, Zenon DEF F!Replace, Data

LEMMA LoadStep ==
  ASSUME Inv, NEW f \in Files, LoadLocalEntry(f)
  PROVE  Inv' /\ UNCHANGED <<Data, streams>>
<1> DEFINE y == [form |-> "typed", contents |-> node[f].contents, usedBytes |-> Len(node[f].contents)]
<1>1. Valid(node[f])
  BY DEF Inv
<1>2. /\ node[f].contents \in Seq(Bytes) /\ node[f].usedBytes = Len(node[f].contents)
      /\ Cut(node[f].contents, node[f].usedBytes) = node[f].contents
      /\ node[f] = [form |-> node[f].form, contents |-> node[f].contents, usedBytes |-> node[f].usedBytes]
  BY <1>1, Kept
<1>3. Valid(y)
  BY <1>1, <1>2, Made DEF Valid
<1>4. node' = [node EXCEPT ![f] = y]
  BY <1>2 DEF LoadLocalEntry
<1> HIDE DEF y
<1>5. UNCHANGED streams /\ streams' \in [Fds -> Stream \cup {Closed}]
  BY DEF LoadLocalEntry, Inv
<1>6. Inv' /\ Data' = [Data EXCEPT ![f] = y.contents]
  BY <1>3, <1>4, <1>5, OneFile
<1>7. y.contents = Data[f]
  BY DataIs DEF y
<1>8. Data' = Data
  BY <1>6, <1>7 DEF Data
<1> QED  BY <1>5, <1>6, <1>8

LEMMA SeekStep ==
  ASSUME Inv, NEW fd \in Fds, NEW whence \in 0..2, NEW offset \in -MaxSize..MaxSize,
         Seek(fd, whence, offset)
  PROVE  Inv' /\ \E p \in 0..MaxSize : F!Seek(fd, p)
<1>1. PICK p \in 0..MaxSize : MovedTo(fd, p)
  BY DEF Seek
<1>2. streams' \in [Fds -> Stream \cup {Closed}]
  BY <1>1, Moving DEF Seek
<1>3. Inv' /\ Data' = Data
  BY <1>2, Untouched DEF Seek
<1>4. F!Seek(fd, p)
  BY <1>1, <1>3 DEF F!Seek, F!MovedTo, MovedTo, Data, Seek, IsOpen
<1> QED  BY <1>3, <1>4

LEMMA ReadStep ==
  ASSUME Inv, NEW fd \in Fds, NEW n \in 0..MaxSize, Read(fd, n)
  PROVE  Inv' /\ F!Read(fd, n)
<1>1. IsOpen(fd) /\ streams[fd].mode # "w"
  BY DEF Read
<1>2. streams[fd].position \in 0..MaxSize /\ Size(fd) \in 0..MaxSize
  BY <1>1, StreamIs
<1> DEFINE p == Max2(streams[fd].position, Min2(Size(fd), streams[fd].position + n))
<1>3. p \in 0..MaxSize /\ streams[fd].position + BytesRead(fd, n) = p
  BY <1>2, MemFileAssumption DEF BytesRead, Max2, Min2
<1>4. MovedTo(fd, p)
  BY <1>3 DEF Read
<1>5. streams' \in [Fds -> Stream \cup {Closed}]
  BY <1>1, <1>3, <1>4, Moving
<1>6. Inv' /\ Data' = Data
  BY <1>5, Untouched DEF Read
<1>7. p = F!Max2(streams[fd].position, F!Min2(F!Size(fd), streams[fd].position + n))
  BY <1>1, SameSize DEF F!Max2, F!Min2, Max2, Min2
<1> HIDE DEF p
<1>8. F!Read(fd, n)
  BY <1>1, <1>4, <1>6, <1>7 DEF F!Read, F!MovedTo, MovedTo, Data, IsOpen
<1> QED  BY <1>6, <1>8

LEMMA CloseStep ==
  ASSUME Inv, NEW fd \in Fds, Close(fd)
  PROVE  Inv' /\ F!Close(fd)
<1>1. streams' \in [Fds -> Stream \cup {Closed}]
  BY DEF Close, Inv
<1>2. Inv' /\ Data' = Data
  BY <1>1, Untouched DEF Close
<1> QED  BY <1>2 DEF F!Close, Close, IsOpen, Data

\* Some bytes are written from position p on and the stream moves to q.
LEMMA WritingStep ==
  ASSUME Inv, NEW fd \in Fds, IsOpen(fd), NEW p \in Nat, NEW buf \in Buffers,
         NEW typed \in BOOLEAN, p + Len(buf) <= MaxSize, NEW q \in 0..MaxSize, MovedTo(fd, q),
         node' = [node EXCEPT ![streams[fd].file] = Written(@, p, buf, typed, FALSE)]
  PROVE  Inv' /\ Data' = [Data EXCEPT ![streams[fd].file] = F!Patched(@, p, buf)]
<1>1. PICK f \in Files : f = streams[fd].file
  BY StreamIs
<1>2. PICK y : y = Written(node[f], p, buf, typed, FALSE)
  OBVIOUS
<1>3. Valid(y) /\ y.contents = F!Patched(node[f].contents, p, buf)
  <2>1. Valid(node[f])
    BY DEF Inv
  <2>2. buf \in Seq(Bytes)
    BY BufferIs
  <2>3. FALSE \in BOOLEAN
    OBVIOUS
  <2> QED  BY <1>2, <2>1, <2>2, <2>3, Writing
<1>4. node' = [node EXCEPT ![f] = y]
  BY <1>1, <1>2
<1>5. streams' \in [Fds -> Stream \cup {Closed}]
  BY Moving
<1>6. Inv' /\ Data' = [Data EXCEPT ![f] = y.contents]
  BY <1>3, <1>4, <1>5, OneFile
<1>7. Data[f] = node[f].contents
  BY DataIs
<1>8. Data' = [Data EXCEPT ![f] = F!Patched(@, p, buf)]
  BY <1>3, <1>6, <1>7
<1> QED  BY <1>1, <1>6, <1>8

LEMMA WriteStep ==
  ASSUME Inv, NEW fd \in Fds, NEW buf \in Buffers, NEW typed \in BOOLEAN, Write(fd, buf, typed)
  PROVE  Inv' /\ F!Write(fd, buf)
<1>1. IsOpen(fd) /\ streams[fd].mode # "r"
  BY DEF Write
<1>2. Start(fd) \in Nat /\ Start(fd) + Len(buf) \in 0..MaxSize /\ Len(buf) \in Nat
  BY <1>1, StreamIs, BufferIs, MemFileAssumption DEF Write
<1>3. PICK p \in Nat : p = Start(fd)
  BY <1>2
<1>4. /\ MovedTo(fd, p + Len(buf)) /\ p + Len(buf) <= MaxSize
      /\ node' = [node EXCEPT ![streams[fd].file] = Written(@, p, buf, typed, FALSE)]
  BY <1>2, <1>3 DEF Write
<1>5. p + Len(buf) \in 0..MaxSize
  BY <1>2, <1>3
<1>6. Inv' /\ Data' = [Data EXCEPT ![streams[fd].file] = F!Patched(@, p, buf)]
  BY <1>1, <1>4, <1>5, WritingStep
<1>7. F!At(fd) = p
  BY <1>1, <1>3, SameSize
<1>8. F!MovedTo(fd, F!At(fd) + Len(buf))
  BY <1>4, <1>7 DEF F!MovedTo, MovedTo
<1> QED  BY <1>1, <1>6, <1>7, <1>8, Zenon DEF F!Write, Data, IsOpen

LEMMA WriteAtStep ==
  ASSUME Inv, NEW fd \in Fds, NEW p \in 0..MaxSize, NEW buf \in Buffers, NEW typed \in BOOLEAN,
         WriteAt(fd, p, buf, typed)
  PROVE  Inv' /\ F!WriteAt(fd, p, buf)
<1>1. IsOpen(fd) /\ streams[fd].mode # "r"
  BY DEF WriteAt
<1>2. PICK q \in 0..MaxSize : q = Start(fd)
  BY <1>1, StreamIs
<1>3. /\ MovedTo(fd, q) /\ p + Len(buf) <= MaxSize /\ p \in Nat
      /\ node' = [node EXCEPT ![streams[fd].file] = Written(@, p, buf, typed, FALSE)]
  BY <1>2, MemFileAssumption DEF WriteAt
<1>4. Inv' /\ Data' = [Data EXCEPT ![streams[fd].file] = F!Patched(@, p, buf)]
  BY <1>1, <1>3, WritingStep
<1>5. F!MovedTo(fd, F!At(fd))
  BY <1>1, <1>2, <1>3, SameSize DEF F!MovedTo, MovedTo
<1> QED  BY <1>1, <1>4, <1>5, Zenon DEF F!WriteAt, Data, IsOpen

LEMMA AllocateStep ==
  ASSUME Inv, NEW fd \in Fds, NEW p \in 0..MaxSize, NEW n \in 1..MaxSize, Allocate(fd, p, n)
  PROVE  Inv' /\ \E f \in Files, m \in 0..MaxSize : F!Resize(f, m)
<1>1. IsOpen(fd) /\ p \in Nat /\ n \in Nat /\ n > 0 /\ p + n <= MaxSize /\ UNCHANGED streams
  BY MemFileAssumption DEF Allocate
<1>2. PICK f \in Files : f = streams[fd].file
  BY <1>1, StreamIs
<1>3. PICK y : y = Allocated(node[f], p, n)
  OBVIOUS
<1>4. Valid(node[f])
  BY DEF Inv
<1>5. PICK m \in 0..MaxSize : Valid(y) /\ y.contents = F!Resized(node[f].contents, m)
  BY <1>1, <1>3, <1>4, Allocating
<1>6. node' = [node EXCEPT ![f] = y]
  BY <1>2, <1>3 DEF Allocate
<1>7. Inv' /\ F!Resize(f, m)
  BY <1>1, <1>5, <1>6, ResizeStep
<1> QED  BY <1>7

-----------------------------------------------------------------------------
LEMMA Beginning == Init => Inv /\ F!Init
<1> SUFFICES ASSUME Init PROVE Inv /\ F!Init
  OBVIOUS
<1>1. Valid(Null)
  BY NoneValid
<1>2. Inv
  BY <1>1 DEF Init, Inv, Valid
<1>3. Data = [f \in Files |-> <<>>]
  BY <1>2, DataIs DEF Init, Null
<1> QED  BY <1>2, <1>3 DEF Init, F!Init, Data

LEMMA Step == Inv /\ [Next]_vars => Inv' /\ [F!Next]_(F!vars)
<1> SUFFICES ASSUME Inv, [Next]_vars PROVE Inv' /\ [F!Next]_(F!vars)
  OBVIOUS
<1>1. ASSUME NEW f \in Files, NEW mode \in Modes, NEW append \in BOOLEAN, NEW trunc \in BOOLEAN,
             Open(f, mode, append, trunc)
      PROVE  Inv' /\ F!Next
  <2>1. PICK fd \in Fds :
          /\ NextFd(fd) /\ Truncated(f, trunc)
          /\ streams' = [streams EXCEPT ![fd] =
               [file |-> f, mode |-> mode, append |-> append, position |-> 0]]
    BY <1>1 DEF Open
  <2>2. Inv' /\ F!Open(fd, f, mode, append, trunc)
    BY <2>1, OpenStep
  <2> QED  BY <2>2 DEF F!Next, Modes
<1>2. ASSUME NEW f \in Files, OpenFails(f)
      PROVE  Inv' /\ F!Next
  <2>1. 0 \in 0..MaxSize
    BY MemFileAssumption
  <2>2. Valid(ResizedTo(node[f], 0)) /\ ResizedTo(node[f], 0).contents = F!Resized(node[f].contents, 0)
    BY <2>1, Resizing DEF Inv
  <2>3. node' = [node EXCEPT ![f] = ResizedTo(node[f], 0)] /\ UNCHANGED streams
    BY <1>2 DEF OpenFails, Truncated
  <2>4. Inv' /\ F!Resize(f, 0)
    BY <2>1, <2>2, <2>3, ResizeStep
  <2> QED  BY <2>1, <2>4 DEF F!Next
<1>3. ASSUME NEW f \in Files, LoadLocalEntry(f)
      PROVE  Inv' /\ UNCHANGED F!vars
  BY <1>3, LoadStep DEF F!vars, Data
<1>4. ASSUME NEW f \in Files, NEW n \in 0..MaxSize, Truncate(f, n)
      PROVE  Inv' /\ F!Next
  <2>1. Valid(ResizedTo(node[f], n)) /\ ResizedTo(node[f], n).contents = F!Resized(node[f].contents, n)
    BY Resizing DEF Inv
  <2>2. node' = [node EXCEPT ![f] = ResizedTo(node[f], n)] /\ UNCHANGED streams
    BY <1>4 DEF Truncate
  <2>3. Inv' /\ F!Resize(f, n)
    BY <2>1, <2>2, ResizeStep
  <2> QED  BY <2>3 DEF F!Next
<1>5. ASSUME NEW f \in Files, NEW buf \in Buffers, NEW typed \in BOOLEAN, NEW canOwn \in BOOLEAN,
             WriteFile(f, buf, typed, canOwn)
      PROVE  Inv' /\ F!Next
  <2>1. Inv' /\ F!Replace(f, buf)
    BY <1>5, WriteFileStep
  <2> QED  BY <2>1 DEF F!Next, F!Buffers, Buffers
<1>6. ASSUME NEW fd \in Fds, Close(fd)
      PROVE  Inv' /\ F!Next
  BY <1>6, CloseStep DEF F!Next
<1>7. ASSUME NEW fd \in Fds, NEW whence \in 0..2, NEW offset \in -MaxSize..MaxSize,
             Seek(fd, whence, offset)
      PROVE  Inv' /\ F!Next
  <2>1. Inv' /\ \E p \in 0..MaxSize : F!Seek(fd, p)
    BY <1>7, SeekStep
  <2> QED  BY <2>1 DEF F!Next
<1>8. ASSUME NEW fd \in Fds, NEW n \in 0..MaxSize, Read(fd, n)
      PROVE  Inv' /\ F!Next
  BY <1>8, ReadStep DEF F!Next
<1>9. ASSUME NEW fd \in Fds, NEW buf \in Buffers, NEW typed \in BOOLEAN, Write(fd, buf, typed)
      PROVE  Inv' /\ F!Next
  <2>1. Inv' /\ F!Write(fd, buf)
    BY <1>9, WriteStep
  <2> QED  BY <2>1 DEF F!Next, F!Buffers, Buffers
<1>10. ASSUME NEW fd \in Fds, NEW buf \in Buffers, NEW typed \in BOOLEAN, NEW p \in 0..MaxSize,
              WriteAt(fd, p, buf, typed)
       PROVE  Inv' /\ F!Next
  <2>1. Inv' /\ F!WriteAt(fd, p, buf)
    BY <1>10, WriteAtStep
  <2> QED  BY <2>1 DEF F!Next, F!Buffers, Buffers
<1>11. ASSUME NEW fd \in Fds, NEW p \in 0..MaxSize, NEW n \in 1..MaxSize, Allocate(fd, p, n)
       PROVE  Inv' /\ F!Next
  <2>1. Inv' /\ \E f \in Files, m \in 0..MaxSize : F!Resize(f, m)
    BY <1>11, AllocateStep
  <2> QED  BY <2>1 DEF F!Next
<1>12. CASE UNCHANGED vars
  <2>1. node' = node /\ streams' = streams
    BY <1>12 DEF vars
  <2> QED  BY <2>1 DEF Inv, F!vars
<1>13. CASE Next
  BY <1>1, <1>2, <1>3, <1>4, <1>5, <1>6, <1>7, <1>8, <1>9, <1>10, <1>11, <1>13 DEF Next
<1> QED  BY <1>12, <1>13

LEMMA Invariance == Spec => []Inv
BY Beginning, Step, PTL DEF Spec

\* usedBytes is the length of the contents of every file, in each of their forms,
\* and no array is empty.
THEOREM AlwaysRepresented == Spec => []Represented
<1>1. Inv => Represented
  BY DEF Inv, Valid, Represented
<1> QED  BY <1>1, Invariance, PTL

\* For any files, sizes and numbers of descriptors, every call of MEMFS is one
\* of File's or changes nothing that a program can see.
THEOREM Refinement == Spec => ImplementsFile
<1>1. Init => F!Init
  BY Beginning
<1>2. Inv /\ [Next]_vars => [F!Next]_(F!vars)
  BY Step
<1> QED  BY <1>1, <1>2, Invariance, PTL DEF Spec, F!Spec, ImplementsFile
=============================================================================
