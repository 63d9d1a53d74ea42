------------------------------ MODULE MemFile ------------------------------
(***************************************************************************)
(* Regular files of MEMFS and the streams of FS in                         *)
(* src/example/cryptonoter/worker.js.  The contents of a node are null, a  *)
(* Uint8Array or, once it has outgrown that, a JavaScript array; usedBytes *)
(* is kept beside them.  Calls are synchronous, so each is one action; a   *)
(* call that throws before it has changed anything is no step.             *)
(*                                                                         *)
(* Nodes exist from the start and are empty.  Bytes are compared modulo    *)
(* 256: an array keeps the signed values of HEAP8 that a Uint8Array wraps. *)
(***************************************************************************)
EXTENDS Integers, Sequences, FiniteSets

CONSTANTS
  Files,       \* nodes of regular files
  MaxOpenFds,  \* FS.MAX_OPEN_FDS
  Bytes, Zero, \* values of a byte
  Closed,      \* no stream
  MaxSize      \* bound: size of a file

ASSUME MemFileAssumption ==
  /\ Zero \in Bytes /\ MaxOpenFds \in Nat /\ MaxSize \in Nat

VARIABLES
  node,    \* contents and usedBytes of each file
  streams  \* FS.streams

vars == <<node, streams>>

\* FS.nextfd() goes to fd_end inclusive: one more than MAX_OPEN_FDS.
Fds == 0..MaxOpenFds

Modes == {"r", "w", "rw"}  \* flags & O_ACCMODE
Stream == [file : Files, mode : Modes, append : BOOLEAN, position : 0..MaxSize]
Node == [form : {"null", "typed", "array"}, contents : Seq(Bytes), usedBytes : Nat]
Null == [form |-> "null", contents |-> <<>>, usedBytes |-> 0]

TypeOK == node \in [Files -> Node] /\ streams \in [Fds -> Stream \cup {Closed}]

Max2(a, b) == IF a >= b THEN a ELSE b
Min2(a, b) == IF a <= b THEN a ELSE b
Buffers == UNION {[1..n -> Bytes] : n \in 0..MaxSize}

-----------------------------------------------------------------------------
(* The contents of one node, x. *)

\* A new array of n bytes with those of s in front; pushing zeros to s.
Padded(s, n) == [i \in 1..Max2(n, Len(s)) |-> IF i <= Len(s) THEN s[i] ELSE Zero]
Cut(s, n) == [i \in 1..n |-> s[i]]

\* contents.set(buf, p), or byte by byte; p + Len(buf) is within contents.
SetBytes(s, p, buf) ==
  [i \in 1..Len(s) |-> IF i > p /\ i <= p + Len(buf) THEN buf[i - p] ELSE s[i]]

\* The capacity of a Uint8Array that takes the place of one with prev bytes.
NewCapacity(prev, n) ==
  LET grown == Max2(n, IF prev < 1048576 THEN prev * 2 ELSE (prev * 9) \div 8)
  IN  IF prev # 0 THEN Max2(grown, 256) ELSE grown

\* MEMFS.expandFileStorage(): a Uint8Array that is too short becomes an array.
AsArray(x, n) ==
  IF x.form = "typed" /\ n > Len(x.contents)
  THEN [form |-> "array", contents |-> Cut(x.contents, x.usedBytes), usedBytes |-> x.usedBytes]
  ELSE x

Expanded(x, n) ==
  LET y == AsArray(x, n) IN
  IF y.form = "array" THEN [y EXCEPT !.contents = Padded(@, n)]
  ELSE IF Len(y.contents) >= n THEN y
  ELSE [y EXCEPT !.form = "typed",
                 !.contents = Padded(Cut(@, y.usedBytes), NewCapacity(Len(y.contents), n))]

\* MEMFS.resizeFileStorage().
ResizedTo(x, n) ==
  LET array == x.form = "array"
      kept == Cut(x.contents, Min2(n, IF array THEN Len(x.contents) ELSE x.usedBytes))
  IN  IF x.usedBytes = n THEN x
      ELSE IF n = 0 THEN Null
      ELSE [form      |-> IF array THEN "array" ELSE "typed",
            contents  |-> Padded(kept, n),
            usedBytes |-> n]

\* A mutant: the file ends with what was written last.
WrittenEnd(x, p, buf, typed, canOwn) ==
  LET y == Expanded(x, p + Len(buf)) IN
  IF buf = <<>> THEN x
  ELSE [y EXCEPT !.contents = SetBytes(@, p, buf), !.usedBytes = p + Len(buf)]

\* MEMFS.stream_ops.write(): typed says that buffer is a typed array.
Written(x, p, buf, typed, canOwn) ==
  LET fits == typed /\ x.form # "array"
      y == Expanded(x, p + Len(buf))
  IN  IF buf = <<>> THEN x
      ELSE IF fits /\ (canOwn \/ (x.usedBytes = 0 /\ p = 0))
      THEN [form |-> "typed", contents |-> buf, usedBytes |-> Len(buf)]
      ELSE IF fits /\ p + Len(buf) <= x.usedBytes
      THEN [x EXCEPT !.contents = SetBytes(@, p, buf)]
      ELSE [y EXCEPT !.contents = SetBytes(@, p, buf),
                     !.usedBytes = Max2(@, p + Len(buf))]

\* MEMFS.stream_ops.allocate().
Allocated(x, p, n) ==
  LET y == Expanded(x, p + n) IN [y EXCEPT !.usedBytes = Max2(@, p + n)]

-----------------------------------------------------------------------------
(* Streams. *)

IsOpen(fd) == streams[fd] # Closed
Size(fd) == node[streams[fd].file].usedBytes
MovedTo(fd, p) == streams' = [streams EXCEPT ![fd].position = p]

\* FS.nextfd(): the first that is free.
NextFd(fd) == ~IsOpen(fd) /\ \A g \in Fds : g < fd => IsOpen(g)

Truncated(f, trunc) == node' = [node EXCEPT ![f] = IF trunc THEN ResizedTo(@, 0) ELSE @]

\* FS.open() of a file.
Open(f, mode, append, trunc) ==
  \E fd \in Fds :
    /\ NextFd(fd)
    /\ Truncated(f, trunc)
    /\ streams' = [streams EXCEPT ![fd] =
         [file |-> f, mode |-> mode, append |-> append, position |-> 0]]

\* EMFILE: createStream() throws when O_TRUNC has been carried out.
OpenFails(f) ==
  /\ \A fd \in Fds : IsOpen(fd)
  /\ Truncated(f, TRUE)
  /\ UNCHANGED streams

\* FS.close().
Close(fd) ==
  /\ IsOpen(fd)
  /\ streams' = [streams EXCEPT ![fd] = Closed]
  /\ UNCHANGED node

\* MEMFS.stream_ops.llseek().
Base(fd, whence) ==
  CASE whence = 0 -> 0 [] whence = 1 -> streams[fd].position [] OTHER -> Size(fd)

\* A mutant: positions before the start of the file are not refused.
SeekAnywhere(fd, whence, offset) ==
  /\ IsOpen(fd)
  /\ Base(fd, whence) + offset <= MaxSize
  /\ MovedTo(fd, Base(fd, whence) + offset)
  /\ UNCHANGED node

\* FS.llseek().
Seek(fd, whence, offset) ==
  /\ IsOpen(fd)
  /\ Base(fd, whence) + offset \in 0..MaxSize
  /\ MovedTo(fd, Base(fd, whence) + offset)
  /\ UNCHANGED node

\* MEMFS.stream_ops.read().
BytesRead(fd, n) ==
  IF streams[fd].position >= Size(fd) THEN 0 ELSE Min2(Size(fd) - streams[fd].position, n)

\* FS.read() at the position of the stream.
Read(fd, n) ==
  /\ IsOpen(fd) /\ streams[fd].mode # "w"
  /\ MovedTo(fd, streams[fd].position + BytesRead(fd, n))
  /\ UNCHANGED node

\* A mutant: O_APPEND is not looked at.
StartOverwriting(fd) == streams[fd].position

\* FS.write() seeks to the end for O_APPEND.
Start(fd) == IF streams[fd].append THEN Size(fd) ELSE streams[fd].position

\* FS.write() at the position of the stream.
Write(fd, buf, typed) ==
  /\ IsOpen(fd) /\ streams[fd].mode # "r"
  /\ Start(fd) + Len(buf) <= MaxSize
  /\ node' = [node EXCEPT ![streams[fd].file] = Written(@, Start(fd), buf, typed, FALSE)]
  /\ MovedTo(fd, Start(fd) + Len(buf))

\* FS.write() at a position p: only O_APPEND moves the stream.
WriteAt(fd, p, buf, typed) ==
  /\ IsOpen(fd) /\ streams[fd].mode # "r"
  /\ p + Len(buf) <= MaxSize
  /\ node' = [node EXCEPT ![streams[fd].file] = Written(@, p, buf, typed, FALSE)]
  /\ MovedTo(fd, Start(fd))

\* FS.allocate().
Allocate(fd, p, n) ==
  /\ IsOpen(fd) /\ streams[fd].mode # "r"
  /\ n > 0 /\ p + n <= MaxSize
  /\ node' = [node EXCEPT ![streams[fd].file] = Allocated(@, p, n)]
  /\ UNCHANGED streams

\* FS.truncate(), ftruncate() of a stream that is not read-only.
Truncate(f, n) ==
  /\ node' = [node EXCEPT ![f] = ResizedTo(@, n)]
  /\ UNCHANGED streams

\* FS.writeFile(), createDataFile(): open(.., "w"), write at 0 and close, with
\* canOwn if the caller gives its buffer away.
WriteFile(f, buf, typed, canOwn) ==
  /\ \E fd \in Fds : ~IsOpen(fd)
  /\ node' = [node EXCEPT ![f] = Written(ResizedTo(@, 0), 0, buf, typed, canOwn)]
  /\ UNCHANGED streams

\* IDBFS.loadLocalEntry() leaves a typed array behind, even an empty one.
LoadLocalEntry(f) ==
  /\ node' = [node EXCEPT ![f] =
       [form |-> "typed", contents |-> Cut(@.contents, @.usedBytes), usedBytes |-> @.usedBytes]]
  /\ UNCHANGED streams

-----------------------------------------------------------------------------
Init ==
  /\ node = [f \in Files |-> Null]
  /\ streams = [fd \in Fds |-> Closed]

Next ==
  \/ \E f \in Files :
       \/ \E mode \in Modes, append, trunc \in BOOLEAN : Open(f, mode, append, trunc)
       \/ OpenFails(f)
       \/ LoadLocalEntry(f)
       \/ \E n \in 0..MaxSize : Truncate(f, n)
       \/ \E buf \in Buffers, typed, canOwn \in BOOLEAN : WriteFile(f, buf, typed, canOwn)
  \/ \E fd \in Fds :
       \/ Close(fd)
       \/ \E whence \in 0..2, offset \in -MaxSize..MaxSize : Seek(fd, whence, offset)
       \/ \E n \in 0..MaxSize : Read(fd, n)
       \/ \E buf \in Buffers, typed \in BOOLEAN :
            Write(fd, buf, typed) \/ \E p \in 0..MaxSize : WriteAt(fd, p, buf, typed)
       \/ \E p \in 0..MaxSize, n \in 1..MaxSize : Allocate(fd, p, n)

Spec == Init /\ [][Next]_vars

-----------------------------------------------------------------------------
(* Properties. *)

\* usedBytes is the length of the contents in every form they take, and no
\* array is empty: no byte beyond the end of the file survives to come back when
\* it grows, no read dereferences null, and the branch of expandFileStorage()
\* that doubles the capacity is never taken.
Represented ==
  \A f \in Files :
    /\ Len(node[f].contents) = node[f].usedBytes
    /\ node[f].form = "array" => node[f].usedBytes > 0

\* A file is its first usedBytes bytes.
F == INSTANCE File WITH
       data <- [f \in Files |-> Cut(node[f].contents, node[f].usedBytes)]

\* In whatever form the bytes are kept and however often that changes, every
\* call does to them and to the streams what File says.
ImplementsFile == F!Spec
=============================================================================
