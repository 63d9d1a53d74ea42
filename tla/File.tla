-------------------------------- MODULE File --------------------------------
(***************************************************************************)
(* What the files of the Emscripten file system promise a program: each is *)
(* a sequence of bytes, read and written through streams that have a       *)
(* position of their own.  MemFile shows that MEMFS keeps the promise.     *)
(***************************************************************************)
EXTENDS Integers, Sequences

CONSTANTS Files, Fds, Bytes, Zero, Closed, MaxSize

VARIABLES
  data,    \* the bytes of each file
  streams  \* the open stream of each descriptor, or Closed

vars == <<data, streams>>

Max2(a, b) == IF a >= b THEN a ELSE b
Min2(a, b) == IF a <= b THEN a ELSE b

Buffers == UNION {[1..n -> Bytes] : n \in 0..MaxSize}

\* The first n bytes of s, with zeros where it is shorter.
Resized(s, n) == [i \in 1..n |-> IF i <= Len(s) THEN s[i] ELSE Zero]

\* s with the bytes of buf from position p on; what lies between is zero.
Patched(s, p, buf) ==
  IF buf = <<>> THEN s
  ELSE [i \in 1..Max2(Len(s), p + Len(buf)) |->
          IF i > p /\ i <= p + Len(buf) THEN buf[i - p]
          ELSE IF i <= Len(s) THEN s[i] ELSE Zero]

Size(fd) == Len(data[streams[fd].file])
At(fd) == IF streams[fd].append THEN Size(fd) ELSE streams[fd].position
MovedTo(fd, p) == streams' = [streams EXCEPT ![fd].position = p]

Init ==
  /\ data = [f \in Files |-> <<>>]
  /\ streams = [fd \in Fds |-> Closed]

Open(fd, f, mode, append, trunc) ==
  /\ streams[fd] = Closed
  /\ streams' = [streams EXCEPT ![fd] = [file |-> f, mode |-> mode, append |-> append, position |-> 0]]
  /\ data' = [data EXCEPT ![f] = IF trunc THEN <<>> ELSE @]

Close(fd) ==
  /\ streams[fd] # Closed
  /\ streams' = [streams EXCEPT ![fd] = Closed]
  /\ UNCHANGED data

Seek(fd, p) ==
  /\ streams[fd] # Closed
  /\ MovedTo(fd, p)
  /\ UNCHANGED data

Read(fd, n) ==
  /\ streams[fd] # Closed /\ streams[fd].mode # "w"
  /\ MovedTo(fd, Max2(streams[fd].position, Min2(Size(fd), streams[fd].position + n)))
  /\ UNCHANGED data

\* At the position of the stream, or the end of the file; the stream moves on.
Write(fd, buf) ==
  /\ streams[fd] # Closed /\ streams[fd].mode # "r"
  /\ data' = [data EXCEPT ![streams[fd].file] = Patched(@, At(fd), buf)]
  /\ MovedTo(fd, At(fd) + Len(buf))

\* At a position of its own; an appending stream is moved to the old end.
WriteAt(fd, p, buf) ==
  /\ streams[fd] # Closed /\ streams[fd].mode # "r"
  /\ data' = [data EXCEPT ![streams[fd].file] = Patched(@, p, buf)]
  /\ MovedTo(fd, At(fd))

\* Truncating and extending; also an open() that fails for want of descriptors.
Resize(f, n) ==
  /\ data' = [data EXCEPT ![f] = Resized(@, n)]
  /\ UNCHANGED streams

\* The whole file anew.
Replace(f, buf) ==
  /\ data' = [data EXCEPT ![f] = buf]
  /\ UNCHANGED streams

Next ==
  \/ \E f \in Files :
       \/ \E n \in 0..MaxSize : Resize(f, n)
       \/ \E buf \in Buffers : Replace(f, buf)
  \/ \E fd \in Fds :
       \/ \E f \in Files, mode \in {"r", "w", "rw"}, append, trunc \in BOOLEAN :
            Open(fd, f, mode, append, trunc)
       \/ Close(fd)
       \/ \E p \in 0..MaxSize : Seek(fd, p)
       \/ \E n \in 0..MaxSize : Read(fd, n)
       \/ \E buf \in Buffers : Write(fd, buf) \/ \E p \in 0..MaxSize : WriteAt(fd, p, buf)

Spec == Init /\ [][Next]_vars
=============================================================================
