------------------------------ MODULE IDBSync ------------------------------
(***************************************************************************)
(* FS.syncfs() with one IDBFS mount, src/example/cryptonoter/worker.js:    *)
(* the tree below the mountpoint is copied to an object store of IndexedDB *)
(* (persist) or from it (populate).  Everything is a callback of an        *)
(* IndexedDB event, so several syncs, the program and the browser's        *)
(* transactions interleave.                                                *)
(*                                                                         *)
(* Abstracted: contents and permissions of the entries, of which the code  *)
(* compares nothing but the timestamp.  The mounts without a syncfs, which *)
(* are done at once, are left out.  A callback of the program starts       *)
(* nothing before the event that calls it is over.                         *)
(***************************************************************************)
EXTENDS Integers, FiniteSets, Sequences

CONSTANTS
  MaxPath,  \* paths are numbered in the order sort() gives them
  Parent,   \* the path a path is listed in, or 0: the mountpoint
  Ids,      \* calls of syncfs()
  None,     \* no entry
  MaxTime   \* bound: Date.now()

Paths == 1..MaxPath

ASSUME IDBSyncAssumption ==
  /\ MaxPath \in Nat /\ MaxTime \in Nat /\ IsFiniteSet(Ids) /\ None \notin Ids
  /\ Parent \in [Paths -> 0..MaxPath] /\ \A p \in Paths : Parent[p] < p

VARIABLES
  now,       \* Date.now()
  local,     \* the entries below the mountpoint
  remote,    \* the object store, as the running transaction has it
  stored,    \* the object store, as last committed
  db,        \* IDBFS.dbs[mountpoint] is set
  opens,     \* requests to open the database
  queue,     \* transactions that have not ended, in the order of creation
  requests,  \* FS.syncFSRequests; -1: doCallback() found it 0, its assertion
             \* failed and abort() has stopped the program
  syncs,     \* the calls
  disturbed  \* history: calls during which another one was in flight, or the
             \* tree was changed by the program or by another one

vars == <<now, local, remote, stored, db, opens, queue, requests, syncs, disturbed>>

Times == 0..MaxTime
Entry == [dir : BOOLEAN, time : Times]
Trees == [Paths -> Entry \cup {None}]
Set == [Paths -> Times \cup {-1}]  \* timestamps of a local or remote set

\* called and result are of the call's first callback, again counts those it gets
\* with null after an error; failed is a history: one of its requests has failed.
Sync == [stage : {"idle", "open", "read", "write", "ended", "lost"}, populate : BOOLEAN,
         set : Set, create : SUBSET Paths, remove : SUBSET Paths, entries : Trees,
         total : Nat, completed : Nat, called : Nat, result : {"ok", "err", "none"},
         again : Nat, failed : BOOLEAN]

TypeOK ==
  /\ now \in Times /\ local \in Trees /\ remote \in Trees /\ stored \in Trees
  /\ db \in BOOLEAN /\ opens \in Seq(Ids) /\ queue \in Seq(Ids)
  /\ requests \in Int /\ syncs \in [Ids -> Sync] /\ disturbed \subseteq Ids

Idle == [stage |-> "idle", populate |-> FALSE, set |-> [p \in Paths |-> -1],
         create |-> {}, remove |-> {}, entries |-> [p \in Paths |-> None],
         total |-> 0, completed |-> 0, called |-> 0, result |-> "none",
         again |-> 0, failed |-> FALSE]

\* Bound: a path with nothing below it is no directory.
Kinds(p) == IF p \in {Parent[q] : q \in Paths} THEN BOOLEAN ELSE {FALSE}

-----------------------------------------------------------------------------
(* Trees. *)

\* getLocalSet(), and what the cursor of getRemoteSet() collects.
SetOf(tree) == [p \in Paths |-> IF tree[p] = None THEN -1 ELSE tree[p].time]

Above[p \in 0..MaxPath] == IF p = 0 THEN {} ELSE {Parent[p]} \cup Above[Parent[p]]
IsDir(tree, p) == IF p = 0 THEN TRUE ELSE tree[p] # None /\ tree[p].dir

\* mkdir() or writeFile() of path p does not throw.
CanStore(tree, p, entry) ==
  /\ entry # None
  /\ IsDir(tree, Parent[p])
  /\ tree[p] # None => ~entry.dir /\ ~tree[p].dir

-----------------------------------------------------------------------------
(* Callbacks. *)

Uncalled(s) == syncs[s].stage # "idle" /\ syncs[s].called = 0
Flying(s) == syncs[s].stage \notin {"idle", "lost"} /\ syncs[s].called = 0
Leave(q, s) ==
  LET i == CHOOSE i \in DOMAIN q : q[i] = s
  IN  SubSeq(q, 1, i - 1) \o SubSeq(q, i + 1, Len(q))

\* callback(err) or callback(null), and doCallback() of FS.syncfs().
Returned(r, result) == [r EXCEPT !.called = @ + 1, !.result = result]

\* The call has nothing in the queue any more.
Ended(r) == [Idle EXCEPT !.stage = "ended", !.called = r.called, !.result = r.result,
                         !.again = r.again, !.failed = r.failed]

\* done(null) for good entries: the last of them reports success, whatever has
\* been reported before.
Completed(r, good) ==
  IF good > 0 /\ r.completed + good >= r.total
  THEN LET x == [r EXCEPT !.completed = @ + good]
       IN  IF x.result = "err" THEN [x EXCEPT !.again = @ + 1] ELSE Returned(x, "ok")
  ELSE [r EXCEPT !.completed = @ + good]

\* A mutant: every error is reported.
SettledEach(r, good, bad) ==
  Completed(IF bad > 0 THEN Returned(r, "err") ELSE r, good)

\* done(err) for bad entries and done(null) for good ones; done.errored is that
\* the result is an error.
Settled(r, good, bad) ==
  Completed(IF bad > 0 /\ r.result # "err" THEN Returned(r, "err") ELSE r, good)

\* The call s goes on as r.
Becomes(s, r) ==
  /\ syncs' = [syncs EXCEPT ![s] = r]
  /\ requests' = requests - ((r.called + r.again) - (syncs[s].called + syncs[s].again))

\* The tree below the mountpoint is changed, by s if s is a call.
Changes(tree, s) ==
  /\ local' = tree
  /\ disturbed' = disturbed \cup (IF tree = local THEN {} ELSE {t \in Ids \ {s} : Flying(t)})

-----------------------------------------------------------------------------
(* The program. *)

Tick == now < MaxTime /\ now' = now + 1
        /\ UNCHANGED <<local, remote, stored, db, opens, queue, requests, syncs, disturbed>>

\* mkdir(), a file created, written, or touched by chmod().
Store(p, dir) ==
  /\ CanStore(local, p, [dir |-> dir, time |-> now])
  /\ Changes([local EXCEPT ![p] = [dir |-> dir, time |-> now]], None)
  /\ UNCHANGED <<now, remote, stored, db, opens, queue, requests, syncs>>

\* unlink(), rmdir().
Remove(p) ==
  /\ local[p] # None
  /\ \A q \in Paths : p \in Above[q] => local[q] = None
  /\ Changes([local EXCEPT ![p] = None], None)
  /\ UNCHANGED <<now, remote, stored, db, opens, queue, requests, syncs>>

\* FS.syncfs(), up to the first request: getLocalSet() is synchronous.
Syncfs(s, populate) ==
  LET others == {t \in Ids \ {s} : Flying(t)} IN
  /\ syncs[s].stage = "idle"
  /\ syncs' = [syncs EXCEPT ![s] = [Idle EXCEPT !.stage = IF db THEN "read" ELSE "open",
                                                !.populate = populate, !.set = SetOf(local)]]
  /\ requests' = requests + 1
  /\ IF db THEN queue' = Append(queue, s) /\ UNCHANGED opens
     ELSE opens' = Append(opens, s) /\ UNCHANGED queue
  /\ disturbed' = disturbed \cup others \cup (IF others = {} THEN {} ELSE {s})
  /\ UNCHANGED <<now, local, remote, stored, db>>

-----------------------------------------------------------------------------
(* IndexedDB.  Requests to open are served in order.  A transaction that   *)
(* writes starts when those before it have ended, one that reads when      *)
(* those before it that write have; it sees the store as it is then.       *)

\* getDB(): req.onsuccess, and getRemoteSet()'s transaction.
Opened(s) ==
  /\ opens # <<>> /\ Head(opens) = s /\ syncs[s].stage = "open"
  /\ opens' = Tail(opens)
  /\ db' = TRUE
  /\ queue' = Append(queue, s)
  /\ Becomes(s, [syncs[s] EXCEPT !.stage = "read"])
  /\ UNCHANGED <<now, local, remote, stored, disturbed>>

OpenFails(s) ==
  /\ opens # <<>> /\ Head(opens) = s /\ syncs[s].stage = "open"
  /\ opens' = Tail(opens)
  /\ Becomes(s, Ended(Returned(syncs[s], "err")))
  /\ UNCHANGED <<now, local, remote, stored, db, queue, disturbed>>

MayRead(s) ==
  /\ syncs[s].stage = "read"
  /\ \E i \in DOMAIN queue :
       queue[i] = s /\ \A j \in 1..(i - 1) : syncs[queue[j]].stage = "read"

\* The cursor's request fails: its error comes to transaction.onerror, where
\* this.error is null, so callback(null) is made without a remote set, and
\* reconcile() throws on it.  Nobody is called back.
ReadFails(s) ==
  /\ MayRead(s)
  /\ queue' = Leave(queue, s)
  /\ Becomes(s, [Idle EXCEPT !.stage = "lost"])
  /\ UNCHANGED <<now, local, remote, stored, db, opens, disturbed>>

\* The browser gives the transaction up: this.error is set.
ReadAborts(s) ==
  /\ MayRead(s)
  /\ queue' = Leave(queue, s)
  /\ Becomes(s, Ended(Returned(syncs[s], "err")))
  /\ UNCHANGED <<now, local, remote, stored, db, opens, disturbed>>

(* IDBFS.reconcile(), in the callback of getRemoteSet(). *)
Source(s) == IF syncs[s].populate THEN SetOf(remote) ELSE syncs[s].set
Target(s) == IF syncs[s].populate THEN syncs[s].set ELSE SetOf(remote)
\* A mutant: only what the target does not have.
ToCreateMissing(s) == {p \in Paths : Source(s)[p] > -1 /\ Target(s)[p] = -1}
ToCreate(s) == {p \in Paths : Source(s)[p] > Target(s)[p]}
ToRemove(s) == {p \in Paths : Source(s)[p] = -1 /\ Target(s)[p] # -1}
Work(s) == ToCreate(s) \cup ToRemove(s)

\* A mutant: the callback is forgotten.
NothingToDoQuietly(s) ==
  /\ MayRead(s) /\ Work(s) = {}
  /\ queue' = Leave(queue, s)
  /\ Becomes(s, Ended(syncs[s]))
  /\ UNCHANGED <<now, local, remote, stored, db, opens, disturbed>>

NothingToDo(s) ==
  /\ MayRead(s) /\ Work(s) = {}
  /\ queue' = Leave(queue, s)
  /\ Becomes(s, Ended(Returned(syncs[s], "ok")))
  /\ UNCHANGED <<now, local, remote, stored, db, opens, disturbed>>

\* The call s requests what is to do, in a transaction of its own.
Writing(s, create, remove, entries) ==
  [syncs[s] EXCEPT !.stage = "write", !.set = Idle.set, !.create = create, !.remove = remove,
                   !.total = Cardinality(Work(s)), !.entries = entries]

\* To the store: loadLocalEntry() of what is no longer there is an error, the
\* rest is requested as it is now.
Persist(s) ==
  LET gone == {p \in ToCreate(s) : local[p] = None}
      kept == ToCreate(s) \ gone
      entries == [p \in Paths |-> IF p \in kept THEN local[p] ELSE None]
  IN  /\ MayRead(s) /\ Work(s) # {} /\ ~syncs[s].populate
      /\ queue' = Append(Leave(queue, s), s)
      /\ Becomes(s, Settled(Writing(s, kept, ToRemove(s), entries), 0, Cardinality(gone)))
      /\ UNCHANGED <<now, local, remote, stored, db, opens, disturbed>>

\* From the store: entries are requested, and those the store does not have are
\* removed at once, unless they are gone or have something new below them.
Populate(s) ==
  LET removed == {p \in ToRemove(s) :
                    local[p] # None
                    /\ \A q \in Paths : p \in Above[q] /\ local[q] # None => q \in ToRemove(s)}
      failed == ToRemove(s) \ removed
  IN  /\ MayRead(s) /\ Work(s) # {} /\ syncs[s].populate
      /\ queue' = Append(Leave(queue, s), s)
      /\ Changes([p \in Paths |-> IF p \in removed THEN None ELSE local[p]], s)
      /\ Becomes(s, Settled(Writing(s, ToCreate(s), {}, Idle.entries),
                            Cardinality(removed), Cardinality(failed)))
      /\ UNCHANGED <<now, remote, stored, db, opens>>

\* The transaction of s runs; its requests are served in their order.
Writes(s) == queue # <<>> /\ Head(queue) = s /\ syncs[s].stage = "write"
Pending(s) == syncs[s].create # {} \/ syncs[s].remove # {}

\* p is the first that has no answer: creations upwards, then removals downwards.
NextRequest(s, p) ==
  /\ Writes(s)
  /\ \/ p \in syncs[s].create /\ \A q \in syncs[s].create : p <= q
     \/ syncs[s].create = {} /\ p \in syncs[s].remove /\ \A q \in syncs[s].remove : p >= q
Served(s, p) == [syncs[s] EXCEPT !.create = @ \ {p}, !.remove = @ \ {p}]

\* storeRemoteEntry(), removeRemoteEntry(): req.onsuccess.
WriteRemote(s, p) ==
  /\ NextRequest(s, p) /\ ~syncs[s].populate
  /\ remote' = [remote EXCEPT ![p] = IF p \in syncs[s].create THEN syncs[s].entries[p] ELSE None]
  /\ Becomes(s, Settled(Served(s, p), 1, 0))
  /\ UNCHANGED <<now, local, stored, db, opens, queue, disturbed>>

\* loadRemoteEntry(): req.onsuccess, and storeLocalEntry().
ReadRemote(s, p) ==
  LET stores == CanStore(local, p, remote[p]) IN
  /\ NextRequest(s, p) /\ syncs[s].populate
  /\ Changes(IF stores THEN [local EXCEPT ![p] = remote[p]] ELSE local, s)
  /\ Becomes(s, IF stores THEN Settled(Served(s, p), 1, 0) ELSE Settled(Served(s, p), 0, 1))
  /\ UNCHANGED <<now, remote, stored, db, opens, queue>>

\* req.onerror: done(err).  preventDefault() keeps the transaction going, but the
\* event goes on to transaction.onerror, where this.error is null: done(null).
RequestFails(s, p) ==
  /\ NextRequest(s, p)
  /\ Becomes(s, Settled([Served(s, p) EXCEPT !.failed = TRUE], 1, 1))
  /\ UNCHANGED <<now, local, remote, stored, db, opens, queue, disturbed>>

Commit(s) ==
  /\ Writes(s) /\ ~Pending(s)
  /\ stored' = remote
  /\ queue' = Tail(queue)
  /\ Becomes(s, Ended(syncs[s]))
  /\ UNCHANGED <<now, local, remote, db, opens, disturbed>>

\* The browser gives the transaction up, also at the commit: what it wrote is
\* undone, and requests that have no answer yet fail, with an error each time.
Abort(s) ==
  /\ Writes(s)
  /\ remote' = stored
  /\ queue' = Tail(queue)
  /\ Becomes(s, Ended(Settled(syncs[s], 0, Cardinality(syncs[s].create \cup syncs[s].remove))))
  /\ UNCHANGED <<now, local, stored, db, opens, disturbed>>

-----------------------------------------------------------------------------
\* An earlier page has left a tree; its clock may be ahead.
Init ==
  /\ stored \in {t \in [Paths -> [dir : BOOLEAN, time : {0, 1} \cap Times] \cup {None}] :
                   \A p \in Paths : t[p] # None => t[p].dir \in Kinds(p) /\ IsDir(t, Parent[p])}
  /\ remote = stored
  /\ now = 0 /\ local = [p \in Paths |-> None]
  /\ db = FALSE /\ opens = <<>> /\ queue = <<>> /\ requests = 0
  /\ syncs = [s \in Ids |-> Idle] /\ disturbed = {}

Event(s) ==
  \/ Opened(s) \/ OpenFails(s) \/ ReadFails(s) \/ ReadAborts(s)
  \/ NothingToDo(s) \/ Persist(s) \/ Populate(s)
  \/ \E p \in Paths : WriteRemote(s, p) \/ ReadRemote(s, p) \/ RequestFails(s, p)
  \/ Commit(s) \/ Abort(s)

Answer(s) == requests >= 0 /\ Event(s)

Next ==
  /\ requests >= 0
  /\ \/ Tick
     \/ \E p \in Paths : Remove(p) \/ \E dir \in Kinds(p) : Store(p, dir)
     \/ \E s \in Ids : Answer(s) \/ \E populate \in BOOLEAN : Syncfs(s, populate)

Spec == Init /\ [][Next]_vars

\* IndexedDB answers every request and ends every transaction.
FairSpec == Spec /\ \A s \in Ids : WF_vars(Answer(s))

-----------------------------------------------------------------------------
(* Properties. *)

\* However many requests of a call fail, and in whatever order its own and other
\* calls' events come in, it reports at most one error or one success, and after
\* the error at most one null, only if a request of its own failed; syncFSRequests
\* is the number of calls not called back yet, less those called back twice.
CallbacksCounted ==
  /\ \A s \in Ids :
       /\ syncs[s].called <= 1 /\ syncs[s].again <= 1
       /\ syncs[s].again = 1 => syncs[s].result = "err" /\ syncs[s].failed
  /\ requests = Cardinality({s \in Ids : Uncalled(s)})
                - Cardinality({s \in Ids : syncs[s].again > 0})

\* What doCallback() asserts: it never finds more callbacks than calls.
AssertionHolds == requests >= 0

\* What target is to source when a sync has done its work.
Agree(source, target) ==
  \A p \in Paths : /\ source[p] = None <=> target[p] = None
                   /\ SetOf(target)[p] >= SetOf(source)[p]

\* A call that was the only one in flight, of a tree nobody changed meanwhile,
\* calls back first with success only if both sides now have the same entries and
\* none of the target is older; a call that had failed may still be writing when
\* it starts.  (The null a call may get after an error says nothing.)
SuccessMeansSynced ==
  [][\A s \in Ids :
       syncs[s].result = "none" /\ syncs'[s].result = "ok" /\ s \notin disturbed =>
         IF syncs[s].populate THEN Agree(remote', local') ELSE Agree(local', remote')]_vars

\* Every call is called back, behind whatever transactions it waits and whatever
\* fails, unless the request of its cursor did or the program has been stopped:
\* no count of completed entries is left short without an error.
SyncEnds ==
  \A s \in Ids : syncs[s].stage # "idle" ~>
                   syncs[s].called > 0 \/ syncs[s].stage = "lost" \/ requests < 0
=============================================================================
