----------------------------- MODULE FileSystem -----------------------------
(***************************************************************************)
(* The directory tree of the Emscripten file system in                     *)
(* src/example/cryptonoter/worker.js.  A node is kept twice: in the        *)
(* contents of its directory (MEMFS), which readdir() lists, and in a      *)
(* chain of FS.nameTable, which every path is looked up in.  Calls are     *)
(* synchronous, so each is one action.  A call that throws before it has   *)
(* changed anything is no step.                                            *)
(*                                                                         *)
(* A path is the directory its last component is looked up in and that     *)
(* component.  Left out: permissions (nodes keep their default modes),     *)
(* symbolic links, devices and the trackingDelegate, which nobody sets.    *)
(***************************************************************************)
EXTENDS Naturals, FiniteSets, Sequences

CONSTANTS
  MaxNodes,  \* bound: nodes ever created
  MaxRoom,   \* bound: one for each of them, two if it has a name
  Names,     \* names of files and directories
  DotNames,  \* those that begin with a dot
  Slash,     \* name of the root of a mount
  Buckets,   \* places of FS.nameTable
  Hash       \* FS.hashName()

Nodes == 1..MaxNodes
None == 0
Root == 1

ASSUME FileSystemAssumption ==
  /\ MaxNodes \in Nat \ {0} /\ MaxRoom \in Nat
  /\ DotNames \subseteq Names /\ Slash \notin Names
  /\ Hash \in [Nodes \X (Names \cup {Slash}) -> Buckets]

VARIABLES
  nextInode,  \* FS.nextInode
  kind,       \* "dir", "file"; "none": not created yet
  parent,     \* FSNode.parent; a root is its own
  name,       \* FSNode.name
  fs,         \* FSNode.mount, as the root of the mount
  mounted,    \* FSNode.mounted, as the root of the mount; None
  mountpoint, \* mount.mountpoint of a root: the path when it was mounted
  contents,   \* node.contents of a directory
  chain,      \* nodes linked in each place of FS.nameTable
  newer,      \* the order in the chains, of nodes with one directory and name
  cwd         \* FS.currentPath

treeVars == <<kind, parent, name, fs>>
mountVars == <<mounted, mountpoint>>
vars == <<nextInode, treeVars, mountVars, contents, chain, newer, cwd>>

Paths == Seq(Names)

TypeOK ==
  /\ nextInode \in 2..MaxNodes + 1
  /\ kind \in [Nodes -> {"dir", "file", "none"}]
  /\ parent \in [Nodes -> Nodes] /\ fs \in [Nodes -> Nodes]
  /\ name \in [Nodes -> Names \cup {Slash}]
  /\ mounted \in [Nodes -> Nodes \cup {None}] /\ mountpoint \in [Nodes -> Paths]
  /\ contents \in [Nodes -> [Names -> Nodes \cup {None}]]
  /\ chain \in [Buckets -> SUBSET Nodes]
  /\ newer \subseteq Nodes \X Nodes
  /\ cwd \in Paths
  /\ \A x \in Nodes : kind[x] # "none" <=> x < nextInode

-----------------------------------------------------------------------------
(* The name table. *)

Chained == UNION {chain[b] : b \in Buckets}

\* The nodes of its chain that lookupNode() would take for (d, n).
Matches(d, n) == {x \in chain[Hash[d, n]] : parent[x] = d /\ name[x] = n}

\* lookupNode(): the first of them; MEMFS has no lookup of its own.
Finds(d, n, x) ==
  x \in Matches(d, n) /\ \A y \in Matches(d, n) \ {x} : <<x, y>> \in newer

Found(d, n) == {x \in Matches(d, n) : Finds(d, n, x)}
NotFound(d, n) == Matches(d, n) = {}

Linked(x, b) == [chain EXCEPT ![b] = @ \cup {x}]
Unlinked(X) == [b \in Buckets |-> chain[b] \ {x \in X : Hash[parent[x], name[x]] = b}]
WithoutOrder(X) == {p \in newer : p[1] \notin X /\ p[2] \notin X}

\* hashAddNode(): at the head of the chain of its name.
HashAdd(x) ==
  /\ chain' = Linked(x, Hash[parent'[x], name'[x]])
  /\ newer' = newer \cup {<<x, y>> : y \in Matches(parent'[x], name'[x])}

\* hashRemoveNode(), for every node of X.
HashRemove(X) ==
  /\ chain' = Unlinked(X)
  /\ newer' = WithoutOrder(X)

-----------------------------------------------------------------------------
(* Paths. *)

\* Where up leads to from x: no set without it holds x and is closed under up.
UpFrom(up, x) ==
  {y \in Nodes : \A S \in SUBSET (Nodes \ {y}) : x \in S => \E z \in S : up[z] \notin S}

\* The nodes on the way up from x, x included, to the root of its mount.
AncOrSelf(x) == UpFrom(parent, x)

\* The same through the mountpoints, to the root of the tree.
IsMountOn(x, z) == mounted[z] = x
Up(x) == IF parent[x] = x /\ \E z \in Nodes : IsMountOn(x, z)
         THEN CHOOSE z \in Nodes : IsMountOn(x, z) ELSE parent[x]
Way(x) == UpFrom([y \in Nodes |-> Up(y)], x)

\* The directories that FS.lookupPath() leads to: every node on the way is
\* found, and what is mounted on it is entered.
Dirs ==
  {x \in Nodes :
     /\ kind[x] = "dir" /\ Root \in Way(x)
     /\ \A y \in Way(x) : /\ parent[y] # y => y \in Found(parent[y], name[y])
                          /\ mounted[y] # None => mounted[y] \in Way(x)}

\* FS.getPath(): up to the root of the mount, then its mountpoint.
GetPath(x) ==
  LET path[k \in 0..MaxNodes, y \in Nodes] ==
        IF parent[y] = y \/ k = 0 THEN mountpoint[y]
        ELSE Append(path[k - 1, parent[y]], name[y])
  IN  path[MaxNodes, x]

\* The path that was taken to x: it goes through the mountpoints as they are.
PathTo(x) ==
  LET path[k \in 0..2 * MaxNodes, y \in Nodes] ==
        IF y = Root \/ k = 0 THEN <<>>
        ELSE IF parent[y] = y THEN path[k - 1, Up(y)]
        ELSE Append(path[k - 1, parent[y]], name[y])
  IN  path[2 * MaxNodes, x]

\* A mutant: a dot in front of the name of top's child is no hint.
RelativeNoneInside(top, d) == FALSE

\* PATH.relative() from top to d has no dot in front: d is top or below it,
\* unless the first name on the way down begins with a dot.
RelativeInside(top, d) ==
  \/ d = top
  \/ /\ top \in AncOrSelf(d)
     /\ \A y \in AncOrSelf(d) : parent[y] = top /\ y # top => name[y] \notin DotNames

-----------------------------------------------------------------------------
(* Creating. *)

Taken ==
  LET known == 2..nextInode - 1
  IN  Cardinality(known) + Cardinality({x \in known : parent[x] # x})

\* A mutant: FS.nextInode is not counted up.
CreateNodeAgain(x, k, d, n, r) ==
  /\ x = nextInode
  /\ nextInode' = nextInode
  /\ kind' = [kind EXCEPT ![x] = k]
  /\ parent' = [parent EXCEPT ![x] = d]
  /\ name' = [name EXCEPT ![x] = n]
  /\ fs' = [fs EXCEPT ![x] = r]
  /\ HashAdd(x)

\* FS.createNode() of a node or of the root of a mount.
CreateNode(x, k, d, n, r) ==
  /\ x = nextInode
  /\ nextInode' = nextInode + 1
  /\ kind' = [kind EXCEPT ![x] = k]
  /\ parent' = [parent EXCEPT ![x] = d]
  /\ name' = [name EXCEPT ![x] = n]
  /\ fs' = [fs EXCEPT ![x] = r]
  /\ HashAdd(x)

\* FS.mknod(), mkdir(), create(), open() with O_CREAT: mayCreate() wants that
\* the name is not found.
Mknod(d, n, k) ==
  /\ NotFound(d, n)
  /\ Taken + 2 <= MaxRoom
  /\ \E x \in Nodes :
       /\ CreateNode(x, k, d, n, fs[d])
       /\ contents' = [contents EXCEPT ![d][n] = x]
  /\ UNCHANGED <<mountVars, cwd>>

\* FS.mount() on a directory that is not a mountpoint yet.
Mount(d, n, x) ==
  /\ kind[x] = "dir" /\ mounted[x] = None
  /\ Taken < MaxRoom
  /\ \E r \in Nodes :
       /\ CreateNode(r, "dir", r, Slash, r)
       /\ mounted' = [mounted EXCEPT ![x] = r]
       /\ mountpoint' = [mountpoint EXCEPT ![r] = Append(PathTo(d), n)]
  /\ UNCHANGED <<contents, cwd>>

-----------------------------------------------------------------------------
(* Removing. *)

\* MEMFS: nothing is in the directory.
Emptied(x) == \A m \in Names : contents[x][m] = None

\* A mutant: destroyNode() is forgotten.
UnlinkKeepsNode(d, n, x) ==
  /\ kind[x] = "file"
  /\ contents' = [contents EXCEPT ![d][n] = None]
  /\ UNCHANGED <<nextInode, treeVars, mountVars, chain, newer, cwd>>

\* FS.unlink(): MEMFS deletes the entry, destroyNode() unlinks the node.
Unlink(d, n, x) ==
  /\ kind[x] = "file"
  /\ contents' = [contents EXCEPT ![d][n] = None]
  /\ HashRemove({x})
  /\ UNCHANGED <<nextInode, treeVars, mountVars, cwd>>

\* A mutant: the directory may be the current one.
RmdirCurrent(d, n, x) ==
  /\ kind[x] = "dir" /\ Emptied(x)
  /\ mounted[x] = None
  /\ contents' = [contents EXCEPT ![d][n] = None]
  /\ HashRemove({x})
  /\ UNCHANGED <<nextInode, treeVars, mountVars, cwd>>

\* FS.rmdir() of an empty directory that is neither current nor a mountpoint.
Rmdir(d, n, x) ==
  /\ kind[x] = "dir" /\ Emptied(x)
  /\ GetPath(x) # cwd
  /\ mounted[x] = None
  /\ contents' = [contents EXCEPT ![d][n] = None]
  /\ HashRemove({x})
  /\ UNCHANGED <<nextInode, treeVars, mountVars, cwd>>

\* FS.getMounts(): the mount and those on its directories, theirs, and so on.
Mounts(r) ==
  {s \in Nodes : \A S \in SUBSET (Nodes \ {s}) :
     r \in S => \E z \in Nodes : mounted[z] # None /\ fs[z] \in S /\ mounted[z] \notin S}

\* A mutant: mounts inside the mount are forgotten.
UnmountTopOnly(d, n, x) ==
  /\ mounted[x] # None
  /\ HashRemove({y \in Chained : fs[y] = mounted[x]})
  /\ mounted' = [mounted EXCEPT ![x] = None]
  /\ UNCHANGED <<nextInode, treeVars, mountpoint, contents, cwd>>

\* FS.unmount(): the whole mount leaves the name table.
Unmount(d, n, x) ==
  /\ mounted[x] # None
  /\ HashRemove({y \in Chained : fs[y] \in Mounts(mounted[x])})
  /\ mounted' = [mounted EXCEPT ![x] = None]
  /\ UNCHANGED <<nextInode, treeVars, mountpoint, contents, cwd>>

-----------------------------------------------------------------------------
(* Renaming. *)

\* What FS.rename() of (d, n), found as x, to (e, m) tests before it begins.
MayRename(d, n, x, e, m) ==
  /\ fs[d] = fs[e]
  /\ ~RelativeInside(x, e)
  /\ \A y \in Found(e, m) :
       /\ ~RelativeInside(y, d)
       /\ y # x /\ kind[y] = kind[x] /\ mounted[y] = None
       /\ kind[y] = "dir" => GetPath(y) # cwd
  /\ kind[x] = "dir" => GetPath(x) # cwd
  /\ mounted[x] = None

\* MEMFS refuses: the target is a directory that is not empty.
Refused(x, e, m) == kind[x] = "dir" /\ \E y \in Found(e, m) : ~Emptied(y)

\* A mutant: the node keeps its place in the name table.
MoveInPlace(d, n, x, e, m) ==
  /\ MayRename(d, n, x, e, m) /\ ~Refused(x, e, m)
  /\ contents' = [[contents EXCEPT ![d][n] = None] EXCEPT ![e][m] = x]
  /\ parent' = [parent EXCEPT ![x] = e]
  /\ name' = [name EXCEPT ![x] = m]
  /\ UNCHANGED <<nextInode, kind, fs, mountVars, cwd, chain, newer>>

\* FS.rename(): the node is unlinked, changes its name, and is linked again at
\* the head of another chain.  The node it replaces stays in that chain.
Rename(d, n, x, e, m) ==
  /\ MayRename(d, n, x, e, m) /\ ~Refused(x, e, m)
  /\ contents' = [[contents EXCEPT ![d][n] = None] EXCEPT ![e][m] = x]
  /\ parent' = [parent EXCEPT ![x] = e]
  /\ name' = [name EXCEPT ![x] = m]
  /\ chain' = [Unlinked({x}) EXCEPT ![Hash[e, m]] = @ \cup {x}]
  /\ newer' = WithoutOrder({x}) \cup {<<x, y>> : y \in Matches(e, m)}
  /\ UNCHANGED <<nextInode, kind, fs, mountVars, cwd>>

\* When MEMFS throws, finally links the node again: only its place changes.
RenameFails(d, n, x, e, m) ==
  /\ MayRename(d, n, x, e, m) /\ Refused(x, e, m)
  /\ chain' = [Unlinked({x}) EXCEPT ![Hash[d, n]] = @ \cup {x}]
  /\ newer' = WithoutOrder({x}) \cup {<<x, y>> : y \in Matches(d, n) \ {x}}
  /\ UNCHANGED <<nextInode, treeVars, mountVars, contents, cwd>>

\* FS.chdir(): the path is kept, not the directory.
Chdir(d) ==
  /\ cwd' = PathTo(d)
  /\ UNCHANGED <<nextInode, treeVars, mountVars, contents, chain, newer>>

-----------------------------------------------------------------------------
\* FS.staticInit(): MEMFS is mounted at "/".
Init ==
  /\ nextInode = 2
  /\ kind = [x \in Nodes |-> IF x = Root THEN "dir" ELSE "none"]
  /\ parent = [x \in Nodes |-> x] /\ fs = [x \in Nodes |-> x]
  /\ name = [x \in Nodes |-> Slash]
  /\ mounted = [x \in Nodes |-> None] /\ mountpoint = [x \in Nodes |-> <<>>]
  /\ contents = [x \in Nodes |-> [n \in Names |-> None]]
  /\ chain = [b \in Buckets |-> IF b = Hash[Root, Slash] THEN {Root} ELSE {}]
  /\ newer = {}
  /\ cwd = <<>>

Next ==
  LET dirs == Dirs IN
  \E d \in dirs :
    \/ Chdir(d)
    \/ \E n \in Names :
         \/ \E k \in {"dir", "file"} : Mknod(d, n, k)
         \/ \E x \in Found(d, n) :
              \/ Mount(d, n, x) \/ Unmount(d, n, x)
              \/ Unlink(d, n, x) \/ Rmdir(d, n, x)
              \/ \E e \in dirs, m \in Names :
                   Rename(d, n, x, e, m) \/ RenameFails(d, n, x, e, m)

Spec == Init /\ [][Next]_vars

-----------------------------------------------------------------------------
(* Properties. *)

\* What a directory lists under a name is what a path with that name finds,
\* after any sequence of calls: the two copies of the tree never disagree
\* about an entry that is there, as long as the directory is in the table
\* (unmount() takes a mount out of it and leaves its contents).
ListedIsFound ==
  \A d \in Chained : \A n \in Names :
    contents[d][n] # None => Finds(d, n, contents[d][n])

\* A node that is still found, or would be if it were first in its chain,
\* although its directory does not list it.
Ghosts == {x \in Chained : parent[x] # x /\ contents[parent[x]][name[x]] # x}

\* The only way to leave a node behind in the name table is to rename another
\* one over it: creating, removing, unmounting and a failed rename do not.
GhostsAreReplaced ==
  [][\A x \in Ghosts' : x \in Ghosts \/
       contents'[parent[x]][name[x]] \notin {x, None}]_vars

\* A directory gets into itself only through a name that begins with a dot:
\* rename() compares paths as text and takes ".b" for a way up.
LoopsPassDotNames ==
  \A x \in Nodes :
    parent[x] # x /\ x \in AncOrSelf(parent[x]) =>
      \E y \in AncOrSelf(x) : name[y] \in DotNames

\* After unmount() nothing of the mount, or of a mount inside it, can be found.
UnmountedIsForgotten ==
  {fs[x] : x \in Chained} \subseteq Mounts(Root)

\* A call takes the current directory out of the tree only by unmounting a mount
\* it is in or moving a directory on the way to it below itself, never by
\* removing or replacing one: unless rmdir() takes a directory for empty in which
\* a ghost is found, or getPath() gives a path that is none any more, because a
\* mountpoint was moved.  A step that mounts or unmounts says nothing here: mount()
\* on the current directory, or above it, hides it, and unmount() removes it.
CurrentStays ==
  [][mounted' = mounted =>
       \A x \in Nodes :
         PathTo(x) = cwd /\ GetPath(x) = cwd /\ x \in Dirs /\ x \notin Dirs' =>
           \E y \in Way(x) : y \in Ghosts \/ parent'[y] # parent[y]]_vars
=============================================================================
