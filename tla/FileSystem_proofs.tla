-------------------------- MODULE FileSystem_proofs --------------------------
(***************************************************************************)
(* Proofs about FileSystem: for any number of nodes, any names and any     *)
(* hash function, what a directory lists is what a path finds, and only a  *)
(* rename leaves a node behind in the name table; unmount() leaves nothing *)
(* of what it takes away in the table; loops of directories are made by a  *)
(* dot name, and the current directory is lost by a rename only.           *)
(*                                                                         *)
(* Those last three are about ways through the tree, of any length.  Each  *)
(* is argued with the set of directories that the node's parents lead      *)
(* through, as the smallest set closed under them.                         *)
(***************************************************************************)
EXTENDS FileSystem, TLAPS

AllNames == Names \cup {Slash}

Typing ==
  /\ nextInode \in Nat
  /\ kind \in [Nodes -> {"dir", "file", "none"}]
  /\ parent \in [Nodes -> Nodes] /\ fs \in [Nodes -> Nodes]
  /\ name \in [Nodes -> AllNames]
  /\ contents \in [Nodes -> [Names -> Nodes \cup {None}]]
  /\ chain \in [Buckets -> SUBSET Nodes]
  /\ newer \subseteq Nodes \X Nodes

\* A node is in no chain but that of its directory and name.
InPlace == \A b \in Buckets : \A x \in chain[b] : Hash[parent[x], name[x]] = b

\* Nothing refers to a node that is not created yet.
Unused ==
  \A x \in Nodes : x >= nextInode =>
    /\ kind[x] = "none" /\ x \notin Chained
    /\ \A n \in Names : contents[x][n] = None
    /\ \A y \in Nodes : /\ parent[y] = x => y = x
                        /\ <<x, y>> \notin newer /\ <<y, x>> \notin newer

Named == \A x \in Nodes : parent[x] # x => name[x] \in Names

\* A node is in the mount of its directory.
OneMount == \A x \in Nodes : fs[x] = fs[parent[x]]

Ordered == \A x, y \in Nodes : <<x, y>> \in newer => <<y, x>> \notin newer

\* Finds() without the hash function.
First(d, n, x) ==
  /\ x \in Chained /\ parent[x] = d /\ name[x] = n
  /\ \A y \in Chained : parent[y] = d /\ name[y] = n /\ y # x => <<x, y>> \in newer

\* What a directory in the table lists is found.
ListedIsFirst ==
  \A d \in Nodes, n \in Names, x \in Nodes :
    d \in Chained /\ contents[d][n] = x => First(d, n, x)

\* A node in the table that its directory lists is found.
ChainedIsFirst ==
  \A d \in Nodes, n \in Names, x \in Nodes :
    /\ x \in Chained /\ parent[x] = d /\ d # x /\ name[x] = n
    /\ contents[d][n] = x
    => First(d, n, x)

IInv ==
  /\ Typing /\ InPlace /\ Unused /\ Named /\ OneMount /\ Ordered
  /\ ListedIsFirst /\ ChainedIsFirst

USE DEF Nodes, None, Root, AllNames

-----------------------------------------------------------------------------
LEMMA HashType == ASSUME NEW d \in Nodes, NEW n \in AllNames PROVE Hash[d, n] \in Buckets
  <1>1. <<d, n>> \in Nodes \X (Names \cup {Slash})
    OBVIOUS
  <1> QED BY <1>1, FileSystemAssumption

\* The chain a node is in is that of its own directory and name.
LEMMA InChain ==
  Typing /\ InPlace =>
    /\ Chained \subseteq Nodes
    /\ \A x \in Nodes : x \in Chained <=> x \in chain[Hash[parent[x], name[x]]]
  <1> SUFFICES ASSUME Typing, InPlace
               PROVE /\ Chained \subseteq Nodes
                     /\ \A x \in Nodes : x \in Chained <=> x \in chain[Hash[parent[x], name[x]]]
    OBVIOUS
  <1>1. \A x \in Nodes : Hash[parent[x], name[x]] \in Buckets
    BY HashType DEF Typing
  <1>2. \A x : x \in Chained <=> \E b \in Buckets : x \in chain[b]
    BY DEF Chained
  <1>3. \A b \in Buckets : chain[b] \subseteq Nodes
    BY DEF Typing
  <1>4. Chained \subseteq Nodes
    BY <1>2, <1>3
  <1>5. ASSUME NEW x \in Nodes PROVE x \in Chained <=> x \in chain[Hash[parent[x], name[x]]]
    BY <1>1, <1>2 DEF InPlace
  <1> QED BY <1>4, <1>5

LEMMA FindsFirst ==
  Typing /\ InPlace =>
    \A d \in Nodes, n \in AllNames, x \in Nodes :
      /\ x \in Matches(d, n) <=> x \in Chained /\ parent[x] = d /\ name[x] = n
      /\ Finds(d, n, x) <=> First(d, n, x)
  <1> SUFFICES ASSUME Typing, InPlace, NEW d \in Nodes, NEW n \in AllNames
               PROVE \A x \in Nodes :
                       /\ x \in Matches(d, n) <=> x \in Chained /\ parent[x] = d /\ name[x] = n
                       /\ Finds(d, n, x) <=> First(d, n, x)
    OBVIOUS
  <1>1. \A x \in Nodes : x \in Matches(d, n) <=> x \in Chained /\ parent[x] = d /\ name[x] = n
    BY InChain, HashType DEF Matches, Chained
  <1>2. Matches(d, n) \subseteq Nodes /\ Chained \subseteq Nodes
    BY InChain, HashType DEF Matches, Typing
  <1> QED BY <1>1, <1>2 DEF Finds, First

\* At most one node is found.
LEMMA FoundOnce ==
  ASSUME IInv, NEW d \in Nodes, NEW n \in AllNames, NEW x \in Nodes, NEW y \in Nodes,
         Finds(d, n, x), Finds(d, n, y)
  PROVE  x = y
  <1>1. First(d, n, x) /\ First(d, n, y)
    BY FindsFirst DEF IInv
  <1> QED BY <1>1 DEF IInv, First, Ordered

LEMMA FoundMeans ==
  ASSUME IInv, NEW d \in Nodes, NEW n \in Names, NEW x \in Found(d, n)
  PROVE  x \in Nodes /\ First(d, n, x) /\ Finds(d, n, x) /\ parent[x] = d /\ name[x] = n
  <1>1. x \in Nodes /\ Finds(d, n, x)
    BY HashType DEF Found, Matches, IInv, Typing
  <1> QED BY <1>1, FindsFirst DEF IInv, First

\* A directory that a path leads to exists.
LEMMA DirsUsed == ASSUME IInv, NEW d \in Dirs PROVE d \in Nodes /\ d < nextInode
  BY DEF Dirs, IInv, Unused, Typing

-----------------------------------------------------------------------------
LEMMA InitInv == Init => IInv
  <1> SUFFICES ASSUME Init PROVE IInv
    OBVIOUS
  <1>1. Root \in Nodes
    BY FileSystemAssumption
  <1>2. Typing
    BY <1>1, FileSystemAssumption DEF Init, Typing
  <1>3. \A b \in Buckets : \A x \in chain[b] : x = Root /\ b = Hash[Root, Slash]
    BY DEF Init
  <1>4. parent[Root] = Root /\ name[Root] = Slash
    BY <1>1 DEF Init
  <1>5. InPlace
    BY <1>3, <1>4 DEF InPlace
  <1>6. Chained \subseteq {Root}
    BY <1>3 DEF Chained
  <1>7. \A x \in Nodes :
          /\ parent[x] = x /\ fs[x] = x
          /\ \A n \in Names : contents[x][n] = None
          /\ x >= nextInode => kind[x] = "none" /\ x \notin Chained
    <2> SUFFICES ASSUME NEW x \in Nodes
                 PROVE  /\ parent[x] = x /\ fs[x] = x
                        /\ \A n \in Names : contents[x][n] = None
                        /\ x >= nextInode => kind[x] = "none" /\ x \notin Chained
      OBVIOUS
    <2>1. parent[x] = x /\ fs[x] = x /\ \A n \in Names : contents[x][n] = None
      BY DEF Init
    <2>4. nextInode = 2
      BY DEF Init
    <2>2. x >= nextInode => x # Root
      BY <2>4
    <2>3. x # Root => kind[x] = "none"
      BY DEF Init
    <2> QED BY <1>6, <2>1, <2>2, <2>3
  <1>8. newer = {}
    BY DEF Init
  <1>9. Unused
    BY <1>7, <1>8 DEF Unused
  <1>11. Named /\ OneMount /\ Ordered
    BY <1>7, <1>8 DEF Named, OneMount, Ordered
  <1>10. ListedIsFirst
    BY <1>6, <1>7 DEF ListedIsFirst
  <1>12. ChainedIsFirst
    BY <1>7 DEF ChainedIsFirst
  <1> QED BY <1>2, <1>5, <1>9, <1>10, <1>11, <1>12 DEF IInv

\* Linking a new node: what creating nodes has in common.
LEMMA CreateStep ==
  ASSUME IInv, NEW x \in Nodes, NEW k \in {"dir", "file"}, NEW d \in Nodes,
         NEW n \in AllNames, NEW r \in Nodes, CreateNode(x, k, d, n, r),
         contents' \in [Nodes -> [Names -> Nodes \cup {None}]]
  PROVE  /\ Typing' /\ InPlace'
         /\ Chained' = Chained \cup {x}
         /\ newer' = newer \cup {<<x, y>> : y \in Matches(d, n)}
         /\ \A y \in Nodes : y # x => parent'[y] = parent[y] /\ name'[y] = name[y] /\ fs'[y] = fs[y]
         /\ parent'[x] = d /\ name'[x] = n /\ fs'[x] = r
  <1>1. /\ \A y \in Nodes : y # x => parent'[y] = parent[y] /\ name'[y] = name[y] /\ fs'[y] = fs[y]
        /\ parent'[x] = d /\ name'[x] = n /\ fs'[x] = r
    BY DEF CreateNode, IInv, Typing
  <1>2. Hash[d, n] \in Buckets /\ chain' = [chain EXCEPT ![Hash[d, n]] = @ \cup {x}]
    BY <1>1, HashType DEF CreateNode, HashAdd, Linked
  <1>3. newer' = newer \cup {<<x, y>> : y \in Matches(d, n)}
    BY <1>1 DEF CreateNode, HashAdd
  <1>4. Matches(d, n) \subseteq Nodes
    BY <1>2 DEF Matches, IInv, Typing
  <1>5. Typing'
    <2>1. newer' \subseteq Nodes \X Nodes
      BY <1>3, <1>4 DEF IInv, Typing
    <2>2. chain' \in [Buckets -> SUBSET Nodes]
      BY <1>2 DEF IInv, Typing
    <2>3. /\ nextInode' \in Nat
          /\ kind' \in [Nodes -> {"dir", "file", "none"}]
          /\ parent' \in [Nodes -> Nodes] /\ fs' \in [Nodes -> Nodes]
          /\ name' \in [Nodes -> AllNames]
      BY DEF CreateNode, IInv, Typing
    <2> QED BY <2>1, <2>2, <2>3 DEF Typing
  <1>6. Chained' = Chained \cup {x}
    <2>1. PICK h \in Buckets : chain' = [chain EXCEPT ![h] = @ \cup {x}]
      BY <1>2
    <2>4. \A b \in Buckets : chain'[b] = IF b = h THEN chain[b] \cup {x} ELSE chain[b]
      BY <2>1 DEF IInv, Typing
    <2>2. /\ \A y : y \in Chained <=> \E b \in Buckets : y \in chain[b]
          /\ \A y : y \in Chained' <=> \E b \in Buckets : y \in chain'[b]
      BY DEF Chained
    <2>3. \A y : y \in Chained' <=> y \in Chained \/ y = x
      BY <2>4, <2>2
    <2> QED BY <2>3
  <1>7. x \notin Chained
    BY DEF CreateNode, IInv, Unused, Typing
  <1>8. InPlace'
    <2> SUFFICES ASSUME NEW b \in Buckets, NEW y \in chain'[b]
                 PROVE  Hash[parent'[y], name'[y]] = b
      BY DEF InPlace
    <2>1. CASE y = x
      <3>1. y \notin chain[b]
        BY <2>1, <1>7 DEF Chained
      <3> QED BY <2>1, <3>1, <1>1, <1>2 DEF IInv, Typing
    <2>2. CASE y # x
      <3>1. y \in chain[b] /\ y \in Nodes
        BY <2>2, <1>2 DEF IInv, Typing
      <3> QED BY <3>1, <2>2, <1>1 DEF IInv, InPlace
    <2> QED BY <2>1, <2>2
  <1> QED BY <1>1, <1>3, <1>5, <1>6, <1>8

\* What a new node changes for the others: nothing, if its name was not found.
LEMMA CreateInv ==
  ASSUME IInv, NEW x \in Nodes, NEW k \in {"dir", "file"}, NEW d \in Nodes,
         NEW n \in AllNames, NEW r \in Nodes, CreateNode(x, k, d, n, r),
         contents' \in [Nodes -> [Names -> Nodes \cup {None}]],
         d < nextInode \/ d = x, d # x => n \in Names /\ r = fs[d], d = x => r = x,
         \A y \in Nodes : y >= nextInode + 1 => contents'[y] = contents[y]
  PROVE  Typing' /\ InPlace' /\ Unused' /\ Named' /\ OneMount' /\ Ordered'
  <1>1. x = nextInode /\ nextInode' = nextInode + 1 /\ nextInode \in Nat
    BY DEF CreateNode, IInv, Typing
  <1>2. x \notin Chained /\ \A y \in Nodes : /\ parent[y] = x => y = x
                                             /\ <<x, y>> \notin newer /\ <<y, x>> \notin newer
    BY <1>1 DEF IInv, Unused
  <1>3. /\ Typing' /\ InPlace'
        /\ Chained' = Chained \cup {x}
        /\ newer' = newer \cup {<<x, y>> : y \in Matches(d, n)}
        /\ \A y \in Nodes : y # x => parent'[y] = parent[y] /\ name'[y] = name[y] /\ fs'[y] = fs[y]
        /\ parent'[x] = d /\ name'[x] = n /\ fs'[x] = r
    BY CreateStep
  <1>4. \A y \in Nodes : y \in Matches(d, n) => y \in Chained
    BY FindsFirst DEF IInv
  <1>5. Unused'
    <2> SUFFICES ASSUME NEW y \in Nodes, y >= nextInode + 1
                 PROVE  /\ kind'[y] = "none" /\ y \notin Chained'
                        /\ \A m \in Names : contents'[y][m] = None
                        /\ \A z \in Nodes : /\ parent'[z] = y => z = y
                                            /\ <<y, z>> \notin newer' /\ <<z, y>> \notin newer'
      BY <1>1 DEF Unused
    <2>1. y # x /\ y # d /\ y >= nextInode
      BY <1>1
    <2>2. kind'[y] = "none"
      BY <2>1 DEF CreateNode, IInv, Unused, Typing
    <2>3. y \notin Chained'
      BY <1>3, <2>1 DEF IInv, Unused
    <2>4. \A m \in Names : contents'[y][m] = None
      BY <2>1 DEF IInv, Unused
    <2>5. ASSUME NEW z \in Nodes PROVE parent'[z] = y => z = y
      <3>1. parent[z] = y => z = y
        BY <2>1 DEF IInv, Unused
      <3>2. parent'[z] = IF z = x THEN d ELSE parent[z]
        BY <1>3
      <3> QED BY <3>1, <3>2, <2>1
    <2>6. ASSUME NEW z \in Nodes PROVE <<y, z>> \notin newer' /\ <<z, y>> \notin newer'
      <3>1. <<y, z>> \notin newer /\ <<z, y>> \notin newer /\ y \notin Chained
        BY <2>1 DEF IInv, Unused
      <3> QED BY <3>1, <1>3, <1>4, <2>1
    <2> QED BY <2>2, <2>3, <2>4, <2>5, <2>6
  <1>6. Named'
    BY <1>3 DEF Named, IInv
  <1>7. OneMount'
    <2> SUFFICES ASSUME NEW y \in Nodes PROVE fs'[y] = fs'[parent'[y]]
      BY DEF OneMount
    <2>1. CASE y = x
      BY <2>1, <1>3
    <2>2. CASE y # x
      <3>1. parent[y] \in Nodes /\ parent[y] # x
        BY <2>2, <1>2 DEF IInv, Typing
      <3> QED BY <3>1, <2>2, <1>3 DEF IInv, OneMount
    <2> QED BY <2>1, <2>2
  <1>8. Ordered'
    <2> SUFFICES ASSUME NEW y \in Nodes, NEW z \in Nodes, <<y, z>> \in newer'
                 PROVE  <<z, y>> \notin newer'
      BY DEF Ordered
    <2>1. CASE <<y, z>> \in newer
      BY <2>1, <1>2, <1>3 DEF IInv, Ordered
    <2>2. CASE y = x /\ z \in Matches(d, n)
      BY <2>2, <1>2, <1>3, <1>4
    <2> QED BY <2>1, <2>2, <1>3
  <1> QED BY <1>3, <1>5, <1>6, <1>7, <1>8

-----------------------------------------------------------------------------
(* Each step. *)

LEMMA MknodStep ==
  ASSUME IInv, NEW d \in Dirs, NEW n \in Names, NEW k \in {"dir", "file"}, Mknod(d, n, k)
  PROVE  /\ IInv' /\ Ghosts' \subseteq Ghosts
         /\ \A e \in Nodes, m \in Names, y \in Nodes : First(e, m, y) => First(e, m, y)'
  <1>1. d \in Nodes /\ d < nextInode
    BY DirsUsed
  <1>2. PICK x \in Nodes : /\ CreateNode(x, k, d, n, fs[d])
                           /\ contents' = [contents EXCEPT ![d][n] = x]
    BY DEF Mknod
  <1>3. x = nextInode /\ x # d
    BY <1>1, <1>2 DEF CreateNode
  <1>4. fs[d] \in Nodes
    BY <1>1 DEF IInv, Typing
  <1>5. /\ contents' \in [Nodes -> [Names -> Nodes \cup {None}]]
        /\ \A y \in Nodes, m \in Names :
             contents'[y][m] = IF y = d /\ m = n THEN x ELSE contents[y][m]
    BY <1>1, <1>2 DEF IInv, Typing
  <1>6. \A y \in Nodes : y >= nextInode + 1 => contents'[y] = contents[y]
    BY <1>1, <1>2 DEF IInv, Typing
  <1>7. Typing' /\ InPlace' /\ Unused' /\ Named' /\ OneMount' /\ Ordered'
    BY <1>1, <1>2, <1>3, <1>4, <1>5, <1>6, CreateInv
  <1>8. /\ Chained' = Chained \cup {x}
        /\ newer' = newer \cup {<<x, y>> : y \in Matches(d, n)}
        /\ \A y \in Nodes : y # x => parent'[y] = parent[y] /\ name'[y] = name[y]
        /\ parent'[x] = d /\ name'[x] = n
    BY <1>1, <1>2, <1>4, <1>5, CreateStep
  <1>9. x \notin Chained /\ Chained \subseteq Nodes
    <2>1. nextInode \in Nat
      BY DEF IInv, Typing
    <2>2. x \notin Chained
      BY <2>1, <1>3 DEF IInv, Unused
    <2>3. Chained \subseteq Nodes
      BY InChain DEF IInv
    <2> QED BY <2>2, <2>3
  \* Nothing was found under the new name, so nobody else competes for it.
  <1>10. \A y \in Chained : parent[y] # d \/ name[y] # n
    BY <1>1, <1>9, FindsFirst DEF Mknod, NotFound, IInv
  <1>11. First(d, n, x)'
    BY <1>8, <1>9, <1>10 DEF First
  <1>12. ASSUME NEW e \in Nodes, NEW m \in AllNames, NEW y \in Chained, First(e, m, y)
         PROVE  First(e, m, y)'
    <2>1. e # d \/ m # n
      BY <1>10, <1>12 DEF First
    <2> QED BY <1>8, <1>9, <1>12, <2>1 DEF First
  <1>13. ListedIsFirst'
    <2> SUFFICES ASSUME NEW e \in Nodes, NEW m \in Names, NEW y \in Nodes,
                        e \in Chained', contents'[e][m] = y
                 PROVE  First(e, m, y)'
      BY DEF ListedIsFirst
    <2>1. CASE e = d /\ m = n
      BY <2>1, <1>5, <1>11
    <2>2. CASE ~(e = d /\ m = n)
      <3>1. contents[e][m] = y
        BY <2>2, <1>5
      <3>2. e # x
        BY <3>1, <1>3 DEF IInv, Unused, Typing
      <3>3. First(e, m, y)
        BY <3>1, <3>2, <1>8 DEF IInv, ListedIsFirst
      <3> QED BY <3>3, <1>12 DEF First
    <2> QED BY <2>1, <2>2
  <1>14. ChainedIsFirst'
    <2> SUFFICES ASSUME NEW e \in Nodes, NEW m \in Names, NEW y \in Nodes,
                        y \in Chained', parent'[y] = e, e # y, name'[y] = m, contents'[e][m] = y
                 PROVE  First(e, m, y)'
      BY DEF ChainedIsFirst
    <2>1. CASE y = x
      BY <2>1, <1>8, <1>11
    <2>2. CASE y # x
      <3>1. y \in Chained /\ parent[y] = e /\ name[y] = m /\ contents[e][m] = y
        BY <2>2, <1>5, <1>8
      <3>2. First(e, m, y)
        BY <3>1 DEF IInv, ChainedIsFirst
      <3> QED BY <3>1, <3>2, <1>12
    <2> QED BY <2>1, <2>2
  <1>15. Ghosts' \subseteq Ghosts
    <2> SUFFICES ASSUME NEW y \in Ghosts' PROVE y \in Ghosts
      OBVIOUS
    <2>1. y \in Chained' /\ y \in Nodes /\ parent'[y] # y /\ contents'[parent'[y]][name'[y]] # y
      BY <1>8, <1>9 DEF Ghosts
    <2>2. y # x
      BY <2>1, <1>1, <1>5, <1>8
    <2>3. /\ y \in Chained /\ parent[y] # y /\ parent'[y] = parent[y] /\ name'[y] = name[y]
          /\ parent[y] \in Nodes /\ name[y] \in Names
      BY <2>1, <2>2, <1>8 DEF IInv, Typing, Named
    <2>4. contents[parent[y]][name[y]] # y
      BY <2>1, <2>3, <1>5, <1>10
    <2> QED BY <2>3, <2>4 DEF Ghosts
  <1>16. \A e \in Nodes, m \in Names, y \in Nodes : First(e, m, y) => First(e, m, y)'
    BY <1>12 DEF First
  <1> QED BY <1>7, <1>13, <1>14, <1>15, <1>16 DEF IInv

LEMMA MountStep ==
  ASSUME IInv, NEW d \in Dirs, NEW n \in Names, NEW z \in Found(d, n), Mount(d, n, z)
  PROVE  IInv' /\ Ghosts' \subseteq Ghosts
  <1>1. PICK r \in Nodes : CreateNode(r, "dir", r, Slash, r)
    BY DEF Mount
  <1>2. contents' = contents /\ contents' \in [Nodes -> [Names -> Nodes \cup {None}]]
    BY DEF Mount, IInv, Typing
  <1>3. Typing' /\ InPlace' /\ Unused' /\ Named' /\ OneMount' /\ Ordered'
    BY <1>1, <1>2, CreateInv
  <1>4. /\ Chained' = Chained \cup {r}
        /\ newer' = newer \cup {<<r, y>> : y \in Matches(r, Slash)}
        /\ \A y \in Nodes : y # r => parent'[y] = parent[y] /\ name'[y] = name[y]
        /\ parent'[r] = r /\ name'[r] = Slash
    <2>1. Slash \in AllNames /\ "dir" \in {"dir", "file"}
      OBVIOUS
    <2> HIDE DEF AllNames
    <2> QED BY <1>1, <1>2, <2>1, CreateStep
  <1>5. r = nextInode /\ nextInode \in Nat
    BY <1>1 DEF CreateNode, IInv, Typing
  <1>6. r \notin Chained /\ \A m \in Names : contents[r][m] = None
    BY <1>5 DEF IInv, Unused
  <1>7. Chained \subseteq Nodes
    BY InChain DEF IInv
  <1>8. Slash \notin Names
    BY FileSystemAssumption
  <1>9. ASSUME NEW e \in Nodes, NEW m \in Names, NEW y \in Nodes, First(e, m, y)
        PROVE  First(e, m, y)'
    BY <1>4, <1>6, <1>7, <1>8, <1>9 DEF First
  <1>10. ListedIsFirst'
    BY <1>2, <1>4, <1>6, <1>9 DEF IInv, ListedIsFirst
  <1>11. ChainedIsFirst'
    BY <1>2, <1>4, <1>9 DEF IInv, ChainedIsFirst
  <1>12. Ghosts' \subseteq Ghosts
    BY <1>2, <1>4, <1>7 DEF Ghosts
  <1> QED BY <1>3, <1>10, <1>11, <1>12 DEF IInv

\* Unlinking nodes: what the calls that remove nodes have in common.
LEMMA RemoveStep ==
  ASSUME IInv, NEW X \in SUBSET Chained, HashRemove(X), UNCHANGED <<nextInode, treeVars>>,
         contents' \in [Nodes -> [Names -> Nodes \cup {None}]],
         \A y \in Nodes : y >= nextInode => contents'[y] = contents[y]
  PROVE  /\ Typing' /\ InPlace' /\ Unused' /\ Named' /\ OneMount' /\ Ordered'
         /\ Chained' = Chained \ X
         /\ \A d \in Nodes, n \in Names, y \in Nodes :
              First(d, n, y) /\ y \notin X => First(d, n, y)'
  <1> USE DEF treeVars
  <1>1. Chained \subseteq Nodes /\ \A x \in Nodes : Hash[parent[x], name[x]] \in Buckets
    BY InChain, HashType DEF IInv, Typing
  <1>2. newer' = {p \in newer : p[1] \notin X /\ p[2] \notin X}
    BY DEF HashRemove, WithoutOrder
  <1>3. /\ chain' \in [Buckets -> SUBSET Nodes]
        /\ \A b \in Buckets : chain'[b] = chain[b] \ {x \in X : Hash[parent[x], name[x]] = b}
    BY DEF HashRemove, Unlinked, IInv, Typing
  <1>4. \A b \in Buckets : chain'[b] = chain[b] \ X
    BY <1>3 DEF IInv, InPlace
  <1>5. Chained' = Chained \ X
    <2>1. /\ \A y : y \in Chained <=> \E b \in Buckets : y \in chain[b]
          /\ \A y : y \in Chained' <=> \E b \in Buckets : y \in chain'[b]
      BY DEF Chained
    <2> QED BY <2>1, <1>4
  <1>6. Typing'
    BY <1>2, <1>3 DEF IInv, Typing
  <1>7. InPlace'
    BY <1>4 DEF IInv, InPlace
  <1>8. Unused'
    BY <1>2, <1>5 DEF IInv, Unused
  <1>9. Named' /\ OneMount' /\ Ordered'
    BY <1>2 DEF IInv, Named, OneMount, Ordered
  <1>10. ASSUME NEW d \in Nodes, NEW n \in Names, NEW y \in Nodes, First(d, n, y), y \notin X
         PROVE  First(d, n, y)'
    <2>1. ASSUME NEW z \in Chained', parent[z] = d, name[z] = n, z # y
          PROVE  <<y, z>> \in newer'
      <3>1. z \in Chained /\ z \notin X
        BY <2>1, <1>5
      <3>2. <<y, z>> \in newer
        BY <2>1, <3>1, <1>10 DEF First
      <3> QED BY <3>1, <3>2, <1>2, <1>10
    <2> QED BY <2>1, <1>5, <1>10 DEF First
  <1> QED BY <1>5, <1>6, <1>7, <1>8, <1>9, <1>10

LEMMA EntryRemoved ==
  ASSUME IInv, NEW d \in Dirs, NEW n \in Names, NEW x \in Found(d, n),
         contents' = [contents EXCEPT ![d][n] = None], HashRemove({x}),
         UNCHANGED <<nextInode, treeVars>>
  PROVE  /\ IInv' /\ Ghosts' \subseteq Ghosts
         /\ \A e \in Nodes, m \in Names, y \in Nodes :
              First(e, m, y) /\ y # x => First(e, m, y)'
  <1> USE DEF treeVars
  <1>1. d \in Nodes /\ d < nextInode
    BY DirsUsed
  <1>2. x \in Nodes /\ x \in Chained /\ First(d, n, x) /\ Finds(d, n, x)
    BY <1>1, FoundMeans DEF First
  <1>3. /\ contents' \in [Nodes -> [Names -> Nodes \cup {None}]]
        /\ \A y \in Nodes, m \in Names :
             contents'[y][m] = IF y = d /\ m = n THEN None ELSE contents[y][m]
    BY <1>1 DEF IInv, Typing
  <1>4. \A y \in Nodes : y >= nextInode => contents'[y] = contents[y]
    BY <1>1 DEF IInv, Typing
  <1>5. /\ Typing' /\ InPlace' /\ Unused' /\ Named' /\ OneMount' /\ Ordered'
        /\ Chained' = Chained \ {x}
        /\ \A e \in Nodes, m \in Names, y \in Nodes :
             First(e, m, y) /\ y # x => First(e, m, y)'
    BY <1>2, <1>3, <1>4, RemoveStep
  <1>6. Chained \subseteq Nodes
    BY InChain DEF IInv
  \* Who is listed under the name, or in the table with it and listed, was found.
  <1>7. ASSUME NEW y \in Nodes, First(d, n, y) PROVE y = x
    BY <1>1, <1>2, <1>7, FindsFirst, FoundOnce DEF IInv
  <1>8. ListedIsFirst'
    <2> SUFFICES ASSUME NEW e \in Nodes, NEW m \in Names, NEW y \in Nodes,
                        e \in Chained', contents'[e][m] = y
                 PROVE  First(e, m, y)'
      BY DEF ListedIsFirst
    <2>1. ~(e = d /\ m = n) /\ contents[e][m] = y
      BY <1>3
    <2>2. First(e, m, y)
      BY <2>1, <1>5 DEF IInv, ListedIsFirst
    <2>3. y # x
      BY <2>1, <2>2, <1>2 DEF First
    <2> QED BY <2>2, <2>3, <1>5
  <1>9. ChainedIsFirst'
    <2> SUFFICES ASSUME NEW e \in Nodes, NEW m \in Names, NEW y \in Nodes,
                        y \in Chained', parent'[y] = e, e # y, name'[y] = m, contents'[e][m] = y
                 PROVE  First(e, m, y)'
      BY DEF ChainedIsFirst
    <2>1. contents[e][m] = y /\ y \in Chained /\ y # x
      BY <1>3, <1>5
    <2>2. First(e, m, y)
      BY <2>1 DEF IInv, ChainedIsFirst
    <2> QED BY <2>1, <2>2, <1>5
  <1>10. Ghosts' \subseteq Ghosts
    <2> SUFFICES ASSUME NEW y \in Ghosts', y \notin Ghosts PROVE FALSE
      OBVIOUS
    <2>1. /\ y \in Chained /\ y \in Nodes /\ y # x /\ parent[y] # y
          /\ parent[y] \in Nodes /\ name[y] \in Names
          /\ contents'[parent[y]][name[y]] # y
      BY <1>5, <1>6 DEF Ghosts, IInv, Typing, Named
    <2>2. contents[parent[y]][name[y]] = y
      BY <2>1 DEF Ghosts
    <2>3. First(parent[y], name[y], y)
      BY <2>1, <2>2 DEF IInv, ChainedIsFirst
    <2>4. parent[y] = d /\ name[y] = n
      BY <2>1, <2>2, <1>3
    <2> QED BY <2>1, <2>3, <2>4, <1>7
  <1> QED BY <1>5, <1>8, <1>9, <1>10 DEF IInv

LEMMA UnmountStep ==
  ASSUME IInv, NEW d \in Dirs, NEW n \in Names, NEW x \in Found(d, n), Unmount(d, n, x)
  PROVE  IInv' /\ Ghosts' \subseteq Ghosts
  <1> USE DEF treeVars
  <1> DEFINE M == Mounts(mounted[x])
             X == {y \in Chained : fs[y] \in M}
  <1>1. HashRemove(X) /\ UNCHANGED <<nextInode, treeVars>> /\ contents' = contents
    BY DEF Unmount
  <1>2. contents \in [Nodes -> [Names -> Nodes \cup {None}]] /\ Chained \subseteq Nodes
    BY InChain DEF IInv, Typing
  <1>3. X \subseteq Chained /\ \A y \in Chained : y \in X <=> fs[y] \in M
    OBVIOUS
  <1> HIDE DEF M, X
  <1>4. /\ Typing' /\ InPlace' /\ Unused' /\ Named' /\ OneMount' /\ Ordered'
        /\ Chained' = Chained \ X
        /\ \A e \in Nodes, m \in Names, y \in Nodes :
             First(e, m, y) /\ y \notin X => First(e, m, y)'
    BY <1>1, <1>2, <1>3, RemoveStep
  <1>5. ListedIsFirst'
    <2> SUFFICES ASSUME NEW e \in Nodes, NEW m \in Names, NEW y \in Nodes,
                        e \in Chained', contents[e][m] = y
                 PROVE  First(e, m, y)'
      BY <1>1 DEF ListedIsFirst
    <2>1. e \in Chained /\ e \notin X /\ First(e, m, y)
      BY <1>4 DEF IInv, ListedIsFirst
    \* What it lists is in the same mount.
    <2>2. fs[y] = fs[e] /\ y \in Chained
      BY <2>1 DEF IInv, OneMount, First
    <2> QED BY <2>1, <2>2, <1>3, <1>4
  <1>6. ChainedIsFirst'
    BY <1>1, <1>4 DEF IInv, ChainedIsFirst
  <1>7. Ghosts' \subseteq Ghosts
    BY <1>1, <1>4 DEF Ghosts
  <1> QED BY <1>4, <1>5, <1>6, <1>7 DEF IInv

\* Unlinking x and linking it again, in a directory e and with a name m: what
\* a rename has in common with one that fails.
Relink(x, e, m) ==
  /\ parent' = [parent EXCEPT ![x] = e] /\ name' = [name EXCEPT ![x] = m]
  /\ UNCHANGED <<nextInode, kind, fs>>
  /\ chain' = [Unlinked({x}) EXCEPT ![Hash[e, m]] = @ \cup {x}]
  /\ newer' = WithoutOrder({x}) \cup {<<x, y>> : y \in Matches(e, m) \ {x}}

LEMMA RelinkStep ==
  ASSUME IInv, NEW x \in Chained, NEW e \in Nodes, NEW m \in Names, e < nextInode,
         fs[e] = fs[x], Relink(x, e, m),
         contents' \in [Nodes -> [Names -> Nodes \cup {None}]],
         \A y \in Nodes : y >= nextInode => contents'[y] = contents[y]
  PROVE  /\ Typing' /\ InPlace' /\ Unused' /\ Named' /\ OneMount' /\ Ordered'
         /\ Chained' = Chained
         /\ First(e, m, x)'
         /\ \A d \in Nodes, n \in Names, y \in Nodes :
              First(d, n, y) /\ y # x /\ ~(d = e /\ n = m) => First(d, n, y)'
  <1>1. x \in Nodes /\ Chained \subseteq Nodes
    BY InChain DEF IInv
  <1>2. \A y \in Nodes : /\ parent'[y] = IF y = x THEN e ELSE parent[y]
                         /\ name'[y] = IF y = x THEN m ELSE name[y]
    BY DEF Relink, IInv, Typing
  <1>3. /\ Matches(e, m) \subseteq Nodes
        /\ \A y : y \in Matches(e, m) <=> y \in Chained /\ parent[y] = e /\ name[y] = m
    <2>1. Matches(e, m) \subseteq Nodes
      BY HashType DEF Matches, IInv, Typing
    <2>2. \A y \in Nodes : y \in Matches(e, m) <=> y \in Chained /\ parent[y] = e /\ name[y] = m
      BY FindsFirst DEF IInv
    <2> QED BY <1>1, <2>1, <2>2
  <1>4. \A y, z : <<y, z>> \in newer' <=>
          \/ <<y, z>> \in newer /\ y # x /\ z # x
          \/ y = x /\ z \in Chained /\ parent[z] = e /\ name[z] = m /\ z # x
    BY <1>3 DEF Relink, WithoutOrder
  <1>5. newer' \subseteq Nodes \X Nodes
    <2>1. newer' = WithoutOrder({x}) \cup {<<x, y>> : y \in Matches(e, m) \ {x}}
      BY DEF Relink
    <2>2. WithoutOrder({x}) \subseteq Nodes \X Nodes
      BY DEF WithoutOrder, IInv, Typing
    <2>3. {<<x, y>> : y \in Matches(e, m) \ {x}} \subseteq Nodes \X Nodes
      BY <1>1, <1>3
    <2> QED BY <2>1, <2>2, <2>3
  <1>6. PICK h \in Buckets : /\ h = Hash[e, m]
                             /\ chain' = [Unlinked({x}) EXCEPT ![h] = @ \cup {x}]
    BY HashType DEF Relink
  <1>7. /\ Unlinked({x}) \in [Buckets -> SUBSET Nodes]
        /\ \A b \in Buckets : Unlinked({x})[b] = chain[b] \ {x}
    <2>1. /\ Unlinked({x}) = [b \in Buckets |-> Unlinked({x})[b]]
          /\ \A b \in Buckets : Unlinked({x})[b] = chain[b] \ {y \in {x} : Hash[parent[y], name[y]] = b}
      BY DEF Unlinked
    <2>2. \A b \in Buckets : x \in chain[b] => Hash[parent[x], name[x]] = b
      BY DEF IInv, InPlace
    <2>3. \A b \in Buckets : Unlinked({x})[b] = chain[b] \ {x}
      BY <2>1, <2>2
    <2>4. \A b \in Buckets : chain[b] \in SUBSET Nodes
      BY DEF IInv, Typing
    <2> QED BY <2>1, <2>3, <2>4
  <1>8. \A b \in Buckets : \A y : y \in chain'[b] <=> (y \in chain[b] /\ y # x) \/ (b = h /\ y = x)
    BY <1>6, <1>7
  <1>9. chain' \in [Buckets -> SUBSET Nodes]
    BY <1>1, <1>6, <1>7
  <1>10. Chained' = Chained
    <2>1. \A y : y \in Chained <=> \E b \in Buckets : y \in chain[b]
      BY DEF Chained
    <2>2. \A y : y \in Chained' <=> \E b \in Buckets : y \in chain'[b]
      BY DEF Chained
    <2>3. \A y : y # x => (y \in Chained' <=> y \in Chained)
      BY <2>1, <2>2, <1>8
    <2>4. x \in Chained'
      BY <2>2, <1>6, <1>8
    <2>5. \A y : y \in Chained' <=> y \in Chained
      BY <2>3, <2>4
    <2> QED BY <2>5
  <1>11. Typing'
    <2>1. /\ parent' \in [Nodes -> Nodes] /\ name' \in [Nodes -> AllNames]
          /\ nextInode' = nextInode /\ kind' = kind /\ fs' = fs
      BY DEF Relink, IInv, Typing
    <2> QED BY <2>1, <1>5, <1>9 DEF IInv, Typing
  <1>12. InPlace'
    <2> SUFFICES ASSUME NEW b \in Buckets, NEW y \in chain'[b]
                 PROVE  Hash[parent'[y], name'[y]] = b
      BY DEF InPlace
    <2>1. CASE y = x
      <3>1. b = h
        BY <2>1, <1>8
      <3> QED BY <2>1, <3>1, <1>1, <1>2, <1>6
    <2>2. CASE y # x
      <3>1. y \in chain[b]
        BY <2>2, <1>8
      <3>2. y \in Nodes
        BY <3>1 DEF IInv, Typing
      <3>3. Hash[parent[y], name[y]] = b
        BY <3>1 DEF IInv, InPlace
      <3> QED BY <2>2, <3>2, <3>3, <1>2
    <2> QED BY <2>1, <2>2
  <1>13. Unused'
    <2> SUFFICES ASSUME NEW y \in Nodes, y >= nextInode
                 PROVE  /\ kind[y] = "none" /\ y \notin Chained
                        /\ \A n \in Names : contents'[y][n] = None
                        /\ \A z \in Nodes : /\ parent'[z] = y => z = y
                                            /\ <<y, z>> \notin newer' /\ <<z, y>> \notin newer'
      BY <1>10 DEF Unused, Relink
    <2>1. contents'[y] = contents[y]
      OBVIOUS
    <2>2. /\ kind[y] = "none" /\ y \notin Chained
          /\ \A n \in Names : contents[y][n] = None
          /\ \A z \in Nodes : /\ parent[z] = y => z = y
                              /\ <<y, z>> \notin newer /\ <<z, y>> \notin newer
      BY DEF IInv, Unused
    <2>3. y # x
      BY <2>2
    <2>4. y # e
      <3>1. nextInode \in Nat
        BY DEF IInv, Typing
      <3> QED BY <3>1
    <2>5. \A z \in Nodes : parent'[z] = y => z = y
      BY <1>2, <2>2, <2>4
    <2>6. \A z \in Nodes : <<y, z>> \notin newer' /\ <<z, y>> \notin newer'
      BY <1>4, <2>2, <2>3
    <2> QED BY <2>1, <2>2, <2>5, <2>6
  <1>14. Named'
    BY <1>2 DEF IInv, Named
  <1>15. OneMount'
    <2>1. fs' = fs /\ \A y \in Nodes : fs[y] = fs[parent[y]]
      BY DEF Relink, IInv, OneMount
    <2>2. \A y \in Nodes : fs[y] = fs[parent'[y]]
      BY <1>2, <2>1
    <2> QED BY <2>1, <2>2 DEF OneMount
  <1>16. Ordered'
    BY <1>4 DEF IInv, Ordered
  <1>17. First(e, m, x)'
    BY <1>1, <1>2, <1>4, <1>10 DEF First
  <1>18. ASSUME NEW d \in Nodes, NEW n \in Names, NEW y \in Nodes,
                First(d, n, y), y # x, ~(d = e /\ n = m)
         PROVE  First(d, n, y)'
    <2>1. y \in Chained' /\ parent'[y] = d /\ name'[y] = n
      BY <1>2, <1>10, <1>18 DEF First
    <2>2. ASSUME NEW z \in Chained, parent'[z] = d, name'[z] = n, z # y
          PROVE  <<y, z>> \in newer'
      <3>1. z # x /\ parent[z] = d /\ name[z] = n
        BY <2>2, <1>1, <1>2, <1>18
      <3>2. <<y, z>> \in newer
        BY <2>2, <3>1, <1>18 DEF First
      <3> QED BY <3>1, <3>2, <1>4, <1>18
    <2> QED BY <2>1, <2>2, <1>10 DEF First
  <1> QED BY <1>10, <1>11, <1>12, <1>13, <1>14, <1>15, <1>16, <1>17, <1>18

LEMMA RenameStep ==
  ASSUME IInv, NEW d \in Dirs, NEW n \in Names, NEW x \in Found(d, n),
         NEW e \in Dirs, NEW m \in Names, Rename(d, n, x, e, m)
  PROVE  /\ IInv'
         /\ \A y \in Ghosts' : y \in Ghosts \/
              contents'[parent[y]][name[y]] \notin {y, None}
         /\ First(e, m, x)'
         /\ \A c \in Nodes, k \in Names, y \in Nodes :
              First(c, k, y) /\ y # x /\ ~(c = e /\ k = m) => First(c, k, y)'
  <1>1. d \in Nodes /\ e \in Nodes /\ d < nextInode /\ e < nextInode
    BY DirsUsed
  <1>2. x \in Nodes /\ x \in Chained /\ First(d, n, x) /\ parent[x] = d /\ name[x] = n
    BY <1>1, FoundMeans DEF First
  <1>3. e # x /\ fs[d] = fs[e]
    BY DEF Rename, MayRename, RelativeInside
  <1>4. fs[e] = fs[x]
    BY <1>2, <1>3 DEF IInv, OneMount
  \* The target is another node than x.
  <1>5. ~(d = e /\ n = m)
    BY DEF Rename, MayRename
  <1>6. x \notin Matches(e, m)
    BY <1>2, <1>5 DEF Matches
  <1>7. Relink(x, e, m)
    <2>1. Matches(e, m) \ {x} = Matches(e, m)
      BY <1>6
    <2> QED BY <2>1 DEF Relink, Rename
  <1>8. /\ contents' \in [Nodes -> [Names -> Nodes \cup {None}]]
        /\ \A y \in Nodes, k \in Names :
             contents'[y][k] = IF y = e /\ k = m THEN x
                               ELSE IF y = d /\ k = n THEN None ELSE contents[y][k]
    <2>1. PICK c : c = [contents EXCEPT ![d][n] = None]
      OBVIOUS
    <2>2. /\ c \in [Nodes -> [Names -> Nodes \cup {None}]]
          /\ \A y \in Nodes, k \in Names : c[y][k] = IF y = d /\ k = n THEN None ELSE contents[y][k]
      BY <1>1, <2>1 DEF IInv, Typing
    <2>3. contents' = [c EXCEPT ![e][m] = x]
      BY <2>1 DEF Rename
    <2> QED BY <1>1, <1>2, <2>2, <2>3
  <1>9. \A y \in Nodes : y >= nextInode => contents'[y] = contents[y]
    <2> SUFFICES ASSUME NEW y \in Nodes, y >= nextInode PROVE contents'[y] = contents[y]
      OBVIOUS
    <2>1. y # d /\ y # e
      <3>1. nextInode \in Nat
        BY DEF IInv, Typing
      <3> QED BY <3>1, <1>1
    <2>2. /\ contents'[y] \in [Names -> Nodes \cup {None}]
          /\ contents[y] \in [Names -> Nodes \cup {None}]
      BY <1>8 DEF IInv, Typing
    <2>3. \A k \in Names : contents'[y][k] = contents[y][k]
      BY <2>1, <1>8
    <2> QED BY <2>2, <2>3
  <1>10. /\ Typing' /\ InPlace' /\ Unused' /\ Named' /\ OneMount' /\ Ordered'
         /\ Chained' = Chained
         /\ First(e, m, x)'
         /\ \A c \in Nodes, k \in Names, y \in Nodes :
              First(c, k, y) /\ y # x /\ ~(c = e /\ k = m) => First(c, k, y)'
    BY <1>1, <1>2, <1>3, <1>4, <1>7, <1>8, <1>9, RelinkStep
  <1>11. Chained \subseteq Nodes
    BY InChain DEF IInv
  <1>12. \A y \in Nodes : y # x => parent'[y] = parent[y] /\ name'[y] = name[y]
    BY DEF Rename, IInv, Typing
  <1>13. parent'[x] = e /\ name'[x] = m
    BY <1>2 DEF Rename, IInv, Typing
  \* Another node that is listed under the old name would have been found.
  <1>14. ASSUME NEW y \in Nodes, First(d, n, y) PROVE y = x
    BY <1>1, <1>2, <1>14, FindsFirst, FoundOnce DEF IInv
  <1>15. ListedIsFirst'
    <2> SUFFICES ASSUME NEW c \in Nodes, NEW k \in Names, NEW y \in Nodes,
                        c \in Chained', contents'[c][k] = y
                 PROVE  First(c, k, y)'
      BY DEF ListedIsFirst
    <2>1. CASE c = e /\ k = m
      BY <2>1, <1>8, <1>10
    <2>2. CASE ~(c = e /\ k = m)
      <3>1. ~(c = d /\ k = n) /\ contents[c][k] = y
        BY <2>2, <1>8
      <3>2. First(c, k, y)
        BY <3>1, <1>10 DEF IInv, ListedIsFirst
      <3>3. y # x
        BY <3>1, <3>2, <1>2 DEF First
      <3> QED BY <2>2, <3>2, <3>3, <1>10
    <2> QED BY <2>1, <2>2
  <1>16. ChainedIsFirst'
    <2> SUFFICES ASSUME NEW c \in Nodes, NEW k \in Names, NEW y \in Nodes,
                        y \in Chained', parent'[y] = c, c # y, name'[y] = k, contents'[c][k] = y
                 PROVE  First(c, k, y)'
      BY DEF ChainedIsFirst
    <2>1. CASE y = x
      BY <2>1, <1>10, <1>13
    <2>2. CASE y # x
      <3>1. ~(c = e /\ k = m) /\ contents[c][k] = y
        BY <2>2, <1>8
      <3>2. y \in Chained /\ parent[y] = c /\ name[y] = k
        BY <2>2, <1>10, <1>12
      <3>3. First(c, k, y)
        BY <3>1, <3>2 DEF IInv, ChainedIsFirst
      <3> QED BY <2>2, <3>1, <3>3, <1>10
    <2> QED BY <2>1, <2>2
  <1>17. ASSUME NEW y \in Ghosts', y \notin Ghosts
         PROVE  contents'[parent[y]][name[y]] \notin {y, None}
    <2>1. y \in Nodes /\ y \in Chained /\ parent'[y] # y /\ contents'[parent'[y]][name'[y]] # y
      BY <1>10, <1>11, <1>17 DEF Ghosts
    <2>2. y # x
      BY <2>1, <1>1, <1>8, <1>13
    <2>3. /\ parent[y] # y /\ parent[y] \in Nodes /\ name[y] \in Names
          /\ contents'[parent[y]][name[y]] # y
      BY <2>1, <2>2, <1>12 DEF IInv, Typing, Named
    <2>4. contents[parent[y]][name[y]] = y
      BY <2>1, <2>3, <1>17 DEF Ghosts
    <2>5. First(parent[y], name[y], y)
      BY <2>1, <2>3, <2>4 DEF IInv, ChainedIsFirst
    <2>6. ~(parent[y] = d /\ name[y] = n)
      BY <2>1, <2>2, <2>5, <1>14
    <2>7. contents'[parent[y]][name[y]] = x
      BY <2>3, <2>4, <2>6, <1>8
    <2> QED BY <2>2, <2>7, <1>2
  <1> QED BY <1>10, <1>15, <1>16, <1>17 DEF IInv

LEMMA RenameFailsStep ==
  ASSUME IInv, NEW d \in Dirs, NEW n \in Names, NEW x \in Found(d, n),
         NEW e \in Dirs, NEW m \in Names, RenameFails(d, n, x, e, m)
  PROVE  /\ IInv' /\ Ghosts' \subseteq Ghosts
         /\ \A c \in Nodes, k \in Names, y \in Nodes : First(c, k, y) => First(c, k, y)'
  <1>1. d \in Nodes /\ d < nextInode
    BY DirsUsed
  <1>2. /\ x \in Nodes /\ x \in Chained /\ First(d, n, x) /\ Finds(d, n, x)
        /\ parent[x] = d /\ name[x] = n
    BY <1>1, FoundMeans DEF First
  <1>3. contents' = contents /\ contents \in [Nodes -> [Names -> Nodes \cup {None}]]
    BY DEF RenameFails, IInv, Typing
  <1>4. fs[d] = fs[x]
    BY <1>2 DEF IInv, OneMount
  <1>5. Chained \subseteq Nodes
    BY InChain DEF IInv
  <1>6. parent' = parent /\ name' = name
    BY DEF RenameFails, treeVars
  <1>7. Relink(x, d, n)
    <2>1. [parent EXCEPT ![x] = d] = parent /\ [name EXCEPT ![x] = n] = name
      BY <1>2 DEF IInv, Typing
    <2> QED BY <2>1 DEF Relink, RenameFails, treeVars
  <1>8. ASSUME NEW y \in Nodes, First(d, n, y) PROVE y = x
    BY <1>1, <1>2, <1>8, FindsFirst, FoundOnce DEF IInv
  <1>10. /\ Typing' /\ InPlace' /\ Unused' /\ Named' /\ OneMount' /\ Ordered'
         /\ Chained' = Chained
         /\ First(d, n, x)'
         /\ \A c \in Nodes, k \in Names, y \in Nodes :
              First(c, k, y) /\ y # x /\ ~(c = d /\ k = n) => First(c, k, y)'
    BY <1>1, <1>2, <1>3, <1>4, <1>7, RelinkStep
  <1>11. ASSUME NEW c \in Nodes, NEW k \in Names, NEW y \in Nodes, First(c, k, y)
         PROVE  First(c, k, y)'
    BY <1>2, <1>8, <1>10, <1>11 DEF First
  <1>12. ListedIsFirst'
    BY <1>3, <1>10, <1>11 DEF IInv, ListedIsFirst
  <1>13. ChainedIsFirst'
    BY <1>3, <1>6, <1>10, <1>11 DEF IInv, ChainedIsFirst
  <1>14. Ghosts' \subseteq Ghosts
    BY <1>3, <1>6, <1>10 DEF Ghosts
  <1> QED BY <1>10, <1>11, <1>12, <1>13, <1>14 DEF IInv

\* What does not touch the tree.
LEMMA SameTree ==
  ASSUME IInv, UNCHANGED <<nextInode, treeVars, contents, chain, newer>>
  PROVE  IInv' /\ Ghosts' = Ghosts
  <1>1. Chained' = Chained
    BY DEF Chained
  <1>2. Typing' /\ InPlace' /\ Unused' /\ Named' /\ OneMount' /\ Ordered'
    BY <1>1 DEF treeVars, IInv, Typing, InPlace, Unused, Named, OneMount, Ordered
  <1>3. ListedIsFirst' /\ ChainedIsFirst'
    BY <1>1 DEF treeVars, IInv, ListedIsFirst, ChainedIsFirst, First
  <1>4. Ghosts' = Ghosts
    BY <1>1 DEF treeVars, Ghosts
  <1> QED BY <1>2, <1>3, <1>4 DEF IInv

GhostStep == \A x \in Ghosts' : x \in Ghosts \/ contents'[parent[x]][name[x]] \notin {x, None}

LEMMA StepInv == IInv /\ [Next]_vars => IInv' /\ GhostStep
  <1> SUFFICES ASSUME IInv, [Next]_vars PROVE IInv' /\ GhostStep
    OBVIOUS
  <1> USE DEF GhostStep
  <1>1. CASE UNCHANGED vars
    BY <1>1, SameTree DEF vars
  <1>2. CASE Next
    <2>1. PICK d \in Dirs :
            \/ Chdir(d)
            \/ \E n \in Names :
                 \/ \E k \in {"dir", "file"} : Mknod(d, n, k)
                 \/ \E x \in Found(d, n) :
                      \/ Mount(d, n, x) \/ Unmount(d, n, x)
                      \/ Unlink(d, n, x) \/ Rmdir(d, n, x)
                      \/ \E e \in Dirs, m \in Names :
                           Rename(d, n, x, e, m) \/ RenameFails(d, n, x, e, m)
      BY <1>2 DEF Next
    <2>2. CASE Chdir(d)
      BY <2>2, SameTree DEF Chdir
    <2>3. ASSUME NEW n \in Names, NEW k \in {"dir", "file"}, Mknod(d, n, k)
          PROVE  IInv' /\ GhostStep
      BY <2>3, MknodStep
    <2>4. ASSUME NEW n \in Names, NEW x \in Found(d, n), Mount(d, n, x)
          PROVE  IInv' /\ GhostStep
      BY <2>4, MountStep
    <2>5. ASSUME NEW n \in Names, NEW x \in Found(d, n), Unmount(d, n, x)
          PROVE  IInv' /\ GhostStep
      BY <2>5, UnmountStep
    <2>6. ASSUME NEW n \in Names, NEW x \in Found(d, n), Unlink(d, n, x) \/ Rmdir(d, n, x)
          PROVE  IInv' /\ GhostStep
      BY <2>6, EntryRemoved DEF Unlink, Rmdir
    <2>7. ASSUME NEW n \in Names, NEW x \in Found(d, n), NEW e \in Dirs, NEW m \in Names,
                 Rename(d, n, x, e, m)
          PROVE  IInv' /\ GhostStep
      BY <2>7, RenameStep
    <2>8. ASSUME NEW n \in Names, NEW x \in Found(d, n), NEW e \in Dirs, NEW m \in Names,
                 RenameFails(d, n, x, e, m)
          PROVE  IInv' /\ GhostStep
      BY <2>8, RenameFailsStep
    <2> QED BY <2>1, <2>2, <2>3, <2>4, <2>5, <2>6, <2>7, <2>8
  <1> QED BY <1>1, <1>2

\* The inductive invariant: the two copies of the tree, the chains and the
\* numbers of the nodes fit together after any sequence of calls.
THEOREM Invariance == Spec => []IInv
  <1>1. Init => IInv
    BY InitInv
  <1>2. IInv /\ [Next]_vars => IInv'
    BY StepInv
  <1> QED BY <1>1, <1>2, PTL DEF Spec

\* FS.lookupNode() finds what readdir() lists, for every tree and every hash
\* function, in every directory that has not been unmounted.
THEOREM ListedFound == Spec => []ListedIsFound
  <1>1. IInv => ListedIsFound
    <2> SUFFICES ASSUME IInv, NEW d \in Chained, NEW n \in Names, contents[d][n] # None
                 PROVE  Finds(d, n, contents[d][n])
      BY DEF ListedIsFound
    <2>1. d \in Nodes
      BY InChain DEF IInv
    <2>2. contents[d][n] \in Nodes
      BY <2>1 DEF IInv, Typing
    <2>3. First(d, n, contents[d][n])
      BY <2>1, <2>2 DEF IInv, ListedIsFirst
    <2> QED BY <2>1, <2>2, <2>3, FindsFirst DEF IInv
  <1> QED BY <1>1, Invariance, PTL

\* Only FS.rename() onto an existing node leaves one in FS.nameTable that its
\* directory does not list.
THEOREM OnlyReplacedGhosts == Spec => GhostsAreReplaced
  <1>1. IInv /\ [Next]_vars =>
          [\A x \in Ghosts' : x \in Ghosts \/ contents'[parent[x]][name[x]] \notin {x, None}]_vars
    BY StepInv DEF GhostStep
  <1> QED BY <1>1, Invariance, PTL DEF Spec, GhostsAreReplaced
-----------------------------------------------------------------------------
(* Where a function leads to: induction along it without numbers. *)

LEMMA UpSelf ==
  ASSUME NEW up, NEW x \in Nodes
  PROVE  x \in UpFrom(up, x)
  BY DEF UpFrom

LEMMA UpNext ==
  ASSUME NEW up, NEW x \in Nodes, NEW y \in UpFrom(up, x), up[y] \in Nodes
  PROVE  up[y] \in UpFrom(up, x)
  <1> SUFFICES ASSUME NEW S \in SUBSET (Nodes \ {up[y]}), x \in S,
                      \A z \in S : up[z] \in S
               PROVE  FALSE
    BY DEF UpFrom
  <1>1. y \notin S
    OBVIOUS
  <1>2. S \in SUBSET (Nodes \ {y})
    BY <1>1
  <1> QED BY <1>2 DEF UpFrom

\* Induction: a set that x is in and that is closed holds all of it.
LEMMA UpLeast ==
  ASSUME NEW up, NEW x, NEW S \in SUBSET Nodes, x \in S, \A z \in S : up[z] \in S
  PROVE  UpFrom(up, x) \subseteq S
  <1> SUFFICES ASSUME NEW y \in UpFrom(up, x), y \notin S PROVE FALSE
    OBVIOUS
  <1>1. S \in SUBSET (Nodes \ {y})
    OBVIOUS
  <1> QED BY <1>1 DEF UpFrom

LEMMA UpType == ASSUME NEW up, NEW x PROVE UpFrom(up, x) \subseteq Nodes
  BY DEF UpFrom

\* Every node but the first is led to by another one.
LEMMA UpBefore ==
  ASSUME NEW up \in [Nodes -> Nodes], NEW x \in Nodes, NEW z \in UpFrom(up, x), z # x
  PROVE  \E w \in UpFrom(up, x) : w # z /\ up[w] = z
  <1> DEFINE S == UpFrom(up, x) \ {z}
  <1> SUFFICES ASSUME \A w \in S : up[w] # z PROVE FALSE
    OBVIOUS
  <1>1. S \in SUBSET Nodes /\ x \in S
    BY UpSelf, UpType
  <1>2. \A w \in S : up[w] \in S
    BY UpNext, UpType
  <1>3. UpFrom(up, x) \subseteq S
    BY <1>1, <1>2, UpLeast
  <1> QED BY <1>3

LEMMA UpWithin ==
  ASSUME NEW up \in [Nodes -> Nodes], NEW x \in Nodes, NEW y \in UpFrom(up, x)
  PROVE  UpFrom(up, y) \subseteq UpFrom(up, x)
  <1>1. UpFrom(up, x) \in SUBSET Nodes /\ \A z \in UpFrom(up, x) : up[z] \in UpFrom(up, x)
    BY UpNext, UpType
  <1> QED BY <1>1, UpLeast

\* It is the same along a function that differs only elsewhere.
LEMMA UpSame ==
  ASSUME NEW up \in [Nodes -> Nodes], NEW vp, NEW x \in Nodes,
         \A y \in UpFrom(up, x) : vp[y] = up[y]
  PROVE  UpFrom(vp, x) = UpFrom(up, x)
  <1> DEFINE A == UpFrom(up, x)
             B == UpFrom(vp, x)
  <1>1. A \in SUBSET Nodes /\ x \in A /\ \A z \in A : vp[z] \in A
    BY UpSelf, UpNext, UpType
  <1>2. B \subseteq A
    BY <1>1, UpLeast
  <1>3. B \in SUBSET Nodes /\ x \in B
    BY UpSelf, UpType
  <1>4. ASSUME NEW z \in B PROVE up[z] \in B
    <2>1. z \in A /\ vp[z] = up[z] /\ up[z] \in Nodes
      BY <1>1, <1>2
    <2> QED BY <2>1, UpNext
  <1>5. A \subseteq B
    BY <1>3, <1>4, UpLeast
  <1> QED BY <1>2, <1>5

-----------------------------------------------------------------------------
(* Mounts. *)

\* A root is its own directory, has the name of one, and is its own mount.
Rooted ==
  /\ parent[Root] = Root /\ Root < nextInode
  /\ \A x \in Nodes : parent[x] = x => name[x] = Slash /\ fs[x] = x

InDirs == \A x \in Nodes : parent[x] # x => kind[parent[x]] = "dir"

\* What is mounted is a root; it is mounted on a directory that has a name.
OnDirs ==
  \A z \in Nodes : mounted[z] # None =>
    /\ z < nextInode /\ kind[z] = "dir" /\ parent[z] # z
    /\ mounted[z] < nextInode /\ parent[mounted[z]] = mounted[z]

MountInv ==
  /\ mounted \in [Nodes -> Nodes \cup {None}]
  /\ Rooted /\ InDirs /\ OnDirs

LEMMA InitMounts == Init => MountInv
  <1> SUFFICES ASSUME Init PROVE MountInv
    OBVIOUS
  <1>1. \A x \in Nodes : parent[x] = x /\ name[x] = Slash /\ fs[x] = x /\ mounted[x] = None
    BY DEF Init
  <1>2. mounted \in [Nodes -> Nodes \cup {None}]
    BY DEF Init
  <1>3. Root \in Nodes
    BY FileSystemAssumption
  <1>4. Root < nextInode
    <2>1. nextInode = 2
      BY DEF Init
    <2> QED BY <2>1
  <1> QED BY <1>1, <1>2, <1>3, <1>4 DEF MountInv, Rooted, InDirs, OnDirs

\* A new node is nobody's directory, is in no chain, and changes nothing else.
LEMMA NewNode ==
  ASSUME IInv, NEW x \in Nodes, NEW k \in {"dir", "file"}, NEW d \in Nodes,
         NEW n \in AllNames, NEW r \in Nodes, CreateNode(x, k, d, n, r)
  PROVE  /\ x = nextInode /\ nextInode \in Nat /\ nextInode' = nextInode + 1
         /\ parent' \in [Nodes -> Nodes]
         /\ \A y \in Nodes : /\ parent'[y] = IF y = x THEN d ELSE parent[y]
                             /\ name'[y] = IF y = x THEN n ELSE name[y]
                             /\ kind'[y] = IF y = x THEN k ELSE kind[y]
                             /\ fs'[y] = IF y = x THEN r ELSE fs[y]
         /\ kind[x] = "none" /\ x \notin Chained
         /\ \A y \in Nodes : parent[y] = x => y = x
  <1>1. x = nextInode /\ nextInode \in Nat /\ nextInode' = nextInode + 1
    BY DEF CreateNode, IInv, Typing
  <1>2. /\ parent' \in [Nodes -> Nodes]
        /\ \A y \in Nodes : /\ parent'[y] = IF y = x THEN d ELSE parent[y]
                            /\ name'[y] = IF y = x THEN n ELSE name[y]
                            /\ kind'[y] = IF y = x THEN k ELSE kind[y]
                            /\ fs'[y] = IF y = x THEN r ELSE fs[y]
    BY DEF CreateNode, IInv, Typing
  <1>3. kind[x] = "none" /\ x \notin Chained /\ \A y \in Nodes : parent[y] = x => y = x
    <2>1. x >= nextInode
      BY <1>1
    <2> QED BY <2>1 DEF IInv, Unused
  <1> QED BY <1>1, <1>2, <1>3

\* What a rename moves has a name, and nothing is mounted on it.
LEMMA Moved ==
  ASSUME IInv, NEW d \in Dirs, NEW n \in Names, NEW x \in Found(d, n),
         NEW e \in Dirs, NEW m \in Names, Rename(d, n, x, e, m)
  PROVE  /\ d \in Nodes /\ e \in Nodes /\ x \in Nodes /\ e # x
         /\ parent[x] = d /\ name[x] = n /\ mounted[x] = None
         /\ parent' \in [Nodes -> Nodes]
         /\ \A y \in Nodes : /\ parent'[y] = IF y = x THEN e ELSE parent[y]
                             /\ name'[y] = IF y = x THEN m ELSE name[y]
         /\ UNCHANGED <<nextInode, kind, fs, mounted>>
  <1>1. d \in Nodes /\ e \in Nodes
    BY DirsUsed
  <1>2. x \in Nodes /\ parent[x] = d /\ name[x] = n
    BY <1>1, FoundMeans
  <1>3. e # x /\ mounted[x] = None
    BY DEF Rename, MayRename, RelativeInside
  <1>4. /\ parent' \in [Nodes -> Nodes]
        /\ \A y \in Nodes : /\ parent'[y] = IF y = x THEN e ELSE parent[y]
                            /\ name'[y] = IF y = x THEN m ELSE name[y]
    BY <1>1, <1>2 DEF Rename, IInv, Typing
  <1> QED BY <1>1, <1>2, <1>3, <1>4 DEF Rename, mountVars

\* The steps, by what they do to the nodes and mounts.
SameNodes == UNCHANGED <<nextInode, treeVars, mounted>> /\ Chained' \subseteq Chained

LEMMA Steps ==
  ASSUME IInv, [Next]_vars
  PROVE  \/ SameNodes
         \/ \E d \in Dirs, n \in Names, k \in {"dir", "file"} : Mknod(d, n, k)
         \/ \E d \in Dirs, n \in Names : \E x \in Found(d, n) : Mount(d, n, x) \/ Unmount(d, n, x)
         \/ \E d \in Dirs, n \in Names : \E x \in Found(d, n), e \in Dirs, m \in Names :
              Rename(d, n, x, e, m)
  <1>1. CASE UNCHANGED vars
    BY <1>1 DEF vars, SameNodes, Chained, treeVars, mountVars
  <1>2. ASSUME NEW d \in Dirs, Chdir(d) PROVE SameNodes
    BY <1>2 DEF Chdir, SameNodes, Chained, treeVars, mountVars
  <1>3. ASSUME NEW d \in Dirs, NEW n \in Names, NEW x \in Found(d, n),
               Unlink(d, n, x) \/ Rmdir(d, n, x)
        PROVE  SameNodes
    <2>1. HashRemove({x}) /\ UNCHANGED <<nextInode, treeVars, mounted>>
      BY <1>3 DEF Unlink, Rmdir, mountVars
    <2>2. \A b \in Buckets : chain'[b] \subseteq chain[b]
      BY <2>1 DEF HashRemove, Unlinked
    <2> QED BY <2>1, <2>2 DEF SameNodes, Chained
  <1>4. ASSUME NEW d \in Dirs, NEW n \in Names, NEW x \in Found(d, n), NEW e \in Dirs,
               NEW m \in Names, RenameFails(d, n, x, e, m)
        PROVE  SameNodes
    <2>1. d \in Nodes /\ x \in Chained /\ parent[x] = d /\ name[x] = n
      BY DirsUsed, FoundMeans DEF First
    <2>2. chain' = [Unlinked({x}) EXCEPT ![Hash[d, n]] = @ \cup {x}]
      BY <1>4 DEF RenameFails
    <2>3. \A b \in Buckets : chain'[b] \subseteq chain[b] \cup {x}
      BY <2>2, Zenon DEF Unlinked
    <2>4. Chained' \subseteq Chained
      BY <2>1, <2>3 DEF Chained
    <2> QED BY <1>4, <2>4 DEF RenameFails, SameNodes, mountVars
  <1> QED BY <1>1, <1>2, <1>3, <1>4 DEF Next

\* The node a call finds is in the table, and its directory is another node.
LEMMA Entry ==
  ASSUME IInv, MountInv, NEW d \in Dirs, NEW n \in Names, NEW x \in Found(d, n)
  PROVE  /\ d \in Nodes /\ x \in Nodes /\ x \in Chained
         /\ parent[x] = d /\ name[x] = n /\ d # x /\ kind[d] = "dir"
  <1>1. d \in Nodes /\ kind[d] = "dir"
    BY DirsUsed DEF Dirs
  <1>2. x \in Nodes /\ x \in Chained /\ parent[x] = d /\ name[x] = n
    BY <1>1, FoundMeans DEF First
  <1>3. parent[x] # x
    BY <1>2, FileSystemAssumption DEF MountInv, Rooted
  <1> QED BY <1>1, <1>2, <1>3

LEMMA MountsKept == ASSUME IInv, MountInv, [Next]_vars PROVE MountInv'
  <1> USE DEF MountInv
  <1>0. Root \in Nodes
    BY FileSystemAssumption
  <1>1. CASE SameNodes
    BY <1>0, <1>1 DEF SameNodes, treeVars, Rooted, InDirs, OnDirs
  <1>2. ASSUME NEW d \in Dirs, NEW n \in Names, NEW k \in {"dir", "file"}, Mknod(d, n, k)
        PROVE  MountInv'
    <2>1. PICK x \in Nodes : CreateNode(x, k, d, n, fs[d])
      BY <1>2 DEF Mknod
    <2>2. mounted' = mounted
      BY <1>2 DEF Mknod, mountVars
    <2>3. d \in Nodes /\ d < nextInode /\ kind[d] = "dir" /\ fs[d] \in Nodes /\ n \in AllNames
      BY DirsUsed DEF Dirs, IInv, Typing
    <2>4. /\ x = nextInode /\ nextInode \in Nat /\ nextInode' = nextInode + 1
          /\ \A y \in Nodes : /\ parent'[y] = IF y = x THEN d ELSE parent[y]
                              /\ name'[y] = IF y = x THEN n ELSE name[y]
                              /\ kind'[y] = IF y = x THEN k ELSE kind[y]
                              /\ fs'[y] = IF y = x THEN fs[d] ELSE fs[y]
          /\ \A y \in Nodes : parent[y] = x => y = x
      BY <2>1, <2>3, NewNode
    <2>5. d # x /\ parent \in [Nodes -> Nodes]
      BY <2>3, <2>4 DEF IInv, Typing
    <2>6. Rooted'
      BY <1>0, <2>4, <2>5 DEF Rooted
    <2>7. InDirs'
      BY <2>3, <2>4, <2>5 DEF InDirs
    <2>8. OnDirs'
      <3> SUFFICES ASSUME NEW z \in Nodes, mounted[z] # None
                   PROVE  /\ z < nextInode' /\ kind'[z] = "dir" /\ parent'[z] # z
                          /\ mounted[z] < nextInode' /\ parent'[mounted[z]] = mounted[z]
        BY <2>2 DEF OnDirs
      <3>1. /\ z < nextInode /\ kind[z] = "dir" /\ parent[z] # z /\ mounted[z] \in Nodes
            /\ mounted[z] < nextInode /\ parent[mounted[z]] = mounted[z]
        BY DEF OnDirs
      <3>2. z # x /\ mounted[z] # x
        BY <2>4, <3>1
      <3> QED BY <2>4, <3>1, <3>2
    <2> QED BY <2>2, <2>6, <2>7, <2>8
  <1>3. ASSUME NEW d \in Dirs, NEW n \in Names, NEW x \in Found(d, n), Mount(d, n, x)
        PROVE  MountInv'
    <2>1. PICK r \in Nodes : /\ CreateNode(r, "dir", r, Slash, r)
                             /\ mounted' = [mounted EXCEPT ![x] = r]
      BY <1>3 DEF Mount
    <2>2. /\ x \in Nodes /\ x \in Chained /\ parent[x] # x
          /\ kind[x] = "dir"
      BY <1>3, Entry DEF Mount
    <2>3. /\ r = nextInode /\ nextInode \in Nat /\ nextInode' = nextInode + 1 /\ r \notin Chained
          /\ \A y \in Nodes : /\ parent'[y] = IF y = r THEN r ELSE parent[y]
                              /\ name'[y] = IF y = r THEN Slash ELSE name[y]
                              /\ kind'[y] = IF y = r THEN "dir" ELSE kind[y]
                              /\ fs'[y] = IF y = r THEN r ELSE fs[y]
          /\ \A y \in Nodes : parent[y] = r => y = r
      BY <2>1, NewNode
    <2>4. x # r /\ parent \in [Nodes -> Nodes] /\ x < nextInode
      BY <2>2, <2>3 DEF IInv, Typing, Unused
    <2>5. Rooted'
      BY <1>0, <2>3 DEF Rooted
    <2>6. InDirs'
      BY <2>3, <2>4 DEF InDirs
    <2>7. \A z \in Nodes : mounted'[z] = IF z = x THEN r ELSE mounted[z]
      BY <2>1, <2>2
    <2>8. OnDirs'
      <3> SUFFICES ASSUME NEW z \in Nodes, mounted'[z] # None
                   PROVE  /\ z < nextInode' /\ kind'[z] = "dir" /\ parent'[z] # z
                          /\ mounted'[z] < nextInode' /\ parent'[mounted'[z]] = mounted'[z]
        BY DEF OnDirs
      <3>1. CASE z = x
        BY <2>2, <2>3, <2>4, <2>7, <3>1
      <3>2. CASE z # x
        <4>1. /\ z < nextInode /\ kind[z] = "dir" /\ parent[z] # z /\ mounted[z] \in Nodes
              /\ mounted[z] < nextInode /\ parent[mounted[z]] = mounted[z]
          BY <2>7, <3>2 DEF OnDirs
        <4>2. z # r /\ mounted[z] # r
          BY <2>3, <4>1
        <4> QED BY <2>3, <2>7, <3>2, <4>1, <4>2
      <3> QED BY <3>1, <3>2
    <2>9. mounted' \in [Nodes -> Nodes \cup {None}]
      BY <2>1, <2>2
    <2> QED BY <2>5, <2>6, <2>8, <2>9
  <1>4. ASSUME NEW d \in Dirs, NEW n \in Names, NEW x \in Found(d, n), Unmount(d, n, x)
        PROVE  MountInv'
    <2>1. /\ UNCHANGED <<nextInode, treeVars>> /\ mounted' \in [Nodes -> Nodes \cup {None}]
          /\ \A z \in Nodes : mounted'[z] # None => mounted'[z] = mounted[z]
      BY <1>4 DEF Unmount
    <2> QED BY <1>0, <2>1 DEF treeVars, Rooted, InDirs, OnDirs
  <1>5. ASSUME NEW d \in Dirs, NEW n \in Names, NEW x \in Found(d, n), NEW e \in Dirs,
               NEW m \in Names, Rename(d, n, x, e, m)
        PROVE  MountInv'
    <2>1. /\ d \in Nodes /\ e \in Nodes /\ x \in Nodes /\ e # x
          /\ parent[x] = d /\ name[x] = n /\ mounted[x] = None
          /\ \A y \in Nodes : /\ parent'[y] = IF y = x THEN e ELSE parent[y]
                              /\ name'[y] = IF y = x THEN m ELSE name[y]
          /\ UNCHANGED <<nextInode, kind, fs, mounted>>
      BY <1>5, Moved
    <2>2. parent[x] # x /\ kind[e] = "dir"
      BY <1>5, Entry DEF Dirs
    <2>3. Rooted' /\ InDirs'
      BY <1>0, <2>1, <2>2 DEF Rooted, InDirs
    <2>4. OnDirs'
      <3> SUFFICES ASSUME NEW z \in Nodes, mounted[z] # None
                   PROVE  /\ z < nextInode /\ kind[z] = "dir" /\ parent'[z] # z
                          /\ mounted[z] < nextInode /\ parent'[mounted[z]] = mounted[z]
        BY <2>1 DEF OnDirs
      <3>1. /\ z < nextInode /\ kind[z] = "dir" /\ parent[z] # z /\ mounted[z] \in Nodes
            /\ mounted[z] < nextInode /\ parent[mounted[z]] = mounted[z]
        BY DEF OnDirs
      <3>2. z # x /\ mounted[z] # x
        BY <2>1, <2>2, <3>1
      <3> QED BY <2>1, <3>1, <3>2
    <2> QED BY <2>1, <2>3, <2>4
  <1> QED BY <1>1, <1>2, <1>3, <1>4, <1>5, Steps

-----------------------------------------------------------------------------
(* What can be reached through mounts. *)

\* Mounts() of any mountpoints m and mounts f.
MountsBy(m, f, r) ==
  {s \in Nodes : \A S \in SUBSET (Nodes \ {s}) :
     r \in S => \E z \in Nodes : m[z] # None /\ f[z] \in S /\ m[z] \notin S}

LEMMA MountsSelf ==
  ASSUME NEW m, NEW f, NEW r \in Nodes
  PROVE  r \in MountsBy(m, f, r) /\ MountsBy(m, f, r) \in SUBSET Nodes
  BY DEF MountsBy

LEMMA MountsNext ==
  ASSUME NEW m, NEW f, NEW r, NEW z \in Nodes,
         m[z] \in Nodes, f[z] \in MountsBy(m, f, r)
  PROVE  m[z] \in MountsBy(m, f, r)
  <1> SUFFICES ASSUME NEW S \in SUBSET (Nodes \ {m[z]}), r \in S,
                      \A y \in Nodes : m[y] # None /\ f[y] \in S => m[y] \in S
               PROVE  FALSE
    BY DEF MountsBy
  <1>1. m[z] # None
    OBVIOUS
  <1>2. f[z] \notin S
    BY <1>1
  <1>3. S \in SUBSET (Nodes \ {f[z]})
    BY <1>2
  <1> QED BY <1>3 DEF MountsBy

LEMMA MountsLeast ==
  ASSUME NEW m, NEW f, NEW r, NEW S \in SUBSET Nodes, r \in S,
         \A z \in Nodes : m[z] # None /\ f[z] \in S => m[z] \in S
  PROVE  MountsBy(m, f, r) \subseteq S
  <1> SUFFICES ASSUME NEW s \in MountsBy(m, f, r), s \notin S PROVE FALSE
    OBVIOUS
  <1>1. S \in SUBSET (Nodes \ {s})
    OBVIOUS
  <1> QED BY <1>1 DEF MountsBy

\* A directory that a path leads to is in one of the mounts of the tree.
LEMMA DirMounted ==
  ASSUME IInv, MountInv, UnmountedIsForgotten, NEW d \in Dirs
  PROVE  fs[d] \in Mounts(Root)
  <1>1. /\ d \in Nodes /\ Root \in Way(d)
        /\ \A y \in Way(d) : parent[y] # y => y \in Found(parent[y], name[y])
    BY DEF Dirs
  <1>2. Root \in Nodes
    BY FileSystemAssumption
  <1>3. Mounts(Root) = MountsBy(mounted, fs, Root)
    BY DEF Mounts, MountsBy
  <1>4. ASSUME NEW y \in Nodes, y \in Way(d), parent[y] # y
        PROVE  fs[y] \in Mounts(Root)
    <2>1. parent[y] \in Nodes /\ name[y] \in Names
      BY <1>4 DEF IInv, Typing, Named
    <2>2. y \in Chained
      BY <1>1, <1>4, <2>1, FoundMeans DEF First
    <2> QED BY <2>2 DEF UnmountedIsForgotten
  <1> DEFINE up == [y \in Nodes |-> Up(y)]
  <1>5. d \in Way(d)
    BY <1>1, UpSelf DEF Way
  <1>6. CASE parent[d] # d
    BY <1>1, <1>4, <1>5, <1>6
  <1>7. CASE parent[d] = d /\ \E z \in Nodes : mounted[z] = d
    <2>1. Up(d) \in Nodes /\ mounted[Up(d)] = d
      BY <1>7 DEF Up, IsMountOn
    <2>2. Up(d) \in Way(d)
      <3>1. up[d] = Up(d)
        BY <1>1
      <3>2. up[d] \in UpFrom(up, d)
        BY <1>1, <2>1, <3>1, UpNext, UpSelf
      <3> QED BY <3>1, <3>2 DEF Way
    <2>3. parent[Up(d)] # Up(d)
      BY <1>1, <2>1 DEF MountInv, OnDirs
    <2>4. fs[Up(d)] \in Mounts(Root)
      BY <1>4, <2>1, <2>2, <2>3
    <2>5. fs[d] = d
      BY <1>1, <1>7 DEF MountInv, Rooted
    <2> QED BY <1>1, <1>3, <2>1, <2>4, <2>5, MountsNext
  <1>8. CASE parent[d] = d /\ ~\E z \in Nodes : mounted[z] = d
    <2>1. up[d] = d
      BY <1>1, <1>8 DEF Up, IsMountOn
    <2>2. Way(d) \subseteq {d}
      <3>1. {d} \in SUBSET Nodes /\ d \in {d} /\ \A z \in {d} : up[z] \in {d}
        BY <1>1, <2>1
      <3> HIDE DEF up
      <3>2. UpFrom(up, d) \subseteq {d}
        BY <3>1, UpLeast
      <3> QED BY <3>2 DEF Way, up
    <2>3. d = Root
      BY <1>1, <2>2
    <2>4. fs[d] = d
      BY <1>1, <1>8 DEF MountInv, Rooted
    <2> QED BY <1>2, <1>3, <2>3, <2>4, MountsSelf
  <1> QED BY <1>6, <1>7, <1>8

\* UnmountedIsForgotten from one state to the next.
LEMMA ForgottenKept ==
  ASSUME IInv, MountInv, UnmountedIsForgotten, [Next]_vars
  PROVE  UnmountedIsForgotten'
  <1> DEFINE M == MountsBy(mounted, fs, Root)
             N == MountsBy(mounted', fs', Root)
  <1>1. Mounts(Root) = M /\ Mounts(Root)' = N
    BY DEF Mounts, MountsBy
  <1>2. Root \in Nodes /\ Root \in M /\ M \in SUBSET Nodes /\ Root \in N /\ N \in SUBSET Nodes
    BY FileSystemAssumption, MountsSelf
  <1>3. Chained \subseteq Nodes /\ \A y \in Chained : fs[y] \in M
    BY <1>1, InChain DEF IInv, UnmountedIsForgotten
  <1>4. SUFFICES ASSUME NEW y \in Chained' PROVE fs'[y] \in N
    BY <1>1 DEF UnmountedIsForgotten
  <1>5. CASE SameNodes
    BY <1>3, <1>4, <1>5 DEF SameNodes, treeVars
  <1>6. ASSUME NEW d \in Dirs, NEW n \in Names, NEW k \in {"dir", "file"}, Mknod(d, n, k)
        PROVE  fs'[y] \in N
    <2>1. PICK x \in Nodes : /\ CreateNode(x, k, d, n, fs[d])
                             /\ contents' = [contents EXCEPT ![d][n] = x]
      BY <1>6 DEF Mknod
    <2>2. mounted' = mounted
      BY <1>6 DEF Mknod, mountVars
    <2>3. d \in Nodes /\ fs[d] \in Nodes /\ n \in AllNames /\ fs[d] \in M
      BY <1>1, DirsUsed, DirMounted DEF IInv, Typing
    <2>4. /\ x = nextInode /\ nextInode \in Nat
          /\ \A z \in Nodes : fs'[z] = IF z = x THEN fs[d] ELSE fs[z]
      BY <2>1, <2>3, NewNode
    <2>5. contents' \in [Nodes -> [Names -> Nodes \cup {None}]]
      BY <2>1, <2>3 DEF IInv, Typing
    <2>6. Chained' = Chained \cup {x}
      BY <2>1, <2>3, <2>5, CreateStep
    \* No mount is on the new node, so those of the tree are the same.
    <2>7. M \subseteq N
      <3>1. ASSUME NEW z \in Nodes, mounted[z] # None, fs[z] \in N PROVE mounted[z] \in N
        <4>1. z # x /\ mounted[z] \in Nodes
          BY <2>4, <3>1 DEF MountInv, OnDirs
        <4> QED BY <2>2, <2>4, <3>1, <4>1, MountsNext
      <3> QED BY <1>2, <3>1, MountsLeast
    <2> QED BY <1>3, <1>4, <2>3, <2>4, <2>6, <2>7
  <1>7. ASSUME NEW d \in Dirs, NEW n \in Names, NEW x \in Found(d, n), Mount(d, n, x)
        PROVE  fs'[y] \in N
    <2>1. PICK r \in Nodes : /\ CreateNode(r, "dir", r, Slash, r)
                             /\ mounted' = [mounted EXCEPT ![x] = r]
      BY <1>7 DEF Mount
    <2>2. x \in Nodes /\ x \in Chained /\ mounted[x] = None
      BY <1>7, Entry DEF Mount
    <2>3. /\ r = nextInode /\ nextInode \in Nat /\ r \notin Chained
          /\ \A z \in Nodes : fs'[z] = IF z = r THEN r ELSE fs[z]
      BY <2>1, NewNode
    <2>4. Chained' = Chained \cup {r}
      <3>1. contents' \in [Nodes -> [Names -> Nodes \cup {None}]]
        BY <1>7 DEF Mount, IInv, Typing
      <3>2. Slash \in AllNames /\ "dir" \in {"dir", "file"}
        OBVIOUS
      <3> HIDE DEF AllNames
      <3> QED BY <2>1, <3>1, <3>2, CreateStep
    <2>5. \A z \in Nodes : mounted'[z] = IF z = x THEN r ELSE mounted[z]
      BY <2>1, <2>2 DEF MountInv
    <2>6. M \subseteq N
      <3>1. ASSUME NEW z \in Nodes, mounted[z] # None, fs[z] \in N PROVE mounted[z] \in N
        <4>1. z # r /\ mounted[z] \in Nodes /\ z # x
          BY <2>2, <2>3, <3>1 DEF MountInv, OnDirs
        <4>2. fs'[z] \in N /\ mounted'[z] = mounted[z]
          BY <2>3, <2>5, <3>1, <4>1
        <4> QED BY <4>1, <4>2, MountsNext
      <3> QED BY <1>2, <3>1, MountsLeast
    <2>7. r \in N
      <3>1. fs'[x] = fs[x] /\ fs[x] \in M /\ mounted'[x] = r
        BY <1>3, <2>2, <2>3, <2>5
      <3> QED BY <2>2, <2>6, <3>1, MountsNext
    <2> QED BY <1>3, <1>4, <2>3, <2>4, <2>6, <2>7
  <1>8. ASSUME NEW d \in Dirs, NEW n \in Names, NEW x \in Found(d, n), Unmount(d, n, x)
        PROVE  fs'[y] \in N
    <2> DEFINE r == mounted[x]
               R == MountsBy(mounted, fs, r)
               X == {z \in Chained : fs[z] \in Mounts(r)}
    <2>1. x \in Nodes /\ r \in Nodes /\ Mounts(r) = R
      BY <1>8, Entry DEF Unmount, MountInv, Mounts, MountsBy
    <2>2. /\ HashRemove(X) /\ UNCHANGED <<nextInode, treeVars>> /\ contents' = contents
          /\ mounted' = [mounted EXCEPT ![x] = None]
      BY <1>8 DEF Unmount
    <2>3. Chained' = Chained \ X /\ fs' = fs
      <3>1. X \in SUBSET Chained /\ contents' \in [Nodes -> [Names -> Nodes \cup {None}]]
        BY <2>2 DEF IInv, Typing
      <3> HIDE DEF X
      <3> QED BY <2>2, <3>1, RemoveStep DEF treeVars
    <2>4. \A z \in Nodes : mounted'[z] = IF z = x THEN None ELSE mounted[z]
      BY <2>1, <2>2 DEF MountInv
    <2>5. r \in R /\ R \in SUBSET Nodes
      BY <2>1, MountsSelf
    \* What was reached through x is in what was mounted there.
    <2>6. M \subseteq N \cup R
      <3>1. ASSUME NEW z \in Nodes, mounted[z] # None, fs[z] \in N \cup R
            PROVE  mounted[z] \in N \cup R
        <4>1. mounted[z] \in Nodes
          BY <3>1 DEF MountInv
        <4>2. CASE fs[z] \in R
          BY <4>1, <4>2, MountsNext
        <4>3. CASE fs[z] \in N /\ z # x
          <5>1. mounted'[z] = mounted[z] /\ fs'[z] \in N
            BY <2>3, <2>4, <4>3
          <5> QED BY <4>1, <5>1, MountsNext
        <4>4. CASE z = x
          BY <2>5, <4>4
        <4> QED BY <3>1, <4>2, <4>3, <4>4
      <3>2. N \cup R \in SUBSET Nodes /\ Root \in N \cup R
        BY <1>2, <2>5
      <3> HIDE DEF N, R
      <3> QED BY <3>1, <3>2, MountsLeast
    <2>7. y \in Chained /\ fs[y] \notin R
      BY <1>4, <2>1, <2>3
    <2> QED BY <1>3, <2>3, <2>6, <2>7
  <1>9. ASSUME NEW d \in Dirs, NEW n \in Names, NEW x \in Found(d, n), NEW e \in Dirs,
               NEW m \in Names, Rename(d, n, x, e, m)
        PROVE  fs'[y] \in N
    <2>1. UNCHANGED <<fs, mounted>> /\ x \in Chained
      BY <1>9, Moved, Entry
    <2>2. Chained' \subseteq Chained
      <3>1. d \in Nodes /\ e \in Nodes /\ e < nextInode /\ parent[x] = d /\ name[x] = n /\ x # e
        BY <1>9, DirsUsed, Entry, Moved
      <3>2. Hash[e, m] \in Buckets /\ chain' = [Unlinked({x}) EXCEPT ![Hash[e, m]] = @ \cup {x}]
        BY <1>9, <3>1, HashType DEF Rename
      <3>3. \A b \in Buckets : chain'[b] \subseteq chain[b] \cup {x}
        BY <3>2, Zenon DEF Unlinked
      <3> QED BY <2>1, <3>3 DEF Chained
    <2> QED BY <1>3, <1>4, <2>1, <2>2
  <1> QED BY <1>5, <1>6, <1>7, <1>8, <1>9, Steps

-----------------------------------------------------------------------------
(* Loops. *)

\* All but the first node comes after the next one.
LEMMA UpAfter ==
  ASSUME NEW up \in [Nodes -> Nodes], NEW x \in Nodes
  PROVE  UpFrom(up, x) \subseteq {x} \cup UpFrom(up, up[x])
  <1> DEFINE S == {x} \cup UpFrom(up, up[x])
  <1>1. S \in SUBSET Nodes /\ x \in S
    BY UpType
  <1>2. \A z \in S : up[z] \in S
    BY UpSelf, UpNext, UpType
  <1> HIDE DEF S
  <1>3. UpFrom(up, x) \subseteq S
    BY <1>1, <1>2, UpLeast
  <1> QED BY <1>3 DEF S

\* A node that is after itself is after all that come after it.
LEMMA LoopOff ==
  ASSUME NEW up \in [Nodes -> Nodes], NEW x \in Nodes, x \in UpFrom(up, up[x]),
         NEW r \in UpFrom(up, x)
  PROVE  x \in UpFrom(up, r)
  <1> DEFINE S == {z \in Nodes : x \in UpFrom(up, z)}
  <1>1. S \in SUBSET Nodes /\ x \in S
    BY UpSelf
  <1>2. ASSUME NEW z \in S PROVE up[z] \in S
    <2>1. UpFrom(up, z) \subseteq {z} \cup UpFrom(up, up[z])
      BY UpAfter
    <2>2. up[z] \in Nodes /\ x \in UpFrom(up, z)
      OBVIOUS
    <2>3. x \in UpFrom(up, up[z])
      BY <2>1, <2>2
    <2> QED BY <2>2, <2>3
  <1> HIDE DEF S
  <1>3. UpFrom(up, x) \subseteq S
    BY <1>1, <1>2, UpLeast
  <1> QED BY <1>3 DEF S

\* No path leads into a loop: nothing in a directory that one leads to is above
\* that directory.
LEMMA EntryNotLoop ==
  ASSUME IInv, MountInv, NEW d \in Dirs, NEW x \in Nodes, parent[x] = d, d # x
  PROVE  x \notin AncOrSelf(d)
  <1> DEFINE up == [y \in Nodes |-> Up(y)]
             A == UpFrom(parent, d)
  <1> SUFFICES ASSUME x \in A PROVE FALSE
    BY DEF AncOrSelf
  <1>1. d \in Nodes /\ parent \in [Nodes -> Nodes] /\ A \in SUBSET Nodes
    BY DirsUsed, UpType DEF IInv, Typing
  <1>2. A \subseteq UpFrom(parent, x)
    BY <1>1, UpSelf, UpNext, UpWithin
  <1>3. ASSUME NEW y \in A PROVE parent[y] # y
    <2> SUFFICES ASSUME parent[y] = y PROVE FALSE
      OBVIOUS
    <2>1. x \in UpFrom(parent, y)
      BY <1>1, <1>2, LoopOff
    <2>2. {y} \in SUBSET Nodes /\ \A z \in {y} : parent[z] \in {y}
      BY <1>1
    <2>3. UpFrom(parent, y) \subseteq {y}
      BY <2>2, UpLeast
    <2> QED BY <2>1, <2>3
  <1>4. \A y \in A : up[y] = parent[y]
    BY <1>1, <1>3 DEF Up
  <1> HIDE DEF up
  <1>5. UpFrom(up, d) = A
    BY <1>1, <1>4, UpSame
  <1>6. Root \in A
    BY <1>5 DEF Dirs, Way, up
  <1> QED BY <1>3, <1>6 DEF MountInv, Rooted

\* A new node is in no loop.
LEMMA NewNotLooped ==
  ASSUME IInv, LoopsPassDotNames, NEW x \in Nodes, NEW d \in Nodes,
         \A y \in Nodes : parent[y] = x => y = x,
         \A y \in Nodes : parent'[y] = IF y = x THEN d ELSE parent[y],
         \A y \in Nodes : y # x => name'[y] = name[y]
  PROVE  LoopsPassDotNames'
  <1>1. parent \in [Nodes -> Nodes]
    BY DEF IInv, Typing
  <1>2. ASSUME NEW w \in Nodes, w # x
        PROVE  x \notin UpFrom(parent, w) /\ UpFrom(parent', w) = UpFrom(parent, w)
    <2>1. x \notin UpFrom(parent, w)
      <3> SUFFICES ASSUME x \in UpFrom(parent, w) PROVE FALSE
        OBVIOUS
      <3>1. PICK v \in UpFrom(parent, w) : v # x /\ parent[v] = x
        BY <1>1, <1>2, UpBefore
      <3> QED BY <3>1, UpType
    <2>2. \A y \in UpFrom(parent, w) : parent'[y] = parent[y]
      BY <2>1, UpType
    <2> QED BY <1>1, <2>1, <2>2, UpSame
  <1>3. \A w \in Nodes : AncOrSelf(w)' = UpFrom(parent', w)
    BY DEF AncOrSelf, UpFrom
  <1> SUFFICES ASSUME NEW w \in Nodes, parent'[w] # w, w \in UpFrom(parent', parent'[w])
               PROVE  \E y \in UpFrom(parent', w) : name'[y] \in DotNames
    BY <1>1, <1>3 DEF LoopsPassDotNames
  <1>4. w # x
    BY <1>2
  <1>5. parent[w] = parent'[w] /\ parent[w] # x /\ parent[w] \in Nodes
    BY <1>1, <1>4
  <1>6. w \in UpFrom(parent, parent[w])
    BY <1>2, <1>5
  <1>7. PICK y \in UpFrom(parent, w) : name[y] \in DotNames
    BY <1>5, <1>6 DEF LoopsPassDotNames, AncOrSelf
  <1> QED BY <1>2, <1>4, <1>7, UpType

\* A rename makes no loop but through a dot name, which hid it from the test.
LEMMA MovedNotLooped ==
  ASSUME IInv, MountInv, LoopsPassDotNames, NEW d \in Dirs, NEW n \in Names,
         NEW x \in Found(d, n), NEW e \in Dirs, NEW m \in Names, Rename(d, n, x, e, m)
  PROVE  LoopsPassDotNames'
  <1>1. /\ d \in Nodes /\ e \in Nodes /\ x \in Nodes /\ e # x /\ parent[x] = d
        /\ parent' \in [Nodes -> Nodes]
        /\ \A y \in Nodes : parent'[y] = IF y = x THEN e ELSE parent[y]
        /\ \A y \in Nodes : y # x => name'[y] = name[y]
    BY Moved
  <1>2. d # x /\ parent \in [Nodes -> Nodes]
    BY Entry DEF IInv, Typing
  <1>3. \A w \in Nodes : AncOrSelf(w)' = UpFrom(parent', w)
    BY DEF AncOrSelf, UpFrom
  <1> SUFFICES ASSUME NEW w \in Nodes, parent'[w] # w, w \in UpFrom(parent', parent'[w])
               PROVE  \E y \in UpFrom(parent', w) : name'[y] \in DotNames
    BY <1>1, <1>3 DEF LoopsPassDotNames
  <1> DEFINE A == UpFrom(parent', w)
  <1>4. A \in SUBSET Nodes /\ w \in A /\ \A y \in A : UpFrom(parent', y) \subseteq A
    BY <1>1, UpSelf, UpType, UpWithin
  <1>5. CASE x \notin A
    <2>1. \A y \in A : parent[y] = parent'[y]
      BY <1>1, <1>4, <1>5
    <2>2. parent'[w] \in A
      BY <1>1, UpSelf, UpNext
    <2>3. UpFrom(parent, w) = A
      BY <1>1, <2>1, UpSame
    <2>4. UpFrom(parent, parent'[w]) = UpFrom(parent', parent'[w])
      BY <1>1, <1>4, <2>1, <2>2, UpSame
    <2>5. PICK y \in A : name[y] \in DotNames
      BY <1>4, <2>1, <2>3, <2>4 DEF LoopsPassDotNames, AncOrSelf
    <2> QED BY <1>1, <1>4, <1>5, <2>5
  <1>6. CASE x \in A
    <2>1. w \in UpFrom(parent', x)
      BY <1>1, <1>6, LoopOff
    <2>2. UpFrom(parent', x) \subseteq {x} \cup UpFrom(parent', e)
      BY <1>1, UpAfter
    <2>3. x \in UpFrom(parent', e)
      <3>1. CASE w = x
        BY <1>1, <3>1
      <3>2. CASE w # x
        BY <1>1, <1>6, <2>1, <2>2, <3>2, UpWithin
      <3> QED BY <3>1, <3>2
    <2>4. UpFrom(parent', e) \subseteq A
      BY <1>1, <1>4, <1>6, UpSelf, UpNext
    <2>5. x \in UpFrom(parent, e)
      <3> SUFFICES ASSUME x \notin UpFrom(parent, e) PROVE FALSE
        OBVIOUS
      <3>1. \A y \in UpFrom(parent, e) : parent'[y] = parent[y]
        BY <1>1, UpType
      <3>2. UpFrom(parent', e) = UpFrom(parent, e)
        BY <1>1, <1>2, <3>1, UpSame
      <3> QED BY <2>3, <3>2
    <2>6. PICK y \in UpFrom(parent, e) : parent[y] = x /\ y # x /\ name[y] \in DotNames
      BY <1>1, <2>5 DEF Rename, MayRename, RelativeInside, AncOrSelf
    <2>7. x \notin UpFrom(parent, d)
      BY <1>1, <1>2, EntryNotLoop DEF AncOrSelf
    <2>8. UpFrom(parent, e) \subseteq UpFrom(parent', e) \cup UpFrom(parent, d)
      <3> DEFINE S == UpFrom(parent', e) \cup UpFrom(parent, d)
      <3>1. S \in SUBSET Nodes /\ e \in S
        BY <1>1, UpSelf, UpType
      <3>2. ASSUME NEW z \in S PROVE parent[z] \in S
        <4>1. CASE z \in UpFrom(parent, d)
          BY <1>2, <4>1, <1>1, UpNext, UpType
        <4>2. CASE z \in UpFrom(parent', e) /\ z # x
          <5>1. z \in Nodes /\ parent[z] = parent'[z] /\ parent'[z] \in Nodes
            BY <1>1, <3>1, <4>2
          <5> QED BY <1>1, <4>2, <5>1, UpNext
        <4>3. CASE z = x
          BY <1>1, <4>3, UpSelf
        <4> QED BY <4>1, <4>2, <4>3
      <3> HIDE DEF S
      <3>3. UpFrom(parent, e) \subseteq S
        BY <3>1, <3>2, UpLeast
      <3> QED BY <3>3 DEF S
    <2>9. y \notin UpFrom(parent, d)
      BY <1>1, <2>6, <2>7, UpNext
    <2>10. y \in A /\ name'[y] = name[y]
      BY <1>1, <1>4, <2>4, <2>6, <2>8, <2>9
    <2> QED BY <2>6, <2>10
  <1> QED BY <1>5, <1>6

\* LoopsPassDotNames from one state to the next.
LEMMA LoopsKept ==
  ASSUME IInv, MountInv, LoopsPassDotNames, [Next]_vars
  PROVE  LoopsPassDotNames'
  <1>1. CASE parent' = parent /\ name' = name
    BY <1>1 DEF LoopsPassDotNames, AncOrSelf, UpFrom
  <1>2. ASSUME NEW d \in Dirs, NEW n \in Names, NEW k \in {"dir", "file"}, Mknod(d, n, k)
        PROVE  LoopsPassDotNames'
    <2>1. PICK x \in Nodes : CreateNode(x, k, d, n, fs[d])
      BY <1>2 DEF Mknod
    <2>2. d \in Nodes /\ fs[d] \in Nodes /\ n \in AllNames
      BY DirsUsed DEF IInv, Typing
    <2> QED BY <2>1, <2>2, NewNode, NewNotLooped
  <1>3. ASSUME NEW d \in Dirs, NEW n \in Names, NEW x \in Found(d, n), Mount(d, n, x)
        PROVE  LoopsPassDotNames'
    <2>1. PICK r \in Nodes : CreateNode(r, "dir", r, Slash, r)
      BY <1>3 DEF Mount
    <2>2. Slash \in AllNames /\ "dir" \in {"dir", "file"}
      OBVIOUS
    <2> HIDE DEF AllNames
    <2> QED BY <2>1, <2>2, NewNode, NewNotLooped
  <1>4. ASSUME NEW d \in Dirs, NEW n \in Names, NEW x \in Found(d, n), Unmount(d, n, x)
        PROVE  LoopsPassDotNames'
    BY <1>1, <1>4 DEF Unmount, treeVars
  <1> QED BY <1>1, <1>2, <1>3, <1>4, Steps, MovedNotLooped DEF SameNodes, treeVars

-----------------------------------------------------------------------------
(* The current directory. *)

\* Dirs without the hash function.
Reached(x) ==
  /\ kind[x] = "dir" /\ Root \in Way(x)
  /\ \A y \in Way(x) : /\ parent[y] # y => First(parent[y], name[y], y)
                       /\ mounted[y] # None => mounted[y] \in Way(x)

LEMMA DirsReached == IInv => \A x \in Nodes : x \in Dirs <=> Reached(x)
  <1> SUFFICES ASSUME IInv, NEW x \in Nodes PROVE x \in Dirs <=> Reached(x)
    OBVIOUS
  <1>1. ASSUME NEW y \in Nodes, parent[y] # y
        PROVE  y \in Found(parent[y], name[y]) <=> First(parent[y], name[y], y)
    <2>1. parent[y] \in Nodes /\ name[y] \in AllNames
      BY DEF IInv, Typing
    <2>2. Finds(parent[y], name[y], y) <=> First(parent[y], name[y], y)
      BY <2>1, FindsFirst DEF IInv
    <2> QED BY <2>2 DEF Found, Finds
  <1>2. Way(x) \subseteq Nodes
    BY UpType DEF Way
  <1> QED BY <1>1, <1>2 DEF Dirs, Reached

LEMMA DirsReachedNext == (IInv => \A x \in Nodes : x \in Dirs <=> Reached(x))'
  BY DirsReached, PTL

\* What is above the nodes, for any mountpoints m and parents p.
UpBy(m, p) ==
  [y \in Nodes |-> IF p[y] = y /\ \E z \in Nodes : m[z] = y
                   THEN CHOOSE z \in Nodes : m[z] = y ELSE p[y]]

LEMMA WayBy == ASSUME NEW x PROVE Way(x) = UpFrom(UpBy(mounted, parent), x)
  BY DEF Way, Up, IsMountOn, UpBy

LEMMA UpByType ==
  ASSUME NEW m, NEW p \in [Nodes -> Nodes]
  PROVE  UpBy(m, p) \in [Nodes -> Nodes]
  <1> SUFFICES ASSUME NEW y \in Nodes PROVE UpBy(m, p)[y] \in Nodes
    BY DEF UpBy
  <1>1. CASE p[y] = y /\ \E z \in Nodes : m[z] = y
    BY <1>1 DEF UpBy
  <1>2. CASE ~(p[y] = y /\ \E z \in Nodes : m[z] = y)
    BY <1>2 DEF UpBy
  <1> QED BY <1>1, <1>2

\* A directory that no path leads to any more, although nothing on the way to it
\* is mounted or moved, has lost a node on that way from the table.
LEMMA Lost ==
  ASSUME IInv, IInv', NEW x \in Dirs, x \notin Dirs', mounted' = mounted, kind'[x] = kind[x],
         \A y \in Way(x) : parent'[y] = parent[y]
  PROVE  \E y \in Way(x) : parent[y] # y /\ ~First(parent[y], name[y], y)'
  <1> DEFINE up == UpBy(mounted, parent)
             vp == UpBy(mounted, parent')
  <1>1. x \in Nodes /\ up \in [Nodes -> Nodes] /\ Way(x) \subseteq Nodes
    BY DirsUsed, UpByType, UpType DEF IInv, Typing, Way
  <1>2. Way(x) = UpFrom(up, x)
    BY WayBy
  <1>3. Way(x)' = UpFrom(vp, x)
    <2>1. Way(x)' = UpFrom(UpBy(mounted', parent'), x)
      BY DEF Way, Up, IsMountOn, UpBy, UpFrom
    <2> QED BY <2>1
  <1>4. \A y \in Way(x) : vp[y] = up[y]
    BY <1>1 DEF UpBy
  <1> HIDE DEF up, vp
  <1>5. UpFrom(vp, x) = UpFrom(up, x)
    BY <1>1, <1>2, <1>4, UpSame
  <1>6. Way(x)' = Way(x)
    BY <1>2, <1>3, <1>5
  <1>7. ~Reached(x)'
    BY <1>1, DirsReachedNext
  <1>8. Reached(x)
    BY <1>1, DirsReached
  <1> QED BY <1>6, <1>7, <1>8 DEF Reached

\* Above a node is its directory or, of a root, what it is mounted on.
LEMMA UpIs ==
  ASSUME NEW w \in Nodes, NEW z \in Nodes, UpBy(mounted, parent)[w] = z
  PROVE  parent[w] = z \/ mounted[z] = w
  <1>1. CASE parent[w] = w /\ \E y \in Nodes : mounted[y] = w
    BY <1>1 DEF UpBy
  <1>2. CASE ~(parent[w] = w /\ \E y \in Nodes : mounted[y] = w)
    BY <1>2 DEF UpBy
  <1> QED BY <1>1, <1>2

LEMMA WayBefore ==
  ASSUME parent \in [Nodes -> Nodes], NEW x \in Nodes, NEW z \in Way(x), z # x
  PROVE  \E w \in Way(x) : w # z /\ UpBy(mounted, parent)[w] = z
  <1>1. UpBy(mounted, parent) \in [Nodes -> Nodes]
    BY UpByType
  <1>2. z \in UpFrom(UpBy(mounted, parent), x)
    BY WayBy
  <1>3. \E w \in UpFrom(UpBy(mounted, parent), x) : w # z /\ UpBy(mounted, parent)[w] = z
    BY <1>1, <1>2, UpBefore
  <1> QED BY <1>3, WayBy

\* A node on the way to a directory, where nothing is mounted, is a directory
\* itself; if it lists nothing, the next one on the way down is a ghost.
LEMMA Between ==
  ASSUME IInv, MountInv, NEW x \in Dirs, NEW z \in Way(x), z # x, mounted[z] = None
  PROVE  /\ kind[z] = "dir"
         /\ Emptied(z) => \E w \in Way(x) : w \in Ghosts
  <1>1. x \in Nodes /\ Way(x) \subseteq Nodes
    BY DirsUsed, UpType DEF Way
  <1>2. PICK w \in Way(x) : w # z /\ UpBy(mounted, parent)[w] = z
    BY <1>1, WayBefore DEF IInv, Typing
  <1>3. parent[w] = z /\ w \in Nodes
    BY <1>1, <1>2, UpIs
  <1>4. kind[z] = "dir"
    BY <1>2, <1>3 DEF MountInv, InDirs
  <1>5. w \in Chained /\ name[w] \in Names
    <2>1. Reached(x)
      BY <1>1, DirsReached
    <2> QED BY <1>2, <1>3, <2>1 DEF Reached, First, IInv, Named
  <1>6. ASSUME Emptied(z) PROVE w \in Ghosts
    BY <1>2, <1>3, <1>5, <1>6 DEF Ghosts, Emptied
  <1> QED BY <1>4, <1>6

\* CurrentStays of one step.
LEMMA CurrentStep ==
  ASSUME IInv, MountInv, [Next]_vars, mounted' = mounted,
         NEW x \in Nodes, GetPath(x) = cwd, x \in Dirs, x \notin Dirs',
         \A y \in Way(x) : y \notin Ghosts /\ parent'[y] = parent[y]
  PROVE  FALSE
  <1>1. IInv'
    BY StepInv
  <1>2. \A y \in Way(x) : parent[y] # y =>
          /\ First(parent[y], name[y], y) /\ y \in Nodes /\ parent[y] \in Nodes
          /\ name[y] \in Names
    <2>1. Reached(x) /\ Way(x) \subseteq Nodes
      BY DirsReached, UpType DEF Way
    <2> QED BY <2>1 DEF Reached, IInv, Typing, Named
  <1>3. ASSUME kind'[x] = kind[x]
        PROVE  \E y \in Way(x) : parent[y] # y /\ ~First(parent[y], name[y], y)'
    BY <1>1, <1>3, Lost
  <1>4. x \in Nodes /\ kind[x] = "dir"
    BY DEF Dirs
  \* A step that leaves in place what is found is not the one.
  <1>5. ASSUME kind'[x] = kind[x],
               \A d \in Nodes, n \in Names, y \in Nodes : First(d, n, y) => First(d, n, y)'
        PROVE  FALSE
    <2>1. PICK y \in Way(x) : parent[y] # y /\ ~First(parent[y], name[y], y)'
      BY <1>3, <1>5
    <2>2. PICK d \in Nodes, n \in Names : y \in Nodes /\ First(d, n, y)
      BY <1>2, <2>1
    <2>3. First(d, n, y)'
      BY <1>5, <2>2
    <2> QED BY <2>1, <2>3 DEF First
  <1>6. CASE UNCHANGED <<treeVars, chain, newer>>
    <2>1. kind' = kind
      BY <1>6 DEF treeVars
    <2>2. \A d \in Nodes, n \in Names, y \in Nodes : First(d, n, y) => First(d, n, y)'
      BY <1>6 DEF First, Chained, treeVars
    <2> QED BY <1>5, <2>1, <2>2
  <1>7. ASSUME NEW d \in Dirs, NEW n \in Names, NEW k \in {"dir", "file"}, Mknod(d, n, k)
        PROVE  FALSE
    <2>1. PICK z \in Nodes : CreateNode(z, k, d, n, fs[d])
      BY <1>7 DEF Mknod
    <2>2. d \in Nodes /\ fs[d] \in Nodes /\ n \in AllNames
      BY DirsUsed DEF IInv, Typing
    <2>3. kind[z] = "none" /\ \A y \in Nodes : y # z => kind'[y] = kind[y]
      BY <2>1, <2>2, NewNode
    <2>4. kind'[x] = kind[x]
      BY <1>4, <2>3
    <2> QED BY <1>5, <1>7, <2>4, MknodStep
  <1>8. ASSUME NEW d \in Dirs, NEW n \in Names, NEW z \in Found(d, n),
               Mount(d, n, z) \/ Unmount(d, n, z)
        PROVE  FALSE
    <2>1. z \in Nodes
      BY Entry
    <2>2. mounted'[z] # mounted[z]
      <3>1. CASE Mount(d, n, z)
        BY <2>1, <3>1 DEF Mount, MountInv
      <3>2. CASE Unmount(d, n, z)
        BY <2>1, <3>2 DEF Unmount, MountInv
      <3> QED BY <1>8, <3>1, <3>2
    <2> QED BY <2>2
  \* The entry a call removes is not the current directory, and above it only
  \* if there is a ghost.
  <1>9. ASSUME NEW d \in Dirs, NEW n \in Names, NEW z \in Found(d, n),
               Unlink(d, n, z) \/ Rmdir(d, n, z)
        PROVE  FALSE
    <2>1. z \in Nodes /\ parent[z] # z
      BY Entry
    <2>2. /\ contents' = [contents EXCEPT ![d][n] = None] /\ HashRemove({z})
          /\ UNCHANGED <<nextInode, treeVars>>
      BY <1>9 DEF Unlink, Rmdir
    <2>3. \A e \in Nodes, m \in Names, y \in Nodes : First(e, m, y) /\ y # z => First(e, m, y)'
      BY <2>2, EntryRemoved
    <2>4. z \in Way(x)
      <3> SUFFICES ASSUME z \notin Way(x) PROVE FALSE
        OBVIOUS
      <3>1. kind' = kind
        BY <2>2 DEF treeVars
      <3>2. PICK y \in Way(x) : parent[y] # y /\ ~First(parent[y], name[y], y)'
        BY <1>3, <3>1
      <3>3. PICK e \in Nodes, m \in Names : y \in Nodes /\ First(e, m, y)
        BY <1>2, <3>2
      <3>4. First(e, m, y)'
        BY <2>3, <3>3
      <3> QED BY <3>2, <3>4 DEF First
    <2>5. CASE Unlink(d, n, z)
      <3>1. kind[z] = "file"
        BY <2>5 DEF Unlink
      <3>2. z # x /\ mounted[z] = None
        BY <1>4, <2>1, <3>1 DEF MountInv, OnDirs
      <3> QED BY <2>4, <3>1, <3>2, Between
    <2>6. CASE Rmdir(d, n, z)
      <3>1. z # x /\ mounted[z] = None /\ Emptied(z)
        BY <2>6 DEF Rmdir
      <3> QED BY <2>4, <3>1, Between
    <2> QED BY <1>9, <2>5, <2>6
  <1>10. ASSUME NEW d \in Dirs, NEW n \in Names, NEW z \in Found(d, n), NEW e \in Dirs,
                NEW m \in Names, Rename(d, n, z, e, m)
         PROVE  FALSE
    <2>1. /\ e \in Nodes /\ z \in Nodes /\ parent'[z] = e /\ name'[z] = m /\ kind' = kind
          /\ \A y \in Nodes : y # z => name'[y] = name[y]
      BY <1>10, Moved
    <2>2. PICK y \in Way(x) : parent[y] # y /\ ~First(parent[y], name[y], y)'
      BY <1>3, <2>1
    <2>3. PICK c \in Nodes, k \in Names : y \in Nodes /\ First(c, k, y)
      BY <1>2, <2>2
    <2>4. y # z
      <3>1. First(e, m, z)'
        BY <1>10, RenameStep
      <3> QED BY <2>2, <3>1 DEF First
    <2>5. c = e /\ k = m
      <3> SUFFICES ASSUME ~(c = e /\ k = m) PROVE FALSE
        OBVIOUS
      <3>1. First(c, k, y)'
        BY <1>10, <2>3, <2>4, RenameStep
      <3> QED BY <2>2, <3>1 DEF First
    <2>6. y \in Found(e, m)
      <3>1. Finds(e, m, y)
        BY <2>3, <2>5, FindsFirst DEF IInv
      <3> QED BY <3>1 DEF Found, Finds
    <2>7. /\ kind[y] = kind[z] /\ mounted[y] = None
          /\ kind[y] = "dir" => GetPath(y) # cwd /\ Emptied(y)
      BY <1>10, <2>6 DEF Rename, MayRename, Refused
    <2>8. y # x
      BY <1>4, <2>7
    <2> QED BY <2>7, <2>8, Between
  <1>11. ASSUME NEW d \in Dirs, NEW n \in Names, NEW z \in Found(d, n), NEW e \in Dirs,
                NEW m \in Names, RenameFails(d, n, z, e, m)
         PROVE  FALSE
    <2>1. kind' = kind
      BY <1>11 DEF RenameFails, treeVars
    <2> QED BY <1>5, <1>11, <2>1, RenameFailsStep
  <1>12. ASSUME NEW d \in Dirs, Chdir(d) PROVE FALSE
    BY <1>6, <1>12 DEF Chdir
  <1>13. CASE UNCHANGED vars
    BY <1>6, <1>13 DEF vars
  <1> QED BY <1>7, <1>8, <1>9, <1>10, <1>11, <1>12, <1>13 DEF Next

-----------------------------------------------------------------------------
(* What follows for the behaviours. *)

LEMMA Mounted == Spec => [](IInv /\ MountInv)
  <1>1. IInv /\ MountInv /\ [Next]_vars => MountInv'
    BY MountsKept
  <1> QED BY <1>1, InitMounts, Invariance, PTL DEF Spec

LEMMA InitForgotten == Init => UnmountedIsForgotten /\ LoopsPassDotNames
  <1> SUFFICES ASSUME Init PROVE UnmountedIsForgotten /\ LoopsPassDotNames
    OBVIOUS
  <1>0. Root \in Nodes
    BY FileSystemAssumption
  <1>1. \A x \in Nodes : parent[x] = x /\ fs[x] = x
    BY DEF Init
  <1>2. \A b \in Buckets : chain[b] \subseteq {Root}
    BY DEF Init
  <1>3. Chained \subseteq {Root}
    BY <1>2 DEF Chained
  <1>4. Root \in Mounts(Root)
    BY <1>0, MountsSelf DEF Mounts, MountsBy
  <1>5. UnmountedIsForgotten
    BY <1>0, <1>1, <1>3, <1>4 DEF UnmountedIsForgotten
  <1>6. LoopsPassDotNames
    BY <1>1 DEF LoopsPassDotNames
  <1> QED BY <1>5, <1>6

\* FS.unmount() takes the whole mount, and the mounts inside it, out of
\* FS.nameTable: whatever was created, renamed or mounted before, a node that is
\* in a chain belongs to a mount that can be reached from the root.
THEOREM Forgotten == Spec => []UnmountedIsForgotten
  <1>1. IInv /\ MountInv /\ UnmountedIsForgotten /\ [Next]_vars => UnmountedIsForgotten'
    BY ForgottenKept
  <1> QED BY <1>1, InitForgotten, Mounted, PTL DEF Spec

\* FS.rename() moves a directory below itself only through a name that begins
\* with a dot, which PATH.relative() is taken to mean outside by.
THEOREM LoopsNamed == Spec => []LoopsPassDotNames
  <1>1. IInv /\ MountInv /\ LoopsPassDotNames /\ [Next]_vars => LoopsPassDotNames'
    BY LoopsKept
  <1> QED BY <1>1, InitForgotten, Mounted, PTL DEF Spec

\* FS.unlink(), FS.rmdir() and FS.rename() keep a path to the current directory,
\* unless a ghost is on it or the step moves a directory of it.
THEOREM CurrentKept == Spec => CurrentStays
  <1> DEFINE Stays ==
        mounted' = mounted =>
          \A x \in Nodes :
            PathTo(x) = cwd /\ GetPath(x) = cwd /\ x \in Dirs /\ x \notin Dirs' =>
              \E y \in Way(x) : y \in Ghosts \/ parent'[y] # parent[y]
  <1>1. IInv /\ MountInv /\ [Next]_vars => [Stays]_vars
    <2> SUFFICES ASSUME IInv, MountInv, [Next]_vars, mounted' = mounted,
                        NEW x \in Nodes, GetPath(x) = cwd, x \in Dirs, x \notin Dirs'
                 PROVE  \E y \in Way(x) : y \in Ghosts \/ parent'[y] # parent[y]
      OBVIOUS
    <2> QED BY CurrentStep
  <1> QED BY <1>1, Mounted, PTL DEF Spec, CurrentStays

=============================================================================
