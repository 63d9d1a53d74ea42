--------------------------- MODULE MCFileSystem ---------------------------
EXTENDS FileSystem

\* Like FS.hashName(): the id of the directory plus a number for the name,
\* modulo the size of the table, so that chains are shared and mixed.
MCHash ==
  [p \in (1..MaxNodes) \X (Names \cup {Slash}) |->
     (p[1] + IF p[2] \in DotNames THEN 1 ELSE IF p[2] = Slash THEN 2 ELSE 0) % 2]
=============================================================================
