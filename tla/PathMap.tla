------------------------------ MODULE PathMap ------------------------------
(***************************************************************************)
(* The map from paths to identifiers that a file system call reads, edits  *)
(* in memory and writes back (Reference.Entries, awsfs/fs.go:30-34), as a  *)
(* function whose domain is the set of paths that exist.                   *)
(***************************************************************************)
EXTENDS Paths, Functions

(* path.Base; the base of the root is "/". *)
Base(p) == IF p = Root THEN "/" ELSE p[Len(p)]

(* AddEntry's edit: one path gets an identifier (awsfs/metadata.go:192). *)
Linked(m, path, id) == [q \in DOMAIN m \cup {path} |-> IF q = path THEN id ELSE m[q]]

(* RemoveAll's edit: a path goes with all that is under it                 *)
(* (awsfs/remove.go:24-30).                                                *)
Without(m, path) == Restrict(m, {q \in DOMAIN m : ~AtOrAbove(path, q)})

(* Rename's edit for a file: the path alone moves (awsfs/rename.go:40-41). *)
MovedAlone(m, old, new) == Linked(Restrict(m, DOMAIN m \ {old}), new, m[old])

(* No path that goes from under old to under new comes to lie under old    *)
(* again.                                                                  *)
MovesAway(paths, old, new) ==
  \A q \in paths : AtOrAbove(old, q) => ~Above(old, Rebase(q, old, new))

(* Rename's edit for a directory: the paths under it move too              *)
(* (awsfs/rename.go:40-51), in whatever order the loop finds them;         *)
(* RenameLoop is that loop, and the order tells unless MovesAway.  What    *)
(* was under the new path and is not replaced stays.                       *)
MovedTree(m, old, new) ==
  LET source(q) == Rebase(q, new, old)   \* the path that q was before
      moved     == {Rebase(q, old, new) : q \in {r \in DOMAIN m : AtOrAbove(old, r)}}
      kept      == {q \in DOMAIN m : ~AtOrAbove(old, q)}
  IN  [q \in kept \cup moved |-> IF q \in moved THEN m[source(q)] ELSE m[q]]
=============================================================================
