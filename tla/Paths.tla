------------------------------- MODULE Paths -------------------------------
(***************************************************************************)
(* Resource names as sequences of path segments: "/" is <<>>, "/a/b" is    *)
(* <<"a", "b">>.  Every name the code compares has been through slashClean *)
(* (webdav/file.go:19-24), so a sequence loses nothing, and the string     *)
(* test HasPrefix(name, root + "/") is a prefix test on sequences.         *)
(***************************************************************************)
EXTENDS Naturals, Sequences

Root == << >>

(* p is q itself or one of its ancestors. *)
AtOrAbove(p, q) ==
  /\ Len(p) <= Len(q)
  /\ \A i \in 1..Len(p) : p[i] = q[i]

(* p is a proper ancestor of q: strings.HasPrefix(q, p + "/"). *)
Above(p, q) == AtOrAbove(p, q) /\ p # q

(* path.Dir; the parent of the root is the root. *)
Parent(p) == IF p = Root THEN Root ELSE SubSeq(p, 1, Len(p) - 1)

(* What is left of q once its prefix p is replaced by r: strings.Replace   *)
(* and strings.TrimPrefix on names.                                        *)
Rebase(q, p, r) == r \o SubSeq(q, Len(p) + 1, Len(q))

(* A set of names that holds the parents of its members, up to the root. *)
Rooted(names) ==
  /\ Root \in names
  /\ \A p \in names : Parent(p) \in names
=============================================================================
