----------------------------- MODULE Namespace -----------------------------
(***************************************************************************)
(* What the metadata store promises whatever its callers do at the same    *)
(* time: the map of paths changes by whole edits, one at a time, each of   *)
(* them an edit of the map as it is at that moment.  How many reads, mutex *)
(* operations and conditional writes an edit takes is not part of it.      *)
(***************************************************************************)
EXTENDS PathMap

CONSTANTS Names, IDs

VARIABLE tree   \* the identifier of each path that exists

TreeInit == \E id \in IDs : tree = [q \in {Root} |-> id]

(* A path gets an identifier that no path has.  Neither that its parent    *)
(* exists nor that the path is free is promised: the caller looked at an   *)
(* earlier map.                                                            *)
Link ==
  \E path \in Names \ {Root}, id \in IDs :
    /\ \A q \in DOMAIN tree : tree[q] # id
    /\ tree' = Linked(tree, path, id)

Drop == \E path \in DOMAIN tree \ {Root} : tree' = Without(tree, path)

(* What moves exists, and so does the directory it moves to. *)
Move ==
  \E old \in DOMAIN tree \ {Root}, new \in Names \ {Root} :
    /\ Parent(new) \in DOMAIN tree
    /\ ~AtOrAbove(old, new)
    /\ tree' \in {MovedAlone(tree, old, new), MovedTree(tree, old, new)}

TreeNext == Link \/ Drop \/ Move

TreeSpec == TreeInit /\ [][TreeNext]_tree
=============================================================================
