----------------------------- MODULE RenameLoop -----------------------------
(***************************************************************************)
(* The loop of Rename over the map it edits (awsfs/rename.go:40-51).       *)
(*                                                                         *)
(* A range over a Go map comes to the keys in any order.  A key that is    *)
(* deleted before the loop comes to it is not visited; a key that is added *)
(* meanwhile may be visited or not.  Each path has itself for identifier,  *)
(* so that the map shows where everything went.                            *)
(***************************************************************************)
EXTENDS PathNames

CONSTANT MaxLength   \* bound on the length of the paths that the loop makes

ASSUME LengthAssumption == MaxLength \in Nat

VARIABLES mapBefore,          \* the map that was read
          oldPath, newPath,   \* the arguments
          mapNow,             \* the map that is edited
          toVisit             \* the keys the loop will still visit

loopVars == <<mapBefore, oldPath, newPath, mapNow, toVisit>>

Under(m, path) == {k \in DOMAIN m : Above(path, k)}

(* The maps Mkdir, Create, RemoveAll and Rename make of one another. *)
Trees == {[q \in D |-> q] : D \in {E \in SUBSET Names : Rooted(E)}}

LoopStart ==
  /\ mapBefore \in Trees
  /\ oldPath \in DOMAIN mapBefore \ {Root}
  /\ newPath \in Names \ {Root, oldPath} /\ Parent(newPath) \in DOMAIN mapBefore
  /\ mapNow = MovedAlone(mapBefore, oldPath, newPath)
  /\ toVisit = Under(mapNow, oldPath)

(* Mutant: the key that was visited is not deleted. *)
VisitKeepsKey(k) ==
  LET moved == Rebase(k, oldPath, newPath)
  IN  /\ k \in toVisit
      /\ mapNow' = Linked(mapNow, moved, mapNow[k])
      /\ toVisit' = toVisit \ {k}
      /\ UNCHANGED <<mapBefore, oldPath, newPath>>

(* One round: the key goes, its value comes back under the new path. *)
Visit(k) ==
  LET moved == Rebase(k, oldPath, newPath)
      after == Linked(Restrict(mapNow, DOMAIN mapNow \ {k}), moved, mapNow[k])
  IN  /\ k \in toVisit
      /\ mapNow' = after
      /\ toVisit' \in {toVisit \ {k}}
           \cup (IF Above(oldPath, moved) /\ Len(moved) <= MaxLength
                 THEN {(toVisit \ {k}) \cup {moved}} ELSE {})
      /\ UNCHANGED <<mapBefore, oldPath, newPath>>

Done == toVisit = {}

LoopNext == (\E k \in toVisit : Visit(k)) \/ (Done /\ UNCHANGED loopVars)

LoopSpec == LoopStart /\ [][LoopNext]_loopVars

-----------------------------------------------------------------------------
(* Properties *)

\* As long as nothing moves to below the old path, the order of the visits does
\* not matter: the loop ends with the map that MovedTree says, the one AwsFS
\* writes.
LoopIsMovedTree ==
  Done /\ MovesAway(DOMAIN mapBefore, oldPath, newPath) =>
    mapNow = MovedTree(mapBefore, oldPath, newPath)
=============================================================================
