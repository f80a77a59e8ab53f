------------------------------- MODULE OsTree -------------------------------
(***************************************************************************)
(* The tree of named files that a FileSystem shows its callers: "Each      *)
(* method has the same semantics as the os package's function of the same  *)
(* name" (webdav/file.go:33-37).  Names are looked up in a map from paths  *)
(* to files; how a file finds its members is not part of it.  What a       *)
(* Rename replaces is left to the system by the same comment: a file       *)
(* replaces whatever is there, a directory an empty directory.             *)
(***************************************************************************)
EXTENDS PathMap

CONSTANTS Names,   \* the paths of the calls
          Files    \* identities of files and directories, never used again

VARIABLES tree,     \* the file at each path that exists
          dirs,     \* the files that are directories
          outcome   \* the error of the last call, or "ok"

Member(path) == path # Root /\ Parent(path) \in DOMAIN tree /\ tree[Parent(path)] \in dirs

(* The error of a path whose parent is not a directory: the first component  *)
(* that does not lead on is missing, or is a file.                         *)
LookupError(path) ==
  IF \E n \in 1..(Len(path) - 1) :
       SubSeq(path, 1, n) \in DOMAIN tree /\ tree[SubSeq(path, 1, n)] \notin dirs
  THEN "invalid" ELSE "notexist"

Refused(error) == outcome' = error /\ UNCHANGED <<tree, dirs>>

Unused(f) == f \notin dirs /\ \A q \in DOMAIN tree : tree[q] # f

Mkdir(path) ==
  \/ /\ Member(path) /\ path \notin DOMAIN tree
     /\ outcome' = "ok"
     /\ \E f \in Files :
          /\ Unused(f)
          /\ tree' = Linked(tree, path, f) /\ dirs' = dirs \cup {f}
  \/ Member(path) /\ path \in DOMAIN tree /\ Refused("exist")
  \/ path # Root /\ ~Member(path) /\ Refused(LookupError(path))
  \/ path = Root /\ Refused("invalid")

Stat(path) ==
  \/ path \in DOMAIN tree /\ Refused("ok")
  \/ Member(path) /\ path \notin DOMAIN tree /\ Refused("notexist")
  \/ path # Root /\ ~Member(path) /\ Refused(LookupError(path))

(* A file that is opened is there, or is made; whether it may be depends on  *)
(* the flags.                                                              *)
Open(path) ==
  \/ Stat(path)
  \/ /\ Member(path) /\ path \notin DOMAIN tree
     /\ outcome' = "ok" /\ UNCHANGED dirs
     /\ \E f \in Files : Unused(f) /\ tree' = Linked(tree, path, f)
  \/ Member(path) /\ path \in DOMAIN tree /\ Refused("exist")
  \/ path = Root /\ Refused("permission")
  \/ Member(path) /\ Refused("invalid")

RemoveAll(path) ==
  \/ Member(path) /\ outcome' = "ok" /\ UNCHANGED dirs /\ tree' = Without(tree, path)
  \/ path # Root /\ ~Member(path) /\ Refused(LookupError(path))
  \/ path = Root /\ Refused("invalid")

(* What the new path had goes, save for what moves there from under it. *)
Replaced(old, new) ==
  MovedTree(Restrict(tree, {q \in DOMAIN tree : AtOrAbove(old, q) \/ ~AtOrAbove(new, q)}),
            old, new)

Rename(old, new) ==
  \/ old = new /\ Refused("ok")
  \/ Above(old, new) /\ Refused("invalid")
  \/ /\ ~AtOrAbove(old, new)
     /\ \/ /\ Member(old) /\ Member(new) /\ old \in DOMAIN tree
           /\ \/ /\ tree[old] \notin dirs \/ new \notin DOMAIN tree
                      \/ (tree[new] \in dirs /\ \A q \in DOMAIN tree : ~Above(new, q))
                 /\ outcome' = "ok" /\ UNCHANGED dirs
                 /\ tree' = Replaced(old, new)
              \/ /\ tree[old] \in dirs /\ new \in DOMAIN tree
                 /\ IF tree[new] \in dirs
                    THEN (\E q \in DOMAIN tree : Above(new, q)) /\ Refused("notempty")
                    ELSE Refused("notdir")
        \/ Member(old) /\ Member(new) /\ old \notin DOMAIN tree /\ Refused("notexist")
        \/ old # Root /\ ~Member(old) /\ Refused(LookupError(old))
        \/ Member(old) /\ new # Root /\ ~Member(new) /\ Refused(LookupError(new))
        \/ Member(old) /\ new = Root /\ Refused("invalid")

TreeInit ==
  /\ \E f \in Files : tree = [q \in {Root} |-> f] /\ dirs = {f}
  /\ outcome = "ok"

TreeNext ==
  \/ \E path \in Names : Stat(path) \/ Open(path) \/ Mkdir(path) \/ RemoveAll(path)
  \/ \E old, new \in Names : Rename(old, new)

TreeSpec == TreeInit /\ [][TreeNext]_<<tree, dirs, outcome>>
=============================================================================
