------------------------------ MODULE CopyMove ------------------------------
(***************************************************************************)
(* COPY and MOVE: handleCopyMove once its headers are read and the locks   *)
(* confirmed (webdav.go:301-374), copyFiles and moveFiles (file.go).  Each *)
(* step is one call of the file system and what is done with its result.  *)
(* A directory is copied by a call of copyFiles for each of its members:   *)
(* "stack" holds the calls under way, the innermost last.                  *)
(***************************************************************************)
EXTENDS Traversal

CONSTANT MaxRecursion   \* the 1000 of file.go:671

Call(src, dst) ==
  [at |-> "open", src |-> src, dst |-> dst, handle |-> << >>, created |-> FALSE, todo |-> {}]

(* 201 for a destination that is new, 204 for one that was replaced. *)
Success == IF Top.created THEN "Created" ELSE "NoContent"

(* The handle is read, and Stat of the handle asks the item it holds. *)
CopyOpen ==
  /\ At("open")
  /\ \E result \in Results :
       /\ OpenFile(Top.src, result)
       /\ CASE result = "ok" -> Continue([Top EXCEPT !.at = "stat", !.handle = Handle(Top.src)])
            [] result = "notexist" -> Fail("NotFound")
            [] OTHER -> Fail("InternalServerError")

CopyStat ==
  /\ At("stat")
  /\ \E result \in Results :
       /\ Stat(Top.dst, result)
       /\ CASE result = "notexist" -> Continue([Top EXCEPT !.at = "make", !.created = TRUE])
            [] result = "ok" /\ req.overwrite -> Continue([Top EXCEPT !.at = "remove"])
            [] result = "ok" /\ ~req.overwrite -> Fail("PreconditionFailed")
            [] OTHER -> Fail("Forbidden")

CopyRemove ==
  /\ At("remove")
  /\ \E result \in Results :
       /\ RemoveAll(Top.dst, result)
       /\ IF result \in {"ok", "notexist"}
          THEN Continue([Top EXCEPT !.at = "make"])
          ELSE Fail("Forbidden")

(* A directory at depth 0 is copied without its members. *)
CopyMkdir ==
  /\ At("make") /\ Top.handle.dir
  /\ \E result \in Results :
       /\ Mkdir(Top.dst, result)
       /\ CASE result = "ok" /\ req.depth = Infinite -> Continue([Top EXCEPT !.at = "readdir"])
            [] result = "ok" /\ req.depth # Infinite -> Return(Success)
            [] OTHER -> Fail("Forbidden")

(* The new file takes what is left to read of the old one. *)
CopyCreate ==
  /\ At("make") /\ ~Top.handle.dir
  /\ \E result \in Results :
       /\ Create(Top.dst, Top.handle.rest, result)
       /\ CASE result = "ok" -> Return(Success)
            [] result = "notexist" -> Fail("Conflict")
            [] OTHER -> Fail("Forbidden")

(* Mutant: the members of the destination are copied. *)
CopyListDestination ==
  /\ At("readdir")
  /\ UNCHANGED storeVars
  /\ \/ Fail("Forbidden")
     \/ Continue([Top EXCEPT !.at = "children", !.todo = Members(Handle(Top.dst))])

(* The members are listed once the destination is there. *)
CopyList ==
  /\ At("readdir")
  /\ UNCHANGED storeVars
  /\ \/ Fail("Forbidden")
     \/ Continue([Top EXCEPT !.at = "children", !.todo = Members(Top.handle)])

(* Mutant: the recursion has no limit. *)
CopyMemberUnlimited ==
  /\ At("children")
  /\ UNCHANGED storeVars
  /\ \/ Top.todo = {} /\ Return(Success)
     \/ \E name \in Top.todo :
          Enter([Top EXCEPT !.todo = @ \ {name}],
                Call(Append(Top.src, name), Append(Top.dst, name)))

(* Mutant: source and destination change places for the members. *)
CopyMemberSwapped ==
  /\ At("children")
  /\ UNCHANGED storeVars
  /\ \/ Top.todo = {} /\ Return(Success)
     \/ \E name \in Top.todo :
          IF Len(stack) = MaxRecursion
          THEN Fail("InternalServerError")
          ELSE Enter([Top EXCEPT !.todo = @ \ {name}],
                     Call(Append(Top.dst, name), Append(Top.src, name)))

CopyMember ==
  /\ At("children")
  /\ UNCHANGED storeVars
  /\ \/ Top.todo = {} /\ Return(Success)
     \/ \E name \in Top.todo :
          IF Len(stack) = MaxRecursion
          THEN Fail("InternalServerError")
          ELSE Enter([Top EXCEPT !.todo = @ \ {name}],
                     Call(Append(Top.src, name), Append(Top.dst, name)))

Copy == CopyOpen \/ CopyStat \/ CopyRemove \/ CopyMkdir \/ CopyCreate \/ CopyList \/ CopyMember

(* Mutant: the destination is not removed first. *)
MoveStatKeeps ==
  /\ At("move")
  /\ \E result \in Results :
       /\ Stat(Top.dst, result)
       /\ CASE result = "notexist" -> Continue([Top EXCEPT !.at = "rename", !.created = TRUE])
            [] result = "ok" /\ req.overwrite -> Continue([Top EXCEPT !.at = "rename"])
            [] result = "ok" /\ ~req.overwrite -> Fail("PreconditionFailed")
            [] OTHER -> Fail("Forbidden")

MoveStat ==
  /\ At("move")
  /\ \E result \in Results :
       /\ Stat(Top.dst, result)
       /\ CASE result = "notexist" -> Continue([Top EXCEPT !.at = "rename", !.created = TRUE])
            [] result = "ok" /\ req.overwrite -> Continue([Top EXCEPT !.at = "clear"])
            [] result = "ok" /\ ~req.overwrite -> Fail("PreconditionFailed")
            [] OTHER -> Fail("Forbidden")

MoveRemove ==
  /\ At("clear")
  /\ \E result \in Results :
       /\ RemoveAll(Top.dst, result)
       /\ IF result = "ok" THEN Continue([Top EXCEPT !.at = "rename"])
                           ELSE Fail("Forbidden")

MoveRename ==
  /\ At("rename")
  /\ \E result \in Results :
       /\ Rename(Top.src, Top.dst, result)
       /\ IF result = "ok" THEN Return(Success) ELSE Fail("Forbidden")

Move == MoveStat \/ MoveRemove \/ MoveRename
=============================================================================
