---------------------------- MODULE TreeRequests ----------------------------
(***************************************************************************)
(* One COPY, MOVE or PROPFIND, call by call, while other clients have      *)
(* requests of their own served between its calls.                         *)
(***************************************************************************)
EXTENDS CopyMove, Propfind

CONSTANTS Segments,   \* names of members
          MaxEdits    \* bound on the requests of the other clients

(* Every path there is at the start was made under its parent. *)
ASSUME TreesAssumption ==
  \A t \in Trees :
    /\ DOMAIN t \subseteq Seq(Segments) /\ IsFiniteSet(DOMAIN t) /\ Root \in DOMAIN t
    /\ \A p \in DOMAIN t : \A n \in 0..Len(p) : SubSeq(p, 1, n) \in DOMAIN t
ASSUME RequestsAssumption ==
  Requests \subseteq [method : {"COPY", "MOVE", "PROPFIND"}, src : Seq(Segments),
                      dst : Seq(Segments), overwrite : BOOLEAN, depth : {0, 1, Infinite}]
ASSUME BoundsAssumption == MaxRecursion \in Nat \ {0} /\ MaxEdits \in Nat

VARIABLES edits,    \* requests of other clients so far
          before,   \* the store when the request came
          steady    \* the paths that have kept their identifier since

history == <<edits, before, steady>>
vars == <<storeVars, req, stack, status, replyVars, history>>

FirstCall(r) ==
  CASE r.method = "COPY" -> Call(r.src, r.dst)
    [] r.method = "MOVE" -> [Call(r.src, r.dst) EXCEPT !.at = "move"]
    [] OTHER -> [Node(r.src, FALSE, 0) EXCEPT !.at = "find"]

Init ==
  /\ \E t \in Trees : HoldsFiles(t)
  /\ req \in Requests
  /\ stack = <<FirstCall(req)>>
  /\ status = "none"
  /\ listed = << >> /\ skipped = {} /\ document = "none"
  /\ edits = 0
  /\ before = [tree |-> tree, entry |-> entry]
  /\ steady = DOMAIN tree

(* A call of the request's handler. *)
Serve ==
  /\ \/ (Copy \/ Move) /\ UNCHANGED replyVars
     \/ Walk
  /\ UNCHANGED history

(* Another client's request, whole; its own locks do not concern this one:   *)
(* PROPFIND takes none and COPY none on its source.                        *)
Others ==
  /\ status = "none" /\ edits < MaxEdits
  /\ \/ \E p \in DOMAIN tree, s \in Segments : Mkdir(Append(p, s), "ok")
     \/ \E p \in DOMAIN tree, s \in Segments, b \in Bodies :
          ~Exists(Append(p, s)) /\ Create(Append(p, s), b, "ok")
     \/ \E p \in DOMAIN tree : RemoveAll(p, "ok")
     \/ \E old, p \in DOMAIN tree, s \in Segments :
          /\ ~Exists(Append(p, s)) /\ ~AtOrAbove(old, p)
          /\ Rename(old, Append(p, s), "ok")
  /\ edits' = edits + 1
  /\ steady' = {p \in steady \cap DOMAIN tree' : tree'[p] = before.tree[p]}
  /\ UNCHANGED <<req, stack, status, replyVars, before>>

Answered == status # "none" /\ UNCHANGED vars

Next == Serve \/ Others \/ Answered

Spec == Init /\ [][Next]_vars

(* The handler's goroutine runs on. *)
FairSpec == Spec /\ WF_vars(Serve)

----------------------------------------------------------------------------
(* Properties *)

(* Types, and the limit on copyFiles calling itself: COPY of a directory     *)
(* into itself lists the copy among the members (file.go:671, 675).        *)
TypeOK ==
  /\ Root \in DOMAIN tree
  /\ \A p \in DOMAIN tree : tree[p] \in DOMAIN entry
  /\ \A i \in DOMAIN entry : i < nextID /\ entry[i].dir \in BOOLEAN
  /\ req \in Requests
  /\ req.method = "COPY" => Len(stack) <= MaxRecursion
  /\ (status = "none") = (stack # << >>)
  /\ document \in {"none", "open", "closed"}
  /\ steady \subseteq DOMAIN before.tree

Overlap == AtOrAbove(req.src, req.dst) \/ AtOrAbove(req.dst, req.src)
Succeeded == status \in {"Created", "NoContent"}

now == [tree |-> tree, entry |-> entry]

(* Whether a path is a directory. *)
Kind(s, p) == s.entry[s.tree[p]].dir

(* The paths that can be come to by listing directories from top down.     *)
Listable(s, top) ==
  {p \in DOMAIN s.tree :
     /\ AtOrAbove(top, p)
     /\ \A n \in Len(top)..(Len(p) - 1) :
          SubSeq(p, 1, n) \in DOMAIN s.tree /\ Kind(s, SubSeq(p, 1, n))}

(* A COPY that succeeds with nobody else about and no part of one path in    *)
(* the other makes the destination what the source is, member for member,   *)
(* and changes nothing else; 201 says there was nothing there.             *)
CopyExact ==
  req.method = "COPY" /\ Succeeded /\ edits = 0 /\ ~Overlap =>
    LET copied == {p \in Listable(before, req.src) : req.depth = Infinite \/ p = req.src}
        kept   == {p \in DOMAIN before.tree : ~AtOrAbove(req.dst, p)}
    IN  /\ DOMAIN tree = kept \cup {Rebase(p, req.src, req.dst) : p \in copied}
        /\ \A p \in copied : Kind(now, Rebase(p, req.src, req.dst)) = Kind(before, p)
        /\ \A p \in kept : tree[p] = before.tree[p] /\ entry[tree[p]] = before.entry[tree[p]]
        /\ (status = "Created") = (req.dst \notin DOMAIN before.tree)

(* copyFiles "copies files": a file's copy has the content of the file. *)
CopyKeepsBodies ==
  req.method = "COPY" /\ Succeeded /\ edits = 0 /\ ~Overlap /\ ~Kind(before, req.src) =>
    entry[tree[req.dst]].body = before.entry[before.tree[req.src]].body

(* Whatever fails between its calls, a MOVE loses no part of what it moves:  *)
(* with nobody else about, a file, or a directory and all under it, keep    *)
(* their identifiers and items: where they were if the MOVE fails; if it    *)
(* succeeds, under the destination, with nothing else there.               *)
MoveExact ==
  req.method = "MOVE" /\ edits = 0 /\ ~Overlap =>
    LET source == {p \in DOMAIN before.tree :
                     p = req.src \/ (Above(req.src, p) /\ Kind(before, req.src))}
        Held(p, q) == Exists(q) /\ tree[q] = before.tree[p] /\ tree[q] \in DOMAIN entry
    IN  IF Succeeded
        THEN /\ \A p \in source : Held(p, Rebase(p, req.src, req.dst)) /\ ~Exists(p)
             /\ {q \in DOMAIN tree : AtOrAbove(req.dst, q)}
                   = {Rebase(p, req.src, req.dst) : p \in source}
        ELSE \A p \in source : Held(p, p)

(* A PROPFIND that fails or sees files come and go never sends a response    *)
(* that is whole and incomplete: when the multistatus element is closed and *)
(* nothing is written behind it, each file within the depth that was there *)
(* all the time has its response, or was left out on purpose.              *)
Due ==
  {p \in Listable(now, req.src) :
     /\ req.depth = Infinite \/ Len(p) <= Len(req.src) + req.depth
     /\ \A q \in DOMAIN tree : AtOrAbove(req.src, q) /\ AtOrAbove(q, p) => q \in steady \ skipped}

WholeMeansComplete ==
  document = "closed" /\ ~TextBehindDocument => Due \subseteq ToSet(listed)

(* A file has at most one response, behind that of its directory. *)
ListedInOrder ==
  \A i, j \in DOMAIN listed :
    /\ i # j => listed[i] # listed[j]
    /\ Above(listed[i], listed[j]) => i < j

(* A COPY changes nothing outside its destination, a MOVE nothing outside    *)
(* its two paths, and a PROPFIND nothing, even when they fail on the way.  *)
Elsewhere(p) ==
  /\ req.method = "COPY" => ~AtOrAbove(req.dst, p)
  /\ req.method = "MOVE" => ~AtOrAbove(req.dst, p) /\ ~AtOrAbove(req.src, p)

OnlyItsPaths ==
  [][edits' = edits =>
       \A p \in DOMAIN tree \cup DOMAIN tree' :
         Elsewhere(p) => Exists(p) /\ p \in DOMAIN tree' /\ tree'[p] = tree[p]
                         /\ entry'[tree[p]] = entry[tree[p]]]_vars

(* Every request is answered, into whatever it copies. *)
RequestEnds == <>(status # "none")
=============================================================================
