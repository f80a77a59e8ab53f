------------------------------ MODULE Propfind ------------------------------
(***************************************************************************)
(* PROPFIND: handlePropfind, walkFS and what the multistatus writer has    *)
(* sent (webdav.go, file.go, xml.go).  The response is streamed: its       *)
(* status line goes with the first file, before the others are looked at.  *)
(***************************************************************************)
EXTENDS Traversal

VARIABLES listed,    \* the files with a response in the body so far
          skipped,   \* the files left out of it on purpose
          document   \* the multistatus element: "none", "open" or "closed"

replyVars == <<listed, skipped, document>>

Node(name, dir, depth) ==
  [at |-> "visit", name |-> name, dir |-> dir, depth |-> depth, handle |-> << >>, todo |-> {}]

(* The multistatus writer's close; nothing to close where nothing is open. *)
CloseDocument == document' = IF document = "open" THEN "closed" ELSE document

(* walkFS returns an error, whatever it is: 500. *)
Abort ==
  /\ Fail("InternalServerError")
  /\ CloseDocument /\ UNCHANGED <<listed, skipped>>

(* walkFS returns nil, to the loop that called it or to the handler, whose   *)
(* status 0 says that the response is written.                             *)
Walked ==
  /\ Return("Written")
  /\ IF Len(stack) = 1 THEN CloseDocument ELSE UNCHANGED document

(* The handler asks for the file before it reads its headers and body. *)
WalkFind ==
  /\ At("find")
  /\ UNCHANGED replyVars
  /\ \E result \in Results :
       /\ Stat(req.src, result)
       /\ CASE result = "ok" -> Continue(Node(req.src, IsDir(req.src), req.depth))
            [] result = "notexist" -> Fail("NotFound")
            [] OTHER -> Fail("MethodNotAllowed")

(* walkFn: props opens the file, and write sends its response.  A *PathError *)
(* leaves the file out.  The calls of OpenFile that propnames, props and    *)
(* findContentType make are one here.                                      *)
WalkVisit ==
  /\ At("visit")
  /\ \E result \in Results :
       /\ OpenFile(Top.name, result)
       /\ CASE result = "ok" ->
                 /\ listed' = Append(listed, Top.name)
                 /\ UNCHANGED skipped
                 /\ IF Top.dir /\ Top.depth # 0
                    THEN Continue([Top EXCEPT !.at = "enter"]) /\ document' = "open"
                    ELSE /\ Return("Written")
                         /\ document' = IF Len(stack) = 1 THEN "closed" ELSE "open"
            [] result = "path" ->
                 /\ Walked
                 /\ skipped' = skipped \cup {Top.name} /\ UNCHANGED listed
            [] OTHER -> Abort

(* The directory is opened again, to be read.  SkipDir, which a *PathError   *)
(* becomes, is for the loop above; at the root of the walk there is none.   *)
WalkEnter ==
  /\ At("enter")
  /\ \E result \in Results :
       /\ OpenFile(Top.name, result)
       /\ CASE result = "ok" -> /\ Continue([Top EXCEPT !.at = "list", !.handle = Handle(Top.name)])
                                /\ UNCHANGED replyVars
            [] result = "path" /\ Len(stack) > 1 -> Return("Written") /\ UNCHANGED replyVars
            [] OTHER -> Abort

(* Mutant: a directory that cannot be read passes for an empty one. *)
WalkListIgnoresError ==
  /\ At("list")
  /\ UNCHANGED <<storeVars, replyVars>>
  /\ \E names \in {Members(Top.handle), {}} :
       Continue([Top EXCEPT !.at = "members", !.todo = names])

WalkList ==
  /\ At("list")
  /\ UNCHANGED storeVars
  /\ \/ Continue([Top EXCEPT !.at = "members", !.todo = Members(Top.handle)])
        /\ UNCHANGED replyVars
     \/ Abort

DepthBelow(depth) == IF depth = 1 THEN 0 ELSE depth

(* Mutant: a member that is gone is asked for again. *)
WalkMemberRetries ==
  /\ At("members")
  /\ \/ Top.todo = {} /\ Walked /\ UNCHANGED <<storeVars, listed, skipped>>
     \/ \E name \in Top.todo, result \in Results \ {"failed"} :
          LET path == Append(Top.name, name)
          IN  /\ Stat(path, result)
              /\ IF result = "ok"
                 THEN /\ Enter([Top EXCEPT !.todo = @ \ {name}],
                               Node(path, IsDir(path), DepthBelow(Top.depth)))
                      /\ UNCHANGED replyVars
                 ELSE UNCHANGED <<stack, status, replyVars>>

(* Mutant: the member stays on the list. *)
WalkMemberStays ==
  /\ At("members")
  /\ \/ Top.todo = {} /\ Walked /\ UNCHANGED <<storeVars, listed, skipped>>
     \/ \E name \in Top.todo, result \in Results :
          LET path == Append(Top.name, name)
          IN  /\ Stat(path, result)
              /\ IF result = "ok"
                 THEN /\ Enter(Top, Node(path, IsDir(path), DepthBelow(Top.depth)))
                      /\ UNCHANGED replyVars
                 ELSE Abort

(* Each member is asked for by name before walkFS is called for it.  What a  *)
(* member that is gone leaves is an error for walkFn.                      *)
WalkMember ==
  /\ At("members")
  /\ \/ Top.todo = {} /\ Walked /\ UNCHANGED <<storeVars, listed, skipped>>
     \/ \E name \in Top.todo, result \in Results :
          LET path == Append(Top.name, name)
          IN  /\ Stat(path, result)
              /\ IF result = "ok"
                 THEN /\ Enter([Top EXCEPT !.todo = @ \ {name}],
                               Node(path, IsDir(path), DepthBelow(Top.depth)))
                      /\ UNCHANGED replyVars
                 ELSE Abort

Walk == WalkFind \/ WalkVisit \/ WalkEnter \/ WalkList \/ WalkMember

(* ServeHTTP writes the text of a status that is not 0 behind what was sent. *)
TextBehindDocument == document = "closed" /\ status # "Written"
=============================================================================
