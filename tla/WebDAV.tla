------------------------------- MODULE WebDAV -------------------------------
(***************************************************************************)
(* The handlers of webdav/webdav.go that write, each a goroutine that      *)
(* calls the LockSystem and the FileSystem of one process.  Each call is a *)
(* step; what the handler does between two calls belongs to the one        *)
(* before.                                                                 *)
(*                                                                         *)
(* The lock system is the table that LockTable promises and MemLS keeps.   *)
(* At most one lock covers a name, so the order of the tokens in one list  *)
(* of an If header does not matter; the order of its lists does.  The file *)
(* system is what FileSystem promises: a method is done at once, or it     *)
(* fails, or it is done and seems to have failed.  What a handler answers  *)
(* is left out but for LOCK's, which tells its client a token or not.     *)
(***************************************************************************)
EXTENDS PathMap

CONSTANTS Names,     \* the resources a request can name
          Segments,  \* the segments their names are made of
          Requests,  \* what can serve one request at a time
          Tokens,    \* the tokens of the locks clients ask for
          Methods,   \* the methods the clients use
          Several,   \* those they send with an If header of two lists
          Stores,    \* the collections there are at the start, one set of them each
          Bodies     \* the bodies of files, the empty one among them

ASSUME NamesAssumption == Names \subseteq Seq(Segments) /\ Rooted(Names)
ASSUME BodiesAssumption == "empty" \in Bodies
ASSUME StoresAssumption == \A S \in Stores : S \subseteq Names /\ Rooted(S)

(* The token of a temporary lock is known to its request only. *)
Temporary(r) == {<<r, "src">>, <<r, "dst">>}

ASSUME TokensAssumption == \A r \in Requests : Tokens \cap Temporary(r) = {}

VARIABLES locks,  \* the live locks, by token
          files,  \* the resources there are, by name
          req     \* where the handler of each request is

vars == <<locks, files, req>>

AllTokens == Tokens \cup UNION {Temporary(r) : r \in Requests}
Lock      == [root : Names, zeroDepth : BOOLEAN, held : BOOLEAN]
File      == [dir : BOOLEAN, body : Bodies, patched : BOOLEAN]

Stages == {"done", "lockSrc", "lockDst", "undoSrc", "confirm", "stat", "remove", "act",
           "releaseDst", "release", "lock", "lockStat", "lockCreate", "lockUndo"}

Request == [at : Stages, method : Methods \cup {"none"}, src : Names,
            dst : SUBSET Names,            \* MOVE's destination, or none
            option : BOOLEAN,              \* MOVE's Overwrite: T, LOCK's Depth: 0
            ifTokens : SUBSET Tokens,      \* the tokens of the If header
            lists : Seq(SUBSET Tokens),    \* those of its lists not looked at yet
            own : SUBSET Tokens,           \* the locks Confirm held, the lock LOCK made
            refused : BOOLEAN]             \* LOCK's answer: an error

Goto(r, stage) == req' = [req EXCEPT ![r].at = stage]

(* The handler returns; what it deferred has been done. *)
Answer(r, refused) ==
  req' = [req EXCEPT ![r] = [at |-> "done", method |-> "none", src |-> Root, dst |-> {},
                             option |-> FALSE, ifTokens |-> {}, lists |-> << >>, own |-> {},
                             refused |-> refused]]

(* Mutant: the release function knows of the source only. *)
LeaveSrc(r) == Goto(r, "release")

(* The handler goes on to its deferred release, whatever it will answer. *)
Leave(r) ==
  Goto(r, IF req[r].ifTokens # {} \/ req[r].dst = {} THEN "release" ELSE "releaseDst")

NamedBy(r) == {req[r].src} \cup req[r].dst

-----------------------------------------------------------------------------
(* The calls of the lock system *)

Covers(lock, p) ==
  \/ p = lock.root
  \/ ~lock.zeroDepth /\ AtOrAbove(lock.root, p)

NewLock(root, zeroDepth) == [root |-> root, zeroDepth |-> zeroDepth, held |-> FALSE]

(* Create refuses a lock that would cover a resource another one covers. *)
Lockable(root, zeroDepth) ==
  \A t \in DOMAIN locks :
    ~ \E p \in Names : Covers(locks[t], p) /\ Covers(NewLock(root, zeroDepth), p)

(* Unlock removes a lock that is live and not held, Refresh sets its time. *)
Unlockable(t) == t \in DOMAIN locks /\ ~locks[t].held

Drop(t) == IF Unlockable(t) THEN Restrict(locks, DOMAIN locks \ {t}) ELSE locks

SetHeld(T, h) ==
  [t \in DOMAIN locks |-> [locks[t] EXCEPT !.held = IF t \in T THEN h ELSE @]]

(* Mutant: a lock that is held can be claimed again. *)
ClaimableTwice(p, tokens) == {t \in tokens \cap DOMAIN locks : Covers(locks[t], p)}

(* What Confirm would hold for a name: the lock on it, if its token was    *)
(* presented and nobody holds it.                                          *)
Claimable(p, tokens) ==
  {t \in tokens \cap DOMAIN locks : ~locks[t].held /\ Covers(locks[t], p)}

(* The time of a lock that a client asked for runs out, unless it is held. *)
Lapse(t) ==
  /\ Unlockable(t)
  /\ locks' = Drop(t)
  /\ UNCHANGED <<files, req>>

-----------------------------------------------------------------------------
(* confirmLocks: without an If header, a temporary lock of zero depth on   *)
(* each resource that is named                                             *)

Start(r, method, src, dst, option, lists) ==
  /\ req[r].at = "done"
  /\ req' = [req EXCEPT ![r] =
               [at |-> IF method = "LOCK" THEN "lock"
                       ELSE IF lists = << >> THEN "lockSrc" ELSE "confirm",
                method |-> method, src |-> src, dst |-> dst, option |-> option,
                ifTokens |-> UNION {lists[i] : i \in DOMAIN lists}, lists |-> lists, own |-> {},
                refused |-> FALSE]]
  /\ UNCHANGED <<locks, files>>

FirstStage(r) ==
  IF req[r].method \in {"PUT", "MKCOL"} THEN "act" ELSE "stat"

LockSrc(r) ==
  /\ req[r].at = "lockSrc"
  /\ IF Lockable(req[r].src, TRUE)
     THEN /\ locks' = Linked(locks, <<r, "src">>, NewLock(req[r].src, TRUE))
          /\ Goto(r, IF req[r].dst = {} THEN FirstStage(r) ELSE "lockDst")
     ELSE Answer(r, FALSE) /\ UNCHANGED locks
  /\ UNCHANGED files

LockDst(r) ==
  /\ req[r].at = "lockDst"
  /\ \E dst \in req[r].dst :
       IF Lockable(dst, TRUE)
       THEN /\ locks' = Linked(locks, <<r, "dst">>, NewLock(dst, TRUE))
            /\ Goto(r, FirstStage(r))
       ELSE Goto(r, "undoSrc") /\ UNCHANGED locks
  /\ UNCHANGED files

(* Mutant: the lock on the source is forgotten. *)
UndoNothing(r) ==
  /\ req[r].at = "undoSrc"
  /\ Answer(r, FALSE)
  /\ UNCHANGED <<locks, files>>

(* The destination was locked: the lock on the source is given up. *)
UndoSrc(r) ==
  /\ req[r].at = "undoSrc"
  /\ locks' = Drop(<<r, "src">>)
  /\ Answer(r, FALSE)
  /\ UNCHANGED files

(* The list failed: the next one is tried, and 412 is answered after the last. *)
NextList(r) ==
  IF Len(req[r].lists) > 1 THEN req' = [req EXCEPT ![r].lists = Tail(@)] ELSE Answer(r, FALSE)

(* Mutant: one lock is enough for all the resources named. *)
ConfirmOne(r) ==
  LET shown   == Head(req[r].lists)
      claimed == UNION {Claimable(p, shown) : p \in NamedBy(r)}
  IN  /\ req[r].at = "confirm"
      /\ \/ /\ claimed # {}
            /\ locks' = SetHeld(claimed, TRUE)
            /\ req' = [req EXCEPT ![r].own = claimed, ![r].lists = << >>, ![r].at = FirstStage(r)]
         \/ claimed = {} /\ NextList(r) /\ UNCHANGED locks
      /\ UNCHANGED files

(* With an If header: a call of Confirm for each list, with all resources    *)
(* named, until one confirms them.                                         *)
Confirm(r) ==
  LET shown == Head(req[r].lists)
      claimed == UNION {Claimable(p, shown) : p \in NamedBy(r)}
      confirmed == \A p \in NamedBy(r) : Claimable(p, shown) # {}
  IN  /\ req[r].at = "confirm"
      /\ \/ /\ confirmed
            /\ locks' = SetHeld(claimed, TRUE)
            /\ req' = [req EXCEPT ![r].own = claimed, ![r].lists = << >>, ![r].at = FirstStage(r)]
         \/ ~confirmed /\ NextList(r) /\ UNCHANGED locks
      /\ UNCHANGED files

(* The release function: the temporary locks are unlocked, the destination *)
(* first, or the locks that were confirmed are no longer held.             *)
ReleaseDst(r) ==
  /\ req[r].at = "releaseDst"
  /\ locks' = Drop(<<r, "dst">>)
  /\ Goto(r, "release")
  /\ UNCHANGED files

Release(r) ==
  /\ req[r].at = "release"
  /\ locks' = IF req[r].ifTokens = {} THEN Drop(<<r, "src">>) ELSE SetHeld(req[r].own, FALSE)
  /\ Answer(r, FALSE)
  /\ UNCHANGED files

-----------------------------------------------------------------------------
(* The calls of the file system *)

Put(p, body) ==
  Linked(files, p, IF p \in DOMAIN files THEN [files[p] EXCEPT !.body = body]
                   ELSE [dir |-> FALSE, body |-> body, patched |-> FALSE])

NewDir(p) == Linked(files, p, [dir |-> TRUE, body |-> "empty", patched |-> FALSE])

(* What a move into the own subtree does is RenameLoop's question. *)
Renamable(old, new) ==
  /\ old # Root /\ new # Root /\ old \in DOMAIN files /\ Parent(new) \in DOMAIN files
  /\ ~Above(old, new)

Renamed(old, new) ==
  IF files[old].dir THEN MovedTree(files, old, new) ELSE MovedAlone(files, old, new)

(* Stat, of a DELETE's or PROPPATCH's resource, of a MOVE's destination.   *)
StatFound(r) ==
  /\ req[r].at = "stat"
  /\ IF req[r].method # "MOVE" THEN req[r].src \in DOMAIN files /\ Goto(r, "act")
     ELSE /\ req[r].dst \subseteq DOMAIN files
          /\ IF req[r].option THEN Goto(r, "remove") ELSE Leave(r)
  /\ UNCHANGED <<locks, files>>

StatNotFound(r) ==
  /\ req[r].at = "stat"
  /\ IF req[r].method # "MOVE" THEN req[r].src \notin DOMAIN files /\ Leave(r)
     ELSE req[r].dst \cap DOMAIN files = {} /\ Goto(r, "act")
  /\ UNCHANGED <<locks, files>>

(* MOVE removes what is at the destination. *)
RemoveDst(r) ==
  /\ req[r].at = "remove"
  /\ \E dst \in req[r].dst : dst # Root /\ dst \in DOMAIN files /\ files' = Without(files, dst)
  /\ Goto(r, "act") \/ Leave(r)
  /\ UNCHANGED locks

(* The method is done, whether its answer says so or seems to be an error. *)
Written(r, newFiles) == files' = newFiles /\ Leave(r)

Act(r) ==
  /\ req[r].at = "act"
  /\ LET p == req[r].src
     IN  \/ /\ req[r].method = "DELETE" /\ p # Root /\ p \in DOMAIN files
            /\ Written(r, Without(files, p))
         \/ /\ req[r].method = "PUT" /\ (p \in DOMAIN files \/ Parent(p) \in DOMAIN files)
            /\ \E body \in Bodies : Written(r, Put(p, body))
         \/ /\ req[r].method = "MKCOL" /\ p \notin DOMAIN files /\ Parent(p) \in DOMAIN files
            /\ Written(r, NewDir(p))
         \/ /\ req[r].method = "PROPPATCH" /\ p \in DOMAIN files
            /\ \E v \in BOOLEAN : Written(r, [files EXCEPT ![p].patched = v])
         \/ \E dst \in req[r].dst : Renamable(p, dst) /\ Written(r, Renamed(p, dst))
  /\ UNCHANGED locks

(* A call fails, for whatever reason, or the handler refuses the request's *)
(* body or headers.                                                        *)
CallFails(r) ==
  /\ req[r].at \in {"stat", "remove", "act"}
  /\ Leave(r)
  /\ UNCHANGED <<locks, files>>

-----------------------------------------------------------------------------
(* LOCK and UNLOCK *)

(* A token is used again only when nothing remembers it: the number of     *)
(* tokens bounds the locks at one time, not the locks ever made.           *)
Free ==
  Tokens \ (DOMAIN locks \cup UNION {req[r].own \cup req[r].ifTokens : r \in Requests})

LockCreate(r) ==
  /\ req[r].at = "lock"
  /\ IF Lockable(req[r].src, req[r].option)
     THEN \E t \in Free :
            /\ locks' = Linked(locks, t, NewLock(req[r].src, req[r].option))
            /\ req' = [req EXCEPT ![r].at = "lockStat", ![r].own = {t}]
     ELSE Answer(r, TRUE) /\ UNCHANGED locks
  /\ UNCHANGED files

(* Any error of Stat counts as "it did not exist". *)
LockStat(r) ==
  /\ req[r].at = "lockStat"
  /\ \/ req[r].src \in DOMAIN files /\ Answer(r, FALSE)
     \/ Goto(r, "lockCreate")
  /\ UNCHANGED <<locks, files>>

LockPut(r) ==
  /\ req[r].at = "lockCreate"
  /\ req[r].src \in DOMAIN files \/ Parent(req[r].src) \in DOMAIN files
  /\ files' = Put(req[r].src, "empty")
  /\ Answer(r, FALSE) \/ Goto(r, "lockUndo")
  /\ UNCHANGED locks

LockPutFails(r) ==
  /\ req[r].at = "lockCreate"
  /\ Goto(r, "lockUndo")
  /\ UNCHANGED <<locks, files>>

(* Mutant: the lock stays though the client never learns its token. *)
LockNotUndone(r) ==
  /\ req[r].at = "lockUndo"
  /\ Answer(r, TRUE)
  /\ UNCHANGED <<locks, files>>

(* The deferred Unlock of a LOCK that returns an error. *)
LockUndo(r) ==
  /\ req[r].at = "lockUndo"
  /\ \E t \in req[r].own : locks' = Drop(t)
  /\ Answer(r, TRUE)
  /\ UNCHANGED files

(* An empty LOCK body: the lock is refreshed, its time is not modelled.    *)
Refresh(r, t) ==
  /\ req[r].at = "done"
  /\ Answer(r, ~Unlockable(t))
  /\ UNCHANGED <<locks, files>>

Unlock(r, t) ==
  /\ req[r].at = "done"
  /\ locks' = Drop(t)
  /\ Answer(r, FALSE)
  /\ UNCHANGED files

-----------------------------------------------------------------------------
(* A process starts without locks, on what others have stored. *)
Init ==
  /\ locks = << >>
  /\ \E S \in Stores : files = [p \in S |-> [dir |-> TRUE, body |-> "empty", patched |-> FALSE]]
  /\ req = [r \in Requests |->
              [at |-> "done", method |-> "none", src |-> Root, dst |-> {}, option |-> FALSE,
               ifTokens |-> {}, lists |-> << >>, own |-> {}, refused |-> FALSE]]

(* Clients show the tokens that LOCK has answered with. *)
Known ==
  Tokens \ UNION {req[r].own : r \in {q \in Requests : req[q].method = "LOCK"}}

(* The If headers: none, one list, or two lists of which either will do.    *)
Headers(method) ==
  LET pairs == {pair \in Known \X Known : pair[1] # pair[2] /\ method \in Several}
  IN  {<< >>} \cup {<<T>> : T \in (SUBSET Known) \ {{}}}
              \cup {<<{pair[1]}, {pair[2]}>> : pair \in pairs}

Arrive(r) ==
  \/ \E src \in Names :
       \/ \E method \in Methods \ {"MOVE", "LOCK"} : \E lists \in Headers(method) :
            Start(r, method, src, {}, FALSE, lists)
       \/ \E zeroDepth \in BOOLEAN :
            "LOCK" \in Methods /\ Start(r, "LOCK", src, {}, zeroDepth, << >>)
       \/ \E dst \in Names \ {src}, overwrite \in BOOLEAN, lists \in Headers("MOVE") :
            "MOVE" \in Methods /\ Start(r, "MOVE", src, {dst}, overwrite, lists)
  \/ \E t \in Known : Refresh(r, t) \/ Unlock(r, t)

(* The next call of a handler. *)
Step(r) ==
  \/ LockSrc(r) \/ LockDst(r) \/ UndoSrc(r) \/ Confirm(r)
  \/ StatFound(r) \/ StatNotFound(r) \/ RemoveDst(r) \/ Act(r) \/ CallFails(r)
  \/ ReleaseDst(r) \/ Release(r)
  \/ LockCreate(r) \/ LockStat(r) \/ LockPut(r) \/ LockPutFails(r) \/ LockUndo(r)

Next ==
  \/ \E r \in Requests : Arrive(r) \/ Step(r)
  \/ \E t \in Tokens : Lapse(t)

Spec == Init /\ [][Next]_vars

(* Every call of the lock system and of the file system returns. *)
FairSpec == Spec /\ \A r \in Requests : WF_vars(Step(r))

-----------------------------------------------------------------------------
(* Properties *)

Working(r) == req[r].at \in {"stat", "remove", "act"}

\* Types; a temporary lock is on a resource that its request names.
TypeOK ==
  /\ DOMAIN locks \subseteq AllTokens /\ \A t \in DOMAIN locks : locks[t] \in Lock
  /\ DOMAIN files \subseteq Seq(Segments) /\ \A p \in DOMAIN files : files[p] \in File
  /\ req \in [Requests -> Request]
  /\ \A r \in Requests, t \in DOMAIN locks : t \in Temporary(r) =>
       locks[t].root \in NamedBy(r) /\ locks[t].zeroDepth /\ ~locks[t].held

\* What confirmLocks is for (webdav.go:99-170): while a handler works, each
\* resource it names is under a lock that it made or that it holds, whatever
\* lapses, is unlocked or is locked by others meanwhile.
NamedAreLocked ==
  \A r \in Requests : Working(r) =>
    \A p \in NamedBy(r) : \E t \in DOMAIN locks :
      /\ Covers(locks[t], p)
      /\ t \in Temporary(r) \/ (t \in req[r].own /\ locks[t].held)

\* Two handlers that work at the same time never name the same resource.
OneWriter ==
  \A r, q \in Requests : r # q /\ Working(r) /\ Working(q) => NamedBy(r) \cap NamedBy(q) = {}

\* A lock that clients cannot unlock never outlives the request that needs it:
\* a temporary lock belongs to a request in progress, and so does a held one.
NoLockLeftBehind ==
  \A t \in DOMAIN locks :
    /\ \A r \in Requests : t \in Temporary(r) => req[r].at # "done"
    /\ locks[t].held => \E r \in Requests : t \in req[r].own /\ req[r].at # "done"

\* A LOCK that answers with an error leaves no lock behind (webdav.go:439-443):
\* nobody would know its token.
LockUndoneOnError ==
  [][\A r \in Requests :
       /\ req[r].method = "LOCK" /\ req'[r].at = "done" /\ req'[r].refused
       => req[r].own \cap DOMAIN locks' = {}]_vars

\* A temporary lock goes in the end, so that the resource can be used again.
TemporaryLocksGo ==
  \A r \in Requests :
    (Temporary(r) \cap DOMAIN locks # {}) ~> (Temporary(r) \cap DOMAIN locks = {})

\* "we still need to check that the resources aren't locked by another client"
\* (webdav.go:103-104): a request changes nothing that is under a lock whose token
\* it does not show, but the members of a collection that it removes or moves;
\* those the temporary locks of zero depth do not protect.
OthersLocksRespected ==
  [][\A r \in Requests : Act(r) \/ RemoveDst(r) =>
       \A t \in (DOMAIN locks \cap Tokens) \ req[r].ifTokens :
         \A p \in DOMAIN files \cup DOMAIN files' :
           /\ Covers(locks[t], p)
           /\ ~ \E q \in NamedBy(r) : Above(q, p)
           => p \in DOMAIN files /\ p \in DOMAIN files' /\ files'[p] = files[p]]_vars
=============================================================================
