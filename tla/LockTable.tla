----------------------------- MODULE LockTable -----------------------------
(***************************************************************************)
(* What a LockSystem promises the WebDAV handler (webdav/lock.go:36-88),   *)
(* without saying how: a table of exclusive locks, each named by a token   *)
(* that is never given out twice, in which a lock that a confirmed request *)
(* holds cannot lapse, be removed or be confirmed a second time.           *)
(***************************************************************************)
EXTENDS Paths, Functions

CONSTANTS Names,   \* the resources there are
          Tokens   \* the tokens a lock can have

VARIABLES locks,   \* the live locks, by token
          issued   \* every token ever given out

tableVars == <<locks, issued>>

Entry == [root : Names, zeroDepth : BOOLEAN, held : BOOLEAN]

(* A lock covers its root and, unless it has zero depth, all that is under *)
(* its root.                                                               *)
Covers(lock, p) ==
  \/ p = lock.root
  \/ ~lock.zeroDepth /\ AtOrAbove(lock.root, p)

Overlap(lock1, lock2) == \E p \in Names : Covers(lock1, p) /\ Covers(lock2, p)

Idle(table) == {t \in DOMAIN table : ~table[t].held}
Held(table) == DOMAIN table \ Idle(table)

Marked(table, T, h) ==
  [t \in DOMAIN table |-> [table[t] EXCEPT !.held = IF t \in T THEN h ELSE @]]

Granted(table, t, root, zeroDepth) ==
  [u \in DOMAIN table \cup {t} |->
     IF u = t THEN [root |-> root, zeroDepth |-> zeroDepth, held |-> FALSE]
              ELSE table[u]]

TableInit == locks = << >> /\ issued = {}

(* A new lock overlaps no lock of the table. *)
Grant(table) ==
  \E t \in Tokens \ issued, root \in Names, zeroDepth \in BOOLEAN :
    /\ \A u \in DOMAIN table :
         ~Overlap([root |-> root, zeroDepth |-> zeroDepth], table[u])
    /\ locks' = Granted(table, t, root, zeroDepth)
    /\ issued' = issued \cup {t}

(* A request confirms locks that nobody holds. *)
Hold(table) ==
  \E T \in SUBSET Idle(table) : locks' = Marked(table, T, TRUE) /\ UNCHANGED issued

(* Any call may first drop locks that nobody holds: they lapsed, or their  *)
(* owner gave one up.                                                      *)
Call ==
  \E gone \in SUBSET Idle(locks) :
    LET rest == Restrict(locks, DOMAIN locks \ gone)
    IN  Grant(rest) \/ Hold(rest)

Release ==
  \E T \in SUBSET Held(locks) : locks' = Marked(locks, T, FALSE) /\ UNCHANGED issued

TableNext == Call \/ Release

TableSpec == TableInit /\ [][TableNext]_tableVars
=============================================================================
