------------------------------- MODULE MemLS -------------------------------
(***************************************************************************)
(* memLS, the in-memory LockSystem of webdav/lock.go.                      *)
(*                                                                         *)
(* Every method runs under memLS.mu, so each is one action.  The time a    *)
(* method works with is its argument `now`, which the caller read before   *)
(* it waited for mu: calls can enter in another order than their times.    *)
(* A node that is not locked is only a reference count; a node that is     *)
(* locked is told by its token.  The structure is written as one record,   *)
(* and the methods as operators from that record to the next.              *)
(***************************************************************************)
EXTENDS Paths, Integers, FiniteSets, Functions

CONSTANTS Names,          \* the resources a request can name
          Segments,       \* the segments names are made of
          Durations,      \* the durations a LOCK or a refresh asks for
          ConditionLists, \* the tokens an If header lists, in its order
          StartTime,      \* when the process starts, in Unix seconds
          MaxTime,        \* bound on the clock
          MaxTokens       \* bound on the tokens the process gives out

ASSUME NamesAssumption == Names \subseteq Seq(Segments) /\ Rooted(Names)
ASSUME DurationsAssumption == Durations \subseteq Int
ASSUME ConditionListsAssumption == ConditionLists \subseteq Seq(Nat)
ASSUME TimesAssumption == /\ StartTime \in Nat /\ MaxTime \in Nat /\ MaxTokens \in Nat
                          /\ StartTime <= MaxTime

NoToken == 0  \* "", the token of a node that is not locked

Token == Nat \ {NoToken}
Node  == [token : Nat, refCount : Nat]
Lock  == [root : Names, zeroDepth : BOOLEAN, duration : Durations,
          expiry : Int, held : BOOLEAN]

VARIABLES byName,    \* the nodes of locked resources and of their ancestors
          byToken,   \* the locks, by token
          byExpiry,  \* the tokens of the locks in the expiry heap
          gen,       \* the last token given out
          releases,  \* the release functions Confirm returned, not yet called
          clock      \* the time

memLS  == [byName |-> byName, byToken |-> byToken, byExpiry |-> byExpiry, gen |-> gen]
lsVars == <<byName, byToken, byExpiry, gen>>
vars   == <<lsVars, releases, clock>>

Become(s) == /\ byName' = s.byName
             /\ byToken' = s.byToken
             /\ byExpiry' = s.byExpiry
             /\ gen' = s.gen

-----------------------------------------------------------------------------
(* The structure and its helpers *)

(* The names walkToRoot visits. *)
WalkToRoot(name) == {p \in Names : AtOrAbove(p, name)}

NodeAt(s, p) ==
  IF p \in DOMAIN s.byName THEN s.byName[p] ELSE [token |-> NoToken, refCount |-> 0]

(* Mutant: the walk to the root starts at the parent of the locked name. *)
LocksBelow(s, T, p) == {t \in T : Above(p, s.byToken[t].root)}

(* The locks of T on p or under it. *)
LocksAtOrBelow(s, T, p) == {t \in T : AtOrAbove(p, s.byToken[t].root)}

Covers(lock, p) ==
  \/ p = lock.root
  \/ ~lock.zeroDepth /\ AtOrAbove(lock.root, p)

(* memLS.remove for each lock of T: the nodes on the way to the root lose  *)
(* a reference, those with none left are deleted.                          *)
Remove(s, T) ==
  LET refs == [p \in DOMAIN s.byName |->
                 s.byName[p].refCount - Cardinality(LocksAtOrBelow(s, T, p))]
  IN  [s EXCEPT
        !.byToken  = Restrict(@, DOMAIN @ \ T),
        !.byName   = [p \in {q \in DOMAIN @ : refs[q] # 0} |->
                        [token    |-> IF @[p].token \in T THEN NoToken ELSE @[p].token,
                         refCount |-> refs[p]]],
        !.byExpiry = @ \ T]

(* Mutant: the arguments of Before are swapped. *)
ExpiredSwapped(s, now) == {t \in s.byExpiry : now <= s.byToken[t].expiry}

Expired(s, now) == {t \in s.byExpiry : s.byToken[t].expiry <= now}

CollectExpired(s, now) == Remove(s, Expired(s, now))

NextToken(s) == s.gen + 1

(* Mutant: any lock above the name counts, whatever its depth. *)
CanCreateUnderNone(s, name, zeroDepth) ==
  \A p \in WalkToRoot(name) \cap DOMAIN s.byName :
    s.byName[p].token = NoToken /\ (p = name => zeroDepth)

CanCreate(s, name, zeroDepth) ==
  \A p \in WalkToRoot(name) \cap DOMAIN s.byName :
    LET t == s.byName[p].token
    IN  IF p = name THEN t = NoToken /\ zeroDepth
                    ELSE ~(t # NoToken /\ ~s.byToken[t].zeroDepth)

(* create and the rest of Create: the new lock's node and its ancestors    *)
(* gain a reference; a lock of a finite duration goes into the heap.       *)
Insert(s, name, zeroDepth, duration, now) ==
  LET t == NextToken(s)
  IN  [byName   |-> [p \in DOMAIN s.byName \cup WalkToRoot(name) |->
                       [token    |-> IF p = name THEN t ELSE NodeAt(s, p).token,
                        refCount |-> NodeAt(s, p).refCount
                                       + (IF p \in WalkToRoot(name) THEN 1 ELSE 0)]],
       byToken  |-> [u \in DOMAIN s.byToken \cup {t} |->
                       IF u = t
                       THEN [root |-> name, zeroDepth |-> zeroDepth, duration |-> duration,
                             expiry |-> IF duration >= 0 THEN now + duration ELSE 0,
                             held |-> FALSE]
                       ELSE s.byToken[u]],
       byExpiry |-> s.byExpiry \cup (IF duration >= 0 THEN {t} ELSE {}),
       gen      |-> t]

(* Mutant: a lock that is held matches too. *)
MatchesHeld(s, t, name) ==
  t \in DOMAIN s.byToken /\ Covers(s.byToken[t], name)

Matches(s, t, name) ==
  t \in DOMAIN s.byToken /\ ~s.byToken[t].held /\ Covers(s.byToken[t], name)

(* lookup: the token of the first condition whose lock covers the name and *)
(* is not held.                                                            *)
Lookup(s, name, conditions) ==
  LET first == {i \in DOMAIN conditions :
                  /\ Matches(s, conditions[i], name)
                  /\ \A j \in DOMAIN conditions :
                       j < i => ~Matches(s, conditions[j], name)}
  IN  IF first = {} THEN NoToken ELSE conditions[CHOOSE i \in first : TRUE]

HeldIn(s) == {t \in DOMAIN s.byToken : s.byToken[t].held}

SetHeld(s, H) == [t \in DOMAIN s.byToken |-> [s.byToken[t] EXCEPT !.held = t \in H]]

Finite(s, T) == {t \in T : s.byToken[t].duration >= 0}

Hold(s, T) ==
  [s EXCEPT !.byToken = SetHeld(s, HeldIn(s) \cup T), !.byExpiry = @ \ Finite(s, T)]

(* Mutant: the released locks do not go back into the heap. *)
UnholdOffHeap(s, T) == [s EXCEPT !.byToken = SetHeld(s, HeldIn(s) \ T)]

Unhold(s, T) ==
  [s EXCEPT !.byToken = SetHeld(s, HeldIn(s) \ T), !.byExpiry = @ \cup Finite(s, T)]

Reset(s, t, duration, now) ==
  LET lock == [s.byToken[t] EXCEPT !.duration = duration,
                                   !.expiry = IF duration >= 0 THEN now + duration ELSE @]
  IN  [s EXCEPT !.byToken  = [@ EXCEPT ![t] = lock],
                !.byExpiry = (@ \ {t}) \cup (IF duration >= 0 THEN {t} ELSE {})]

-----------------------------------------------------------------------------
(* The methods *)

Init == /\ byName = << >>
        /\ byToken = << >>
        /\ byExpiry = {}
        /\ gen = StartTime
        /\ releases = {}
        /\ clock = StartTime

Nows == StartTime..clock

(* Confirm is given one name or two: its name0 and name1 that are not "".  *)
(* It fails when one of them finds no lock.                                *)
ConfirmFails(now, names, conditions) ==
  LET s == CollectExpired(memLS, now)
  IN  /\ \E name \in names : Lookup(s, name, conditions) = NoToken
      /\ Become(s)
      /\ UNCHANGED <<releases, clock>>

(* Confirm holds the lock of each name, once when it is the same lock. *)
Confirm(now, names, conditions) ==
  LET s    == CollectExpired(memLS, now)
      held == {Lookup(s, name, conditions) : name \in names}
  IN  /\ NoToken \notin held
      /\ Become(Hold(s, held))
      /\ releases' = releases \cup {[names |-> names, held |-> held]}
      /\ UNCHANGED clock

(* Mutant: only one of the locks is released. *)
ReleaseOne(r) ==
  /\ Become(Unhold(memLS, {CHOOSE t \in r.held : TRUE}))
  /\ releases' = releases \ {r}
  /\ UNCHANGED clock

(* The function Confirm returned; it does not collect expired locks. *)
Release(r) ==
  /\ Become(Unhold(memLS, r.held))
  /\ releases' = releases \ {r}
  /\ UNCHANGED clock

Create(now, name, zeroDepth, duration) ==
  LET s == CollectExpired(memLS, now)
  IN  /\ gen < StartTime + MaxTokens
      /\ CanCreate(s, name, zeroDepth)
      /\ Become(Insert(s, name, zeroDepth, duration, now))
      /\ UNCHANGED <<releases, clock>>

CreateLocked(now, name, zeroDepth) ==
  LET s == CollectExpired(memLS, now)
  IN  /\ ~CanCreate(s, name, zeroDepth)
      /\ Become(s)
      /\ UNCHANGED <<releases, clock>>

Refresh(now, t, duration) ==
  LET s == CollectExpired(memLS, now)
  IN  /\ t \in DOMAIN s.byToken
      /\ ~s.byToken[t].held
      /\ Become(Reset(s, t, duration, now))
      /\ UNCHANGED <<releases, clock>>

(* Mutant: a held lock is unlocked. *)
UnlockHeld(now, t) ==
  LET s == CollectExpired(memLS, now)
  IN  /\ t \in DOMAIN s.byToken
      /\ Become(Remove(s, {t}))
      /\ UNCHANGED <<releases, clock>>

Unlock(now, t) ==
  LET s == CollectExpired(memLS, now)
  IN  /\ t \in DOMAIN s.byToken
      /\ ~s.byToken[t].held
      /\ Become(Remove(s, {t}))
      /\ UNCHANGED <<releases, clock>>

(* Refresh and Unlock return ErrNoSuchLock or ErrLocked. *)
TokenRefused(now, t) ==
  LET s == CollectExpired(memLS, now)
  IN  /\ t \in DOMAIN s.byToken => s.byToken[t].held
      /\ Become(s)
      /\ UNCHANGED <<releases, clock>>

Tick == /\ clock < MaxTime
        /\ clock' = clock + 1
        /\ UNCHANGED <<lsVars, releases>>

(* The handler confirms a source, a destination or both. *)
Targets == {{p, q} : p \in Names, q \in Names}

Tokens == StartTime + 1 .. StartTime + MaxTokens

Next ==
  \/ Tick
  \/ \E r \in releases : Release(r)
  \/ \E now \in Nows :
       \/ \E names \in Targets, conditions \in ConditionLists :
            \/ Confirm(now, names, conditions)
            \/ ConfirmFails(now, names, conditions)
       \/ \E name \in Names, zeroDepth \in BOOLEAN :
            \/ CreateLocked(now, name, zeroDepth)
            \/ \E duration \in Durations : Create(now, name, zeroDepth, duration)
       \/ \E t \in Tokens :
            \/ Unlock(now, t)
            \/ TokenRefused(now, t)
            \/ \E duration \in Durations : Refresh(now, t, duration)

Spec == Init /\ [][Next]_vars

-----------------------------------------------------------------------------
(* Properties *)

\* Every part of the structure has its type, the heap holds live locks only,
\* and a token given out is at most gen.
TypeOK ==
  /\ DOMAIN byName \subseteq Names /\ \A p \in DOMAIN byName : byName[p] \in Node
  /\ DOMAIN byToken \subseteq Token /\ \A t \in DOMAIN byToken : byToken[t] \in Lock
  /\ byExpiry \subseteq DOMAIN byToken
  /\ gen \in Nat /\ \A t \in DOMAIN byToken : StartTime < t /\ t <= gen
  /\ \A r \in releases : r.names \subseteq Names /\ r.held \subseteq Token
  /\ clock \in Nat /\ StartTime <= clock

\* The nodes say what the locks say: a node exists for a locked resource and
\* for each of its ancestors, and only for these; it counts the locks on it or
\* under it; and it carries the token of the lock on it (what the test's
\* consistent(), lock_test.go:538-638, looks for after each call).
NodesExactIn(s) ==
  /\ \A p \in Names :
       /\ NodeAt(s, p).refCount =
            Cardinality({t \in DOMAIN s.byToken : AtOrAbove(p, s.byToken[t].root)})
       /\ p \in DOMAIN s.byName <=> \E t \in DOMAIN s.byToken : AtOrAbove(p, s.byToken[t].root)
  /\ \A t \in DOMAIN s.byToken : NodeAt(s, s.byToken[t].root).token = t
  /\ \A p \in DOMAIN s.byName : s.byName[p].token # NoToken =>
       /\ s.byName[p].token \in DOMAIN s.byToken
       /\ s.byToken[s.byName[p].token].root = p

NodesExact == NodesExactIn(memLS)

\* The heap holds exactly the locks of a finite duration that no confirmed
\* request holds: none of them lives for ever because a release forgot it, and
\* none lapses while it is held (lock.go:128-129, hold and unhold).
ExpiryExactIn(s) ==
  s.byExpiry = {t \in DOMAIN s.byToken : s.byToken[t].duration >= 0 /\ ~s.byToken[t].held}

ExpiryExact == ExpiryExactIn(memLS)

\* No resource is under two locks at a time, whatever the depths of the locks
\* and the order they were created, refreshed and dropped in.
ExclusiveIn(s) ==
  \A t, u \in DOMAIN s.byToken : t # u =>
    ~ \E p \in Names : Covers(s.byToken[t], p) /\ Covers(s.byToken[u], p)

Exclusive == ExclusiveIn(memLS)

\* canCreate, which looks only at the nodes between the name and the root,
\* decides what it should: a lock is refused exactly when some live lock covers
\* a resource that the new one would cover.
CanCreateExactIn(s) ==
  \A name \in Names, zeroDepth \in BOOLEAN :
    CanCreate(s, name, zeroDepth) <=>
      \A t \in DOMAIN s.byToken, p \in Names :
        ~(Covers(s.byToken[t], p)
            /\ Covers([root |-> name, zeroDepth |-> zeroDepth], p))

CanCreateExact == CanCreateExactIn(memLS)

\* The locks that are held are those of the confirmations not yet released,
\* each of one of them only: neither panic of hold and unhold can be reached
\* (lock.go:213-215, 223-225), and no lock stays held with nobody to release it.
HoldersExact ==
  /\ UNION {r.held : r \in releases} = {t \in DOMAIN byToken : byToken[t].held}
  /\ \A r, q \in releases : r # q => r.held \cap q.held = {}

\* Confirm's promise (lock.go:39-54): each resource a confirmed request named is
\* under a lock it holds, as long as it has not released it and however far the
\* clock moves on, and no other confirmed request holds a lock on that resource.
ExclusiveAccess ==
  \A r \in releases : \A p \in r.names :
    /\ \E t \in r.held \cap DOMAIN byToken : byToken[t].held /\ Covers(byToken[t], p)
    /\ \A q \in releases \ {r} : \A t \in q.held : ~Covers(byToken[t], p)

\* A held lock is neither removed nor changed: LOCK refreshes, UNLOCK and the
\* expiry all wait for the release (lock.go:257-262, 280-286, 218).
HeldLockStays ==
  \A t \in DOMAIN byToken : byToken[t].held =>
    /\ t \in DOMAIN byToken'
    /\ byToken'[t].root = byToken[t].root /\ byToken'[t].zeroDepth = byToken[t].zeroDepth
    /\ byToken'[t].duration = byToken[t].duration /\ byToken'[t].expiry = byToken[t].expiry

HeldLocksStay == [][HeldLockStays]_vars

\* A lock goes away only because its owner unlocked it or because it has a
\* finite duration that has run out, even though calls come with times older
\* than those of calls that came before them.
NoLockLostEarly ==
  \A t \in DOMAIN byToken \ DOMAIN byToken' :
    \/ byToken[t].duration >= 0 /\ byToken[t].expiry <= clock
    \/ \E now \in Nows : Unlock(now, t)

NoEarlyLoss == [][NoLockLostEarly]_vars

(* A lock as LockTable knows it: neither its time nor the structure's nodes *)
(* are part of the promise.                                                *)
EntryOf(lock) == [root |-> lock.root, zeroDepth |-> lock.zeroDepth, held |-> lock.held]

TableOf(tokens) == [t \in DOMAIN tokens |-> EntryOf(tokens[t])]

Promise == INSTANCE LockTable WITH
  Tokens <- Tokens,
  locks  <- TableOf(byToken),
  issued <- StartTime + 1 .. gen

\* memLS keeps the promise of LockTable: exclusive locks, tokens that are never
\* given out twice, held locks that stay.
KeepsPromise == Promise!TableSpec
=============================================================================
