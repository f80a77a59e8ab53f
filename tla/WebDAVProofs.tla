---------------------------- MODULE WebDAVProofs ----------------------------
(***************************************************************************)
(* The locks of the handlers, for any set of names, requests, tokens,      *)
(* methods and stores.                                                     *)
(*                                                                         *)
(* LocksOK is the strengthening that is inductive.  It says of each        *)
(* request, by the stage its handler has come to, which locks are there    *)
(* because of it; and that no two locks cover one resource.                *)
(***************************************************************************)
EXTENDS WebDAV, PathMapProofs

LockStages == {"lock", "lockStat", "lockCreate", "lockUndo"}

(* The stages with a temporary lock on the source, and on the destination. *)
WithSrc(h) ==
  /\ h.ifTokens = {}
  /\ h.at \in {"lockDst", "undoSrc", "stat", "remove", "act", "releaseDst", "release"}
WithDst(h) ==
  /\ h.ifTokens = {} /\ h.dst # {}
  /\ h.at \in {"stat", "remove", "act", "releaseDst"}

(* The stages with the locks held that the client showed. *)
Holding(h) ==
  /\ h.ifTokens # {}
  /\ h.at \in {"stat", "remove", "act", "release"}

(* What the stage of a handler says of its other fields. *)
Shape(h) ==
  /\ \E d \in Names : h.dst \subseteq {d}
  /\ h.at = "done" => h.method = "none"
  /\ h.method = "LOCK" <=> h.at \in LockStages
  /\ h.at \in {"lockSrc", "lockDst", "undoSrc", "releaseDst"} \cup LockStages => h.ifTokens = {}
  /\ h.at \in {"lockDst", "releaseDst"} => h.dst # {}
  /\ h.at = "confirm" => h.ifTokens # {} /\ h.lists # << >>
  /\ \A i \in DOMAIN h.lists : h.lists[i] \subseteq h.ifTokens
  /\ h.method # "LOCK" => h.own \subseteq h.ifTokens
  /\ h.at = "lock" => h.own = {}
  /\ h.at \in LockStages \ {"lock"} => \E t \in Tokens : h.own = {t}

(* The temporary locks of a request. *)
TemporaryOK(r) ==
  /\ <<r, "src">> \in DOMAIN locks <=> WithSrc(req[r])
  /\ WithSrc(req[r]) => locks[<<r, "src">>] = NewLock(req[r].src, TRUE)
  /\ <<r, "dst">> \in DOMAIN locks <=> WithDst(req[r])
  /\ WithDst(req[r]) => \E d \in req[r].dst : locks[<<r, "dst">>] = NewLock(d, TRUE)

(* The locks that Confirm held for a request. *)
HoldsOwn(r) ==
  Holding(req[r]) =>
    /\ \A t \in req[r].own : t \in DOMAIN locks /\ locks[t].held
    /\ \A p \in NamedBy(r) : \E t \in req[r].own : Covers(locks[t], p)

Held(t) == t \in DOMAIN locks /\ locks[t].held

(* A held lock is held for a request, and for one only. *)
HeldByOne ==
  /\ \A t \in DOMAIN locks : locks[t].held =>
       \E r \in Requests : Holding(req[r]) /\ t \in req[r].own
  /\ \A r, q \in Requests : r # q /\ Holding(req[r]) /\ Holding(req[q]) =>
       req[r].own \cap req[q].own = {}

(* Nobody shows the token of a LOCK that has not been answered. *)
Unannounced ==
  \A r, q \in Requests : req[r].method = "LOCK" => req[r].own \cap req[q].ifTokens = {}

(* At most one lock covers a resource. *)
Exclusive ==
  \A t, u \in DOMAIN locks : \A p \in Names :
    Covers(locks[t], p) /\ Covers(locks[u], p) => t = u

LockTypes == DOMAIN locks \subseteq AllTokens /\ \A t \in DOMAIN locks : locks[t] \in Lock
ReqTypes  == req \in [Requests -> Request] /\ \A r \in Requests : Shape(req[r])

LocksOK ==
  /\ LockTypes /\ ReqTypes
  /\ \A r \in Requests : TemporaryOK(r) /\ HoldsOwn(r)
  /\ HeldByOne /\ Unannounced /\ Exclusive

(* The types of the resources there are. *)
FilesIn(f) == DOMAIN f \subseteq Seq(Segments) /\ \A p \in DOMAIN f : f[p] \in File
FilesOK    == FilesIn(files)

-----------------------------------------------------------------------------
\* The resources are sequences of segments.
LEMMA NamesAreSequences == \A p \in Names : p \in Seq(Segments)
BY NamesAssumption

\* A temporary lock has a token that no client and no other request has.
LEMMA TemporaryApart ==
  ASSUME NEW r \in Requests, NEW q \in Requests, NEW t \in Temporary(r)
  PROVE  t \notin Tokens /\ (t \in Temporary(q) => q = r)
BY TokensAssumption DEF Temporary

\* A step of one handler changes its own record only.
LEMMA OneHandler ==
  ASSUME ReqTypes, NEW r \in Requests, NEW h \in Request, Shape(h),
         req' = [req EXCEPT ![r] = h]
  PROVE  /\ ReqTypes'
         /\ req'[r] = h
         /\ \A q \in Requests \ {r} : req'[q] = req[q]
BY DEF ReqTypes

\* The temporary locks of a request that does not move are as they were.
LEMMA TemporaryKept ==
  ASSUME NEW q \in Requests, TemporaryOK(q), req'[q] = req[q],
         \A t \in Temporary(q) : /\ t \in DOMAIN locks <=> t \in DOMAIN locks'
                                 /\ t \in DOMAIN locks => locks'[t] = locks[t]
  PROVE  TemporaryOK(q)'
BY DEF TemporaryOK, Temporary, WithSrc, WithDst, NewLock

\* What a request holds stays when its locks do.
LEMMA HoldsKept ==
  ASSUME NEW q \in Requests, HoldsOwn(q), req'[q] = req[q],
         Holding(req[q]) => \A t \in req[q].own : t \in DOMAIN locks' /\ locks'[t] = locks[t]
  PROVE  HoldsOwn(q)'
BY DEF HoldsOwn, Holding, NamedBy, Covers

\* The step of one handler: what it must say of its own locks, and leave of the
\* others', for LocksOK to hold on.
LEMMA HandlerStep ==
  ASSUME LocksOK, NEW r \in Requests, NEW h \in Request, Shape(h),
         req' = [req EXCEPT ![r] = h],
         LockTypes', Exclusive', TemporaryOK(r)', HoldsOwn(r)',
         \A q \in Requests \ {r} : \A t \in Temporary(q) :
           /\ t \in DOMAIN locks <=> t \in DOMAIN locks'
           /\ t \in DOMAIN locks => locks'[t] = locks[t],
         \A t : Held(t) /\ ~(Holding(req[r]) /\ t \in req[r].own) =>
           t \in DOMAIN locks' /\ locks'[t] = locks[t],
         \A t \in DOMAIN locks' : locks'[t].held =>
           \/ Holding(h) /\ t \in h.own
           \/ Held(t) /\ ~(Holding(req[r]) /\ t \in req[r].own),
         Holding(h) => \A t \in h.own : ~Held(t) \/ (Holding(req[r]) /\ t \in req[r].own),
         h.method = "LOCK" => \A q \in Requests \ {r} : h.own \cap req[q].ifTokens = {},
         h.method = "LOCK" => h.ifTokens = {},
         \A q \in Requests \ {r} : req[q].method = "LOCK" => req[q].own \cap h.ifTokens = {}
  PROVE  LocksOK'
<1>1. ReqTypes' /\ req'[r] = h /\ \A q \in Requests \ {r} : req'[q] = req[q]
  BY OneHandler DEF LocksOK
<1>2. ASSUME NEW q \in Requests PROVE TemporaryOK(q)' /\ HoldsOwn(q)'
  <2>1. CASE q = r
    BY <2>1
  <2>2. CASE q # r
    <3>1. TemporaryOK(q)'
      BY <2>2, <1>1, TemporaryKept DEF LocksOK
    <3>2. Holding(req[q]) => \A t \in req[q].own : t \in DOMAIN locks' /\ locks'[t] = locks[t]
      BY <2>2 DEF LocksOK, HoldsOwn, HeldByOne, Held
    <3> QED BY <2>2, <3>1, <3>2, <1>1, HoldsKept DEF LocksOK
  <2> QED BY <2>1, <2>2
<1>3. HeldByOne'
  <2>1. ASSUME NEW t \in DOMAIN locks', locks'[t].held
        PROVE  \E q \in Requests : Holding(req'[q]) /\ t \in req'[q].own
    <3>1. CASE Holding(h) /\ t \in h.own
      BY <3>1, <1>1
    <3>2. CASE Held(t) /\ ~(Holding(req[r]) /\ t \in req[r].own)
      <4>1. PICK q \in Requests : Holding(req[q]) /\ t \in req[q].own
        BY <3>2 DEF LocksOK, HeldByOne, Held
      <4> QED BY <3>2, <4>1, <1>1
    <3> QED BY <2>1, <3>1, <3>2
  <2>2. ASSUME NEW q \in Requests \ {r}, Holding(h), Holding(req[q])
        PROVE  h.own \cap req[q].own = {}
    <3>1. \A t \in req[q].own : Held(t)
      BY <2>2 DEF LocksOK, HoldsOwn, Held
    <3>2. Holding(req[r]) => req[r].own \cap req[q].own = {}
      BY <2>2 DEF LocksOK, HeldByOne
    <3> QED BY <2>2, <3>1, <3>2
  <2>3. ASSUME NEW p \in Requests, NEW q \in Requests, p # q,
               Holding(req'[p]), Holding(req'[q])
        PROVE  req'[p].own \cap req'[q].own = {}
    <3>1. CASE p # r /\ q # r
      BY <2>3, <3>1, <1>1 DEF LocksOK, HeldByOne
    <3>2. CASE p = r
      BY <2>2, <2>3, <3>2, <1>1
    <3>3. CASE q = r
      BY <2>2, <2>3, <3>3, <1>1
    <3> QED BY <3>1, <3>2, <3>3
  <2> QED BY <2>1, <2>3 DEF HeldByOne, Holding
<1>4. Unannounced'
  <2>1. h.method = "LOCK" => h.own \cap h.ifTokens = {}
    OBVIOUS
  <2>2. ASSUME NEW p \in Requests, NEW q \in Requests, req'[p].method = "LOCK"
        PROVE  req'[p].own \cap req'[q].ifTokens = {}
    BY <2>1, <2>2, <1>1 DEF LocksOK, Unannounced
  <2> QED BY <2>2 DEF Unannounced
<1> QED BY <1>1, <1>2, <1>3, <1>4 DEF LocksOK

-----------------------------------------------------------------------------
\* What Unlock leaves.
LEMMA DropFields ==
  ASSUME NEW t
  PROVE  /\ DOMAIN Drop(t) \subseteq DOMAIN locks
         /\ \A u \in DOMAIN locks : u # t \/ locks[u].held => u \in DOMAIN Drop(t)
         /\ \A u \in DOMAIN Drop(t) : Drop(t)[u] = locks[u]
         /\ t \in DOMAIN Drop(t) => t \in DOMAIN locks /\ locks[t].held
BY DEF Drop, Unlockable, Restrict

\* A handler unlocks a lock that is its own or a client's, and holds none.
LEMMA DropStep ==
  ASSUME LocksOK, NEW r \in Requests, NEW h \in Request, Shape(h),
         req' = [req EXCEPT ![r] = h],
         NEW t \in Tokens \cup Temporary(r), locks' = Drop(t), TemporaryOK(r)',
         ~Holding(req[r]), ~Holding(h), h.method # "LOCK", h.ifTokens = {}
  PROVE  LocksOK'
<1>1. /\ DOMAIN locks' \subseteq DOMAIN locks
      /\ \A u \in DOMAIN locks : u # t \/ locks[u].held => u \in DOMAIN locks'
      /\ \A u \in DOMAIN locks' : locks'[u] = locks[u]
  BY DropFields
<1>2. LockTypes'
  BY <1>1 DEF LocksOK, LockTypes
<1>3. Exclusive'
  BY <1>1 DEF LocksOK, Exclusive, Covers
<1>4. HoldsOwn(r)'
  BY OneHandler DEF LocksOK, HoldsOwn, Holding
<1>5. ASSUME NEW q \in Requests \ {r}, NEW u \in Temporary(q)
      PROVE  /\ u \in DOMAIN locks <=> u \in DOMAIN locks'
             /\ u \in DOMAIN locks => locks'[u] = locks[u]
  <2>1. u # t
    BY TemporaryApart
  <2> QED BY <2>1, <1>1
<1>6. \A u : Held(u) => u \in DOMAIN locks' /\ locks'[u] = locks[u]
  BY <1>1 DEF Held
<1>7. \A u \in DOMAIN locks' : locks'[u].held => Held(u)
  BY <1>1 DEF Held
<1> QED BY <1>2, <1>3, <1>4, <1>5, <1>6, <1>7, HandlerStep

\* A handler makes a lock that the lock system could grant, and holds none.
LEMMA AddStep ==
  ASSUME LocksOK, NEW r \in Requests, NEW h \in Request, Shape(h),
         req' = [req EXCEPT ![r] = h],
         NEW t \in (Tokens \cup Temporary(r)) \ DOMAIN locks,
         NEW root \in Names, NEW z \in BOOLEAN, Lockable(root, z),
         locks' = Linked(locks, t, NewLock(root, z)), TemporaryOK(r)',
         ~Holding(req[r]), ~Holding(h), h.ifTokens = {},
         h.method = "LOCK" => \A q \in Requests : h.own \cap req[q].ifTokens = {}
  PROVE  LocksOK'
<1>1. /\ DOMAIN locks' = DOMAIN locks \cup {t}
      /\ locks'[t] = NewLock(root, z)
      /\ \A u \in DOMAIN locks : locks'[u] = locks[u]
  BY DEF Linked
<1>2. LockTypes'
  <2>1. t \in AllTokens
    BY DEF AllTokens
  <2>2. NewLock(root, z) \in Lock /\ ~NewLock(root, z).held
    BY DEF NewLock, Lock
  <2> QED BY <2>1, <2>2, <1>1 DEF LocksOK, LockTypes
<1>3. Exclusive'
  BY <1>1 DEF LocksOK, Exclusive, Lockable, Covers
<1>4. HoldsOwn(r)'
  BY OneHandler DEF LocksOK, HoldsOwn, Holding
<1>5. ASSUME NEW q \in Requests \ {r}, NEW u \in Temporary(q)
      PROVE  /\ u \in DOMAIN locks <=> u \in DOMAIN locks'
             /\ u \in DOMAIN locks => locks'[u] = locks[u]
  <2>1. u # t
    BY TemporaryApart
  <2> QED BY <2>1, <1>1
<1>6. \A u : Held(u) => u \in DOMAIN locks' /\ locks'[u] = locks[u]
  BY <1>1 DEF Held
<1>7. ASSUME NEW u \in DOMAIN locks', locks'[u].held
      PROVE  Held(u)
  <2>1. NewLock(root, z).held = FALSE
    BY DEF NewLock
  <2>2. u # t
    BY <2>1, <1>1, <1>7
  <2> QED BY <2>2, <1>1, <1>7 DEF Held
<1> QED BY <1>2, <1>3, <1>4, <1>5, <1>6, <1>7, HandlerStep

\* A handler goes on with the locks as they are.
LEMMA QuietStep ==
  ASSUME LocksOK, NEW r \in Requests, NEW h \in Request, Shape(h),
         req' = [req EXCEPT ![r] = h], UNCHANGED locks,
         WithSrc(h) <=> WithSrc(req[r]), WithDst(h) <=> WithDst(req[r]),
         Holding(h) <=> Holding(req[r]),
         WithSrc(h) \/ Holding(h) =>
           h.src = req[r].src /\ h.dst = req[r].dst /\ h.own = req[r].own,
         h.method = "LOCK" => h.own \subseteq req[r].own /\ (h.own # {} => req[r].method = "LOCK"),
         h.ifTokens \subseteq req[r].ifTokens \/ h.ifTokens \subseteq Known
  PROVE  LocksOK'
<1>1. req'[r] = h
  BY OneHandler DEF LocksOK
<1>2. LockTypes' /\ Exclusive'
  BY DEF LocksOK, LockTypes, Exclusive, Covers
<1>3. TemporaryOK(r)'
  <2>1. WithDst(h) => WithSrc(h)
    BY DEF WithDst, WithSrc
  <2>2. /\ <<r, "src">> \in DOMAIN locks' <=> WithSrc(h)
        /\ WithSrc(h) => locks'[<<r, "src">>] = NewLock(h.src, TRUE)
        /\ <<r, "dst">> \in DOMAIN locks' <=> WithDst(h)
        /\ WithDst(h) => \E d \in h.dst : locks'[<<r, "dst">>] = NewLock(d, TRUE)
    BY <2>1 DEF LocksOK, TemporaryOK
  <2> QED BY <1>1, <2>2 DEF TemporaryOK, WithSrc, WithDst, NewLock
<1>4. HoldsOwn(r)'
  <2>1. HoldsOwn(r)
    BY DEF LocksOK
  <2> QED BY <1>1, <2>1 DEF HoldsOwn, Holding, NamedBy, Covers
<1>5. h.method = "LOCK" => \A q \in Requests \ {r} : h.own \cap req[q].ifTokens = {}
  BY DEF LocksOK, Unannounced
<1>6. h.method = "LOCK" => h.ifTokens = {}
  BY DEF Shape, LockStages
<1>7. \A q \in Requests \ {r} : req[q].method = "LOCK" => req[q].own \cap h.ifTokens = {}
  BY DEF LocksOK, Unannounced, Known
<1> QED BY <1>2, <1>3, <1>4, <1>5, <1>6, <1>7, HandlerStep DEF Held

-----------------------------------------------------------------------------
(* The record of a handler that has returned. *)
Returned(refused) ==
  [at |-> "done", method |-> "none", src |-> Root, dst |-> {}, option |-> FALSE,
   ifTokens |-> {}, lists |-> << >>, own |-> {}, refused |-> refused]

\* A handler that has returned owns nothing.
LEMMA ReturnedOwnsNothing ==
  ASSUME NEW b \in BOOLEAN
  PROVE  /\ Returned(b) \in Request /\ Shape(Returned(b))
         /\ ~WithSrc(Returned(b)) /\ ~WithDst(Returned(b)) /\ ~Holding(Returned(b))
         /\ Returned(b).method # "LOCK" /\ Returned(b).own = {} /\ Returned(b).ifTokens = {}
         /\ Returned(b).at = "done" /\ Returned(b).dst = {}
<1>1. Root \in Names
  BY NamesAssumption DEF Rooted
<1>2. << >> \in Seq(SUBSET Tokens)
  OBVIOUS
<1>3. Returned(b) \in Request
  BY <1>1, <1>2 DEF Returned, Request, Stages
<1>4. Shape(Returned(b))
  BY <1>1 DEF Returned, Shape, LockStages
<1> QED BY <1>3, <1>4 DEF Returned, WithSrc, WithDst, Holding

\* A handler that returns with no lock of its own.
LEMMA AnswerStep ==
  ASSUME LocksOK, NEW r \in Requests, NEW b \in BOOLEAN, Answer(r, b), UNCHANGED locks,
         ~WithSrc(req[r]), ~Holding(req[r])
  PROVE  LocksOK'
<1>1. req' = [req EXCEPT ![r] = Returned(b)]
  BY DEF Answer, Returned
<1>2. ~WithDst(req[r])
  BY DEF WithSrc, WithDst
<1> QED BY <1>1, <1>2, ReturnedOwnsNothing, QuietStep

\* A handler that gives back the last lock of its own, and returns.
LEMMA AnswerDropStep ==
  ASSUME LocksOK, NEW r \in Requests, NEW b \in BOOLEAN, Answer(r, b),
         NEW t \in Tokens \cup Temporary(r), locks' = Drop(t),
         ~Holding(req[r]), ~WithDst(req[r]), WithSrc(req[r]) => t = <<r, "src">>
  PROVE  LocksOK'
<1>1. req' = [req EXCEPT ![r] = Returned(b)] /\ req'[r] = Returned(b)
  BY DEF Answer, Returned, LocksOK, ReqTypes
<1>2. TemporaryOK(r)'
  <2>1. TemporaryOK(r)
    BY DEF LocksOK
  <2>2. WithSrc(req[r]) => <<r, "src">> \notin DOMAIN locks'
    BY <2>1, DropFields DEF TemporaryOK, NewLock
  <2>3. <<r, "src">> \notin DOMAIN locks' /\ <<r, "dst">> \notin DOMAIN locks'
    BY <2>1, <2>2, DropFields DEF TemporaryOK
  <2>4. ~WithSrc(req'[r]) /\ ~WithDst(req'[r])
    BY <1>1, ReturnedOwnsNothing
  <2> QED BY <2>3, <2>4 DEF TemporaryOK, WithSrc, WithDst
<1> QED BY <1>1, <1>2, ReturnedOwnsNothing, DropStep

\* A handler that goes to another stage changes nothing else.
LEMMA GotoFields ==
  ASSUME ReqTypes, NEW r \in Requests, NEW stage \in Stages, Goto(r, stage)
  PROVE  LET h == [req[r] EXCEPT !.at = stage]
         IN  /\ h \in Request /\ req' = [req EXCEPT ![r] = h] /\ req'[r] = h
             /\ h.at = stage
             /\ h.method = req[r].method /\ h.src = req[r].src /\ h.dst = req[r].dst
             /\ h.ifTokens = req[r].ifTokens /\ h.lists = req[r].lists /\ h.own = req[r].own
BY DEF ReqTypes, Request, Goto

\* A handler at work that goes on, or leaves, keeps its locks.
LEMMA GoesOn ==
  ASSUME LocksOK, NEW r \in Requests, Working(r), UNCHANGED locks,
         Goto(r, "remove") \/ Goto(r, "act") \/ Leave(r)
  PROVE  LocksOK'
<1>1. PICK stage \in {"remove", "act", "release", "releaseDst"} :
        /\ Goto(r, stage)
        /\ stage = "release" => req[r].ifTokens # {} \/ req[r].dst = {}
        /\ stage = "releaseDst" => req[r].ifTokens = {} /\ req[r].dst # {}
  BY DEF Leave, Goto
<1> DEFINE h == [req[r] EXCEPT !.at = stage]
<1>2. /\ h \in Request /\ req' = [req EXCEPT ![r] = h]
      /\ h.at = stage
      /\ h.method = req[r].method /\ h.src = req[r].src /\ h.dst = req[r].dst
      /\ h.ifTokens = req[r].ifTokens /\ h.lists = req[r].lists /\ h.own = req[r].own
  <2>1. stage \in Stages /\ ReqTypes
    BY <1>1 DEF LocksOK, Stages
  <2> QED BY <1>1, <2>1, GotoFields
<1> HIDE DEF h
<1>3. Shape(req[r])
  BY DEF LocksOK, ReqTypes
<1>4. Shape(h)
  BY <1>1, <1>2, <1>3 DEF Shape, Working, LockStages
<1>5. /\ WithSrc(h) <=> WithSrc(req[r])
      /\ WithDst(h) <=> WithDst(req[r])
      /\ Holding(h) <=> Holding(req[r])
  BY <1>1, <1>2 DEF WithSrc, WithDst, Holding, Working
<1>6. h.method # "LOCK"
  BY <1>2, <1>3 DEF Shape, Working, LockStages
<1> QED BY <1>2, <1>4, <1>5, <1>6, QuietStep

\* A LOCK that goes on keeps the lock that it made.
LEMMA LockGoesOn ==
  ASSUME LocksOK, NEW r \in Requests, req[r].at \in {"lockStat", "lockCreate"}, UNCHANGED locks,
         Goto(r, "lockCreate") \/ Goto(r, "lockUndo")
  PROVE  LocksOK'
<1>1. PICK stage \in {"lockCreate", "lockUndo"} : Goto(r, stage)
  OBVIOUS
<1> DEFINE h == [req[r] EXCEPT !.at = stage]
<1>2. /\ h \in Request /\ req' = [req EXCEPT ![r] = h]
      /\ h.at = stage
      /\ h.method = req[r].method /\ h.src = req[r].src /\ h.dst = req[r].dst
      /\ h.ifTokens = req[r].ifTokens /\ h.lists = req[r].lists /\ h.own = req[r].own
  <2>1. stage \in Stages /\ ReqTypes
    BY <1>1 DEF LocksOK, Stages
  <2> QED BY <1>1, <2>1, GotoFields
<1> HIDE DEF h
<1>3. Shape(req[r])
  BY DEF LocksOK, ReqTypes
<1>4. Shape(h)
  BY <1>1, <1>2, <1>3 DEF Shape, LockStages
<1>5. /\ WithSrc(h) <=> WithSrc(req[r])
      /\ WithDst(h) <=> WithDst(req[r])
      /\ Holding(h) <=> Holding(req[r])
  BY <1>1, <1>2 DEF WithSrc, WithDst, Holding
<1>6. req[r].method = "LOCK"
  BY <1>3 DEF Shape, LockStages
<1> QED BY <1>2, <1>4, <1>5, <1>6, QuietStep

-----------------------------------------------------------------------------
\* The lists of an If header show tokens that clients know, one at least.
LEMMA HeaderLists ==
  ASSUME NEW method, NEW lists \in Headers(method)
  PROVE  /\ lists \in Seq(SUBSET Tokens)
         /\ \A i \in DOMAIN lists : lists[i] \subseteq Known
         /\ lists # << >> => UNION {lists[i] : i \in DOMAIN lists} # {}
<1>1. Known \subseteq Tokens
  BY DEF Known
<1>2. CASE lists = << >>
  BY <1>2
<1>3. CASE \E T \in (SUBSET Known) \ {{}} : lists = <<T>>
  <2>1. PICK T \in (SUBSET Known) \ {{}} : lists = <<T>>
    BY <1>3
  <2>2. DOMAIN lists = {1} /\ lists[1] = T
    BY <2>1
  <2>3. T \in {lists[i] : i \in DOMAIN lists}
    BY <2>2
  <2>4. UNION {lists[i] : i \in DOMAIN lists} # {}
    <3>1. PICK t : t \in T
      <4>1. T # {}
        BY <2>1
      <4> QED BY <4>1
    <3>2. t \in UNION {lists[i] : i \in DOMAIN lists}
      BY <3>1, <2>3
    <3> QED BY <3>2
  <2> QED BY <2>1, <2>2, <2>4, <1>1
<1>4. CASE \E t, u \in Known : lists = <<{t}, {u}>>
  <2>1. PICK t \in Known, u \in Known : lists = <<{t}, {u}>>
    BY <1>4
  <2>2. DOMAIN lists = 1..2 /\ lists[1] = {t} /\ lists[2] = {u}
    BY <2>1
  <2>3. {t} \in {lists[i] : i \in DOMAIN lists}
    BY <2>2
  <2>4. {t} \in SUBSET Tokens /\ {u} \in SUBSET Tokens
    BY <2>1, <1>1
  <2>5. lists \in Seq(SUBSET Tokens)
    BY <2>1, <2>4
  <2>6. UNION {lists[i] : i \in DOMAIN lists} # {}
    BY <2>3
  <2>7. \A i \in DOMAIN lists : lists[i] \subseteq Known
    BY <2>1, <2>2
  <2> QED BY <2>5, <2>6, <2>7
<1> QED BY <1>2, <1>3, <1>4 DEF Headers

\* A request that comes owns nothing yet.
LEMMA StartStep ==
  ASSUME LocksOK, NEW r \in Requests, NEW method \in Methods, NEW src \in Names,
         NEW dst \in SUBSET Names, NEW option \in BOOLEAN, NEW lists \in Headers(method),
         \E d \in Names : dst \subseteq {d}, method = "LOCK" => lists = << >>,
         Start(r, method, src, dst, option, lists)
  PROVE  LocksOK'
<1> DEFINE shown == UNION {lists[i] : i \in DOMAIN lists}
           stage == IF method = "LOCK" THEN "lock"
                    ELSE IF lists = << >> THEN "lockSrc" ELSE "confirm"
           h     == [at |-> stage, method |-> method, src |-> src, dst |-> dst, option |-> option,
                     ifTokens |-> shown, lists |-> lists, own |-> {}, refused |-> FALSE]
<1>1. req' = [req EXCEPT ![r] = h] /\ UNCHANGED locks /\ req[r].at = "done"
  BY DEF Start
<1>2. /\ lists \in Seq(SUBSET Tokens)
      /\ \A i \in DOMAIN lists : lists[i] \subseteq Known
      /\ lists # << >> => shown # {}
  BY HeaderLists
<1>3. shown \subseteq Known /\ Known \subseteq Tokens /\ (lists = << >> => shown = {})
  BY <1>2 DEF Known
<1>4. \A i \in DOMAIN lists : lists[i] \subseteq shown
  OBVIOUS
<1>5. stage \in {"lock", "lockSrc", "confirm"} /\ stage \in Stages
  BY DEF Stages
<1>6. h \in Request
  <2> HIDE DEF shown, stage
  <2> QED BY <1>2, <1>3, <1>5 DEF Request
<1>7. Shape(h)
  <2>1. (method = "LOCK") <=> (stage \in LockStages)
    BY DEF LockStages
  <2>2. stage = "confirm" => lists # << >>
    OBVIOUS
  <2>3. stage \in {"lock", "lockSrc"} => shown = {}
    BY <1>3
  <2> HIDE DEF shown, stage
  <2> QED BY <2>1, <2>2, <2>3, <1>2, <1>4, <1>5 DEF Shape, LockStages
<1>8. ~WithSrc(h) /\ ~WithDst(h) /\ ~Holding(h)
  <2> HIDE DEF shown, stage
  <2> QED BY <1>5 DEF WithSrc, WithDst, Holding
<1>9. ~WithSrc(req[r]) /\ ~WithDst(req[r]) /\ ~Holding(req[r])
  BY <1>1 DEF WithSrc, WithDst, Holding
<1>10. h.own = {} /\ h.ifTokens \subseteq Known
  BY <1>3
<1> HIDE DEF h
<1> QED BY <1>1, <1>6, <1>7, <1>8, <1>9, <1>10, QuietStep

\* confirmLocks locks the source for a while.
LEMMA LockSrcStep ==
  ASSUME LocksOK, NEW r \in Requests, LockSrc(r)
  PROVE  LocksOK'
<1>1. req[r] \in Request /\ Shape(req[r]) /\ req[r].at = "lockSrc" /\ ReqTypes
  BY DEF LocksOK, ReqTypes, LockSrc
<1>2. /\ ~WithSrc(req[r]) /\ ~WithDst(req[r]) /\ ~Holding(req[r]) /\ req[r].ifTokens = {}
      /\ req[r].method # "LOCK"
  BY <1>1 DEF WithSrc, WithDst, Holding, Shape, LockStages
<1>3. CASE Lockable(req[r].src, TRUE)
  <2> DEFINE stage == IF req[r].dst = {} THEN FirstStage(r) ELSE "lockDst"
             h     == [req[r] EXCEPT !.at = stage]
  <2>1. Goto(r, stage) /\ locks' = Linked(locks, <<r, "src">>, NewLock(req[r].src, TRUE))
    BY <1>3 DEF LockSrc
  <2>2. /\ stage \in {"act", "stat", "lockDst"} /\ stage \in Stages
        /\ stage = "lockDst" <=> req[r].dst # {}
    BY DEF FirstStage, Stages
  <2>3. /\ h \in Request /\ req' = [req EXCEPT ![r] = h] /\ req'[r] = h
        /\ h.at = stage
        /\ h.method = req[r].method /\ h.src = req[r].src /\ h.dst = req[r].dst
        /\ h.ifTokens = req[r].ifTokens /\ h.lists = req[r].lists /\ h.own = req[r].own
    BY <1>1, <2>1, <2>2, GotoFields
  <2> HIDE DEF h, stage
  <2>4. Shape(h)
    BY <1>1, <1>2, <2>2, <2>3 DEF Shape, LockStages
  <2>5. WithSrc(h) /\ ~WithDst(h) /\ ~Holding(h)
    BY <1>2, <2>2, <2>3 DEF WithSrc, WithDst, Holding
  <2>6. /\ <<r, "src">> \in (Tokens \cup Temporary(r)) \ DOMAIN locks
        /\ <<r, "dst">> \notin DOMAIN locks
    BY <1>2 DEF LocksOK, TemporaryOK, Temporary
  <2>7. TemporaryOK(r)'
    <3>1. /\ <<r, "src">> \in DOMAIN locks' /\ <<r, "dst">> \notin DOMAIN locks'
          /\ locks'[<<r, "src">>] = NewLock(req[r].src, TRUE)
      BY <2>1, <2>6 DEF Linked
    <3> QED BY <2>3, <2>5, <3>1 DEF TemporaryOK, WithSrc, WithDst, NewLock
  <2>8. req[r].src \in Names
    BY <1>1 DEF Request
  <2> QED BY <1>2, <1>3, <2>1, <2>3, <2>4, <2>5, <2>6, <2>7, <2>8, AddStep
<1>4. CASE ~Lockable(req[r].src, TRUE)
  BY <1>2, <1>4, AnswerStep DEF LockSrc
<1> QED BY <1>3, <1>4

\* confirmLocks locks the destination for a while, or gives up.
LEMMA LockDstStep ==
  ASSUME LocksOK, NEW r \in Requests, LockDst(r)
  PROVE  LocksOK'
<1>1. req[r] \in Request /\ Shape(req[r]) /\ req[r].at = "lockDst" /\ ReqTypes
  BY DEF LocksOK, ReqTypes, LockDst
<1>2. /\ WithSrc(req[r]) /\ ~WithDst(req[r]) /\ ~Holding(req[r]) /\ req[r].ifTokens = {}
      /\ req[r].method # "LOCK" /\ req[r].dst # {}
  BY <1>1 DEF WithSrc, WithDst, Holding, Shape, LockStages
<1>3. PICK dst \in req[r].dst :
        IF Lockable(dst, TRUE)
        THEN /\ locks' = Linked(locks, <<r, "dst">>, NewLock(dst, TRUE))
             /\ Goto(r, FirstStage(r))
        ELSE Goto(r, "undoSrc") /\ UNCHANGED locks
  BY DEF LockDst
<1> DEFINE stage == IF Lockable(dst, TRUE) THEN FirstStage(r) ELSE "undoSrc"
           h     == [req[r] EXCEPT !.at = stage]
<1>4. stage \in {"act", "stat", "undoSrc"} /\ stage \in Stages
  BY DEF FirstStage, Stages
<1>5. Goto(r, stage)
  BY <1>3
<1>6. /\ h \in Request /\ req' = [req EXCEPT ![r] = h] /\ req'[r] = h
      /\ h.at = stage
      /\ h.method = req[r].method /\ h.src = req[r].src /\ h.dst = req[r].dst
      /\ h.ifTokens = req[r].ifTokens /\ h.lists = req[r].lists /\ h.own = req[r].own
  BY <1>1, <1>4, <1>5, GotoFields
<1>7. stage = "undoSrc" <=> ~Lockable(dst, TRUE)
  BY DEF FirstStage
<1> HIDE DEF h, stage
<1>8. Shape(h)
  BY <1>1, <1>2, <1>4, <1>6 DEF Shape, LockStages
<1>9. WithSrc(h) /\ ~Holding(h)
  BY <1>2, <1>4, <1>6 DEF WithSrc, Holding
<1>10. CASE Lockable(dst, TRUE)
  <2>1. locks' = Linked(locks, <<r, "dst">>, NewLock(dst, TRUE)) /\ WithDst(h)
    BY <1>2, <1>3, <1>4, <1>6, <1>7, <1>10 DEF WithDst
  <2>2. /\ <<r, "dst">> \in (Tokens \cup Temporary(r)) \ DOMAIN locks
        /\ <<r, "src">> \in DOMAIN locks /\ locks[<<r, "src">>] = NewLock(req[r].src, TRUE)
    BY <1>2 DEF LocksOK, TemporaryOK, Temporary
  <2>3. TemporaryOK(r)'
    <3>1. /\ <<r, "src">> \in DOMAIN locks' /\ <<r, "dst">> \in DOMAIN locks'
          /\ locks'[<<r, "src">>] = NewLock(req[r].src, TRUE)
          /\ locks'[<<r, "dst">>] = NewLock(dst, TRUE)
      BY <2>1, <2>2 DEF Linked
    <3> QED BY <1>6, <1>9, <2>1, <3>1 DEF TemporaryOK, WithSrc, WithDst, NewLock
  <2>4. dst \in Names
    BY <1>1 DEF Request
  <2> QED BY <1>2, <1>6, <1>8, <1>9, <1>10, <2>1, <2>2, <2>3, <2>4, AddStep
<1>11. CASE ~Lockable(dst, TRUE)
  <2>1. ~WithDst(h) /\ UNCHANGED locks
    BY <1>3, <1>6, <1>7, <1>11 DEF WithDst
  <2> QED BY <1>2, <1>6, <1>8, <1>9, <2>1, QuietStep
<1> QED BY <1>10, <1>11

\* The lock on the source is given up.
LEMMA UndoSrcStep ==
  ASSUME LocksOK, NEW r \in Requests, UndoSrc(r)
  PROVE  LocksOK'
<1>1. /\ ~Holding(req[r]) /\ ~WithDst(req[r])
      /\ locks' = Drop(<<r, "src">>) /\ Answer(r, FALSE)
  BY DEF UndoSrc, WithDst, Holding
<1>2. <<r, "src">> \in Tokens \cup Temporary(r)
  BY DEF Temporary
<1> QED BY <1>1, <1>2, AnswerDropStep

\* The temporary lock on the destination goes first.
LEMMA ReleaseDstStep ==
  ASSUME LocksOK, NEW r \in Requests, ReleaseDst(r)
  PROVE  LocksOK'
<1>1. /\ req[r] \in Request /\ Shape(req[r]) /\ req[r].at = "releaseDst" /\ ReqTypes
      /\ locks' = Drop(<<r, "dst">>) /\ Goto(r, "release")
  BY DEF LocksOK, ReqTypes, ReleaseDst
<1> DEFINE h == [req[r] EXCEPT !.at = "release"]
<1>2. /\ h \in Request /\ req' = [req EXCEPT ![r] = h] /\ req'[r] = h
      /\ h.at = "release"
      /\ h.method = req[r].method /\ h.src = req[r].src /\ h.dst = req[r].dst
      /\ h.ifTokens = req[r].ifTokens /\ h.lists = req[r].lists /\ h.own = req[r].own
  <2>1. "release" \in Stages
    BY DEF Stages
  <2> QED BY <1>1, <2>1, GotoFields
<1> HIDE DEF h
<1>3. /\ WithSrc(req[r]) /\ ~Holding(req[r]) /\ req[r].ifTokens = {} /\ req[r].method # "LOCK"
      /\ WithSrc(h) /\ ~WithDst(h) /\ ~Holding(h)
  BY <1>1, <1>2 DEF WithSrc, WithDst, Holding, Shape, LockStages
<1>4. Shape(h)
  BY <1>1, <1>2, <1>3 DEF Shape, LockStages
<1>5. TemporaryOK(r)'
  <2>1. TemporaryOK(r) /\ WithDst(req[r])
    BY <1>1, <1>3 DEF LocksOK, WithDst, Shape
  <2>2. <<r, "dst">> \notin DOMAIN locks'
    <3>1. PICK d \in req[r].dst : locks[<<r, "dst">>] = NewLock(d, TRUE)
      BY <2>1 DEF TemporaryOK
    <3>2. NewLock(d, TRUE).held = FALSE
      BY DEF NewLock
    <3> QED BY <1>1, <3>1, <3>2, DropFields
  <2>3. <<r, "src">> \in DOMAIN locks' /\ locks'[<<r, "src">>] = NewLock(req[r].src, TRUE)
    <3>1. <<r, "src">> # <<r, "dst">>
      OBVIOUS
    <3> QED BY <1>1, <1>3, <2>1, <3>1, DropFields DEF TemporaryOK
  <2> QED BY <1>2, <1>3, <2>2, <2>3 DEF TemporaryOK, WithSrc, WithDst, NewLock
<1>6. <<r, "dst">> \in Tokens \cup Temporary(r)
  BY DEF Temporary
<1> QED BY <1>1, <1>2, <1>3, <1>4, <1>5, <1>6, DropStep

\* What holding locks, or no longer holding them, leaves of them.
LEMMA SetHeldFields ==
  ASSUME LockTypes, NEW T, NEW b \in BOOLEAN
  PROVE  /\ DOMAIN SetHeld(T, b) = DOMAIN locks
         /\ \A t \in DOMAIN locks :
              /\ SetHeld(T, b)[t] \in Lock
              /\ SetHeld(T, b)[t].root = locks[t].root
              /\ SetHeld(T, b)[t].zeroDepth = locks[t].zeroDepth
              /\ t \in T => SetHeld(T, b)[t].held = b
              /\ t \notin T => SetHeld(T, b)[t] = locks[t]
BY DEF SetHeld, LockTypes, Lock

\* Holding changes nothing of what the locks cover.
LEMMA SetHeldKeepsCover ==
  ASSUME LocksOK, NEW T, NEW b \in BOOLEAN, locks' = SetHeld(T, b)
  PROVE  /\ LockTypes' /\ Exclusive'
         /\ \A t \in DOMAIN locks, p \in Names : Covers(locks'[t], p) <=> Covers(locks[t], p)
<1>1. LockTypes
  BY DEF LocksOK
<1>2. /\ DOMAIN locks' = DOMAIN locks
      /\ \A t \in DOMAIN locks : /\ locks'[t] \in Lock
                                 /\ locks'[t].root = locks[t].root
                                 /\ locks'[t].zeroDepth = locks[t].zeroDepth
  BY <1>1, SetHeldFields
<1>3. \A t \in DOMAIN locks, p \in Names : Covers(locks'[t], p) <=> Covers(locks[t], p)
  BY <1>2 DEF Covers
<1>4. Exclusive'
  BY <1>2 DEF LocksOK, Exclusive, Covers
<1> QED BY <1>1, <1>2, <1>3, <1>4 DEF LockTypes

\* Confirm holds the locks that were shown, or the next list is tried.
LEMMA ConfirmStep ==
  ASSUME LocksOK, NEW r \in Requests, Confirm(r)
  PROVE  LocksOK'
<1> DEFINE shown   == Head(req[r].lists)
           claimed == UNION {Claimable(p, shown) : p \in NamedBy(r)}
<1>1. req[r] \in Request /\ Shape(req[r]) /\ req[r].at = "confirm" /\ ReqTypes /\ LockTypes
  BY DEF LocksOK, ReqTypes, Confirm
<1>2. /\ ~WithSrc(req[r]) /\ ~WithDst(req[r]) /\ ~Holding(req[r]) /\ req[r].ifTokens # {}
      /\ req[r].method # "LOCK" /\ req[r].lists # << >> /\ req[r].lists \in Seq(SUBSET Tokens)
      /\ \A i \in DOMAIN req[r].lists : req[r].lists[i] \subseteq req[r].ifTokens
  BY <1>1 DEF WithSrc, WithDst, Holding, Shape, LockStages, Request
<1>3. shown \subseteq Tokens /\ shown \subseteq req[r].ifTokens
  BY <1>2
<1>4. /\ claimed \subseteq shown
      /\ \A t \in claimed : t \in DOMAIN locks /\ ~locks[t].held
  BY DEF Claimable
<1>5. CASE /\ \A p \in NamedBy(r) : Claimable(p, shown) # {}
           /\ locks' = SetHeld(claimed, TRUE)
           /\ req' = [req EXCEPT ![r].own = claimed, ![r].lists = << >>, ![r].at = FirstStage(r)]
  <2> DEFINE stage == FirstStage(r)
             h     == [req[r] EXCEPT !.own = claimed, !.lists = << >>, !.at = stage]
  <2>1. stage \in {"act", "stat"} /\ stage \in Stages
    BY DEF FirstStage, Stages
  <2>2. \A p \in NamedBy(r) : \E t \in claimed : Covers(locks[t], p)
    <3>1. ASSUME NEW p \in NamedBy(r)
          PROVE  \E t \in claimed : Covers(locks[t], p)
      <4>1. PICK t \in Claimable(p, shown) : TRUE
        BY <1>5
      <4>2. t \in claimed
        BY <4>1
      <4> QED BY <4>1, <4>2 DEF Claimable
    <3> QED BY <3>1
  <2> HIDE DEF claimed, shown, stage
  <2>3. << >> \in Seq(SUBSET Tokens) /\ claimed \in SUBSET Tokens /\ claimed \subseteq req[r].ifTokens
    BY <1>3, <1>4
  <2>4. /\ h \in Request /\ req' = [req EXCEPT ![r] = h] /\ req'[r] = h
        /\ h.at = stage
        /\ h.method = req[r].method /\ h.src = req[r].src /\ h.dst = req[r].dst
        /\ h.ifTokens = req[r].ifTokens /\ h.lists = << >> /\ h.own = claimed
    <3>1. h \in Request
      BY <1>1, <2>1, <2>3 DEF Request
    <3>2. req' = [req EXCEPT ![r] = h]
      BY <1>1, <1>5 DEF ReqTypes, Request, stage
    <3> QED BY <3>1, <3>2, <1>1 DEF ReqTypes, Request
  <2> HIDE DEF h
  <2>5. Shape(h)
    BY <1>1, <1>2, <2>1, <2>3, <2>4 DEF Shape, LockStages
  <2>6. ~WithSrc(h) /\ ~WithDst(h) /\ Holding(h)
    BY <1>2, <2>1, <2>4 DEF WithSrc, WithDst, Holding
  <2>7. /\ LockTypes' /\ Exclusive' /\ DOMAIN locks' = DOMAIN locks
        /\ \A t \in claimed : locks'[t].held
        /\ \A t \in DOMAIN locks \ claimed : locks'[t] = locks[t]
        /\ \A t \in DOMAIN locks, p \in Names : Covers(locks'[t], p) <=> Covers(locks[t], p)
    BY <1>1, <1>4, <1>5, SetHeldFields, SetHeldKeepsCover
  <2>8. TemporaryOK(r)'
    <3>1. <<r, "src">> \notin DOMAIN locks' /\ <<r, "dst">> \notin DOMAIN locks'
      BY <1>2, <2>7 DEF LocksOK, TemporaryOK
    <3> QED BY <2>4, <2>6, <3>1 DEF TemporaryOK, WithSrc, WithDst
  <2>9. HoldsOwn(r)'
    <3>1. NamedBy(r) \subseteq Names /\ NamedBy(r)' = NamedBy(r)
      BY <1>1, <2>4 DEF NamedBy, Request
    <3>2. \A p \in NamedBy(r) : \E t \in claimed : Covers(locks'[t], p)
      BY <1>4, <2>2, <2>7, <3>1
    <3>3. \A p \in NamedBy(r)' : \E t \in claimed : Covers(locks[t], p)'
      BY <3>1, <3>2 DEF Covers
    <3> QED BY <1>4, <2>4, <2>7, <3>3 DEF HoldsOwn
  <2>10. ASSUME NEW q \in Requests \ {r}, NEW t \in Temporary(q)
         PROVE  /\ t \in DOMAIN locks <=> t \in DOMAIN locks'
                /\ t \in DOMAIN locks => locks'[t] = locks[t]
    <3>1. t \notin claimed
      BY <2>3, TemporaryApart
    <3> QED BY <3>1, <2>7
  <2>11. \A t : Held(t) => t \in DOMAIN locks' /\ locks'[t] = locks[t]
    BY <1>4, <2>7 DEF Held
  <2>12. \A t \in DOMAIN locks' : locks'[t].held => t \in h.own \/ Held(t)
    BY <2>4, <2>7 DEF Held
  <2>13. \A t \in h.own : ~Held(t)
    BY <1>4, <2>4 DEF Held
  <2>14. \A q \in Requests \ {r} : req[q].method = "LOCK" => req[q].own \cap h.ifTokens = {}
    BY <2>4 DEF LocksOK, Unannounced
  <2>15. h.method # "LOCK"
    BY <1>2, <2>4
  <2> QED BY <1>2, <2>4, <2>5, <2>6, <2>7, <2>8, <2>9, <2>10, <2>11, <2>12, <2>13, <2>14, <2>15,
             HandlerStep
<1>6. CASE NextList(r) /\ UNCHANGED locks
  <2>1. CASE Len(req[r].lists) > 1
    <3> DEFINE h == [req[r] EXCEPT !.lists = Tail(@)]
    <3>1. /\ Tail(req[r].lists) \in Seq(SUBSET Tokens) /\ Tail(req[r].lists) # << >>
          /\ \A i \in DOMAIN Tail(req[r].lists) : Tail(req[r].lists)[i] \subseteq req[r].ifTokens
      BY <1>2, <2>1
    <3>2. /\ h \in Request /\ req' = [req EXCEPT ![r] = h]
          /\ h.at = "confirm" /\ h.lists = Tail(req[r].lists)
          /\ h.method = req[r].method /\ h.src = req[r].src /\ h.dst = req[r].dst
          /\ h.ifTokens = req[r].ifTokens /\ h.own = req[r].own
      BY <1>1, <1>6, <2>1, <3>1 DEF NextList, ReqTypes, Request
    <3> HIDE DEF h
    <3>3. Shape(h)
      BY <1>1, <1>2, <3>1, <3>2 DEF Shape, LockStages
    <3>4. ~WithSrc(h) /\ ~WithDst(h) /\ ~Holding(h)
      BY <3>2 DEF WithSrc, WithDst, Holding
    <3> QED BY <1>2, <1>6, <3>2, <3>3, <3>4, QuietStep
  <2>2. CASE ~(Len(req[r].lists) > 1)
    BY <1>2, <1>6, <2>2, AnswerStep DEF NextList
  <2> QED BY <2>1, <2>2
<1> QED BY <1>5, <1>6 DEF Confirm

\* The release function gives back what the request has left.
LEMMA ReleaseStep ==
  ASSUME LocksOK, NEW r \in Requests, Release(r)
  PROVE  LocksOK'
<1>1. /\ req[r] \in Request /\ Shape(req[r]) /\ req[r].at = "release" /\ ReqTypes /\ LockTypes
      /\ Answer(r, FALSE) /\ ~WithDst(req[r])
  BY DEF LocksOK, ReqTypes, Release, WithDst
<1>2. CASE req[r].ifTokens = {}
  <2>1. locks' = Drop(<<r, "src">>) /\ ~Holding(req[r])
    BY <1>2 DEF Release, Holding
  <2>2. <<r, "src">> \in Tokens \cup Temporary(r)
    BY DEF Temporary
  <2> QED BY <1>1, <2>1, <2>2, AnswerDropStep
<1>3. CASE req[r].ifTokens # {}
  <2> DEFINE own == req[r].own
             h   == Returned(FALSE)
  <2>1. /\ locks' = SetHeld(own, FALSE) /\ req' = [req EXCEPT ![r] = h] /\ req'[r] = h
        /\ Holding(req[r]) /\ ~WithSrc(req[r])
    BY <1>1, <1>3 DEF Release, Answer, Returned, ReqTypes, Holding, WithSrc
  <2>2. own \subseteq Tokens
    BY <1>1 DEF Request
  <2>3. /\ h \in Request /\ Shape(h) /\ ~WithSrc(h) /\ ~WithDst(h) /\ ~Holding(h)
        /\ h.method # "LOCK" /\ h.ifTokens = {}
    BY ReturnedOwnsNothing
  <2> HIDE DEF h
  <2>4. /\ LockTypes' /\ Exclusive' /\ DOMAIN locks' = DOMAIN locks
        /\ \A t \in DOMAIN locks : t \in own => ~locks'[t].held
        /\ \A t \in DOMAIN locks \ own : locks'[t] = locks[t]
    BY <1>1, <2>1, SetHeldFields, SetHeldKeepsCover
  <2>5. TemporaryOK(r)'
    <3>1. <<r, "src">> \notin DOMAIN locks' /\ <<r, "dst">> \notin DOMAIN locks'
      BY <1>1, <2>1, <2>4 DEF LocksOK, TemporaryOK
    <3> QED BY <2>1, <2>3, <3>1 DEF TemporaryOK, WithSrc, WithDst
  <2>6. HoldsOwn(r)'
    BY <2>1, <2>3 DEF HoldsOwn, Holding
  <2>7. ASSUME NEW q \in Requests \ {r}, NEW t \in Temporary(q)
        PROVE  /\ t \in DOMAIN locks <=> t \in DOMAIN locks'
               /\ t \in DOMAIN locks => locks'[t] = locks[t]
    <3>1. t \notin own
      BY <2>2, TemporaryApart
    <3> QED BY <3>1, <2>4
  <2>8. \A t : Held(t) /\ t \notin own => t \in DOMAIN locks' /\ locks'[t] = locks[t]
    BY <2>4 DEF Held
  <2>9. \A t \in DOMAIN locks' : locks'[t].held => Held(t) /\ t \notin own
    BY <2>4 DEF Held
  <2> HIDE DEF own
  <2> QED BY <2>1, <2>3, <2>4, <2>5, <2>6, <2>7, <2>8, <2>9, HandlerStep DEF own
<1> QED BY <1>2, <1>3

\* LOCK makes a lock under a token that nothing remembers.
LEMMA LockCreateStep ==
  ASSUME LocksOK, NEW r \in Requests, LockCreate(r)
  PROVE  LocksOK'
<1>1. req[r] \in Request /\ Shape(req[r]) /\ req[r].at = "lock" /\ ReqTypes
  BY DEF LocksOK, ReqTypes, LockCreate
<1>2. /\ ~WithSrc(req[r]) /\ ~WithDst(req[r]) /\ ~Holding(req[r]) /\ req[r].ifTokens = {}
      /\ req[r].method = "LOCK"
  BY <1>1 DEF WithSrc, WithDst, Holding, Shape, LockStages
<1>3. CASE Lockable(req[r].src, req[r].option)
  <2>1. PICK t \in Free :
          /\ locks' = Linked(locks, t, NewLock(req[r].src, req[r].option))
          /\ req' = [req EXCEPT ![r].at = "lockStat", ![r].own = {t}]
    BY <1>3 DEF LockCreate
  <2> DEFINE h == [req[r] EXCEPT !.at = "lockStat", !.own = {t}]
  <2>2. t \in Tokens /\ t \notin DOMAIN locks /\ \A q \in Requests : {t} \cap req[q].ifTokens = {}
    BY DEF Free
  <2>3. /\ h \in Request /\ req' = [req EXCEPT ![r] = h] /\ req'[r] = h
        /\ h.at = "lockStat"
        /\ h.method = req[r].method /\ h.src = req[r].src /\ h.dst = req[r].dst
        /\ h.ifTokens = req[r].ifTokens /\ h.lists = req[r].lists /\ h.own = {t}
    <3>1. "lockStat" \in Stages /\ {t} \in SUBSET Tokens
      BY <2>2 DEF Stages
    <3>2. h \in Request
      BY <1>1, <3>1 DEF Request
    <3>3. req' = [req EXCEPT ![r] = h]
      BY <1>1, <2>1 DEF ReqTypes, Request
    <3> QED BY <3>2, <3>3, <1>1 DEF ReqTypes, Request
  <2> HIDE DEF h
  <2>4. Shape(h)
    BY <1>1, <1>2, <2>2, <2>3 DEF Shape, LockStages
  <2>5. ~WithSrc(h) /\ ~WithDst(h) /\ ~Holding(h)
    BY <2>3 DEF WithSrc, WithDst, Holding
  <2>6. TemporaryOK(r)'
    <3>1. <<r, "src">> \notin DOMAIN locks' /\ <<r, "dst">> \notin DOMAIN locks'
      <4>1. t # <<r, "src">> /\ t # <<r, "dst">>
        BY <2>2, TemporaryApart DEF Temporary
      <4> QED BY <1>2, <2>1, <4>1 DEF LocksOK, TemporaryOK, Linked
    <3> QED BY <2>3, <2>5, <3>1 DEF TemporaryOK, WithSrc, WithDst
  <2>7. req[r].src \in Names /\ req[r].option \in BOOLEAN
    BY <1>1 DEF Request
  <2> QED BY <1>2, <1>3, <2>1, <2>2, <2>3, <2>4, <2>5, <2>6, <2>7, AddStep
<1>4. CASE ~Lockable(req[r].src, req[r].option)
  BY <1>2, <1>4, AnswerStep DEF LockCreate
<1> QED BY <1>3, <1>4

\* A LOCK that fails gives its lock back.
LEMMA LockUndoStep ==
  ASSUME LocksOK, NEW r \in Requests, LockUndo(r)
  PROVE  LocksOK'
<1>1. PICK t \in req[r].own : locks' = Drop(t)
  BY DEF LockUndo
<1>2. t \in Tokens /\ Answer(r, TRUE)
  BY DEF LocksOK, ReqTypes, Request, LockUndo
<1>3. ~WithSrc(req[r]) /\ ~WithDst(req[r]) /\ ~Holding(req[r])
  BY DEF LockUndo, WithSrc, WithDst, Holding
<1> QED BY <1>1, <1>2, <1>3, AnswerDropStep

\* A client unlocks, or the time of its lock runs out, when nobody holds it.
LEMMA ClientDrops ==
  ASSUME LocksOK, NEW t \in Tokens, locks' = Drop(t), UNCHANGED req
  PROVE  LocksOK'
<1>1. /\ DOMAIN locks' \subseteq DOMAIN locks
      /\ \A u \in DOMAIN locks : u # t \/ locks[u].held => u \in DOMAIN locks'
      /\ \A u \in DOMAIN locks' : locks'[u] = locks[u]
  BY DropFields
<1>2. LockTypes' /\ ReqTypes'
  BY <1>1 DEF LocksOK, LockTypes, ReqTypes
<1>3. Exclusive'
  BY <1>1 DEF LocksOK, Exclusive, Covers
<1>4. ASSUME NEW q \in Requests PROVE TemporaryOK(q)' /\ HoldsOwn(q)'
  <2>1. ASSUME NEW u \in Temporary(q)
        PROVE  /\ u \in DOMAIN locks <=> u \in DOMAIN locks'
               /\ u \in DOMAIN locks => locks'[u] = locks[u]
    <3>1. u # t
      BY TemporaryApart
    <3> QED BY <3>1, <1>1
  <2>2. Holding(req[q]) => \A u \in req[q].own : u \in DOMAIN locks' /\ locks'[u] = locks[u]
    BY <1>1 DEF LocksOK, HoldsOwn
  <2> QED BY <2>1, <2>2, TemporaryKept, HoldsKept DEF LocksOK
<1>5. HeldByOne' /\ Unannounced'
  BY <1>1 DEF LocksOK, HeldByOne, Unannounced, Holding
<1> QED BY <1>2, <1>3, <1>4, <1>5 DEF LocksOK

-----------------------------------------------------------------------------
\* The calls of the lock system and those of the file system keep LocksOK.
LEMMA LocksOKKept ==
  ASSUME LocksOK, [Next]_vars
  PROVE  LocksOK'
<1>1. ASSUME NEW r \in Requests, Arrive(r)
      PROVE  LocksOK'
  <2>1. ASSUME NEW src \in Names, NEW method \in Methods \ {"MOVE", "LOCK"},
               NEW lists \in Headers(method), Start(r, method, src, {}, FALSE, lists)
        PROVE  LocksOK'
    <3>1. {} \in SUBSET Names /\ (\E d \in Names : {} \subseteq {d}) /\ method \in Methods
          /\ method # "LOCK"
      OBVIOUS
    <3> QED BY <2>1, <3>1, StartStep
  <2>2. ASSUME NEW src \in Names, NEW zeroDepth \in BOOLEAN, "LOCK" \in Methods,
               Start(r, "LOCK", src, {}, zeroDepth, << >>)
        PROVE  LocksOK'
    <3>1. << >> \in Headers("LOCK")
      BY DEF Headers
    <3> QED BY <2>2, <3>1, StartStep
  <2>3. ASSUME NEW src \in Names, NEW dst \in Names \ {src}, NEW overwrite \in BOOLEAN,
               NEW lists \in Headers("MOVE"), "MOVE" \in Methods,
               Start(r, "MOVE", src, {dst}, overwrite, lists)
        PROVE  LocksOK'
    <3>1. {dst} \in SUBSET Names /\ \E d \in Names : {dst} \subseteq {d}
      OBVIOUS
    <3> QED BY <2>3, <3>1, StartStep
  <2>4. ASSUME NEW t \in Known, Refresh(r, t)
        PROVE  LocksOK'
    <3>1. ~WithSrc(req[r]) /\ ~Holding(req[r])
      BY <2>4 DEF Refresh, WithSrc, Holding
    <3>2. (~Unlockable(t)) \in BOOLEAN
      BY DEF Unlockable
    <3> QED BY <2>4, <3>1, <3>2, AnswerStep DEF Refresh
  <2>5. ASSUME NEW t \in Known, Unlock(r, t)
        PROVE  LocksOK'
    <3>1. ~WithSrc(req[r]) /\ ~WithDst(req[r]) /\ ~Holding(req[r]) /\ t \in Tokens
      BY <2>5 DEF Unlock, WithSrc, WithDst, Holding, Known
    <3> QED BY <2>5, <3>1, AnswerDropStep DEF Unlock
  <2> QED BY <1>1, <2>1, <2>2, <2>3, <2>4, <2>5 DEF Arrive
<1>2. ASSUME NEW r \in Requests, LockSrc(r) \/ LockDst(r) \/ UndoSrc(r) \/ Confirm(r)
                                 \/ ReleaseDst(r) \/ Release(r) \/ LockCreate(r) \/ LockUndo(r)
      PROVE  LocksOK'
  BY <1>2, LockSrcStep, LockDstStep, UndoSrcStep, ConfirmStep, ReleaseDstStep, ReleaseStep,
     LockCreateStep, LockUndoStep
<1>3. ASSUME NEW r \in Requests, StatFound(r) \/ StatNotFound(r) \/ RemoveDst(r) \/ Act(r)
                                 \/ CallFails(r)
      PROVE  LocksOK'
  <2>1. /\ Working(r) /\ UNCHANGED locks
        /\ Goto(r, "remove") \/ Goto(r, "act") \/ Leave(r)
    BY <1>3 DEF StatFound, StatNotFound, RemoveDst, Act, Written, CallFails, Working
  <2> QED BY <2>1, GoesOn
<1>4. ASSUME NEW r \in Requests, LockStat(r) \/ LockPut(r) \/ LockPutFails(r)
      PROVE  LocksOK'
  <2>1. /\ req[r].at \in {"lockStat", "lockCreate"} /\ UNCHANGED locks
        /\ Answer(r, FALSE) \/ Goto(r, "lockCreate") \/ Goto(r, "lockUndo")
    BY <1>4 DEF LockStat, LockPut, LockPutFails
  <2>2. ~WithSrc(req[r]) /\ ~Holding(req[r])
    BY <2>1 DEF WithSrc, Holding
  <2> QED BY <2>1, <2>2, LockGoesOn, AnswerStep
<1>5. ASSUME NEW t \in Tokens, Lapse(t)
      PROVE  LocksOK'
  BY <1>5, ClientDrops DEF Lapse
<1>6. CASE UNCHANGED vars
  <2>1. UNCHANGED <<locks, req>>
    BY <1>6 DEF vars
  <2>2. LockTypes' /\ ReqTypes' /\ Exclusive'
    BY <2>1 DEF LocksOK, LockTypes, ReqTypes, Exclusive, Covers
  <2>3. ASSUME NEW r \in Requests PROVE TemporaryOK(r)' /\ HoldsOwn(r)'
    <3>1. TemporaryOK(r) /\ HoldsOwn(r)
      BY DEF LocksOK
    <3>2. \A t : locks'[t] = locks[t] /\ (t \in DOMAIN locks <=> t \in DOMAIN locks')
      BY <2>1
    <3>3. req'[r] = req[r]
      BY <2>1
    <3>4. Holding(req[r]) => \A t \in req[r].own : t \in DOMAIN locks' /\ locks'[t] = locks[t]
      BY <3>1, <3>2 DEF HoldsOwn
    <3> QED BY <3>1, <3>2, <3>3, <3>4, TemporaryKept, HoldsKept
  <2>4. HeldByOne' /\ Unannounced'
    BY <2>1 DEF LocksOK, HeldByOne, Unannounced, Holding
  <2> QED BY <2>2, <2>3, <2>4 DEF LocksOK
<1> QED BY <1>1, <1>2, <1>3, <1>4, <1>5, <1>6 DEF Next, Step

\* A process starts with no lock and no request.
LEMMA InitLocksOK == Init => LocksOK
<1> SUFFICES ASSUME Init PROVE LocksOK
  OBVIOUS
<1>1. /\ DOMAIN locks = {} /\ req = [r \in Requests |-> Returned(FALSE)]
  BY DEF Init, Returned
<1>2. LockTypes /\ Exclusive
  BY <1>1 DEF LockTypes, Exclusive
<1>3. ReqTypes
  BY <1>1, ReturnedOwnsNothing DEF ReqTypes
<1>4. \A r \in Requests : TemporaryOK(r) /\ HoldsOwn(r)
  BY <1>1, ReturnedOwnsNothing DEF TemporaryOK, HoldsOwn
<1>5. HeldByOne /\ Unannounced
  BY <1>1, ReturnedOwnsNothing DEF HeldByOne, Unannounced
<1> QED BY <1>2, <1>3, <1>4, <1>5 DEF LocksOK

-----------------------------------------------------------------------------
\* What a method makes of the resources.
LEMMA FilesMade ==
  ASSUME FilesOK, NEW p \in Names, NEW q \in Names, NEW body \in Bodies, NEW v \in BOOLEAN
  PROVE  /\ FilesIn(Put(p, body)) /\ FilesIn(NewDir(p)) /\ FilesIn(Without(files, p))
         /\ p \in DOMAIN files => FilesIn([files EXCEPT ![p].patched = v])
         /\ p \in DOMAIN files => FilesIn(Renamed(p, q))
<1>1. /\ p \in Seq(Segments) /\ q \in Seq(Segments)
      /\ DOMAIN files \subseteq Seq(Segments) /\ \A x \in DOMAIN files : files[x] \in File
  BY NamesAreSequences DEF FilesOK, FilesIn
<1>2. FilesIn(Put(p, body))
  <2>1. CASE p \in DOMAIN files
    <3>1. [files[p] EXCEPT !.body = body] \in File
      BY <1>1, <2>1 DEF File
    <3>2. Put(p, body) = Linked(files, p, [files[p] EXCEPT !.body = body])
      BY <2>1 DEF Put
    <3> QED BY <1>1, <3>1, <3>2 DEF FilesIn, Linked
  <2>2. CASE p \notin DOMAIN files
    <3>1. [dir |-> FALSE, body |-> body, patched |-> FALSE] \in File
      BY DEF File
    <3>2. Put(p, body) = Linked(files, p, [dir |-> FALSE, body |-> body, patched |-> FALSE])
      BY <2>2 DEF Put
    <3> QED BY <1>1, <3>1, <3>2 DEF FilesIn, Linked
  <2> QED BY <2>1, <2>2
<1>3. FilesIn(NewDir(p))
  <2>1. [dir |-> TRUE, body |-> "empty", patched |-> FALSE] \in File
    BY BodiesAssumption DEF File
  <2> QED BY <1>1, <2>1 DEF FilesIn, NewDir, Linked
<1>4. FilesIn(Without(files, p))
  BY <1>1 DEF FilesIn, Without, Restrict
<1>5. ASSUME p \in DOMAIN files
      PROVE  FilesIn([files EXCEPT ![p].patched = v])
  <2>1. [files[p] EXCEPT !.patched = v] \in File
    BY <1>1, <1>5 DEF File
  <2> QED BY <1>1, <2>1 DEF FilesIn
<1>6. ASSUME p \in DOMAIN files
      PROVE  FilesIn(Renamed(p, q))
  <2>1. /\ FilesIn(MovedAlone(files, p, q)) /\ FilesIn(MovedTree(files, p, q))
    BY <1>1, <1>6, EditsInvent DEF FilesIn
  <2> QED BY <2>1 DEF Renamed
<1> QED BY <1>2, <1>3, <1>4, <1>5, <1>6

\* Every step keeps the types of the resources.
LEMMA FilesOKKept ==
  ASSUME LocksOK, FilesOK, [Next]_vars
  PROVE  FilesOK'
<1>1. \A r \in Requests : req[r].src \in Names /\ req[r].dst \subseteq Names
  BY DEF LocksOK, ReqTypes, Request
<1>2. CASE UNCHANGED files
  BY <1>2 DEF FilesOK, FilesIn
<1>3. ASSUME NEW r \in Requests, RemoveDst(r)
      PROVE  FilesOK'
  <2>1. PICK dst \in req[r].dst : files' = Without(files, dst)
    BY <1>3 DEF RemoveDst
  <2>2. FilesIn(Without(files, dst))
    BY <1>1, <2>1, FilesMade, BodiesAssumption
  <2> QED BY <2>1, <2>2 DEF FilesOK, FilesIn
<1>4. ASSUME NEW r \in Requests, Act(r)
      PROVE  FilesOK'
  <2> DEFINE p == req[r].src
  <2>1. \/ files' = Without(files, p)
        \/ \E body \in Bodies : files' = Put(p, body)
        \/ files' = NewDir(p)
        \/ p \in DOMAIN files /\ \E v \in BOOLEAN : files' = [files EXCEPT ![p].patched = v]
        \/ p \in DOMAIN files /\ \E dst \in req[r].dst : files' = Renamed(p, dst)
    BY <1>4 DEF Act, Written, Renamable
  <2>2. FilesIn(files')
    <3>1. p \in Names /\ req[r].dst \subseteq Names
      BY <1>1
    <3> HIDE DEF p
    <3>2. CASE \E body \in Bodies : files' = Put(p, body)
      BY <3>1, <3>2, FilesMade
    <3>3. CASE files' = Without(files, p) \/ files' = NewDir(p)
      BY <3>1, <3>3, FilesMade, BodiesAssumption
    <3>4. CASE p \in DOMAIN files /\ \E v \in BOOLEAN : files' = [files EXCEPT ![p].patched = v]
      <4>1. PICK v \in BOOLEAN : files' = [files EXCEPT ![p].patched = v]
        BY <3>4
      <4>2. FilesIn([files EXCEPT ![p].patched = v])
        BY <3>1, <3>4, FilesMade, BodiesAssumption
      <4> QED BY <4>1, <4>2
    <3>5. CASE p \in DOMAIN files /\ \E dst \in req[r].dst : files' = Renamed(p, dst)
      BY <3>1, <3>5, FilesMade, BodiesAssumption
    <3> QED BY <2>1, <3>2, <3>3, <3>4, <3>5
  <2> QED BY <2>2 DEF FilesOK, FilesIn
<1>5. ASSUME NEW r \in Requests, LockPut(r)
      PROVE  FilesOK'
  <2>1. files' = Put(req[r].src, "empty")
    BY <1>5 DEF LockPut
  <2>2. FilesIn(files')
    BY <1>1, <2>1, FilesMade, BodiesAssumption
  <2> QED BY <2>2 DEF FilesOK, FilesIn
<1>6. UNCHANGED files \/ \E r \in Requests : RemoveDst(r) \/ Act(r) \/ LockPut(r)
  BY DEF Next, Step, Arrive, Start, LockSrc, LockDst, UndoSrc, Confirm, StatFound, StatNotFound,
         CallFails, ReleaseDst, Release, LockCreate, LockStat, LockPutFails, LockUndo, Refresh,
         Unlock, Lapse, vars
<1> QED BY <1>2, <1>3, <1>4, <1>5, <1>6

\* The invariant of the handlers: at each stage of a request exactly the locks
\* are there that its release function or its deferred Unlock gives back.
THEOREM LocksInvariant == Spec => [](LocksOK /\ FilesOK)
<1>1. Init => LocksOK /\ FilesOK
  <2>1. Init => FilesOK
    BY NamesAssumption, StoresAssumption, BodiesAssumption DEF Init, FilesOK, FilesIn, File
  <2> QED BY <2>1, InitLocksOK
<1>2. LocksOK /\ FilesOK /\ [Next]_vars => (LocksOK /\ FilesOK)'
  BY LocksOKKept, FilesOKKept
<1> QED BY <1>1, <1>2, PTL DEF Spec

-----------------------------------------------------------------------------
\* Types; a temporary lock is on a resource that its request names.
THEOREM TypeCorrect == Spec => []TypeOK
<1>1. LocksOK /\ FilesOK => TypeOK
  <2> SUFFICES ASSUME LocksOK, FilesOK PROVE TypeOK
    OBVIOUS
  <2>1. ASSUME NEW r \in Requests, NEW t \in DOMAIN locks, t \in Temporary(r)
        PROVE  locks[t].root \in NamedBy(r) /\ locks[t].zeroDepth /\ ~locks[t].held
    <3>1. \E d \in NamedBy(r) : locks[t] = NewLock(d, TRUE)
      BY <2>1 DEF LocksOK, TemporaryOK, Temporary, NamedBy
    <3> QED BY <3>1 DEF NewLock
  <2> QED BY <2>1 DEF TypeOK, LocksOK, LockTypes, ReqTypes, FilesOK, FilesIn
<1> QED BY <1>1, LocksInvariant, PTL

\* What confirmLocks is for (webdav.go:99-170), in each state.
LEMMA WorkingIsLocked ==
  ASSUME LocksOK, NEW r \in Requests, Working(r), NEW p \in NamedBy(r)
  PROVE  \E t \in DOMAIN locks :
           /\ Covers(locks[t], p)
           /\ t \in Temporary(r) \/ (t \in req[r].own /\ locks[t].held)
<1>1. TemporaryOK(r) /\ HoldsOwn(r) /\ ReqTypes /\ Shape(req[r])
  BY DEF LocksOK, ReqTypes
<1>2. CASE req[r].ifTokens # {}
  BY <1>1, <1>2 DEF HoldsOwn, Holding, Working
<1>3. CASE req[r].ifTokens = {} /\ p = req[r].src
  <2>1. <<r, "src">> \in DOMAIN locks /\ locks[<<r, "src">>] = NewLock(p, TRUE)
    BY <1>1, <1>3 DEF TemporaryOK, WithSrc, Working
  <2> QED BY <2>1 DEF Covers, NewLock, Temporary
<1>4. CASE req[r].ifTokens = {} /\ p \in req[r].dst
  <2>1. <<r, "dst">> \in DOMAIN locks /\ \E d \in req[r].dst : locks[<<r, "dst">>] = NewLock(d, TRUE)
    BY <1>1, <1>4 DEF TemporaryOK, WithDst, Working
  <2>2. locks[<<r, "dst">>] = NewLock(p, TRUE)
    BY <1>1, <1>4, <2>1 DEF Shape
  <2> QED BY <2>1, <2>2 DEF Covers, NewLock, Temporary
<1> QED BY <1>2, <1>3, <1>4 DEF NamedBy

\* While a handler works, each resource it names is under a lock that it made
\* or that it holds, whatever lapses, is unlocked or is locked by others meanwhile.
THEOREM NamedLocked == Spec => []NamedAreLocked
<1>1. LocksOK => NamedAreLocked
  BY WorkingIsLocked DEF NamedAreLocked
<1> QED BY <1>1, LocksInvariant, PTL

\* Two handlers that work at the same time never name the same resource: both
\* would have it under a lock of their own, and only one lock covers it.
THEOREM OneWriterAtATime == Spec => []OneWriter
<1>1. LocksOK => OneWriter
  <2> SUFFICES ASSUME LocksOK, NEW r \in Requests, NEW q \in Requests, r # q,
                      Working(r), Working(q), NEW p \in NamedBy(r) \cap NamedBy(q)
               PROVE  FALSE
    BY DEF OneWriter
  <2>1. PICK t \in DOMAIN locks :
          Covers(locks[t], p) /\ (t \in Temporary(r) \/ (t \in req[r].own /\ locks[t].held))
    BY WorkingIsLocked
  <2>2. PICK u \in DOMAIN locks :
          Covers(locks[u], p) /\ (u \in Temporary(q) \/ (u \in req[q].own /\ locks[u].held))
    BY WorkingIsLocked
  <2>3. p \in Names
    BY DEF LocksOK, ReqTypes, Request, NamedBy
  <2>4. t = u
    BY <2>1, <2>2, <2>3 DEF LocksOK, Exclusive
  <2>5. req[r].own \subseteq Tokens /\ req[q].own \subseteq Tokens
    BY DEF LocksOK, ReqTypes, Request
  <2>6. t \notin Temporary(r) /\ t \notin Temporary(q)
    BY <2>1, <2>2, <2>4, <2>5, TemporaryApart
  <2>7. \A x \in {r, q} : Working(x) /\ req[x].own # {} => Holding(req[x])
    BY DEF LocksOK, ReqTypes, Shape, LockStages, Working, Holding
  <2> QED BY <2>1, <2>2, <2>4, <2>6, <2>7 DEF LocksOK, HeldByOne
<1> QED BY <1>1, LocksInvariant, PTL

\* A lock that clients cannot unlock never outlives the request that needs it.
THEOREM NothingLeftBehind == Spec => []NoLockLeftBehind
<1>1. LocksOK => NoLockLeftBehind
  <2> SUFFICES ASSUME LocksOK, NEW t \in DOMAIN locks
               PROVE  /\ \A r \in Requests : t \in Temporary(r) => req[r].at # "done"
                      /\ locks[t].held => \E r \in Requests : t \in req[r].own /\ req[r].at # "done"
    BY DEF NoLockLeftBehind
  <2>1. ASSUME NEW r \in Requests, t \in Temporary(r)
        PROVE  req[r].at # "done"
    BY <2>1 DEF LocksOK, TemporaryOK, Temporary, WithSrc, WithDst
  <2>2. ASSUME locks[t].held
        PROVE  \E r \in Requests : t \in req[r].own /\ req[r].at # "done"
    BY <2>2 DEF LocksOK, HeldByOne, Holding
  <2> QED BY <2>1, <2>2
<1> QED BY <1>1, LocksInvariant, PTL

-----------------------------------------------------------------------------
\* A step of a handler is of no consequence for where the others are.
LEMMA OthersStayPut ==
  ASSUME ReqTypes, NEW q \in Requests, Arrive(q) \/ Step(q), NEW r \in Requests \ {q}
  PROVE  req'[r] = req[r]
<1>1. ASSUME NEW stage, Goto(q, stage) PROVE req'[r] = req[r]
  BY <1>1 DEF Goto, ReqTypes
<1>2. ASSUME NEW b, Answer(q, b) PROVE req'[r] = req[r]
  BY <1>2 DEF Answer, ReqTypes
<1>3. ASSUME Leave(q) PROVE req'[r] = req[r]
  BY <1>1, <1>3 DEF Leave
<1>4. CASE Arrive(q)
  <2>1. CASE \E method, src, dst, option, lists : Start(q, method, src, dst, option, lists)
    BY <2>1 DEF Start, ReqTypes
  <2>2. CASE \E t \in Known : Refresh(q, t) \/ Unlock(q, t)
    BY <2>2, <1>2 DEF Refresh, Unlock
  <2> QED BY <1>4, <2>1, <2>2 DEF Arrive
<1>5. CASE LockSrc(q) \/ LockDst(q) \/ UndoSrc(q)
  BY <1>1, <1>2, <1>5 DEF LockSrc, LockDst, UndoSrc
<1>6. CASE Confirm(q)
  BY <1>2, <1>6 DEF Confirm, NextList, ReqTypes
<1>7. CASE StatFound(q) \/ StatNotFound(q) \/ RemoveDst(q) \/ Act(q) \/ CallFails(q)
  BY <1>1, <1>3, <1>7 DEF StatFound, StatNotFound, RemoveDst, Act, Written, CallFails
<1>8. CASE ReleaseDst(q) \/ Release(q) \/ LockStat(q) \/ LockPut(q) \/ LockPutFails(q) \/ LockUndo(q)
  BY <1>1, <1>2, <1>8 DEF ReleaseDst, Release, LockStat, LockPut, LockPutFails, LockUndo
<1>9. CASE LockCreate(q)
  BY <1>2, <1>9 DEF LockCreate, ReqTypes
<1> QED BY <1>4, <1>5, <1>6, <1>7, <1>8, <1>9 DEF Step

\* A LOCK that answers with an error leaves no lock behind (webdav.go:439-443):
\* its lock has lapsed or is dropped, for nobody else can hold it.
THEOREM LockIsUndone == Spec => LockUndoneOnError
<1> DEFINE Undone == \A r \in Requests :
      /\ req[r].method = "LOCK" /\ req'[r].at = "done" /\ req'[r].refused
      => req[r].own \cap DOMAIN locks' = {}
<1>1. LocksOK /\ [Next]_vars => [Undone]_vars
  <2> SUFFICES ASSUME LocksOK, [Next]_vars, NEW r \in Requests,
                      req[r].method = "LOCK", req'[r].at = "done", req'[r].refused
               PROVE  req[r].own \cap DOMAIN locks' = {} \/ UNCHANGED vars
    OBVIOUS
  <2>1. Shape(req[r]) /\ req[r].at \in LockStages /\ ReqTypes
    BY DEF LocksOK, ReqTypes, Shape
  <2>2. req'[r] # req[r]
    BY <2>1 DEF LockStages
  <2>3. Arrive(r) \/ Step(r)
    <3>1. ~ \E t \in Tokens : Lapse(t)
      BY <2>2 DEF Lapse
    <3>2. UNCHANGED vars \/ \E q \in Requests : Arrive(q) \/ Step(q)
      BY <3>1 DEF Next
    <3>3. \E q \in Requests : Arrive(q) \/ Step(q)
      BY <2>2, <3>2 DEF vars
    <3> QED BY <2>1, <2>2, <3>3, OthersStayPut
  <2>4. CASE req[r].at = "lockUndo"
    <3>1. LockUndo(r)
      BY <2>3, <2>4 DEF Arrive, Step, Start, Refresh, Unlock, LockSrc, LockDst, UndoSrc, Confirm,
         StatFound, StatNotFound, RemoveDst, Act, CallFails, ReleaseDst, Release, LockCreate,
         LockStat, LockPut, LockPutFails
    <3>2. PICK t \in req[r].own : locks' = Drop(t)
      BY <3>1 DEF LockUndo
    <3>3. req[r].own = {t}
      BY <2>1, <2>4, <3>2 DEF Shape, LockStages
    <3>4. ~Held(t)
      BY <3>2 DEF LocksOK, HeldByOne, Held, Unannounced, ReqTypes, Shape, LockStages, Holding
    <3>5. t \notin DOMAIN locks'
      BY <3>2, <3>4, DropFields DEF Held
    <3> QED BY <3>3, <3>5
  <2>5. CASE req[r].at = "lock"
    BY <2>1, <2>5 DEF Shape
  <2>6. CASE req[r].at \in {"lockStat", "lockCreate"}
    <3>1. LockStat(r) \/ LockPut(r) \/ LockPutFails(r)
      BY <2>3, <2>6 DEF Arrive, Step, Start, Refresh, Unlock, LockSrc, LockDst, UndoSrc, Confirm,
         StatFound, StatNotFound, RemoveDst, Act, CallFails, ReleaseDst, Release, LockCreate,
         LockUndo
    <3>2. Goto(r, "lockCreate") \/ Goto(r, "lockUndo") \/ Answer(r, FALSE)
      BY <3>1 DEF LockStat, LockPut, LockPutFails
    <3>3. req'[r].at # "done" \/ ~req'[r].refused
      BY <2>1, <3>2 DEF Goto, Answer, ReqTypes, Request
    <3> QED BY <3>3
  <2> QED BY <2>1, <2>4, <2>5, <2>6 DEF LockStages
<1> QED BY <1>1, LocksInvariant, PTL DEF Spec, LockUndoneOnError

\* A method changes what it names and what is below, nothing else.
LEMMA OnlyWhatIsNamed ==
  ASSUME LocksOK, FilesOK, NEW r \in Requests, Act(r) \/ RemoveDst(r),
         NEW p, \A q \in NamedBy(r) : p # q /\ ~Above(q, p)
  PROVE  SameAt(files, files', p)
<1> DEFINE src == req[r].src
<1>1. /\ src \in Seq(Segments) /\ req[r].dst \subseteq Seq(Segments)
      /\ DOMAIN files \subseteq Seq(Segments)
  <2>1. src \in Names /\ req[r].dst \subseteq Names
    BY DEF LocksOK, ReqTypes, Request
  <2> QED BY <2>1, NamesAreSequences DEF FilesOK, FilesIn
<1>2. /\ p # src /\ ~AtOrAbove(src, p)
      /\ \A d \in req[r].dst : p # d /\ ~AtOrAbove(d, p)
  BY DEF NamedBy, Above
<1>3. CASE RemoveDst(r)
  <2>1. PICK dst \in req[r].dst : files' = Without(files, dst)
    BY <1>3 DEF RemoveDst
  <2> QED BY <1>1, <1>2, <2>1, EditsElsewhere
<1>4. CASE Act(r)
  <2>1. \/ files' = Without(files, src)
        \/ \E body \in Bodies : files' = Put(src, body)
        \/ files' = NewDir(src)
        \/ \E v \in BOOLEAN : files' = [files EXCEPT ![src].patched = v]
        \/ \E dst \in req[r].dst : files' = Renamed(src, dst)
    BY <1>4 DEF Act, Written, Renamable
  <2> HIDE DEF src
  <2>2. CASE files' = Without(files, src)
    BY <1>1, <1>2, <2>2, EditsElsewhere
  <2>3. CASE files' = NewDir(src) \/ \E body \in Bodies : files' = Put(src, body)
    <3>1. \E id : files' = Linked(files, src, id)
      BY <2>3 DEF NewDir, Put
    <3> QED BY <1>1, <1>2, <3>1, EditsElsewhere
  <2>4. CASE \E v \in BOOLEAN : files' = [files EXCEPT ![src].patched = v]
    BY <1>2, <2>4 DEF SameAt
  <2>5. CASE \E dst \in req[r].dst : files' = Renamed(src, dst)
    <3>1. PICK dst \in req[r].dst : files' = MovedTree(files, src, dst)
                                    \/ files' = MovedAlone(files, src, dst)
      BY <2>5 DEF Renamed
    <3> QED BY <1>1, <1>2, <3>1, EditsElsewhere
  <2> QED BY <2>1, <2>2, <2>3, <2>4, <2>5
<1> QED BY <1>3, <1>4

\* A request changes nothing that is under a lock whose token it does not show
\* (webdav.go:103-104): what it names is under a lock of its own, so under no
\* other, and what it does not name it changes below a name only.
THEOREM OthersAreRespected == Spec => OthersLocksRespected
<1> DEFINE Respected == \A r \in Requests : Act(r) \/ RemoveDst(r) =>
      \A t \in (DOMAIN locks \cap Tokens) \ req[r].ifTokens :
        \A p \in DOMAIN files \cup DOMAIN files' :
          /\ Covers(locks[t], p)
          /\ ~ \E q \in NamedBy(r) : Above(q, p)
          => p \in DOMAIN files /\ p \in DOMAIN files' /\ files'[p] = files[p]
<1>1. ASSUME LocksOK, FilesOK, NEW r \in Requests, Act(r) \/ RemoveDst(r),
             NEW t \in (DOMAIN locks \cap Tokens) \ req[r].ifTokens,
             NEW p \in DOMAIN files \cup DOMAIN files',
             Covers(locks[t], p), \A q \in NamedBy(r) : ~Above(q, p)
      PROVE  p \in DOMAIN files /\ p \in DOMAIN files' /\ files'[p] = files[p]
  <2>1. Working(r)
    BY <1>1 DEF Act, RemoveDst, Working
  <2>2. p \notin NamedBy(r)
    <3> SUFFICES ASSUME p \in NamedBy(r) PROVE FALSE
      OBVIOUS
    <3>1. PICK u \in DOMAIN locks :
            Covers(locks[u], p) /\ (u \in Temporary(r) \/ u \in req[r].own)
      BY <1>1, <2>1, WorkingIsLocked
    <3>2. p \in Names /\ req[r].method # "LOCK" /\ req[r].own \subseteq req[r].ifTokens
      BY <1>1, <2>1 DEF LocksOK, ReqTypes, Request, NamedBy, Shape, Working, LockStages
    <3>3. u # t
      BY <1>1, <3>1, <3>2, TemporaryApart
    <3> QED BY <1>1, <3>1, <3>2, <3>3 DEF LocksOK, Exclusive
  <2>3. SameAt(files, files', p)
    BY <1>1, <2>2, OnlyWhatIsNamed
  <2> QED BY <2>3 DEF SameAt
<1>2. LocksOK /\ FilesOK /\ [Next]_vars => [Respected]_vars
  BY <1>1
<1> QED BY <1>2, LocksInvariant, PTL DEF Spec, OthersLocksRespected
=============================================================================
