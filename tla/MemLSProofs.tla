---------------------------- MODULE MemLSProofs ----------------------------
(***************************************************************************)
(* The properties of MemLS, for any set of names, durations, conditions    *)
(* and bounds.                                                             *)
(*                                                                         *)
(* StateOK is the strengthening that is inductive: the structure is well   *)
(* typed and finite, its nodes and its heap say what its locks say, and    *)
(* its locks are exclusive.  One lemma per helper shows that it keeps      *)
(* StateOK; a method is a composition of helpers.                          *)
(***************************************************************************)
EXTENDS MemLS, PathMapProofs, FiniteSetTheorems

StateType == [byName   : UNION {[P -> Node] : P \in SUBSET Names},
              byToken  : UNION {[T -> Lock] : T \in SUBSET Token},
              byExpiry : SUBSET Token,
              gen      : Nat]

(* The locks on p or under it. *)
Under(s, p) == {t \in DOMAIN s.byToken : AtOrAbove(p, s.byToken[t].root)}

StateOK(s) ==
  /\ s \in StateType
  /\ IsFiniteSet(DOMAIN s.byToken)
  /\ \A t \in DOMAIN s.byToken : StartTime < t /\ t <= s.gen
  /\ NodesExactIn(s)
  /\ ExpiryExactIn(s)
  /\ ExclusiveIn(s)

-----------------------------------------------------------------------------
\* The names of a lock system are sequences of segments.
LEMMA NamesAreSequences == \A p \in Names : p \in Seq(Segments)
BY NamesAssumption

\* The fields of a state, with the partial functions named.
LEMMA StateFields ==
  ASSUME NEW s, s \in StateType
  PROVE  /\ s = [byName |-> s.byName, byToken |-> s.byToken,
                 byExpiry |-> s.byExpiry, gen |-> s.gen]
         /\ DOMAIN s.byName \subseteq Names
         /\ s.byName \in [DOMAIN s.byName -> Node]
         /\ DOMAIN s.byToken \subseteq Token
         /\ s.byToken \in [DOMAIN s.byToken -> Lock]
         /\ s.byExpiry \in SUBSET Token
         /\ s.gen \in Nat
BY DEF StateType

\* A record whose fields are well typed is a state.
LEMMA StateFromFields ==
  ASSUME NEW byName1, NEW byToken1, NEW byExpiry1, NEW gen1,
         DOMAIN byName1 \subseteq Names, byName1 \in [DOMAIN byName1 -> Node],
         DOMAIN byToken1 \subseteq Token, byToken1 \in [DOMAIN byToken1 -> Lock],
         byExpiry1 \subseteq Token, gen1 \in Nat
  PROVE  [byName |-> byName1, byToken |-> byToken1,
          byExpiry |-> byExpiry1, gen |-> gen1] \in StateType
BY DEF StateType

\* The nodes of a state in terms of Under.
LEMMA NodesAndUnder ==
  ASSUME NEW s, StateOK(s), NEW p \in Names
  PROVE  /\ IsFiniteSet(Under(s, p))
         /\ Cardinality(Under(s, p)) \in Nat
         /\ NodeAt(s, p).refCount = Cardinality(Under(s, p))
         /\ p \in DOMAIN s.byName <=> Under(s, p) # {}
<1>1. IsFiniteSet(Under(s, p))
  BY FS_Subset DEF StateOK, Under
<1>2. Cardinality(Under(s, p)) \in Nat
  BY <1>1, FS_CardinalityType
<1>3. /\ NodeAt(s, p).refCount = Cardinality(Under(s, p))
      /\ p \in DOMAIN s.byName <=> Under(s, p) # {}
  BY DEF StateOK, NodesExactIn, Under
<1> QED BY <1>1, <1>2, <1>3

-----------------------------------------------------------------------------
(* remove *)

\* What remove leaves of each map.
LEMMA RemoveFields ==
  ASSUME NEW s, s \in StateType, NEW T
  PROVE  LET refs == [p \in DOMAIN s.byName |->
                        s.byName[p].refCount - Cardinality(LocksAtOrBelow(s, T, p))]
         IN  Remove(s, T) =
               [byName   |-> [p \in {q \in DOMAIN s.byName : refs[q] # 0} |->
                                [token    |-> IF s.byName[p].token \in T
                                              THEN NoToken ELSE s.byName[p].token,
                                 refCount |-> refs[p]]],
                byToken  |-> [t \in DOMAIN s.byToken \ T |-> s.byToken[t]],
                byExpiry |-> s.byExpiry \ T,
                gen      |-> s.gen]
<1> DEFINE refs == [p \in DOMAIN s.byName |->
                      s.byName[p].refCount - Cardinality(LocksAtOrBelow(s, T, p))]
           names == [p \in {q \in DOMAIN s.byName : refs[q] # 0} |->
                       [token    |-> IF s.byName[p].token \in T
                                     THEN NoToken ELSE s.byName[p].token,
                        refCount |-> refs[p]]]
           tokens == [t \in DOMAIN s.byToken \ T |-> s.byToken[t]]
           heap == s.byExpiry \ T
<1>1. Remove(s, T) = [s EXCEPT !.byToken = tokens, !.byName = names, !.byExpiry = heap]
  BY DEF Remove, Restrict
<1>2. s = [byName |-> s.byName, byToken |-> s.byToken,
           byExpiry |-> s.byExpiry, gen |-> s.gen]
  BY StateFields
<1> HIDE DEF names, tokens, heap
<1>3. Remove(s, T) = [byName |-> names, byToken |-> tokens, byExpiry |-> heap, gen |-> s.gen]
  BY <1>1, <1>2
<1> QED BY <1>3 DEF names, tokens, heap

\* Removing locks that are not held keeps the structure consistent: remove's
\* walk to the root takes from each node the locks it counted.
LEMMA RemoveKeepsStateOK ==
  ASSUME NEW s, StateOK(s), NEW T \in SUBSET DOMAIN s.byToken
  PROVE  /\ StateOK(Remove(s, T))
         /\ Remove(s, T).byToken = [t \in DOMAIN s.byToken \ T |-> s.byToken[t]]
         /\ Remove(s, T).gen = s.gen
<1> DEFINE r == Remove(s, T)
           refs == [p \in DOMAIN s.byName |->
                      s.byName[p].refCount - Cardinality(LocksAtOrBelow(s, T, p))]
           names == {q \in DOMAIN s.byName : refs[q] # 0}
<1>0. s \in StateType
  BY DEF StateOK
<1>1. /\ r.byName = [p \in names |-> [token    |-> IF s.byName[p].token \in T
                                                 THEN NoToken ELSE s.byName[p].token,
                                    refCount |-> refs[p]]]
      /\ r.byToken = [t \in DOMAIN s.byToken \ T |-> s.byToken[t]]
      /\ r.byExpiry = s.byExpiry \ T
      /\ r.gen = s.gen
      /\ r = [byName |-> r.byName, byToken |-> r.byToken,
              byExpiry |-> r.byExpiry, gen |-> r.gen]
  <2> HIDE DEF names
  <2>1. r = [byName   |-> [p \in names |-> [token    |-> IF s.byName[p].token \in T
                                                     THEN NoToken ELSE s.byName[p].token,
                                           refCount |-> refs[p]]],
             byToken  |-> [t \in DOMAIN s.byToken \ T |-> s.byToken[t]],
             byExpiry |-> s.byExpiry \ T,
             gen      |-> s.gen]
    BY <1>0, RemoveFields DEF names
  <2> HIDE DEF r, refs
  <2> QED BY <2>1
<1>2. ASSUME NEW p \in Names
      PROVE  /\ Under(r, p) = Under(s, p) \ LocksAtOrBelow(s, T, p)
             /\ Under(s, p) \cap LocksAtOrBelow(s, T, p) = LocksAtOrBelow(s, T, p)
             /\ IsFiniteSet(Under(r, p))
             /\ Cardinality(Under(r, p)) \in Nat
             /\ Cardinality(Under(r, p)) =
                  Cardinality(Under(s, p)) - Cardinality(LocksAtOrBelow(s, T, p))
             /\ Cardinality(Under(r, p)) = 0 <=> Under(r, p) = {}
  <2> HIDE DEF r, refs, names
  <2>1. Under(r, p) = Under(s, p) \ LocksAtOrBelow(s, T, p)
    BY <1>1 DEF Under, LocksAtOrBelow
  <2>2. Under(s, p) \cap LocksAtOrBelow(s, T, p) = LocksAtOrBelow(s, T, p)
    BY DEF Under, LocksAtOrBelow
  <2>3. IsFiniteSet(Under(s, p))
    BY NodesAndUnder
  <2>4. /\ IsFiniteSet(Under(r, p))
        /\ Cardinality(Under(r, p)) =
             Cardinality(Under(s, p)) - Cardinality(LocksAtOrBelow(s, T, p))
    BY <2>1, <2>2, <2>3, FS_Difference
  <2>5. /\ Cardinality(Under(r, p)) \in Nat
        /\ Cardinality(Under(r, p)) = 0 <=> Under(r, p) = {}
    BY <2>4, FS_CardinalityType, FS_EmptySet
  <2> QED BY <2>1, <2>2, <2>4, <2>5
<1>3. ASSUME NEW p \in DOMAIN s.byName
      PROVE  /\ p \in Names
             /\ refs[p] = Cardinality(Under(r, p))
             /\ p \in names <=> Under(r, p) # {}
             /\ refs[p] \in Nat
  <2> HIDE DEF r
  <2>1. p \in Names
    BY <1>0, StateFields
  <2>2. s.byName[p].refCount = Cardinality(Under(s, p))
    BY <2>1, NodesAndUnder DEF NodeAt
  <2> QED BY <2>1, <2>2, <1>2
<1> HIDE DEF r, refs, names
<1>4. r \in StateType
  <2>1. DOMAIN r.byName \subseteq Names /\ r.byName \in [DOMAIN r.byName -> Node]
    BY <1>0, <1>1, <1>3, StateFields DEF names, Node, NoToken
  <2>2. DOMAIN r.byToken \subseteq Token /\ r.byToken \in [DOMAIN r.byToken -> Lock]
    BY <1>0, <1>1, StateFields
  <2>3. r.byExpiry \subseteq Token /\ r.gen \in Nat
    BY <1>0, <1>1, StateFields
  <2> QED BY <1>1, <2>1, <2>2, <2>3, StateFromFields
<1>5. IsFiniteSet(DOMAIN r.byToken)
  BY <1>1, FS_Subset DEF StateOK
<1>6. \A t \in DOMAIN r.byToken : StartTime < t /\ t <= r.gen
  BY <1>1 DEF StateOK
<1>7. NodesExactIn(r)
  <2>1. ASSUME NEW p \in Names
        PROVE  /\ NodeAt(r, p).refCount = Cardinality(Under(r, p))
               /\ p \in DOMAIN r.byName <=> Under(r, p) # {}
    <3>1. CASE p \in DOMAIN s.byName
      BY <3>1, <1>1, <1>2, <1>3 DEF NodeAt, names
    <3>2. CASE p \notin DOMAIN s.byName
      <4>1. Under(s, p) = {}
        BY <3>2, NodesAndUnder
      <4>2. Under(r, p) = {} /\ p \notin DOMAIN r.byName
        BY <3>2, <4>1, <1>1, <1>2 DEF names
      <4> QED BY <4>2, <1>2 DEF NodeAt
    <3> QED BY <3>1, <3>2
  <2>2. ASSUME NEW t \in DOMAIN r.byToken
        PROVE  NodeAt(r, r.byToken[t].root).token = t
    <3> DEFINE p == r.byToken[t].root
    <3>1. t \in DOMAIN s.byToken /\ t \notin T /\ p = s.byToken[t].root /\ p \in Names
      BY <1>0, <1>1, StateFields DEF Lock
    <3>2. t \in Under(r, p)
      BY <3>1, NamesAreSequences, AtOrAboveReflexive DEF Under
    <3>3. t # NoToken /\ NodeAt(s, p).token = t
      BY <3>1, <1>0, StateFields DEF StateOK, NodesExactIn, Token
    <3>4. p \in DOMAIN s.byName /\ s.byName[p].token = t
      BY <3>3 DEF NodeAt
    <3>5. p \in names
      BY <3>2, <3>4, <1>3
    <3> QED BY <3>1, <3>4, <3>5, <1>1 DEF NodeAt
  <2>3. ASSUME NEW p \in DOMAIN r.byName, r.byName[p].token # NoToken
        PROVE  /\ r.byName[p].token \in DOMAIN r.byToken
               /\ r.byToken[r.byName[p].token].root = p
    <3>1. p \in DOMAIN s.byName /\ r.byName[p].token = s.byName[p].token
          /\ s.byName[p].token \notin T
      BY <2>3, <1>1 DEF names
    <3> QED BY <3>1, <2>3, <1>1 DEF StateOK, NodesExactIn
  <2> QED BY <2>1, <2>2, <2>3 DEF NodesExactIn, Under
<1>8. ExpiryExactIn(r)
  BY <1>1 DEF StateOK, ExpiryExactIn
<1>9. ExclusiveIn(r)
  BY <1>1 DEF StateOK, ExclusiveIn
<1> QED BY <1>1, <1>4, <1>5, <1>6, <1>7, <1>8, <1>9 DEF StateOK, r

-----------------------------------------------------------------------------
(* canCreate and create *)

\* What covers a resource is at or above it.
LEMMA CoverIsAbove ==
  ASSUME NEW lock, lock.root \in Names, NEW p \in Names, Covers(lock, p)
  PROVE  AtOrAbove(lock.root, p)
BY NamesAreSequences, AtOrAboveReflexive DEF Covers

\* canCreate's walk over the nodes decides whether the new lock would overlap
\* a live one.
LEMMA CanCreateDecides ==
  ASSUME NEW s, StateOK(s)
  PROVE  CanCreateExactIn(s)
<1> SUFFICES ASSUME NEW name \in Names, NEW zeroDepth \in BOOLEAN
             PROVE  CanCreate(s, name, zeroDepth) <=>
                      \A t \in DOMAIN s.byToken, p \in Names :
                        ~(Covers(s.byToken[t], p)
                            /\ Covers([root |-> name, zeroDepth |-> zeroDepth], p))
  BY DEF CanCreateExactIn
<1> DEFINE new == [root |-> name, zeroDepth |-> zeroDepth]
<1>0. /\ s \in StateType
      /\ DOMAIN s.byName \subseteq Names
      /\ \A t \in DOMAIN s.byToken :
           /\ t # NoToken
           /\ s.byToken[t].root \in Names
           /\ s.byToken[t].zeroDepth \in BOOLEAN
           /\ s.byToken[t].root \in DOMAIN s.byName
           /\ s.byName[s.byToken[t].root].token = t
  <2>1. s \in StateType
    BY DEF StateOK
  <2>2. ASSUME NEW t \in DOMAIN s.byToken
        PROVE  /\ t # NoToken
               /\ s.byToken[t].root \in Names
               /\ s.byToken[t].zeroDepth \in BOOLEAN
    BY <2>1, StateFields DEF Lock, Token
  <2>3. ASSUME NEW t \in DOMAIN s.byToken
        PROVE  NodeAt(s, s.byToken[t].root).token = t
    BY DEF StateOK, NodesExactIn
  <2> QED BY <2>1, <2>2, <2>3, StateFields DEF NodeAt
<1>1. ASSUME CanCreate(s, name, zeroDepth),
             NEW t \in DOMAIN s.byToken, NEW p \in Names,
             Covers(s.byToken[t], p), Covers(new, p)
      PROVE  FALSE
  <2> DEFINE r == s.byToken[t].root
  <2>0. r \in Names /\ r \in DOMAIN s.byName /\ s.byName[r].token = t /\ t # NoToken
    BY <1>0
  <2>1. AtOrAbove(r, p) /\ AtOrAbove(name, p)
    BY <1>1, <1>0, CoverIsAbove
  <2>2. AtOrAbove(r, name) \/ AtOrAbove(name, r)
    BY <2>0, <2>1, NamesAreSequences, AncestorsAreAChain
  <2>3. r # name
    BY <2>0, <1>1, NamesAreSequences, AtOrAboveReflexive DEF CanCreate, WalkToRoot
  <2>4. CASE AtOrAbove(r, name)
    <3>1. s.byToken[t].zeroDepth
      BY <2>0, <2>3, <2>4, <1>1 DEF CanCreate, WalkToRoot
    <3>2. p = r
      BY <3>1, <1>1 DEF Covers
    <3> QED BY <3>2, <2>0, <2>1, <2>3, <2>4, NamesAreSequences, AtOrAboveAntisymmetric
  <2>5. CASE AtOrAbove(name, r)
    <3>1. name \in DOMAIN s.byName
      BY <2>0, <2>5, NodesAndUnder DEF Under
    <3>2. zeroDepth
      BY <3>1, <1>1, NamesAreSequences, AtOrAboveReflexive DEF CanCreate, WalkToRoot
    <3>3. p = name
      BY <3>2, <1>1 DEF Covers
    <3> QED BY <3>3, <2>0, <2>1, <2>3, <2>5, NamesAreSequences, AtOrAboveAntisymmetric
  <2> QED BY <2>2, <2>4, <2>5
<1>2. ASSUME ~CanCreate(s, name, zeroDepth)
      PROVE  \E t \in DOMAIN s.byToken, p \in Names :
               Covers(s.byToken[t], p) /\ Covers(new, p)
  <2>1. PICK q \in WalkToRoot(name) \cap DOMAIN s.byName :
          ~(LET t == s.byName[q].token
            IN  IF q = name THEN t = NoToken /\ zeroDepth
                            ELSE ~(t # NoToken /\ ~s.byToken[t].zeroDepth))
    BY <1>2 DEF CanCreate
  <2> DEFINE u == s.byName[q].token
  <2>2. q \in Names /\ q \in DOMAIN s.byName /\ AtOrAbove(q, name)
    BY DEF WalkToRoot
  <2>3. ASSUME u # NoToken
        PROVE  u \in DOMAIN s.byToken /\ s.byToken[u].root = q
    BY <2>2, <2>3 DEF StateOK, NodesExactIn
  <2>4. CASE q = name /\ u # NoToken
    BY <2>3, <2>4 DEF Covers
  <2>5. CASE q = name /\ u = NoToken
    <3>1. ~zeroDepth
      BY <2>1, <2>5
    <3>2. PICK t \in DOMAIN s.byToken : AtOrAbove(name, s.byToken[t].root)
      BY <2>2, <2>5, NodesAndUnder DEF Under
    <3>3. Covers(s.byToken[t], s.byToken[t].root) /\ Covers(new, s.byToken[t].root)
      BY <3>1, <3>2 DEF Covers
    <3> QED BY <3>3, <1>0
  <2>6. CASE q # name
    <3>1. u # NoToken /\ ~s.byToken[u].zeroDepth
      BY <2>1, <2>6
    <3> QED BY <3>1, <2>2, <2>3 DEF Covers
  <2> QED BY <2>4, <2>5, <2>6
<1> QED BY <1>1, <1>2

\* A lock that canCreate allows is added to the nodes, the table and the heap
\* and is exclusive like the others; its token is a new one.
LEMMA InsertKeepsStateOK ==
  ASSUME NEW s, StateOK(s), NEW name \in Names, NEW zeroDepth \in BOOLEAN,
         NEW duration \in Durations, NEW now \in Nat, StartTime <= s.gen,
         CanCreate(s, name, zeroDepth)
  PROVE  StateOK(Insert(s, name, zeroDepth, duration, now))
<1> DEFINE n == NextToken(s)
           lock == [root |-> name, zeroDepth |-> zeroDepth, duration |-> duration,
                    expiry |-> IF duration >= 0 THEN now + duration ELSE 0,
                    held |-> FALSE]
           r == Insert(s, name, zeroDepth, duration, now)
<1>0. s \in StateType /\ duration \in Int /\ StartTime \in Nat
  BY DurationsAssumption, TimesAssumption DEF StateOK
<1>1. n \in Token /\ n \notin DOMAIN s.byToken /\ n = s.gen + 1 /\ n # NoToken
  BY <1>0, StateFields DEF StateOK, NextToken, Token, NoToken
<1>2. lock \in Lock /\ lock.root = name /\ lock.zeroDepth = zeroDepth
      /\ lock.duration = duration /\ lock.held = FALSE
  BY <1>0 DEF Lock
<1>3. /\ r.byName = [p \in DOMAIN s.byName \cup WalkToRoot(name) |->
                      [token    |-> IF p = name THEN n ELSE NodeAt(s, p).token,
                       refCount |-> NodeAt(s, p).refCount
                                      + (IF p \in WalkToRoot(name) THEN 1 ELSE 0)]]
      /\ r.byToken = [u \in DOMAIN s.byToken \cup {n} |->
                        IF u = n THEN lock ELSE s.byToken[u]]
      /\ r.byExpiry = s.byExpiry \cup (IF duration >= 0 THEN {n} ELSE {})
      /\ r.gen = n
  BY DEF Insert
<1>shape. r = [byName |-> r.byName, byToken |-> r.byToken,
               byExpiry |-> r.byExpiry, gen |-> r.gen]
  BY DEF Insert
<1> HIDE DEF n, lock, r
<1>4. ASSUME NEW t \in DOMAIN s.byToken
      PROVE  t # n /\ t \in DOMAIN r.byToken /\ r.byToken[t] = s.byToken[t]
  BY <1>1, <1>3
<1>5. n \in DOMAIN r.byToken /\ r.byToken[n] = lock
  BY <1>3
<1>6. name \in WalkToRoot(name) /\ WalkToRoot(name) \subseteq Names
  BY NamesAreSequences, AtOrAboveReflexive DEF WalkToRoot
<1>7. r \in StateType
  <2>1. ASSUME NEW p \in DOMAIN s.byName \cup WalkToRoot(name)
        PROVE  p \in Names /\ NodeAt(s, p) \in Node
    BY <1>0, <1>6, StateFields DEF NodeAt, Node, NoToken
  <2>2. DOMAIN r.byName \subseteq Names /\ r.byName \in [DOMAIN r.byName -> Node]
    BY <2>1, <1>1, <1>3 DEF Node, Token
  <2>3. DOMAIN r.byToken \subseteq Token /\ r.byToken \in [DOMAIN r.byToken -> Lock]
    BY <1>0, <1>1, <1>2, <1>3, StateFields
  <2>4. r.byExpiry \subseteq Token /\ r.gen \in Nat
    BY <1>0, <1>1, <1>3, StateFields DEF Token
  <2> QED BY <1>shape, <2>2, <2>3, <2>4, StateFromFields
<1>8. IsFiniteSet(DOMAIN r.byToken)
  BY <1>3, FS_AddElement DEF StateOK
<1>9. \A t \in DOMAIN r.byToken : StartTime < t /\ t <= r.gen
  BY <1>0, <1>1, <1>3, StateFields DEF StateOK, Token
<1>10. NodesExactIn(r)
  <2>1. ASSUME NEW p \in Names
        PROVE  /\ NodeAt(r, p).refCount = Cardinality(Under(r, p))
               /\ p \in DOMAIN r.byName <=> Under(r, p) # {}
    <3>0. /\ IsFiniteSet(Under(s, p)) /\ Cardinality(Under(s, p)) \in Nat
          /\ NodeAt(s, p).refCount = Cardinality(Under(s, p))
          /\ p \in DOMAIN s.byName <=> Under(s, p) # {}
          /\ n \notin Under(s, p)
      BY NodesAndUnder, <1>1 DEF Under
    <3>1. CASE p \in WalkToRoot(name)
      <4>1. Under(r, p) = Under(s, p) \cup {n}
        BY <3>1, <1>2, <1>3, <1>4, <1>5 DEF Under, WalkToRoot
      <4>2. Cardinality(Under(r, p)) = Cardinality(Under(s, p)) + 1
        BY <4>1, <3>0, FS_AddElement
      <4> QED BY <4>1, <4>2, <3>0, <3>1, <1>3 DEF NodeAt
    <3>2. CASE p \notin WalkToRoot(name)
      <4>1. Under(r, p) = Under(s, p)
        BY <3>2, <1>2, <1>3, <1>4, <1>5 DEF Under, WalkToRoot
      <4>2. /\ p \in DOMAIN r.byName <=> p \in DOMAIN s.byName
            /\ NodeAt(r, p).refCount = NodeAt(s, p).refCount
        <5>1. CASE p \in DOMAIN s.byName
          BY <5>1, <3>0, <3>2, <1>3 DEF NodeAt
        <5>2. CASE p \notin DOMAIN s.byName
          <6>1. p \notin DOMAIN r.byName
            BY <5>2, <3>2, <1>3
          <6> QED BY <5>2, <6>1 DEF NodeAt
        <5> QED BY <5>1, <5>2
      <4> QED BY <4>1, <4>2, <3>0
    <3> QED BY <3>1, <3>2
  <2>2. ASSUME NEW t \in DOMAIN s.byToken
        PROVE  s.byToken[t].root # name
    <3>1. NodeAt(s, s.byToken[t].root).token = t /\ t # NoToken
      BY <1>0, StateFields DEF StateOK, NodesExactIn, Token
    <3>2. name \in DOMAIN s.byName => s.byName[name].token = NoToken
      BY <1>6 DEF CanCreate
    <3> QED BY <3>1, <3>2 DEF NodeAt
  <2>3. ASSUME NEW t \in DOMAIN r.byToken
        PROVE  NodeAt(r, r.byToken[t].root).token = t
    <3>1. CASE t = n
      BY <3>1, <1>2, <1>3, <1>5, <1>6 DEF NodeAt
    <3>2. CASE t # n
      <4>1. t \in DOMAIN s.byToken /\ r.byToken[t] = s.byToken[t]
        BY <3>2, <1>3
      <4>2. NodeAt(s, s.byToken[t].root).token = t /\ t # NoToken
        BY <4>1, <1>0, StateFields DEF StateOK, NodesExactIn, Token
      <4>3. s.byToken[t].root \in DOMAIN s.byName /\ s.byToken[t].root # name
        BY <4>1, <4>2, <2>2 DEF NodeAt
      <4> QED BY <4>1, <4>2, <4>3, <1>3 DEF NodeAt
    <3> QED BY <3>1, <3>2
  <2>4. ASSUME NEW p \in DOMAIN r.byName, r.byName[p].token # NoToken
        PROVE  /\ r.byName[p].token \in DOMAIN r.byToken
               /\ r.byToken[r.byName[p].token].root = p
    <3>1. CASE p = name
      BY <3>1, <2>4, <1>2, <1>3, <1>5
    <3>2. CASE p # name
      <4>1. p \in DOMAIN s.byName /\ r.byName[p].token = s.byName[p].token
        BY <3>2, <2>4, <1>3 DEF NodeAt
      <4> QED BY <4>1, <2>4, <1>4 DEF StateOK, NodesExactIn
    <3> QED BY <3>1, <3>2
  <2> QED BY <2>1, <2>3, <2>4 DEF NodesExactIn, Under
<1>11. ExpiryExactIn(r)
  BY <1>0, <1>1, <1>2, <1>3, <1>4, <1>5 DEF StateOK, ExpiryExactIn
<1>12. ExclusiveIn(r)
  <2>1. ASSUME NEW t \in DOMAIN s.byToken, NEW p \in Names
        PROVE  ~(Covers(s.byToken[t], p) /\ Covers(lock, p))
    BY <1>2, CanCreateDecides DEF CanCreateExactIn, Covers
  <2> QED BY <2>1, <1>3, <1>4, <1>5 DEF StateOK, ExclusiveIn
<1> QED BY <1>7, <1>8, <1>9, <1>10, <1>11, <1>12 DEF StateOK, r

-----------------------------------------------------------------------------
(* hold, unhold and Refresh: the nodes do not change *)

\* The nodes and the exclusion depend on the roots and the depths only: a change
\* of the other fields of the locks keeps both.
LEMMA SameRootsKeepNodes ==
  ASSUME NEW s, StateOK(s), NEW r,
         r.byName = s.byName, DOMAIN r.byToken = DOMAIN s.byToken,
         \A t \in DOMAIN s.byToken : /\ r.byToken[t].root = s.byToken[t].root
                                    /\ r.byToken[t].zeroDepth = s.byToken[t].zeroDepth
  PROVE  NodesExactIn(r) /\ ExclusiveIn(r)
<1>1. \A p \in Names : {t \in DOMAIN r.byToken : AtOrAbove(p, r.byToken[t].root)}
                     = {t \in DOMAIN s.byToken : AtOrAbove(p, s.byToken[t].root)}
  OBVIOUS
<1>2. \A p : NodeAt(r, p) = NodeAt(s, p)
  BY DEF NodeAt
<1>3. NodesExactIn(r)
  <2>1. ASSUME NEW p \in Names
        PROVE  /\ NodeAt(r, p).refCount = Cardinality(Under(r, p))
               /\ p \in DOMAIN r.byName <=> Under(r, p) # {}
    <3>1. Under(r, p) = Under(s, p) /\ NodeAt(r, p) = NodeAt(s, p)
      BY <1>1, <1>2 DEF Under
    <3> QED BY <3>1, NodesAndUnder
  <2>2. \A t \in DOMAIN r.byToken : NodeAt(r, r.byToken[t].root).token = t
    BY <1>2 DEF StateOK, NodesExactIn
  <2>3. \A p \in DOMAIN r.byName : r.byName[p].token # NoToken =>
          /\ r.byName[p].token \in DOMAIN r.byToken
          /\ r.byToken[r.byName[p].token].root = p
    BY DEF StateOK, NodesExactIn
  <2>4. ASSUME NEW p \in Names
        PROVE  /\ NodeAt(r, p).refCount =
                    Cardinality({t \in DOMAIN r.byToken : AtOrAbove(p, r.byToken[t].root)})
               /\ p \in DOMAIN r.byName <=>
                    \E t \in DOMAIN r.byToken : AtOrAbove(p, r.byToken[t].root)
    BY <2>1 DEF Under
  <2> QED BY <2>2, <2>3, <2>4 DEF NodesExactIn
<1>4. ExclusiveIn(r)
  BY DEF StateOK, ExclusiveIn, Covers
<1> QED BY <1>3, <1>4

\* The locks after hold or unhold.
LEMMA SetHeldFields ==
  ASSUME NEW s, s \in StateType, NEW H
  PROVE  /\ DOMAIN SetHeld(s, H) = DOMAIN s.byToken
         /\ SetHeld(s, H) \in [DOMAIN s.byToken -> Lock]
         /\ \A t \in DOMAIN s.byToken :
              /\ SetHeld(s, H)[t].root = s.byToken[t].root
              /\ SetHeld(s, H)[t].zeroDepth = s.byToken[t].zeroDepth
              /\ SetHeld(s, H)[t].duration = s.byToken[t].duration
              /\ SetHeld(s, H)[t].expiry = s.byToken[t].expiry
              /\ SetHeld(s, H)[t].held <=> t \in H
<1>1. ASSUME NEW t \in DOMAIN s.byToken
      PROVE  /\ SetHeld(s, H)[t] \in Lock
             /\ SetHeld(s, H)[t].root = s.byToken[t].root
             /\ SetHeld(s, H)[t].zeroDepth = s.byToken[t].zeroDepth
             /\ SetHeld(s, H)[t].duration = s.byToken[t].duration
             /\ SetHeld(s, H)[t].expiry = s.byToken[t].expiry
             /\ SetHeld(s, H)[t].held <=> t \in H
  <2> DEFINE lock == s.byToken[t]
             mark == t \in H
  <2>1. lock \in Lock
    BY StateFields
  <2>2. mark \in BOOLEAN
    OBVIOUS
  <2>3. SetHeld(s, H)[t] = [lock EXCEPT !.held = mark]
    BY DEF SetHeld
  <2> HIDE DEF lock, mark
  <2>4. /\ [lock EXCEPT !.held = mark] \in Lock
        /\ [lock EXCEPT !.held = mark].root = lock.root
        /\ [lock EXCEPT !.held = mark].zeroDepth = lock.zeroDepth
        /\ [lock EXCEPT !.held = mark].duration = lock.duration
        /\ [lock EXCEPT !.held = mark].expiry = lock.expiry
        /\ [lock EXCEPT !.held = mark].held = mark
    BY <2>1, <2>2 DEF Lock
  <2> QED BY <2>3, <2>4 DEF lock, mark
<1>2. /\ DOMAIN SetHeld(s, H) = DOMAIN s.byToken
      /\ SetHeld(s, H) = [t \in DOMAIN s.byToken |-> SetHeld(s, H)[t]]
  BY DEF SetHeld
<1> QED BY <1>1, <1>2

\* Holding locks that nobody holds takes them out of the heap and changes
\* nothing else.
LEMMA HoldKeepsStateOK ==
  ASSUME NEW s, StateOK(s), NEW T \in SUBSET DOMAIN s.byToken
  PROVE  /\ StateOK(Hold(s, T))
         /\ Hold(s, T).byToken = SetHeld(s, HeldIn(s) \cup T)
         /\ Hold(s, T).gen = s.gen
<1> DEFINE r == Hold(s, T)
<1>0. s \in StateType
  BY DEF StateOK
<1>1. s = [byName |-> s.byName, byToken |-> s.byToken,
           byExpiry |-> s.byExpiry, gen |-> s.gen]
  BY <1>0, StateFields
<1> DEFINE tokens == SetHeld(s, HeldIn(s) \cup T)
           heap == s.byExpiry \ Finite(s, T)
<1>2. r = [s EXCEPT !.byToken = tokens, !.byExpiry = heap]
  BY DEF Hold
<1>a. /\ DOMAIN tokens = DOMAIN s.byToken
      /\ tokens \in [DOMAIN s.byToken -> Lock]
      /\ \A t \in DOMAIN s.byToken :
           /\ tokens[t].root = s.byToken[t].root
           /\ tokens[t].zeroDepth = s.byToken[t].zeroDepth
           /\ tokens[t].duration = s.byToken[t].duration
           /\ tokens[t].held <=> t \in HeldIn(s) \cup T
  BY <1>0, SetHeldFields
<1>b. heap = {t \in DOMAIN s.byToken : tokens[t].duration >= 0 /\ ~tokens[t].held}
      /\ heap \subseteq Token
  <2>1. s.byExpiry = {t \in DOMAIN s.byToken : s.byToken[t].duration >= 0 /\ ~s.byToken[t].held}
    BY DEF StateOK, ExpiryExactIn
  <2> HIDE DEF tokens
  <2>2. heap = {t \in DOMAIN s.byToken : tokens[t].duration >= 0 /\ ~tokens[t].held}
    BY <1>a, <2>1 DEF Finite, HeldIn
  <2> QED BY <1>0, <2>2, StateFields
<1> HIDE DEF tokens, heap, r
<1>c. r = [byName |-> s.byName, byToken |-> tokens, byExpiry |-> heap, gen |-> s.gen]
  BY <1>1, <1>2
<1>3. r \in StateType
  BY <1>0, <1>a, <1>b, <1>c, StateFields, StateFromFields
<1>4. NodesExactIn(r) /\ ExclusiveIn(r)
  BY <1>a, <1>c, SameRootsKeepNodes
<1>5. ExpiryExactIn(r)
  BY <1>a, <1>b, <1>c DEF ExpiryExactIn
<1>6. IsFiniteSet(DOMAIN r.byToken) /\ \A t \in DOMAIN r.byToken : StartTime < t /\ t <= r.gen
  BY <1>a, <1>c DEF StateOK
<1>7. StateOK(r)
  BY <1>3, <1>4, <1>5, <1>6 DEF StateOK
<1> QED BY <1>7, <1>c DEF r, tokens

\* Releasing puts back into the heap the locks of a finite duration.
LEMMA UnholdKeepsStateOK ==
  ASSUME NEW s, StateOK(s), NEW T \in SUBSET DOMAIN s.byToken
  PROVE  /\ StateOK(Unhold(s, T))
         /\ Unhold(s, T).byToken = SetHeld(s, HeldIn(s) \ T)
         /\ Unhold(s, T).gen = s.gen
<1> DEFINE r == Unhold(s, T)
<1>0. s \in StateType
  BY DEF StateOK
<1>1. s = [byName |-> s.byName, byToken |-> s.byToken,
           byExpiry |-> s.byExpiry, gen |-> s.gen]
  BY <1>0, StateFields
<1> DEFINE tokens == SetHeld(s, HeldIn(s) \ T)
           heap == s.byExpiry \cup Finite(s, T)
<1>2. r = [s EXCEPT !.byToken = tokens, !.byExpiry = heap]
  BY DEF Unhold
<1>a. /\ DOMAIN tokens = DOMAIN s.byToken
      /\ tokens \in [DOMAIN s.byToken -> Lock]
      /\ \A t \in DOMAIN s.byToken :
           /\ tokens[t].root = s.byToken[t].root
           /\ tokens[t].zeroDepth = s.byToken[t].zeroDepth
           /\ tokens[t].duration = s.byToken[t].duration
           /\ tokens[t].held <=> t \in HeldIn(s) \ T
  BY <1>0, SetHeldFields
<1>b. heap = {t \in DOMAIN s.byToken : tokens[t].duration >= 0 /\ ~tokens[t].held}
      /\ heap \subseteq Token
  <2>1. s.byExpiry = {t \in DOMAIN s.byToken : s.byToken[t].duration >= 0 /\ ~s.byToken[t].held}
    BY DEF StateOK, ExpiryExactIn
  <2> HIDE DEF tokens
  <2>2. heap = {t \in DOMAIN s.byToken : tokens[t].duration >= 0 /\ ~tokens[t].held}
    BY <1>a, <2>1 DEF Finite, HeldIn
  <2> QED BY <1>0, <2>2, StateFields
<1> HIDE DEF tokens, heap, r
<1>c. r = [byName |-> s.byName, byToken |-> tokens, byExpiry |-> heap, gen |-> s.gen]
  BY <1>1, <1>2
<1>3. r \in StateType
  BY <1>0, <1>a, <1>b, <1>c, StateFields, StateFromFields
<1>4. NodesExactIn(r) /\ ExclusiveIn(r)
  BY <1>a, <1>c, SameRootsKeepNodes
<1>5. ExpiryExactIn(r)
  BY <1>a, <1>b, <1>c DEF ExpiryExactIn
<1>6. IsFiniteSet(DOMAIN r.byToken) /\ \A t \in DOMAIN r.byToken : StartTime < t /\ t <= r.gen
  BY <1>a, <1>c DEF StateOK
<1>7. StateOK(r)
  BY <1>3, <1>4, <1>5, <1>6 DEF StateOK
<1> QED BY <1>7, <1>c DEF r, tokens

\* A refresh gives one lock that nobody holds a new duration and a new place in
\* the heap.
LEMMA ResetKeepsStateOK ==
  ASSUME NEW s, StateOK(s), NEW t \in DOMAIN s.byToken, ~s.byToken[t].held,
         NEW duration \in Durations, NEW now \in Nat
  PROVE  /\ StateOK(Reset(s, t, duration, now))
         /\ DOMAIN Reset(s, t, duration, now).byToken = DOMAIN s.byToken
         /\ \A u \in DOMAIN s.byToken :
              /\ u # t => Reset(s, t, duration, now).byToken[u] = s.byToken[u]
              /\ Reset(s, t, duration, now).byToken[u].root = s.byToken[u].root
              /\ Reset(s, t, duration, now).byToken[u].zeroDepth = s.byToken[u].zeroDepth
              /\ Reset(s, t, duration, now).byToken[u].held = s.byToken[u].held
         /\ Reset(s, t, duration, now).gen = s.gen
<1> DEFINE r == Reset(s, t, duration, now)
           expiry == IF duration >= 0 THEN now + duration ELSE s.byToken[t].expiry
           lock == [s.byToken[t] EXCEPT !.duration = duration, !.expiry = expiry]
           tokens == [s.byToken EXCEPT ![t] = lock]
           heap == (s.byExpiry \ {t}) \cup (IF duration >= 0 THEN {t} ELSE {})
<1>0. s \in StateType /\ duration \in Int /\ s.byToken[t] \in Lock
  BY DurationsAssumption, StateFields DEF StateOK
<1>1. r = [byName |-> s.byName, byToken |-> tokens, byExpiry |-> heap, gen |-> s.gen]
  <2>1. s = [byName |-> s.byName, byToken |-> s.byToken,
             byExpiry |-> s.byExpiry, gen |-> s.gen]
    BY <1>0, StateFields
  <2>2. r = [s EXCEPT !.byToken = tokens, !.byExpiry = heap]
    BY DEF Reset
  <2> HIDE DEF tokens, heap, r
  <2> QED BY <2>1, <2>2
<1>2. expiry \in Int
  BY <1>0 DEF Lock
<1> HIDE DEF expiry
<1>3. /\ lock \in Lock /\ lock.root = s.byToken[t].root /\ lock.held = s.byToken[t].held
      /\ lock.zeroDepth = s.byToken[t].zeroDepth /\ lock.duration = duration
  BY <1>0, <1>2 DEF Lock
<1> HIDE DEF lock
<1>a. /\ DOMAIN tokens = DOMAIN s.byToken
      /\ tokens \in [DOMAIN s.byToken -> Lock]
      /\ \A u \in DOMAIN s.byToken : u # t => tokens[u] = s.byToken[u]
      /\ tokens[t] = lock
  BY <1>0, <1>3, StateFields
<1> HIDE DEF tokens, r
<1>b. ASSUME NEW u \in DOMAIN s.byToken
      PROVE  /\ tokens[u].root = s.byToken[u].root
             /\ tokens[u].zeroDepth = s.byToken[u].zeroDepth
             /\ tokens[u].held = s.byToken[u].held
  BY <1>3, <1>a
<1>4. r \in StateType
  <2>1. heap \subseteq Token
    BY <1>0, StateFields
  <2> HIDE DEF heap
  <2> QED BY <1>0, <1>1, <1>a, <2>1, StateFields, StateFromFields
<1>5. NodesExactIn(r) /\ ExclusiveIn(r)
  BY <1>1, <1>a, <1>b, SameRootsKeepNodes
<1>6. heap = {u \in DOMAIN s.byToken : tokens[u].duration >= 0 /\ ~tokens[u].held}
  <2>1. s.byExpiry = {u \in DOMAIN s.byToken : s.byToken[u].duration >= 0 /\ ~s.byToken[u].held}
    BY DEF StateOK, ExpiryExactIn
  <2>2. tokens[t].duration = duration /\ ~tokens[t].held
    BY <1>3, <1>a
  <2> QED BY <1>a, <2>1, <2>2
<1>7. ExpiryExactIn(r)
  BY <1>1, <1>6, <1>a DEF ExpiryExactIn
<1>8. IsFiniteSet(DOMAIN r.byToken) /\ \A u \in DOMAIN r.byToken : StartTime < u /\ u <= r.gen
  BY <1>1, <1>a DEF StateOK
<1>9. StateOK(r)
  BY <1>4, <1>5, <1>7, <1>8 DEF StateOK
<1> QED BY <1>1, <1>9, <1>a, <1>b DEF r

-----------------------------------------------------------------------------
(* The inductive invariant *)

(* The confirmations rs and the locks agree: each confirmation holds live  *)
(* locks that cover the names it was given, and a lock is held by exactly  *)
(* the one confirmation that has its token.                                *)
HoldersOK(rs, tokens) ==
  /\ \A r \in rs :
       /\ r.names \subseteq Names
       /\ r.held \subseteq DOMAIN tokens
       /\ \A p \in r.names : \E t \in r.held : Covers(tokens[t], p)
  /\ \A t \in DOMAIN tokens : tokens[t].held <=> \E r \in rs : t \in r.held
  /\ \A r, q \in rs : r # q => r.held \cap q.held = {}

IInv ==
  /\ StateOK(memLS)
  /\ StartTime <= gen
  /\ clock \in Nat /\ StartTime <= clock
  /\ HoldersOK(releases, byToken)

(* The held locks of a table are those of another and have not changed. *)
SameHeld(tokens, tokens2) ==
  /\ \A t \in DOMAIN tokens : tokens[t].held =>
       t \in DOMAIN tokens2 /\ tokens2[t] = tokens[t]
  /\ \A t \in DOMAIN tokens2 : tokens2[t].held => t \in DOMAIN tokens /\ tokens[t].held

\* Whatever happens to the locks that are not held leaves the confirmations be.
LEMMA SameHeldKeepsHolders ==
  ASSUME NEW rs, NEW tokens, NEW tokens2, HoldersOK(rs, tokens), SameHeld(tokens, tokens2)
  PROVE  HoldersOK(rs, tokens2)
<1>1. ASSUME NEW r \in rs, NEW t \in r.held
      PROVE  t \in DOMAIN tokens2 /\ tokens2[t] = tokens[t]
  BY DEF HoldersOK, SameHeld
<1>2. ASSUME NEW t \in DOMAIN tokens2
      PROVE  tokens2[t].held <=> \E r \in rs : t \in r.held
  <2>1. ASSUME tokens2[t].held PROVE \E r \in rs : t \in r.held
    BY <2>1 DEF HoldersOK, SameHeld
  <2>2. ASSUME NEW r \in rs, t \in r.held PROVE tokens2[t].held
    BY <2>2 DEF HoldersOK, SameHeld
  <2> QED BY <2>1, <2>2
<1>3. ASSUME NEW r \in rs
      PROVE  /\ r.names \subseteq Names
             /\ r.held \subseteq DOMAIN tokens2
             /\ \A p \in r.names : \E t \in r.held : Covers(tokens2[t], p)
  BY <1>1 DEF HoldersOK
<1> QED BY <1>2, <1>3 DEF HoldersOK

\* A method that becomes a state has that state.
LEMMA BecomeState ==
  ASSUME NEW s, s \in StateType, Become(s)
  PROVE  memLS' = s /\ byToken' = s.byToken /\ gen' = s.gen
BY StateFields DEF memLS, Become

\* Collecting drops locks that are due and not held, and changes nothing else.
LEMMA CollectKeepsStateOK ==
  ASSUME NEW s, StateOK(s), NEW now
  PROVE  /\ StateOK(CollectExpired(s, now))
         /\ CollectExpired(s, now).gen = s.gen
         /\ \A t \in DOMAIN CollectExpired(s, now).byToken :
              t \in DOMAIN s.byToken /\ CollectExpired(s, now).byToken[t] = s.byToken[t]
         /\ \A t \in DOMAIN s.byToken \ DOMAIN CollectExpired(s, now).byToken :
              ~s.byToken[t].held /\ s.byToken[t].duration >= 0 /\ s.byToken[t].expiry <= now
<1> DEFINE T == Expired(s, now)
<1>1. \A t \in T : /\ t \in DOMAIN s.byToken /\ ~s.byToken[t].held
                  /\ s.byToken[t].duration >= 0 /\ s.byToken[t].expiry <= now
  BY DEF Expired, StateOK, ExpiryExactIn
<1>2. T \in SUBSET DOMAIN s.byToken
  BY <1>1
<1> HIDE DEF T
<1>3. /\ StateOK(Remove(s, T))
      /\ Remove(s, T).byToken = [t \in DOMAIN s.byToken \ T |-> s.byToken[t]]
      /\ Remove(s, T).gen = s.gen
  BY <1>2, RemoveKeepsStateOK
<1>4. CollectExpired(s, now) = Remove(s, T)
  BY DEF CollectExpired, T
<1> QED BY <1>1, <1>3, <1>4

\* A token lookup finds is that of a lock that covers the name and is not held.
LEMMA LookupFinds ==
  ASSUME NEW s, NEW name, NEW conditions, Lookup(s, name, conditions) # NoToken
  PROVE  Matches(s, Lookup(s, name, conditions), name)
<1> DEFINE first == {i \in DOMAIN conditions :
                       /\ Matches(s, conditions[i], name)
                       /\ \A j \in DOMAIN conditions :
                            j < i => ~Matches(s, conditions[j], name)}
<1>1. first # {}
  BY DEF Lookup
<1>2. (CHOOSE i \in first : TRUE) \in first
  BY <1>1
<1> QED BY <1>1, <1>2 DEF Lookup

-----------------------------------------------------------------------------
(* The steps *)

\* The first thing every method does leaves the held locks alone.
LEMMA CollectStep ==
  ASSUME IInv, NEW now \in Nows
  PROVE  LET s == CollectExpired(memLS, now)
         IN  /\ StateOK(s)
             /\ s.gen = gen
             /\ SameHeld(byToken, s.byToken)
             /\ HoldersOK(releases, s.byToken)
             /\ \A t \in DOMAIN s.byToken : t \in DOMAIN byToken /\ s.byToken[t] = byToken[t]
             /\ \A t \in DOMAIN byToken \ DOMAIN s.byToken :
                  byToken[t].duration >= 0 /\ byToken[t].expiry <= clock
<1> DEFINE s == CollectExpired(memLS, now)
<1>1. StateOK(memLS) /\ memLS.byToken = byToken /\ memLS.gen = gen
  BY DEF IInv, memLS
<1>2. /\ StateOK(s)
      /\ s.gen = gen
      /\ \A t \in DOMAIN s.byToken : t \in DOMAIN byToken /\ s.byToken[t] = byToken[t]
      /\ \A t \in DOMAIN byToken \ DOMAIN s.byToken :
           ~byToken[t].held /\ byToken[t].duration >= 0 /\ byToken[t].expiry <= now
  BY <1>1, CollectKeepsStateOK, Zenon
<1> HIDE DEF s
<1>3. SameHeld(byToken, s.byToken)
  BY <1>2 DEF SameHeld
<1>4. HoldersOK(releases, s.byToken)
  BY <1>3, SameHeldKeepsHolders DEF IInv
<1>5. now \in Nat /\ now <= clock /\ clock \in Nat
  BY TimesAssumption DEF IInv, Nows
<1>6. \A t \in DOMAIN byToken : byToken[t].expiry \in Int
  BY <1>1, StateFields DEF StateOK, Lock
<1>7. \A t \in DOMAIN byToken \ DOMAIN s.byToken :
        byToken[t].duration >= 0 /\ byToken[t].expiry <= clock
  BY <1>2, <1>5, <1>6
<1> QED BY <1>2, <1>3, <1>4, <1>7 DEF s

(* What each step keeps, and what it may do to the locks. *)
GoodStep == IInv' /\ HeldLockStays /\ NoLockLostEarly

\* A step that leaves the confirmations and the clock alone is good when its new
\* state is consistent, has the same held locks and has lost early at most a
\* lock that was unlocked.
LEMMA LockStepIsGood ==
  ASSUME IInv, NEW s, StateOK(s), gen <= s.gen, SameHeld(byToken, s.byToken), Become(s),
         UNCHANGED <<releases, clock>>,
         \A t \in DOMAIN byToken \ DOMAIN s.byToken :
           \/ byToken[t].duration >= 0 /\ byToken[t].expiry <= clock
           \/ \E now \in Nows : Unlock(now, t)
  PROVE  GoodStep
<1>1. memLS' = s /\ byToken' = s.byToken /\ gen' = s.gen
  BY BecomeState DEF StateOK
<1>2. StateOK(memLS')
  BY <1>1
<1>3. HoldersOK(releases', byToken')
  BY <1>1, SameHeldKeepsHolders DEF IInv
<1>4. StartTime <= gen' /\ clock' \in Nat /\ StartTime <= clock'
  <2>1. gen \in Nat /\ s.gen \in Nat /\ StartTime \in Nat
    BY StateFields, TimesAssumption DEF IInv, StateOK, memLS
  <2> QED BY <1>1, <2>1 DEF IInv
<1>5. HeldLockStays
  BY <1>1 DEF HeldLockStays, SameHeld
<1>6. NoLockLostEarly
  BY <1>1 DEF NoLockLostEarly
<1>7. IInv'
  BY <1>2, <1>3, <1>4 DEF IInv
<1> QED BY <1>5, <1>6, <1>7 DEF GoodStep

\* A call that only collects: Confirm, Create, Refresh and Unlock that fail.
LEMMA CollectOnlyIsGood ==
  ASSUME IInv, NEW now \in Nows, Become(CollectExpired(memLS, now)),
         UNCHANGED <<releases, clock>>
  PROVE  GoodStep
<1> DEFINE s == CollectExpired(memLS, now)
<1>1. /\ StateOK(s) /\ s.gen = gen /\ SameHeld(byToken, s.byToken)
      /\ \A t \in DOMAIN byToken \ DOMAIN s.byToken :
           byToken[t].duration >= 0 /\ byToken[t].expiry <= clock
  BY CollectStep
<1>2. gen <= s.gen
  BY <1>1, StateFields DEF StateOK
<1>3. Become(s)
  OBVIOUS
<1> HIDE DEF s
<1> QED BY <1>1, <1>2, <1>3, LockStepIsGood

\* Create.
LEMMA CreateIsGood ==
  ASSUME IInv, NEW now \in Nows, NEW name \in Names, NEW zeroDepth \in BOOLEAN,
         NEW duration \in Durations, Create(now, name, zeroDepth, duration)
  PROVE  GoodStep
<1> DEFINE s == CollectExpired(memLS, now)
           r == Insert(s, name, zeroDepth, duration, now)
<1>1. /\ StateOK(s) /\ s.gen = gen /\ SameHeld(byToken, s.byToken)
      /\ \A t \in DOMAIN byToken \ DOMAIN s.byToken :
           byToken[t].duration >= 0 /\ byToken[t].expiry <= clock
  BY CollectStep
<1>2. CanCreate(s, name, zeroDepth) /\ Become(r) /\ UNCHANGED <<releases, clock>>
  BY DEF Create
<1> HIDE DEF s
<1>3. now \in Nat /\ StartTime <= s.gen
  BY <1>1, TimesAssumption DEF Nows, IInv
<1>4. StateOK(r)
  BY <1>1, <1>2, <1>3, InsertKeepsStateOK
<1>5. /\ r.gen = s.gen + 1
      /\ DOMAIN r.byToken = DOMAIN s.byToken \cup {s.gen + 1}
      /\ \A t \in DOMAIN s.byToken : t # s.gen + 1 => r.byToken[t] = s.byToken[t]
      /\ r.byToken[s.gen + 1].held = FALSE
  BY DEF Insert, NextToken
<1> HIDE DEF r
<1>6. \A t \in DOMAIN s.byToken : t # s.gen + 1
  BY <1>1, StateFields DEF StateOK, Token
<1>7. SameHeld(byToken, r.byToken)
  BY <1>1, <1>5, <1>6 DEF SameHeld
<1>8. gen <= r.gen
  BY <1>1, <1>5, StateFields DEF StateOK
<1>9. \A t \in DOMAIN byToken \ DOMAIN r.byToken :
        byToken[t].duration >= 0 /\ byToken[t].expiry <= clock
  BY <1>1, <1>5
<1> QED BY <1>2, <1>4, <1>7, <1>8, <1>9, LockStepIsGood

\* Refresh.
LEMMA RefreshIsGood ==
  ASSUME IInv, NEW now \in Nows, NEW t, NEW duration \in Durations,
         Refresh(now, t, duration)
  PROVE  GoodStep
<1> DEFINE s == CollectExpired(memLS, now)
           r == Reset(s, t, duration, now)
<1>1. /\ StateOK(s) /\ s.gen = gen /\ SameHeld(byToken, s.byToken)
      /\ \A u \in DOMAIN byToken \ DOMAIN s.byToken :
           byToken[u].duration >= 0 /\ byToken[u].expiry <= clock
  BY CollectStep
<1>2. t \in DOMAIN s.byToken /\ ~s.byToken[t].held /\ Become(r) /\ UNCHANGED <<releases, clock>>
  BY DEF Refresh
<1> HIDE DEF s
<1>3. now \in Nat
  BY TimesAssumption DEF Nows
<1>4. /\ StateOK(r)
      /\ DOMAIN r.byToken = DOMAIN s.byToken
      /\ \A u \in DOMAIN s.byToken : u # t => r.byToken[u] = s.byToken[u]
      /\ r.byToken[t].held = s.byToken[t].held
      /\ r.gen = s.gen
  BY <1>1, <1>2, <1>3, ResetKeepsStateOK
<1> HIDE DEF r
<1>5. SameHeld(byToken, r.byToken)
  BY <1>1, <1>2, <1>4 DEF SameHeld
<1>6. gen <= r.gen
  BY <1>1, <1>4, StateFields DEF StateOK
<1> QED BY <1>1, <1>2, <1>4, <1>5, <1>6, LockStepIsGood

\* Unlock.
LEMMA UnlockIsGood ==
  ASSUME IInv, NEW now \in Nows, NEW t, Unlock(now, t)
  PROVE  GoodStep
<1> DEFINE s == CollectExpired(memLS, now)
           r == Remove(s, {t})
<1>1. /\ StateOK(s) /\ s.gen = gen /\ SameHeld(byToken, s.byToken)
      /\ \A u \in DOMAIN byToken \ DOMAIN s.byToken :
           byToken[u].duration >= 0 /\ byToken[u].expiry <= clock
  BY CollectStep
<1>2. t \in DOMAIN s.byToken /\ ~s.byToken[t].held /\ Become(r) /\ UNCHANGED <<releases, clock>>
  BY DEF Unlock
<1> HIDE DEF s
<1>3. {t} \in SUBSET DOMAIN s.byToken
  BY <1>2
<1>4. /\ StateOK(r)
      /\ r.byToken = [u \in DOMAIN s.byToken \ {t} |-> s.byToken[u]]
      /\ r.gen = s.gen
  BY <1>1, <1>3, RemoveKeepsStateOK
<1> HIDE DEF r
<1>5. SameHeld(byToken, r.byToken)
  BY <1>1, <1>2, <1>4 DEF SameHeld
<1>6. gen <= r.gen
  BY <1>1, <1>4, StateFields DEF StateOK
<1>7. \A u \in DOMAIN byToken \ DOMAIN r.byToken :
        \/ byToken[u].duration >= 0 /\ byToken[u].expiry <= clock
        \/ \E now2 \in Nows : Unlock(now2, u)
  BY <1>1, <1>4
<1> QED BY <1>2, <1>4, <1>5, <1>6, <1>7, LockStepIsGood

\* Confirm that succeeds.
LEMMA ConfirmIsGood ==
  ASSUME IInv, NEW now \in Nows, NEW names \in Targets, NEW conditions,
         Confirm(now, names, conditions)
  PROVE  GoodStep
<1> DEFINE s == CollectExpired(memLS, now)
           T == {Lookup(s, name, conditions) : name \in names}
           r == Hold(s, T)
           claim == [names |-> names, held |-> T]
<1>1. /\ StateOK(s) /\ s.gen = gen /\ SameHeld(byToken, s.byToken) /\ HoldersOK(releases, s.byToken)
      /\ \A u \in DOMAIN byToken \ DOMAIN s.byToken :
           byToken[u].duration >= 0 /\ byToken[u].expiry <= clock
  BY CollectStep
<1>2. /\ NoToken \notin T /\ Become(r) /\ releases' = releases \cup {claim} /\ clock' = clock
  BY DEF Confirm
<1> HIDE DEF s
<1>3. \A name \in names : Matches(s, Lookup(s, name, conditions), name)
  BY <1>2, LookupFinds
<1>4. /\ T \in SUBSET DOMAIN s.byToken
      /\ \A t \in T : ~s.byToken[t].held
      /\ \A name \in names : \E t \in T : Covers(s.byToken[t], name)
  BY <1>3 DEF Matches
<1> HIDE DEF T
<1>5. StateOK(r) /\ r.byToken = SetHeld(s, HeldIn(s) \cup T) /\ r.gen = s.gen
  BY <1>1, <1>4, HoldKeepsStateOK
<1>6. /\ DOMAIN r.byToken = DOMAIN s.byToken
      /\ \A t \in DOMAIN s.byToken :
           /\ r.byToken[t].root = s.byToken[t].root
           /\ r.byToken[t].zeroDepth = s.byToken[t].zeroDepth
           /\ r.byToken[t].duration = s.byToken[t].duration
           /\ r.byToken[t].expiry = s.byToken[t].expiry
           /\ r.byToken[t].held <=> s.byToken[t].held \/ t \in T
  BY <1>1, <1>5, SetHeldFields DEF StateOK, HeldIn
<1> HIDE DEF r
<1>7. memLS' = r /\ byToken' = r.byToken /\ gen' = gen
  BY <1>1, <1>2, <1>5, BecomeState DEF StateOK
<1>8. \A t \in DOMAIN s.byToken : \A p : Covers(r.byToken[t], p) <=> Covers(s.byToken[t], p)
  BY <1>6 DEF Covers
<1>9. HoldersOK(releases', r.byToken)
  <2>1. ASSUME NEW q \in releases'
        PROVE  /\ q.names \subseteq Names
               /\ q.held \subseteq DOMAIN r.byToken
               /\ \A p \in q.names : \E t \in q.held : Covers(r.byToken[t], p)
    <3>1. CASE q = claim
      <4>1. q.names = names /\ q.held = T /\ names \subseteq Names
        BY <3>1 DEF Targets
      <4> QED BY <4>1, <1>4, <1>6, <1>8
    <3>2. CASE q \in releases
      BY <3>2, <1>1, <1>6, <1>8 DEF HoldersOK
    <3> QED BY <3>1, <3>2, <1>2
  <2>2. ASSUME NEW t \in DOMAIN r.byToken
        PROVE  r.byToken[t].held <=> \E q \in releases' : t \in q.held
    <3>1. s.byToken[t].held <=> \E q \in releases : t \in q.held
      BY <1>1, <1>6 DEF HoldersOK
    <3>2. claim.held = T
      OBVIOUS
    <3> HIDE DEF claim
    <3> QED BY <3>1, <3>2, <1>2, <1>6
  <2>3. ASSUME NEW q \in releases PROVE q.held \cap T = {}
    BY <1>1, <1>4 DEF HoldersOK
  <2>4. claim.held = T
    OBVIOUS
  <2> HIDE DEF claim
  <2>5. \A q1, q2 \in releases' : q1 # q2 => q1.held \cap q2.held = {}
    BY <1>1, <1>2, <2>3, <2>4 DEF HoldersOK
  <2> QED BY <2>1, <2>2, <2>5 DEF HoldersOK
<1>10. IInv'
  BY <1>2, <1>5, <1>7, <1>9 DEF IInv
<1>11. HeldLockStays
  BY <1>1, <1>6, <1>7 DEF HeldLockStays, SameHeld
<1>12. NoLockLostEarly
  BY <1>1, <1>6, <1>7 DEF NoLockLostEarly
<1> QED BY <1>10, <1>11, <1>12 DEF GoodStep

\* The release of a confirmation.
LEMMA ReleaseIsGood ==
  ASSUME IInv, NEW c \in releases, Release(c)
  PROVE  GoodStep
<1> DEFINE r == Unhold(memLS, c.held)
<1>1. StateOK(memLS) /\ memLS.byToken = byToken /\ memLS.gen = gen /\ HoldersOK(releases, byToken)
  BY DEF IInv, memLS
<1>2. Become(r) /\ releases' = releases \ {c} /\ clock' = clock
  BY DEF Release
<1>3. c.held \in SUBSET DOMAIN memLS.byToken
  BY <1>1 DEF HoldersOK
<1>4. StateOK(r) /\ r.byToken = SetHeld(memLS, HeldIn(memLS) \ c.held) /\ r.gen = gen
  BY <1>1, <1>3, UnholdKeepsStateOK
<1>5. /\ DOMAIN r.byToken = DOMAIN byToken
      /\ \A t \in DOMAIN byToken :
           /\ r.byToken[t].root = byToken[t].root
           /\ r.byToken[t].zeroDepth = byToken[t].zeroDepth
           /\ r.byToken[t].duration = byToken[t].duration
           /\ r.byToken[t].expiry = byToken[t].expiry
           /\ r.byToken[t].held <=> byToken[t].held /\ t \notin c.held
  BY <1>1, <1>4, SetHeldFields DEF StateOK, HeldIn
<1> HIDE DEF r
<1>6. memLS' = r /\ byToken' = r.byToken /\ gen' = gen
  BY <1>2, <1>4, BecomeState DEF StateOK
<1>7. \A t \in DOMAIN byToken : \A p : Covers(r.byToken[t], p) <=> Covers(byToken[t], p)
  BY <1>5 DEF Covers
<1>8. HoldersOK(releases', r.byToken)
  <2>1. ASSUME NEW q \in releases'
        PROVE  /\ q.names \subseteq Names
               /\ q.held \subseteq DOMAIN r.byToken
               /\ \A p \in q.names : \E t \in q.held : Covers(r.byToken[t], p)
    BY <1>1, <1>2, <1>5, <1>7 DEF HoldersOK
  <2>2. ASSUME NEW t \in DOMAIN r.byToken
        PROVE  r.byToken[t].held <=> \E q \in releases' : t \in q.held
    <3>1. byToken[t].held <=> \E q \in releases : t \in q.held
      BY <1>1, <1>5 DEF HoldersOK
    <3>2. \A q \in releases : q # c => q.held \cap c.held = {}
      BY <1>1 DEF HoldersOK
    <3> QED BY <3>1, <3>2, <1>2, <1>5
  <2>3. \A q1, q2 \in releases' : q1 # q2 => q1.held \cap q2.held = {}
    BY <1>1, <1>2 DEF HoldersOK
  <2> QED BY <2>1, <2>2, <2>3 DEF HoldersOK
<1>9. IInv'
  BY <1>2, <1>4, <1>6, <1>8 DEF IInv
<1>10. HeldLockStays
  BY <1>5, <1>6 DEF HeldLockStays
<1>11. NoLockLostEarly
  BY <1>5, <1>6 DEF NoLockLostEarly
<1> QED BY <1>9, <1>10, <1>11 DEF GoodStep

\* The clock and stuttering.
LEMMA TickIsGood ==
  ASSUME IInv, Tick \/ UNCHANGED vars
  PROVE  GoodStep
<1>1. byName' = byName /\ byToken' = byToken /\ byExpiry' = byExpiry /\ gen' = gen
      /\ releases' = releases
  BY DEF Tick, vars, lsVars
<1>2. memLS' = memLS
  BY <1>1 DEF memLS
<1>3. clock' \in Nat /\ StartTime <= clock'
  BY TimesAssumption DEF Tick, vars, IInv
<1>4. IInv'
  BY <1>1, <1>2, <1>3 DEF IInv
<1>5. HeldLockStays /\ NoLockLostEarly
  BY <1>1 DEF HeldLockStays, NoLockLostEarly
<1> QED BY <1>4, <1>5 DEF GoodStep

-----------------------------------------------------------------------------
(* The theorems *)

\* The lock system starts empty.
LEMMA InitIsGood ==
  ASSUME Init
  PROVE  IInv
<1>1. /\ memLS = [byName |-> << >>, byToken |-> << >>, byExpiry |-> {}, gen |-> StartTime]
      /\ StartTime \in Nat
  BY TimesAssumption DEF Init, memLS
<1>2. DOMAIN << >> = {} /\ << >> \in [{} -> Node] /\ << >> \in [{} -> Lock]
  OBVIOUS
<1>3. memLS \in StateType
  BY <1>1, <1>2, StateFromFields
<1>4. NodesExactIn(memLS)
  <2>1. Cardinality({}) = 0
    BY FS_EmptySet
  <2>2. \A p : {t \in DOMAIN memLS.byToken : AtOrAbove(p, memLS.byToken[t].root)} = {}
    BY <1>1, <1>2
  <2>3. \A p : NodeAt(memLS, p).refCount = 0 /\ p \notin DOMAIN memLS.byName
    BY <1>1, <1>2 DEF NodeAt
  <2> QED BY <1>1, <1>2, <2>1, <2>2, <2>3 DEF NodesExactIn
<1>5. ExpiryExactIn(memLS) /\ ExclusiveIn(memLS)
  BY <1>1, <1>2 DEF ExpiryExactIn, ExclusiveIn
<1>6. IsFiniteSet(DOMAIN memLS.byToken)
  BY <1>1, <1>2, FS_EmptySet
<1>7. StateOK(memLS)
  BY <1>1, <1>2, <1>3, <1>4, <1>5, <1>6 DEF StateOK
<1>8. HoldersOK(releases, byToken)
  BY <1>2 DEF Init, HoldersOK
<1> QED BY <1>1, <1>7, <1>8 DEF Init, IInv

\* Every step keeps the inductive invariant, leaves the held locks as they are
\* and loses no lock early.
LEMMA StepIsGood ==
  ASSUME IInv, [Next]_vars
  PROVE  GoodStep
<1>1. CASE Tick \/ UNCHANGED vars
  BY <1>1, TickIsGood
<1>2. CASE \E r \in releases : Release(r)
  BY <1>2, ReleaseIsGood
<1>3. ASSUME NEW now \in Nows, NEW names \in Targets, NEW conditions \in ConditionLists,
             Confirm(now, names, conditions) \/ ConfirmFails(now, names, conditions)
      PROVE  GoodStep
  <2>1. CASE Confirm(now, names, conditions)
    BY <2>1, ConfirmIsGood
  <2>2. CASE ConfirmFails(now, names, conditions)
    BY <2>2, CollectOnlyIsGood DEF ConfirmFails
  <2> QED BY <1>3, <2>1, <2>2
<1>4. ASSUME NEW now \in Nows, NEW name \in Names, NEW zeroDepth \in BOOLEAN,
             \/ CreateLocked(now, name, zeroDepth)
             \/ \E duration \in Durations : Create(now, name, zeroDepth, duration)
      PROVE  GoodStep
  <2>1. CASE CreateLocked(now, name, zeroDepth)
    BY <2>1, CollectOnlyIsGood DEF CreateLocked
  <2>2. CASE \E duration \in Durations : Create(now, name, zeroDepth, duration)
    BY <2>2, CreateIsGood
  <2> QED BY <1>4, <2>1, <2>2
<1>5. ASSUME NEW now \in Nows, NEW t \in Tokens,
             \/ Unlock(now, t)
             \/ TokenRefused(now, t)
             \/ \E duration \in Durations : Refresh(now, t, duration)
      PROVE  GoodStep
  <2>1. CASE Unlock(now, t)
    BY <2>1, UnlockIsGood
  <2>2. CASE TokenRefused(now, t)
    BY <2>2, CollectOnlyIsGood DEF TokenRefused
  <2>3. CASE \E duration \in Durations : Refresh(now, t, duration)
    BY <2>3, RefreshIsGood
  <2> QED BY <1>5, <2>1, <2>2, <2>3
<1> QED BY <1>1, <1>2, <1>3, <1>4, <1>5 DEF Next

\* The inductive invariant holds in every reachable state.
THEOREM Invariance == Spec => []IInv
<1>1. Init => IInv
  BY InitIsGood
<1>2. IInv /\ [Next]_vars => IInv'
  BY StepIsGood DEF GoodStep
<1> QED BY <1>1, <1>2, PTL DEF Spec

\* The structure is well typed in every reachable state (lock.go:116-131).
THEOREM TypeCorrect == Spec => []TypeOK
<1>1. IInv => TypeOK
  <2> SUFFICES ASSUME IInv PROVE TypeOK
    OBVIOUS
  <2>1. /\ StateOK(memLS) /\ memLS.byName = byName /\ memLS.byToken = byToken
        /\ memLS.byExpiry = byExpiry /\ memLS.gen = gen
    BY DEF IInv, memLS
  <2>2. /\ DOMAIN byName \subseteq Names /\ \A p \in DOMAIN byName : byName[p] \in Node
        /\ DOMAIN byToken \subseteq Token /\ \A t \in DOMAIN byToken : byToken[t] \in Lock
        /\ gen \in Nat
    BY <2>1, StateFields DEF StateOK
  <2>3. byExpiry \subseteq DOMAIN byToken
    BY <2>1 DEF StateOK, ExpiryExactIn
  <2>4. \A t \in DOMAIN byToken : StartTime < t /\ t <= gen
    BY <2>1 DEF StateOK
  <2>5. \A r \in releases : r.names \subseteq Names /\ r.held \subseteq Token
    BY <2>2 DEF IInv, HoldersOK
  <2> QED BY <2>2, <2>3, <2>4, <2>5 DEF TypeOK, IInv
<1> QED BY <1>1, Invariance, PTL

\* The nodes count and name exactly the locks on and under them: refCount never
\* drifts, whatever the sequence of calls (lock.go:315-350).
THEOREM NodesAreExact == Spec => []NodesExact
<1>1. IInv => NodesExact
  BY DEF IInv, StateOK, NodesExact
<1> QED BY <1>1, Invariance, PTL

\* A lock of a finite duration is in the heap exactly when nobody holds it: it
\* cannot lapse while held and cannot be forgotten after (lock.go:212-230).
THEOREM ExpiryIsExact == Spec => []ExpiryExact
<1>1. IInv => ExpiryExact
  BY DEF IInv, StateOK, ExpiryExact
<1> QED BY <1>1, Invariance, PTL

\* No resource is ever under two locks (lock.go:291-313).
THEOREM LocksAreExclusive == Spec => []Exclusive
<1>1. IInv => Exclusive
  BY DEF IInv, StateOK, Exclusive
<1> QED BY <1>1, Invariance, PTL

\* canCreate refuses exactly the locks that would overlap a live one
\* (lock.go:291-313).
THEOREM CanCreateIsExact == Spec => []CanCreateExact
<1>1. IInv => CanCreateExact
  BY CanCreateDecides DEF IInv, CanCreateExact
<1> QED BY <1>1, Invariance, PTL

\* hold never meets a held lock, nor unhold one that is not (lock.go:212-230).
THEOREM HoldersAreExact == Spec => []HoldersExact
<1>1. IInv => HoldersExact
  BY DEF IInv, HoldersOK, HoldersExact
<1> QED BY <1>1, Invariance, PTL

\* Confirm's promise of exclusive access to the named resources
\* (lock.go:39-54, 147-185).
THEOREM AccessIsExclusive == Spec => []ExclusiveAccess
<1>1. IInv => ExclusiveAccess
  <2> SUFFICES ASSUME IInv, NEW r \in releases, NEW p \in r.names
               PROVE  /\ \E t \in r.held \cap DOMAIN byToken :
                           byToken[t].held /\ Covers(byToken[t], p)
                      /\ \A q \in releases \ {r} : \A t \in q.held : ~Covers(byToken[t], p)
    BY DEF ExclusiveAccess
  <2>1. HoldersOK(releases, byToken) /\ ExclusiveIn(memLS) /\ memLS.byToken = byToken
    BY DEF IInv, StateOK, memLS
  <2>2. PICK t \in r.held : Covers(byToken[t], p)
    BY <2>1 DEF HoldersOK
  <2>3. t \in DOMAIN byToken /\ byToken[t].held
    BY <2>1 DEF HoldersOK
  <2>4. ASSUME NEW q \in releases \ {r}, NEW u \in q.held, Covers(byToken[u], p)
        PROVE  FALSE
    <3>1. u \in DOMAIN byToken /\ u # t /\ p \in Names
      BY <2>1 DEF HoldersOK
    <3> QED BY <3>1, <2>1, <2>2, <2>3, <2>4 DEF ExclusiveIn
  <2> QED BY <2>2, <2>3, <2>4
<1> QED BY <1>1, Invariance, PTL

\* A held lock is neither removed nor changed (lock.go:257-262, 280-286).
THEOREM HeldLocksDoStay == Spec => HeldLocksStay
<1>1. IInv /\ [Next]_vars => [HeldLockStays]_vars
  BY StepIsGood DEF GoodStep
<1> QED BY <1>1, Invariance, PTL DEF Spec, HeldLocksStay

\* A lock goes away only when it is unlocked or has run out (lock.go:138-145).
THEOREM NoLockIsLostEarly == Spec => NoEarlyLoss
<1>1. IInv /\ [Next]_vars => [NoLockLostEarly]_vars
  BY StepIsGood DEF GoodStep
<1> QED BY <1>1, Invariance, PTL DEF Spec, NoEarlyLoss

-----------------------------------------------------------------------------
(* The refinement of LockTable *)

\* A table that has lost only locks that nobody held, and is unchanged for the
\* rest, is what a call of LockTable starts with.
LEMMA RestOfTable ==
  ASSUME NEW tokens, NEW tokens2,
         \A t \in DOMAIN tokens2 : t \in DOMAIN tokens /\ EntryOf(tokens2[t]) = EntryOf(tokens[t]),
         \A t \in DOMAIN tokens \ DOMAIN tokens2 : ~tokens[t].held
  PROVE  \E gone \in SUBSET Promise!Idle(TableOf(tokens)) :
           Promise!Restrict(TableOf(tokens), DOMAIN TableOf(tokens) \ gone) = TableOf(tokens2)
<1> DEFINE gone == DOMAIN tokens \ DOMAIN tokens2
<1>1. gone \in SUBSET Promise!Idle(TableOf(tokens))
  BY DEF Promise!Idle, TableOf, EntryOf
<1>2. DOMAIN TableOf(tokens) \ gone = DOMAIN tokens2
  BY DEF TableOf
<1>3. Promise!Restrict(TableOf(tokens), DOMAIN tokens2) = TableOf(tokens2)
  BY DEF Promise!Restrict, TableOf
<1> QED BY <1>1, <1>2, <1>3

\* Marking no lock changes nothing.
LEMMA MarkedNone ==
  ASSUME NEW tokens
  PROVE  Promise!Marked(TableOf(tokens), {}, TRUE) = TableOf(tokens)
BY DEF Promise!Marked, TableOf, EntryOf

\* A step to a table that has only lost locks that nobody held is a call.
LEMMA LossIsACall ==
  ASSUME NEW tokens2, byToken' = tokens2, gen' = gen,
         \A t \in DOMAIN tokens2 : t \in DOMAIN byToken /\ EntryOf(tokens2[t]) = EntryOf(byToken[t]),
         \A t \in DOMAIN byToken \ DOMAIN tokens2 : ~byToken[t].held
  PROVE  Promise!TableNext
<1>1. PICK gone \in SUBSET Promise!Idle(TableOf(byToken)) :
        Promise!Restrict(TableOf(byToken), DOMAIN TableOf(byToken) \ gone) = TableOf(tokens2)
  BY RestOfTable
<1>2. {} \in SUBSET Promise!Idle(TableOf(tokens2))
  OBVIOUS
<1>3. TableOf(byToken)' = Promise!Marked(TableOf(tokens2), {}, TRUE)
  BY MarkedNone
<1>5. Promise!Call
  BY <1>1, <1>2, <1>3 DEF Promise!Call, Promise!Hold
<1> QED BY <1>5 DEF Promise!TableNext

\* What a method finds after collecting, in the terms of LockTable.
LEMMA CollectedEntries ==
  ASSUME IInv, NEW now \in Nows
  PROVE  LET s == CollectExpired(memLS, now)
         IN  /\ StateOK(s)
             /\ s.gen = gen
             /\ \A t \in DOMAIN s.byToken : t \in DOMAIN byToken /\ EntryOf(s.byToken[t]) = EntryOf(byToken[t])
             /\ \A t \in DOMAIN byToken \ DOMAIN s.byToken : ~byToken[t].held
<1> DEFINE s == CollectExpired(memLS, now)
<1>1. /\ StateOK(s) /\ s.gen = gen /\ SameHeld(byToken, s.byToken)
      /\ \A t \in DOMAIN s.byToken : t \in DOMAIN byToken /\ s.byToken[t] = byToken[t]
  BY CollectStep
<1> HIDE DEF s
<1>2. \A t \in DOMAIN byToken \ DOMAIN s.byToken : ~byToken[t].held
  BY <1>1 DEF SameHeld
<1> QED BY <1>1, <1>2 DEF s

\* Failed calls.
LEMMA CollectOnlyRefines ==
  ASSUME IInv, NEW now \in Nows, Become(CollectExpired(memLS, now))
  PROVE  Promise!TableNext
<1> DEFINE s == CollectExpired(memLS, now)
<1>1. /\ StateOK(s) /\ s.gen = gen
      /\ \A t \in DOMAIN s.byToken : t \in DOMAIN byToken /\ EntryOf(s.byToken[t]) = EntryOf(byToken[t])
      /\ \A t \in DOMAIN byToken \ DOMAIN s.byToken : ~byToken[t].held
  BY CollectedEntries
<1>2. Become(s)
  OBVIOUS
<1> HIDE DEF s
<1>3. byToken' = s.byToken /\ gen' = gen
  BY <1>1, <1>2 DEF Become
<1> QED BY <1>1, <1>3, LossIsACall

\* Unlock.
LEMMA UnlockRefines ==
  ASSUME IInv, NEW now \in Nows, NEW t, Unlock(now, t)
  PROVE  Promise!TableNext
<1> DEFINE s == CollectExpired(memLS, now)
           tokens2 == [u \in DOMAIN s.byToken \ {t} |-> s.byToken[u]]
<1>1. /\ StateOK(s) /\ s.gen = gen
      /\ \A u \in DOMAIN s.byToken : u \in DOMAIN byToken /\ EntryOf(s.byToken[u]) = EntryOf(byToken[u])
      /\ \A u \in DOMAIN byToken \ DOMAIN s.byToken : ~byToken[u].held
  BY CollectedEntries
<1>2. t \in DOMAIN s.byToken /\ ~s.byToken[t].held /\ Become(Remove(s, {t}))
  BY DEF Unlock
<1> HIDE DEF s
<1>3. {t} \in SUBSET DOMAIN s.byToken
  BY <1>2
<1>4. Remove(s, {t}).byToken = tokens2 /\ Remove(s, {t}).gen = s.gen
  BY <1>1, <1>3, RemoveKeepsStateOK
<1>5. byToken' = tokens2 /\ gen' = gen
  BY <1>1, <1>2, <1>4 DEF Become
<1>6. ~byToken[t].held
  BY <1>1, <1>2 DEF EntryOf
<1>7. /\ \A u \in DOMAIN tokens2 : u \in DOMAIN byToken /\ EntryOf(tokens2[u]) = EntryOf(byToken[u])
      /\ \A u \in DOMAIN byToken \ DOMAIN tokens2 : ~byToken[u].held
  BY <1>1, <1>6
<1> HIDE DEF tokens2
<1> QED BY <1>5, <1>7, LossIsACall

\* Refresh: the time of a lock is not part of the promise.
LEMMA RefreshRefines ==
  ASSUME IInv, NEW now \in Nows, NEW t, NEW duration \in Durations,
         Refresh(now, t, duration)
  PROVE  Promise!TableNext
<1> DEFINE s == CollectExpired(memLS, now)
           r == Reset(s, t, duration, now)
<1>1. /\ StateOK(s) /\ s.gen = gen
      /\ \A u \in DOMAIN s.byToken : u \in DOMAIN byToken /\ EntryOf(s.byToken[u]) = EntryOf(byToken[u])
      /\ \A u \in DOMAIN byToken \ DOMAIN s.byToken : ~byToken[u].held
  BY CollectedEntries
<1>2. t \in DOMAIN s.byToken /\ ~s.byToken[t].held /\ Become(r)
  BY DEF Refresh
<1> HIDE DEF s
<1>3. now \in Nat
  BY TimesAssumption DEF Nows
<1>4. /\ DOMAIN r.byToken = DOMAIN s.byToken
      /\ \A u \in DOMAIN s.byToken : /\ r.byToken[u].root = s.byToken[u].root
                                     /\ r.byToken[u].zeroDepth = s.byToken[u].zeroDepth
                                     /\ r.byToken[u].held = s.byToken[u].held
      /\ r.gen = s.gen
  BY <1>1, <1>2, <1>3, ResetKeepsStateOK
<1> HIDE DEF r
<1>5. \A u \in DOMAIN r.byToken : u \in DOMAIN byToken /\ EntryOf(r.byToken[u]) = EntryOf(byToken[u])
  BY <1>1, <1>4 DEF EntryOf
<1>6. byToken' = r.byToken /\ gen' = gen
  BY <1>1, <1>2, <1>4 DEF Become
<1> QED BY <1>1, <1>4, <1>5, <1>6, LossIsACall

\* Create grants a lock with a new token.
LEMMA CreateRefines ==
  ASSUME IInv, NEW now \in Nows, NEW name \in Names, NEW zeroDepth \in BOOLEAN,
         NEW duration \in Durations, Create(now, name, zeroDepth, duration)
  PROVE  Promise!TableNext
<1> DEFINE s == CollectExpired(memLS, now)
           r == Insert(s, name, zeroDepth, duration, now)
           t == gen + 1
           entry == [root |-> name, zeroDepth |-> zeroDepth, held |-> FALSE]
<1>1. /\ StateOK(s) /\ s.gen = gen
      /\ \A u \in DOMAIN s.byToken : u \in DOMAIN byToken /\ EntryOf(s.byToken[u]) = EntryOf(byToken[u])
      /\ \A u \in DOMAIN byToken \ DOMAIN s.byToken : ~byToken[u].held
  BY CollectedEntries
<1>2. CanCreate(s, name, zeroDepth) /\ Become(r) /\ gen < StartTime + MaxTokens
  BY DEF Create
<1> HIDE DEF s
<1>3. PICK gone \in SUBSET Promise!Idle(TableOf(byToken)) :
        Promise!Restrict(TableOf(byToken), DOMAIN TableOf(byToken) \ gone) = TableOf(s.byToken)
  BY <1>1, RestOfTable
<1>4. gen \in Nat /\ StartTime \in Nat /\ MaxTokens \in Nat /\ StartTime <= gen
  BY <1>1, StateFields, TimesAssumption DEF StateOK, IInv
<1>5. t \in Tokens \ (StartTime + 1 .. gen)
  BY <1>2, <1>4 DEF Tokens
<1>6. \A u \in DOMAIN TableOf(s.byToken) :
        ~Promise!Overlap([root |-> name, zeroDepth |-> zeroDepth], TableOf(s.byToken)[u])
  <2>1. \A u \in DOMAIN s.byToken, p \in Names :
          ~(Covers(s.byToken[u], p) /\ Covers([root |-> name, zeroDepth |-> zeroDepth], p))
    BY <1>1, <1>2, CanCreateDecides DEF CanCreateExactIn
  <2>2. \A lock, p : Promise!Covers(EntryOf(lock), p) <=> Covers(lock, p)
    BY Zenon DEF Promise!Covers, Covers, Promise!AtOrAbove, AtOrAbove, EntryOf
  <2>3. \A p : Promise!Covers([root |-> name, zeroDepth |-> zeroDepth], p)
               <=> Covers([root |-> name, zeroDepth |-> zeroDepth], p)
    BY Zenon DEF Promise!Covers, Covers, Promise!AtOrAbove, AtOrAbove
  <2>4. ASSUME NEW u \in DOMAIN s.byToken
        PROVE  ~Promise!Overlap([root |-> name, zeroDepth |-> zeroDepth], EntryOf(s.byToken[u]))
    BY <2>1, <2>2, <2>3 DEF Promise!Overlap
  <2> QED BY <2>4 DEF TableOf
<1>7. byToken' = r.byToken /\ gen' = t
  BY <1>1, <1>2 DEF Become, Insert, NextToken
<1>8. TableOf(r.byToken) = Promise!Granted(TableOf(s.byToken), t, name, zeroDepth)
  <2>1. /\ DOMAIN r.byToken = DOMAIN s.byToken \cup {t}
        /\ \A u \in DOMAIN s.byToken \cup {t} :
             EntryOf(r.byToken[u]) = IF u = t THEN entry ELSE EntryOf(s.byToken[u])
    BY <1>1 DEF Insert, NextToken, EntryOf
  <2> HIDE DEF r, t
  <2>2. Promise!Granted(TableOf(s.byToken), t, name, zeroDepth)
          = [u \in DOMAIN s.byToken \cup {t} |-> IF u = t THEN entry ELSE EntryOf(s.byToken[u])]
    BY DEF Promise!Granted, TableOf
  <2>3. TableOf(r.byToken) = [u \in DOMAIN s.byToken \cup {t} |-> EntryOf(r.byToken[u])]
    BY <2>1 DEF TableOf
  <2> QED BY <2>1, <2>2, <2>3
<1>9. (StartTime + 1 .. gen)' = (StartTime + 1 .. gen) \cup {t}
  BY <1>4, <1>7
<1> HIDE DEF r, t
<1>10. TableOf(byToken)' = Promise!Granted(TableOf(s.byToken), t, name, zeroDepth)
  BY <1>7, <1>8
<1>11. Promise!Call
  BY <1>3, <1>5, <1>6, <1>9, <1>10 DEF Promise!Call, Promise!Grant
<1> QED BY <1>11 DEF Promise!TableNext

\* Confirm holds locks that nobody held.
LEMMA ConfirmRefines ==
  ASSUME IInv, NEW now \in Nows, NEW names \in Targets, NEW conditions,
         Confirm(now, names, conditions)
  PROVE  Promise!TableNext
<1> DEFINE s == CollectExpired(memLS, now)
           T == {Lookup(s, name, conditions) : name \in names}
           marked == SetHeld(s, HeldIn(s) \cup T)
<1>1. /\ StateOK(s) /\ s.gen = gen
      /\ \A u \in DOMAIN s.byToken : u \in DOMAIN byToken /\ EntryOf(s.byToken[u]) = EntryOf(byToken[u])
      /\ \A u \in DOMAIN byToken \ DOMAIN s.byToken : ~byToken[u].held
  BY CollectedEntries
<1>2. NoToken \notin T /\ Become(Hold(s, T))
  BY DEF Confirm
<1> HIDE DEF s
<1>3. \A t \in T : t \in DOMAIN s.byToken /\ ~s.byToken[t].held
  BY <1>2, LookupFinds DEF Matches
<1> HIDE DEF T
<1>4. PICK gone \in SUBSET Promise!Idle(TableOf(byToken)) :
        Promise!Restrict(TableOf(byToken), DOMAIN TableOf(byToken) \ gone) = TableOf(s.byToken)
  BY <1>1, RestOfTable
<1>5. T \in SUBSET Promise!Idle(TableOf(s.byToken))
  BY <1>3 DEF Promise!Idle, TableOf, EntryOf
<1>6. byToken' = marked /\ gen' = gen
  BY <1>1, <1>2, <1>3, HoldKeepsStateOK DEF Become
<1>7. TableOf(marked) = Promise!Marked(TableOf(s.byToken), T, TRUE)
  <2>1. ASSUME NEW t \in DOMAIN s.byToken
        PROVE  EntryOf(marked[t]) = [EntryOf(s.byToken[t]) EXCEPT !.held = IF t \in T THEN TRUE ELSE @]
    <3>1. s.byToken[t] \in Lock /\ marked[t] \in Lock
      BY <1>1, StateFields, SetHeldFields DEF StateOK
    <3>2. /\ marked[t].root = s.byToken[t].root
          /\ marked[t].zeroDepth = s.byToken[t].zeroDepth
          /\ marked[t].held <=> s.byToken[t].held \/ t \in T
      BY <1>1, SetHeldFields DEF StateOK, HeldIn
    <3> HIDE DEF marked
    <3> DEFINE entry == EntryOf(s.byToken[t])
    <3>3. marked[t].held = IF t \in T THEN TRUE ELSE s.byToken[t].held
      BY <3>1, <3>2 DEF Lock
    <3>4. EntryOf(marked[t]) = [entry EXCEPT !.held = marked[t].held]
      BY <3>2 DEF EntryOf
    <3>5. entry.held = s.byToken[t].held
      BY DEF EntryOf
    <3> HIDE DEF entry
    <3>6. EntryOf(marked[t]) = [entry EXCEPT !.held = IF t \in T THEN TRUE ELSE @]
      BY <3>3, <3>4, <3>5
    <3> QED BY <3>6 DEF entry
  <2>2. DOMAIN marked = DOMAIN s.byToken
    BY <1>1, SetHeldFields DEF StateOK
  <2> HIDE DEF marked
  <2>3. TableOf(marked) = [t \in DOMAIN s.byToken |-> EntryOf(marked[t])]
    BY <2>2 DEF TableOf
  <2>4. Promise!Marked(TableOf(s.byToken), T, TRUE)
          = [t \in DOMAIN s.byToken |->
               [EntryOf(s.byToken[t]) EXCEPT !.held = IF t \in T THEN TRUE ELSE @]]
    BY DEF Promise!Marked, TableOf
  <2> QED BY <2>1, <2>3, <2>4
<1> HIDE DEF marked
<1>8. Promise!Call
  BY <1>4, <1>5, <1>6, <1>7 DEF Promise!Call, Promise!Hold
<1> QED BY <1>8 DEF Promise!TableNext

\* A release gives back locks that were held.
LEMMA ReleaseRefines ==
  ASSUME IInv, NEW c \in releases, Release(c)
  PROVE  Promise!TableNext
<1> DEFINE marked == SetHeld(memLS, HeldIn(memLS) \ c.held)
<1>1. StateOK(memLS) /\ memLS.byToken = byToken /\ memLS.gen = gen /\ HoldersOK(releases, byToken)
  BY DEF IInv, memLS
<1>2. /\ c.held \in SUBSET DOMAIN memLS.byToken
      /\ \A t \in c.held : byToken[t].held
  BY <1>1 DEF HoldersOK
<1>3. byToken' = marked /\ gen' = gen
  BY <1>1, <1>2, UnholdKeepsStateOK DEF Release, Become
<1>4. c.held \in SUBSET Promise!Held(TableOf(byToken))
  BY <1>1, <1>2 DEF Promise!Held, Promise!Idle, TableOf, EntryOf
<1>5. TableOf(marked) = Promise!Marked(TableOf(byToken), c.held, FALSE)
  <2>1. ASSUME NEW t \in DOMAIN byToken
        PROVE  EntryOf(marked[t]) = [EntryOf(byToken[t]) EXCEPT !.held = IF t \in c.held THEN FALSE ELSE @]
    <3>1. byToken[t] \in Lock /\ marked[t] \in Lock
      BY <1>1, StateFields, SetHeldFields DEF StateOK
    <3>2. /\ marked[t].root = byToken[t].root
          /\ marked[t].zeroDepth = byToken[t].zeroDepth
          /\ marked[t].held <=> byToken[t].held /\ t \notin c.held
      BY <1>1, SetHeldFields DEF StateOK, HeldIn
    <3> HIDE DEF marked
    <3> DEFINE entry == EntryOf(byToken[t])
    <3>3. marked[t].held = IF t \in c.held THEN FALSE ELSE byToken[t].held
      BY <3>1, <3>2 DEF Lock
    <3>4. EntryOf(marked[t]) = [entry EXCEPT !.held = marked[t].held]
      BY <3>2 DEF EntryOf
    <3>5. entry.held = byToken[t].held
      BY DEF EntryOf
    <3> HIDE DEF entry
    <3>6. EntryOf(marked[t]) = [entry EXCEPT !.held = IF t \in c.held THEN FALSE ELSE @]
      BY <3>3, <3>4, <3>5
    <3> QED BY <3>6 DEF entry
  <2>2. DOMAIN marked = DOMAIN byToken
    BY <1>1, SetHeldFields DEF StateOK
  <2> HIDE DEF marked
  <2>3. TableOf(marked) = [t \in DOMAIN byToken |-> EntryOf(marked[t])]
    BY <2>2 DEF TableOf
  <2>4. Promise!Marked(TableOf(byToken), c.held, FALSE)
          = [t \in DOMAIN byToken |->
               [EntryOf(byToken[t]) EXCEPT !.held = IF t \in c.held THEN FALSE ELSE @]]
    BY DEF Promise!Marked, TableOf
  <2> QED BY <2>1, <2>3, <2>4
<1> HIDE DEF marked
<1>6. TableOf(byToken)' = Promise!Marked(TableOf(byToken), c.held, FALSE)
  BY <1>3, <1>5
<1>7. Promise!Release
  BY <1>3, <1>4, <1>6 DEF Promise!Release
<1> QED BY <1>7 DEF Promise!TableNext

\* Every step of memLS is a step of LockTable or changes nothing it can see.
LEMMA StepRefines ==
  ASSUME IInv, [Next]_vars
  PROVE  [Promise!TableNext]_(Promise!tableVars)
<1>1. CASE Tick \/ UNCHANGED vars
  BY <1>1 DEF Tick, vars, lsVars, Promise!tableVars, TableOf
<1>2. CASE \E r \in releases : Release(r)
  BY <1>2, ReleaseRefines
<1>3. ASSUME NEW now \in Nows, NEW names \in Targets, NEW conditions \in ConditionLists,
             Confirm(now, names, conditions) \/ ConfirmFails(now, names, conditions)
      PROVE  Promise!TableNext
  <2>1. CASE Confirm(now, names, conditions)
    BY <2>1, ConfirmRefines
  <2>2. CASE ConfirmFails(now, names, conditions)
    BY <2>2, CollectOnlyRefines DEF ConfirmFails
  <2> QED BY <1>3, <2>1, <2>2
<1>4. ASSUME NEW now \in Nows, NEW name \in Names, NEW zeroDepth \in BOOLEAN,
             \/ CreateLocked(now, name, zeroDepth)
             \/ \E duration \in Durations : Create(now, name, zeroDepth, duration)
      PROVE  Promise!TableNext
  <2>1. CASE CreateLocked(now, name, zeroDepth)
    BY <2>1, CollectOnlyRefines DEF CreateLocked
  <2>2. CASE \E duration \in Durations : Create(now, name, zeroDepth, duration)
    BY <2>2, CreateRefines
  <2> QED BY <1>4, <2>1, <2>2
<1>5. ASSUME NEW now \in Nows, NEW t \in Tokens,
             \/ Unlock(now, t)
             \/ TokenRefused(now, t)
             \/ \E duration \in Durations : Refresh(now, t, duration)
      PROVE  Promise!TableNext
  <2>1. CASE Unlock(now, t)
    BY <2>1, UnlockRefines
  <2>2. CASE TokenRefused(now, t)
    BY <2>2, CollectOnlyRefines DEF TokenRefused
  <2>3. CASE \E duration \in Durations : Refresh(now, t, duration)
    BY <2>3, RefreshRefines
  <2> QED BY <1>5, <2>1, <2>2, <2>3
<1> QED BY <1>1, <1>2, <1>3, <1>4, <1>5 DEF Next

\* memLS implements LockTable: the whole of what a LockSystem promises the
\* handler (lock.go:36-88).
THEOREM MemLSKeepsPromise == Spec => KeepsPromise
<1>1. Init => Promise!TableInit
  <2> SUFFICES ASSUME Init PROVE Promise!TableInit
    OBVIOUS
  <2>1. byToken = << >> /\ gen = StartTime /\ StartTime \in Nat
    BY TimesAssumption DEF Init
  <2>2. TableOf(byToken) = << >>
    BY <2>1 DEF TableOf
  <2>3. StartTime + 1 .. gen = {}
    BY <2>1
  <2> QED BY <2>2, <2>3 DEF Promise!TableInit
<1>2. IInv /\ [Next]_vars => [Promise!TableNext]_(Promise!tableVars)
  BY StepRefines
<1> QED BY <1>1, <1>2, Invariance, PTL DEF Spec, KeepsPromise, Promise!TableSpec
=============================================================================
