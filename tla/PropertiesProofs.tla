------------------------- MODULE PropertiesProofs --------------------------
(***************************************************************************)
(* What PROPFIND and PROPPATCH of one resource make of its properties, for *)
(* bodies of any length: no dead property has the name of a live one, and  *)
(* each name asked for is in one propstat of the answer.                   *)
(***************************************************************************)
EXTENDS Properties, PathMapProofs, FiniteSetTheorems

(* What a client's properties can be. *)
DeadMaps == UNION {[D -> Values] : D \in {E \in SUBSET DeadNames : IsFiniteSet(E)}}

Instructions == [name : AllNames, value : Values]
Elements     == [remove : BOOLEAN, props : Seq(Instructions)]
Bodies       == [allprop : BOOLEAN, propname : BOOLEAN,
                 prop : Seq(AllNames), include : Seq(AllNames)]

PatchOK ==
  /\ patch = [at |-> patch.at, patches |-> patch.patches, reply |-> patch.reply]
  /\ patch.patches \in Seq(Elements)

(* Of a PROPFIND for names, props looks up what was asked for; the others    *)
(* name no property.                                                       *)
FindOK ==
  /\ find = [at |-> find.at, pf |-> find.pf, names |-> find.names, reply |-> find.reply]
  /\ find.pf \in Bodies
  /\ find.names \in Seq(AllNames)
  /\ find.at = "named" => find.names = find.pf.prop
  /\ find.at \in {"names", "props"} => find.pf.prop = << >>

(* Each of these names is in one of the propstats, and there is a propstat. *)
OneEach(names, stats) ==
  /\ stats # << >>
  /\ \A i, j \in DOMAIN stats :
       i # j => /\ stats[i].status # stats[j].status
                /\ ToSet(stats[i].props) \cap ToSet(stats[j].props) = {}
  /\ names \subseteq UNION {ToSet(stats[i].props) : i \in DOMAIN stats}

(* The inductive invariant. *)
PropInv == dead \in DeadMaps /\ PatchOK /\ FindOK /\ EachNameInOne

-----------------------------------------------------------------------------
(* The loops *)

\* The loop that keeps what is in T, step by step.
LEMMA OnlySteps ==
  ASSUME NEW S, NEW s \in Seq(S), NEW T
  PROVE  \E f \in [0..Len(s) -> Seq(S)] :
           /\ f[0] = << >> /\ f[Len(s)] = Only(s, T)
           /\ \A i \in 1..Len(s) :
                f[i] = IF s[i] \in T THEN Append(f[i - 1], s[i]) ELSE f[i - 1]
<1> DEFINE n == Len(s)
           only == CHOOSE f : f = [i \in 0..n |->
                     IF i = 0 THEN << >>
                     ELSE IF s[i] \in T THEN Append(f[i - 1], s[i]) ELSE f[i - 1]]
           step == [i \in 1..n |-> [x \in Seq(S) |->
                     IF s[i] \in T THEN Append(x, s[i]) ELSE x]]
<1>1. n \in Nat /\ \A i \in 1..n : s[i] \in S
  BY LenProperties, ElementOfSeq
<1>2. \A i \in 1..n : step[i] \in [Seq(S) -> Seq(S)]
  BY <1>1
<1>s. \A i \in 1..n : \A x \in Seq(S) : step[i][x] = IF s[i] \in T THEN Append(x, s[i]) ELSE x
  OBVIOUS
<1>3. Only(s, T) = only[n]
  BY DEF Only
<1> HIDE DEF n, step
<1>4. PICK f \in [0..n -> Seq(S)] : f[0] = << >> /\ \A i \in 1..n : f[i] = step[i][f[i - 1]]
  <2>1. << >> \in Seq(S)
    OBVIOUS
  <2>2. Steps(n, Seq(S), << >>, step)
    BY <1>1, <1>2, <2>1 DEF Steps
  <2>3. Loops(n, Seq(S), << >>, step) # {}
    BY <2>2, Recursion
  <2> QED BY <2>3 DEF Loops
<1>5. \A i \in 0..n : i # 0 => i \in 1..n /\ i - 1 \in 0..n
  BY <1>1
<1>6. f = [i \in 0..n |-> IF i = 0 THEN << >>
                          ELSE IF s[i] \in T THEN Append(f[i - 1], s[i]) ELSE f[i - 1]]
  <2> DEFINE W(i) == IF i = 0 THEN << >>
                     ELSE IF s[i] \in T THEN Append(f[i - 1], s[i]) ELSE f[i - 1]
  <2>1. ASSUME NEW i \in 0..n
        PROVE  f[i] = W(i)
    <3>1. CASE i = 0
      BY <1>4, <3>1
    <3>2. CASE i # 0
      <4>1. i \in 1..n /\ f[i - 1] \in Seq(S)
        BY <1>4, <1>5, <3>2
      <4> QED BY <1>s, <1>4, <3>2, <4>1
    <3> QED BY <3>1, <3>2
  <2> HIDE DEF W
  <2>2. f = [i \in 0..n |-> W(i)]
    BY <1>4, <2>1
  <2> QED BY <2>2 DEF W
<1>7. only = [i \in 0..n |-> IF i = 0 THEN << >>
                   ELSE IF s[i] \in T THEN Append(only[i - 1], s[i]) ELSE only[i - 1]]
  BY <1>6
<1> HIDE DEF only
<1>8. only[0] = << >>
  BY <1>1, <1>7
<1>9. \A i \in 1..n : only[i] = IF s[i] \in T THEN Append(only[i - 1], s[i]) ELSE only[i - 1]
  <2>1. \A i \in 0..n : only[i] = IF i = 0 THEN << >>
                   ELSE IF s[i] \in T THEN Append(only[i - 1], s[i]) ELSE only[i - 1]
    BY <1>7
  <2>2. \A i \in 1..n : i \in 0..n /\ i # 0
    BY <1>1
  <2> QED BY <2>1, <2>2
<1>10. \A i \in 0..n : only[i] \in Seq(S)
  <2> DEFINE G == {i \in 0..n : only[i] \in Seq(S)}
  <2>1. 0 \in G
    <3>1. << >> \in Seq(S) /\ 0 \in 0..n
      BY <1>1
    <3> QED BY <1>8, <3>1
  <2>2. ASSUME NEW i \in 1..n, i - 1 \in G
        PROVE  i \in G
    <3>1. i \in 0..n /\ s[i] \in S /\ only[i - 1] \in Seq(S)
      BY <1>1, <2>2
    <3>2. Append(only[i - 1], s[i]) \in Seq(S)
      BY <3>1, AppendProperties
    <3> QED BY <1>9, <3>1, <3>2
  <2>3. \A i \in 0..n : i \in G
    <3> HIDE DEF G
    <3> QED BY <1>1, <2>1, <2>2, UpTo
  <2> QED BY <2>3
<1>11. only \in [0..n -> Seq(S)]
  BY <1>7, <1>10
<1> QED BY <1>3, <1>8, <1>9, <1>11 DEF n

\* It keeps all that is in T and nothing else.
LEMMA OnlyIs ==
  ASSUME NEW S, NEW s \in Seq(S), NEW T
  PROVE  Only(s, T) \in Seq(S) /\ ToSet(Only(s, T)) = ToSet(s) \cap T
<1> DEFINE n == Len(s)
<1>1. PICK f \in [0..n -> Seq(S)] :
             /\ f[0] = << >> /\ f[n] = Only(s, T)
             /\ \A i \in 1..n : f[i] = IF s[i] \in T THEN Append(f[i - 1], s[i]) ELSE f[i - 1]
  BY OnlySteps
<1>2. n \in Nat /\ (\A i \in 1..n : s[i] \in S) /\ ToSet(s) = {s[j] : j \in 1..n}
  BY LenProperties, ElementOfSeq DEF ToSet
<1> HIDE DEF n
<1> DEFINE Done(i) == ToSet(f[i]) = {s[j] : j \in 1..i} \cap T
<1>3. Done(0)
  BY <1>1 DEF ToSet
<1>4. ASSUME NEW i \in 1..n, Done(i - 1)
      PROVE  Done(i)
  <2>1. s[i] \in S /\ i - 1 \in 0..n
    BY <1>2
  <2>2. {s[j] : j \in 1..i} = {s[j] : j \in 1..(i - 1)} \cup {s[i]}
    BY <1>2
  <2> DEFINE o == f[i - 1]
  <2>3. o \in Seq(S) /\ ToSet(o) = {s[j] : j \in 1..(i - 1)} \cap T
    BY <1>4, <2>1
  <2>4. f[i] = IF s[i] \in T THEN Append(o, s[i]) ELSE o
    BY <1>1
  <2> HIDE DEF o
  <2>5. ToSet(Append(o, s[i])) = ToSet(o) \cup {s[i]}
    <3>1. /\ Append(o, s[i]) \in Seq(S) /\ Len(Append(o, s[i])) = Len(o) + 1
          /\ Append(o, s[i])[Len(o) + 1] = s[i]
          /\ \A j \in 1..Len(o) : Append(o, s[i])[j] = o[j]
          /\ Len(o) \in Nat
      BY <2>1, <2>3, AppendProperties, LenProperties
    <3>2. DOMAIN o = 1..Len(o) /\ DOMAIN Append(o, s[i]) = 1..(Len(o) + 1)
      BY <2>3, <3>1, LenProperties
    <3> DEFINE a == Append(o, s[i])
               m == Len(o)
               x == s[i]
    <3>3. /\ m \in Nat /\ DOMAIN o = 1..m /\ DOMAIN a = 1..(m + 1) /\ a[m + 1] = x
          /\ \A j \in 1..m : a[j] = o[j]
      BY <3>1, <3>2
    <3> HIDE DEF a, m, x
    <3>4. ToSet(a) = ToSet(o) \cup {x}
      BY <3>3 DEF ToSet
    <3> QED BY <3>4 DEF a, x
  <2>6. CASE s[i] \in T
    BY <2>2, <2>3, <2>4, <2>5, <2>6
  <2>7. CASE s[i] \notin T
    BY <2>2, <2>3, <2>4, <2>7
  <2> QED BY <2>6, <2>7
<1> HIDE DEF Done
<1>5. Done(n)
  <2> DEFINE G == {i \in 0..n : Done(i)}
  <2>1. 0 \in G /\ \A i \in 1..n : i - 1 \in G => i \in G
    BY <1>2, <1>3, <1>4
  <2>2. \A i \in 0..n : i \in G
    <3> HIDE DEF G
    <3> QED BY <1>2, <2>1, UpTo
  <2> QED BY <1>2, <2>2
<1>6. n \in 0..n
  BY <1>2
<1> QED BY <1>1, <1>2, <1>5, <1>6 DEF Done

\* Of nothing there is nothing to keep.
LEMMA OnlyOfNothing ==
  ASSUME NEW T
  PROVE  Only(<< >>, T) = << >>
<1>1. << >> \in Seq({})
  OBVIOUS
<1>2. Only(<< >>, T) \in Seq({})
  BY <1>1, OnlyIs
<1> QED BY <1>2

\* An instruction about a name that no live property has.
LEMMA InstructedKeeps ==
  ASSUME NEW d \in DeadMaps, NEW remove \in BOOLEAN, NEW p \in Instructions, p.name \in DeadNames
  PROVE  Instructed(d, remove, p) \in DeadMaps
<1>1. PICK D \in SUBSET DeadNames : IsFiniteSet(D) /\ d \in [D -> Values]
  BY DEF DeadMaps
<1>2. p.value \in Values
  BY DEF Instructions
<1>3. IsFiniteSet(D \ {p.name}) /\ IsFiniteSet(D \cup {p.name})
  BY <1>1, FS_RemoveElement, FS_AddElement
<1>4. CASE remove
  <2>1. Instructed(d, remove, p) \in [D \ {p.name} -> Values]
    BY <1>1, <1>4 DEF Instructed
  <2> QED BY <1>3, <2>1 DEF DeadMaps
<1>5. CASE ~remove
  <2>1. Instructed(d, remove, p) \in [D \cup {p.name} -> Values]
    BY <1>1, <1>2, <1>5 DEF Instructed
  <2> QED BY <1>3, <2>1 DEF DeadMaps
<1> QED BY <1>4, <1>5

\* The instructions of an element, none of them about a live property.
LEMMA FollowedSteps ==
  ASSUME NEW d \in DeadMaps, NEW e \in Elements,
         \A j \in DOMAIN e.props : e.props[j].name \in DeadNames
  PROVE  \E f \in [0..Len(e.props) -> DeadMaps] :
           /\ f[0] = d /\ f[Len(e.props)] = Followed(d, e)
           /\ \A j \in 1..Len(e.props) : f[j] = Instructed(f[j - 1], e.remove, e.props[j])
<1> DEFINE n == Len(e.props)
           after == CHOOSE f : f = [j \in 0..n |->
                      IF j = 0 THEN d ELSE Instructed(f[j - 1], e.remove, e.props[j])]
           step == [j \in 1..n |-> [x \in DeadMaps |-> Instructed(x, e.remove, e.props[j])]]
<1>1. /\ n \in Nat /\ e.remove \in BOOLEAN
      /\ \A j \in 1..n : e.props[j] \in Instructions /\ e.props[j].name \in DeadNames
  <2>1. e.props \in Seq(Instructions) /\ e.remove \in BOOLEAN
    BY DEF Elements
  <2> QED BY <2>1, LenProperties, ElementOfSeq
<1>2. \A j \in 1..n : step[j] \in [DeadMaps -> DeadMaps]
  BY <1>1, InstructedKeeps
<1>3. \A j \in 1..n : \A x \in DeadMaps : step[j][x] = Instructed(x, e.remove, e.props[j])
  OBVIOUS
<1>4. Followed(d, e) = after[n]
  BY DEF Followed
<1> HIDE DEF n, step
<1>5. PICK f \in [0..n -> DeadMaps] : f[0] = d /\ \A j \in 1..n : f[j] = step[j][f[j - 1]]
  <2>1. Steps(n, DeadMaps, d, step)
    BY <1>1, <1>2 DEF Steps
  <2>2. Loops(n, DeadMaps, d, step) # {}
    BY <2>1, Recursion
  <2> QED BY <2>2 DEF Loops
<1>6. f = [j \in 0..n |-> IF j = 0 THEN d ELSE Instructed(f[j - 1], e.remove, e.props[j])]
  <2> DEFINE W(j) == IF j = 0 THEN d ELSE Instructed(f[j - 1], e.remove, e.props[j])
  <2>1. ASSUME NEW j \in 0..n
        PROVE  f[j] = W(j)
    <3>1. CASE j = 0
      BY <1>5, <3>1
    <3>2. CASE j # 0
      <4>1. j \in 1..n /\ j - 1 \in 0..n
        BY <1>1, <3>2
      <4>2. f[j - 1] \in DeadMaps
        BY <4>1
      <4> QED BY <1>3, <1>5, <3>2, <4>1, <4>2
    <3> QED BY <3>1, <3>2
  <2> HIDE DEF W
  <2>2. f = [j \in 0..n |-> W(j)]
    BY <1>5, <2>1
  <2> QED BY <2>2 DEF W
<1>7. after = [j \in 0..n |->
                IF j = 0 THEN d ELSE Instructed(after[j - 1], e.remove, e.props[j])]
  BY <1>6
<1> HIDE DEF after
<1>8. \A j \in 0..n : after[j] \in DeadMaps
  <2> DEFINE G == {j \in 0..n : after[j] \in DeadMaps}
  <2>1. 0 \in G
    BY <1>1, <1>7
  <2>2. ASSUME NEW j \in 1..n, j - 1 \in G
        PROVE  j \in G
    <3>1. j \in 0..n /\ j # 0
      BY <1>1
    <3>2. after[j] = Instructed(after[j - 1], e.remove, e.props[j])
      BY <1>7, <3>1
    <3> QED BY <1>1, <2>2, <3>1, <3>2, InstructedKeeps
  <2>3. \A j \in 0..n : j \in G
    <3> HIDE DEF G
    <3> QED BY <1>1, <2>1, <2>2, UpTo
  <2> QED BY <2>3
<1>9. /\ after \in [0..n -> DeadMaps] /\ after[0] = d
      /\ \A j \in 1..n : after[j] = Instructed(after[j - 1], e.remove, e.props[j])
  <2>1. after \in [0..n -> DeadMaps]
    BY <1>7, <1>8
  <2>2. \A j \in 0..n : after[j] = IF j = 0 THEN d
                                   ELSE Instructed(after[j - 1], e.remove, e.props[j])
    BY <1>7
  <2>3. 0 \in 0..n /\ \A j \in 1..n : j \in 0..n /\ j # 0
    BY <1>1
  <2> QED BY <2>1, <2>2, <2>3
<1> QED BY <1>4, <1>9 DEF n

\* Those of a whole body.
LEMMA AppliedSteps ==
  ASSUME NEW d \in DeadMaps, NEW patches \in Seq(Elements), ~Conflict(patches)
  PROVE  /\ \A i \in 1..Len(patches) : \A j \in DOMAIN patches[i].props :
              patches[i].props[j].name \in DeadNames
         /\ \E f \in [0..Len(patches) -> DeadMaps] :
              /\ f[0] = d /\ f[Len(patches)] = Applied(d, patches)
              /\ \A i \in 1..Len(patches) : f[i] = Followed(f[i - 1], patches[i])
<1> DEFINE n == Len(patches)
           after == CHOOSE f : f = [i \in 0..n |->
                      IF i = 0 THEN d ELSE Followed(f[i - 1], patches[i])]
           step == [i \in 1..n |-> [x \in DeadMaps |-> Followed(x, patches[i])]]
<1>1. n \in Nat /\ \A i \in 1..n : i \in DOMAIN patches /\ patches[i] \in Elements
  BY LenProperties, ElementOfSeq
<1>p. ASSUME NEW i \in 1..n, NEW j \in DOMAIN patches[i].props
      PROVE  patches[i].props[j].name \in DeadNames
  <2>1. ~Protected(patches[i].props[j].name)
    BY <1>1, <1>p DEF Conflict
  <2>2. patches[i].props \in Seq(Instructions)
    BY <1>1 DEF Elements
  <2>3. patches[i].props[j] \in Instructions
    BY <1>p, <2>2, LenProperties, ElementOfSeq
  <2>4. patches[i].props[j].name \in AllNames
    BY <2>3 DEF Instructions
  <2> QED BY <2>1, <2>4 DEF Protected, AllNames
<1>2. ASSUME NEW i \in 1..n, NEW x \in DeadMaps
      PROVE  Followed(x, patches[i]) \in DeadMaps
  <2> DEFINE e == patches[i]
             m == Len(e.props)
  <2>1. e \in Elements /\ \A j \in DOMAIN e.props : e.props[j].name \in DeadNames
    BY <1>1, <1>p
  <2>2. m \in Nat
    BY <2>1, LenProperties DEF Elements
  <2> HIDE DEF e
  <2>3. PICK f \in [0..m -> DeadMaps] : f[m] = Followed(x, e)
    BY <2>1, FollowedSteps
  <2>4. m \in 0..m
    BY <2>2
  <2> HIDE DEF m
  <2>5. Followed(x, e) \in DeadMaps
    BY <2>3, <2>4
  <2> QED BY <2>5 DEF e
<1>3. \A i \in 1..n : step[i] \in [DeadMaps -> DeadMaps]
  BY <1>2
<1>4. \A i \in 1..n : \A x \in DeadMaps : step[i][x] = Followed(x, patches[i])
  OBVIOUS
<1>5. Applied(d, patches) = after[n]
  BY DEF Applied
<1> HIDE DEF n, step
<1>6. PICK f \in [0..n -> DeadMaps] : f[0] = d /\ \A i \in 1..n : f[i] = step[i][f[i - 1]]
  <2>1. Steps(n, DeadMaps, d, step)
    BY <1>1, <1>3 DEF Steps
  <2>2. Loops(n, DeadMaps, d, step) # {}
    BY <2>1, Recursion
  <2> QED BY <2>2 DEF Loops
<1>7. f = [i \in 0..n |-> IF i = 0 THEN d ELSE Followed(f[i - 1], patches[i])]
  <2> DEFINE W(i) == IF i = 0 THEN d ELSE Followed(f[i - 1], patches[i])
  <2>1. ASSUME NEW i \in 0..n
        PROVE  f[i] = W(i)
    <3>1. CASE i = 0
      BY <1>6, <3>1
    <3>2. CASE i # 0
      <4>1. i \in 1..n /\ i - 1 \in 0..n
        BY <1>1, <3>2
      <4>2. f[i - 1] \in DeadMaps
        BY <4>1
      <4> QED BY <1>4, <1>6, <3>2, <4>1, <4>2
    <3> QED BY <3>1, <3>2
  <2> HIDE DEF W
  <2>2. f = [i \in 0..n |-> W(i)]
    BY <1>6, <2>1
  <2> QED BY <2>2 DEF W
<1>8. after = [i \in 0..n |-> IF i = 0 THEN d ELSE Followed(after[i - 1], patches[i])]
  BY <1>7
<1> HIDE DEF after
<1>9. \A i \in 0..n : after[i] \in DeadMaps
  <2> DEFINE G == {i \in 0..n : after[i] \in DeadMaps}
  <2>1. 0 \in G
    BY <1>1, <1>8
  <2>2. ASSUME NEW i \in 1..n, i - 1 \in G
        PROVE  i \in G
    <3>1. i \in 0..n /\ i # 0
      BY <1>1
    <3>2. after[i] = Followed(after[i - 1], patches[i])
      BY <1>8, <3>1
    <3> QED BY <1>2, <2>2, <3>1, <3>2
  <2>3. \A i \in 0..n : i \in G
    <3> HIDE DEF G
    <3> QED BY <1>1, <2>1, <2>2, UpTo
  <2> QED BY <2>3
<1>10. /\ after \in [0..n -> DeadMaps] /\ after[0] = d
       /\ \A i \in 1..n : after[i] = Followed(after[i - 1], patches[i])
  <2>1. after \in [0..n -> DeadMaps]
    BY <1>8, <1>9
  <2>2. \A i \in 0..n : after[i] = IF i = 0 THEN d ELSE Followed(after[i - 1], patches[i])
    BY <1>8
  <2>3. 0 \in 0..n /\ \A i \in 1..n : i \in 0..n /\ i # 0
    BY <1>1
  <2> QED BY <2>1, <2>2, <2>3
<1> QED BY <1>p, <1>5, <1>10 DEF n

\* So no dead property gets the name of a live one.
LEMMA AppliedKeeps ==
  ASSUME NEW d \in DeadMaps, NEW patches \in Seq(Elements), ~Conflict(patches)
  PROVE  Applied(d, patches) \in DeadMaps
<1> DEFINE n == Len(patches)
<1>1. n \in Nat
  BY LenProperties
<1>2. PICK f \in [0..n -> DeadMaps] : f[n] = Applied(d, patches)
  BY AppliedSteps
<1>3. n \in 0..n
  BY <1>1
<1> HIDE DEF n
<1> QED BY <1>2, <1>3

-----------------------------------------------------------------------------
(* What the instructions say *)

\* One instruction says what becomes of its name, and nothing of the others.
LEMMA InstructedSays ==
  ASSUME NEW d, NEW remove, NEW p
  PROVE  /\ Says(Instructed(d, remove, p), remove, p)
         /\ \A n : n # p.name => Alike(Instructed(d, remove, p), d, n)
BY DEF Says, Alike, Instructed

\* What is alike says the same.
LEMMA AlikeSays ==
  ASSUME NEW f, NEW g, NEW remove, NEW p, Alike(f, g, p.name), Says(g, remove, p)
  PROVE  Says(f, remove, p)
BY DEF Says, Alike

\* Nothing is said of a name twice over.
LEMMA AlikeTwice ==
  ASSUME NEW f, NEW g, NEW h, NEW n, Alike(f, g, n), Alike(g, h, n)
  PROVE  Alike(f, h, n)
BY DEF Alike

\* An element says what its last instruction about a name says.
LEMMA FollowedSays ==
  ASSUME NEW d \in DeadMaps, NEW e \in Elements,
         \A j \in DOMAIN e.props : e.props[j].name \in DeadNames
  PROVE  /\ \A n : (\A j \in DOMAIN e.props : e.props[j].name # n) => Alike(Followed(d, e), d, n)
         /\ \A j \in DOMAIN e.props :
              (\A l \in DOMAIN e.props : e.props[l].name = e.props[j].name => l <= j)
                => Says(Followed(d, e), e.remove, e.props[j])
<1> DEFINE m == Len(e.props)
           Step(x, j) == Instructed(x, e.remove, e.props[j])
<1>1. m \in Nat /\ DOMAIN e.props = 1..m
  <2>1. e.props \in Seq(Instructions)
    BY DEF Elements
  <2> QED BY <2>1, LenProperties
<1>2. PICK f \in [0..m -> DeadMaps] :
             /\ f[0] = d /\ f[m] = Followed(d, e)
             /\ \A j \in 1..m : f[j] = Step(f[j - 1], j)
  BY FollowedSteps
<1> HIDE DEF m
<1>3. ASSUME NEW j \in 1..m
      PROVE  /\ Says(f[j], e.remove, e.props[j])
             /\ \A n : n # e.props[j].name => Alike(f[j], f[j - 1], n)
  <2>1. f[j] = Instructed(f[j - 1], e.remove, e.props[j])
    BY <1>2
  <2> QED BY <2>1, InstructedSays
<1>4. ASSUME NEW n, \A j \in 1..m : e.props[j].name # n
      PROVE  Alike(f[m], d, n)
  <2> DEFINE G == {k \in 0..m : Alike(f[k], d, n)}
  <2>1. 0 \in G
    BY <1>1, <1>2 DEF Alike
  <2>2. ASSUME NEW k \in 1..m, k - 1 \in G
        PROVE  k \in G
    <3>1. k \in 0..m
      BY <1>1
    <3>2. Alike(f[k], f[k - 1], n) /\ Alike(f[k - 1], d, n)
      BY <1>3, <1>4, <2>2
    <3> QED BY <3>1, <3>2, AlikeTwice
  <2>3. \A k \in 0..m : k \in G
    <3> HIDE DEF G
    <3> QED BY <1>1, <2>1, <2>2, UpTo
  <2>4. m \in 0..m
    BY <1>1
  <2> QED BY <2>3, <2>4
<1>5. ASSUME NEW j \in 1..m, \A l \in 1..m : e.props[l].name = e.props[j].name => l <= j
      PROVE  Says(f[m], e.remove, e.props[j])
  <2> DEFINE G == {k \in 0..m : k >= j => Says(f[k], e.remove, e.props[j])}
  <2>1. 0 \in G
    BY <1>1
  <2>2. ASSUME NEW k \in 1..m, k - 1 \in G
        PROVE  k \in G
    <3>1. k \in 0..m /\ k - 1 \in 0..m
      BY <1>1
    <3>2. CASE k < j
      BY <3>1, <3>2
    <3>3. CASE k = j
      BY <1>3, <3>1, <3>3
    <3>4. CASE k > j
      <4>1. k - 1 >= j /\ ~(k <= j)
        BY <3>4
      <4>2. Says(f[k - 1], e.remove, e.props[j]) /\ e.props[k].name # e.props[j].name
        BY <1>5, <2>2, <4>1
      <4>3. Alike(f[k], f[k - 1], e.props[j].name)
        BY <1>3, <4>2
      <4>4. Says(f[k], e.remove, e.props[j])
        BY <4>2, <4>3, AlikeSays
      <4> QED BY <3>1, <4>4
    <3> QED BY <3>2, <3>3, <3>4
  <2>3. \A k \in 0..m : k \in G
    <3> HIDE DEF G
    <3> QED BY <1>1, <2>1, <2>2, UpTo
  <2>4. m \in 0..m /\ m >= j
    BY <1>1
  <2> QED BY <2>3, <2>4
<1> QED BY <1>1, <1>2, <1>4, <1>5

\* And so does the whole body.
LEMMA AppliedSays ==
  ASSUME NEW d \in DeadMaps, NEW patches \in Seq(Elements), ~Conflict(patches)
  PROVE  /\ \A n : (\A i \in DOMAIN patches : \A j \in DOMAIN patches[i].props :
                      patches[i].props[j].name # n)
                     => Alike(Applied(d, patches), d, n)
         /\ \A i \in DOMAIN patches : \A j \in DOMAIN patches[i].props :
              LastWord(patches, i, j)
                => Says(Applied(d, patches), patches[i].remove, patches[i].props[j])
<1> DEFINE m == Len(patches)
<1>1. m \in Nat /\ DOMAIN patches = 1..m /\ \A i \in 1..m : patches[i] \in Elements
  BY LenProperties, ElementOfSeq
<1>2. \A i \in 1..m : \A j \in DOMAIN patches[i].props : patches[i].props[j].name \in DeadNames
  BY AppliedSteps
<1>3. PICK f \in [0..m -> DeadMaps] :
             /\ f[0] = d /\ f[m] = Applied(d, patches)
             /\ \A i \in 1..m : f[i] = Followed(f[i - 1], patches[i])
  BY AppliedSteps
<1> HIDE DEF m
<1>4. ASSUME NEW i \in 1..m
      PROVE  /\ \A n : (\A j \in DOMAIN patches[i].props : patches[i].props[j].name # n)
                         => Alike(f[i], f[i - 1], n)
             /\ \A j \in DOMAIN patches[i].props :
                  (\A l \in DOMAIN patches[i].props :
                     patches[i].props[l].name = patches[i].props[j].name => l <= j)
                    => Says(f[i], patches[i].remove, patches[i].props[j])
  <2> DEFINE e == patches[i]
             x == f[i - 1]
  <2>1. i - 1 \in 0..m
    BY <1>1
  <2>2. x \in DeadMaps /\ e \in Elements /\ f[i] = Followed(x, e)
    BY <1>1, <1>3, <2>1
  <2>3. \A j \in DOMAIN e.props : e.props[j].name \in DeadNames
    BY <1>2
  <2> HIDE DEF e, x
  <2>4. /\ \A n : (\A j \in DOMAIN e.props : e.props[j].name # n) => Alike(f[i], x, n)
        /\ \A j \in DOMAIN e.props :
             (\A l \in DOMAIN e.props : e.props[l].name = e.props[j].name => l <= j)
               => Says(f[i], e.remove, e.props[j])
    BY <2>2, <2>3, FollowedSays
  <2> QED BY <2>4 DEF e, x
<1>5. ASSUME NEW n, \A i \in 1..m : \A j \in DOMAIN patches[i].props : patches[i].props[j].name # n
      PROVE  Alike(f[m], d, n)
  <2> DEFINE G == {k \in 0..m : Alike(f[k], d, n)}
  <2>1. 0 \in G
    BY <1>1, <1>3 DEF Alike
  <2>2. ASSUME NEW k \in 1..m, k - 1 \in G
        PROVE  k \in G
    <3>1. k \in 0..m
      BY <1>1
    <3>2. Alike(f[k], f[k - 1], n) /\ Alike(f[k - 1], d, n)
      BY <1>4, <1>5, <2>2
    <3> QED BY <3>1, <3>2, AlikeTwice
  <2>3. \A k \in 0..m : k \in G
    <3> HIDE DEF G
    <3> QED BY <1>1, <2>1, <2>2, UpTo
  <2>4. m \in 0..m
    BY <1>1
  <2> QED BY <2>3, <2>4
<1>6. ASSUME NEW i \in 1..m, NEW j \in DOMAIN patches[i].props, LastWord(patches, i, j)
      PROVE  Says(f[m], patches[i].remove, patches[i].props[j])
  <2> DEFINE p == patches[i].props[j]
             remove == patches[i].remove
             G == {k \in 0..m : k >= i => Says(f[k], remove, p)}
  <2>1. \A k \in 1..m : \A l \in DOMAIN patches[k].props :
          patches[k].props[l].name = p.name => k < i \/ (k = i /\ l <= j)
    BY <1>1, <1>6 DEF LastWord
  <2>2. 0 \in G
    BY <1>1
  <2>3. ASSUME NEW k \in 1..m, k - 1 \in G
        PROVE  k \in G
    <3>1. k \in 0..m /\ k - 1 \in 0..m
      BY <1>1
    <3>2. CASE k < i
      BY <3>1, <3>2
    <3>3. CASE k = i
      <4>1. \A l \in DOMAIN patches[i].props : patches[i].props[l].name = p.name => l <= j
        BY <2>1
      <4>2. Says(f[i], patches[i].remove, patches[i].props[j])
        BY <1>4, <4>1
      <4> QED BY <3>1, <3>3, <4>2
    <3>4. CASE k > i
      <4>1. k - 1 >= i /\ ~(k < i) /\ k # i
        BY <3>4
      <4>2. Says(f[k - 1], remove, p)
        BY <2>3, <4>1
      <4>3. \A l \in DOMAIN patches[k].props : patches[k].props[l].name # p.name
        BY <2>1, <4>1
      <4>4. Alike(f[k], f[k - 1], p.name)
        BY <1>4, <4>3
      <4> HIDE DEF p, remove
      <4>5. Says(f[k], remove, p)
        BY <4>2, <4>4, AlikeSays
      <4> QED BY <3>1, <4>5
    <3> QED BY <3>2, <3>3, <3>4
  <2>4. \A k \in 0..m : k \in G
    <3> HIDE DEF G
    <3> QED BY <1>1, <2>2, <2>3, UpTo
  <2>5. m \in 0..m /\ m >= i
    BY <1>1
  <2> QED BY <2>4, <2>5
<1> QED BY <1>1, <1>3, <1>5, <1>6

-----------------------------------------------------------------------------
(* How many times a name is told *)

\* The places of a name are finitely many.
LEMMA TimesIsNat ==
  ASSUME NEW S, NEW s \in Seq(S), NEW n
  PROVE  /\ IsFiniteSet({i \in DOMAIN s : s[i] = n})
         /\ Times(n, s) \in Nat
<1>1. DOMAIN s = 1..Len(s) /\ Len(s) \in Nat
  BY LenProperties
<1>2. IsFiniteSet(DOMAIN s)
  BY <1>1, FS_Interval
<1>3. IsFiniteSet({i \in DOMAIN s : s[i] = n})
  BY <1>2, FS_Subset
<1> QED BY <1>3, FS_CardinalityType DEF Times

\* One more element of a sequence, as the loop of patch appends it.
LEMMA TimesAppended ==
  ASSUME NEW S, NEW s \in Seq(S), NEW x \in S, NEW n
  PROVE  Times(n, Append(s, x)) = IF x = n THEN Times(n, s) + 1 ELSE Times(n, s)
<1> DEFINE a == Append(s, x)
           m == Len(s)
           P == {i \in DOMAIN s : s[i] = n}
           Q == {i \in DOMAIN a : a[i] = n}
<1>1. /\ m \in Nat /\ DOMAIN s = 1..m
      /\ DOMAIN a = 1..(m + 1) /\ a[m + 1] = x /\ \A i \in 1..m : a[i] = s[i]
  <2>1. /\ a \in Seq(S) /\ Len(a) = m + 1 /\ a[m + 1] = x
        /\ \A i \in 1..m : a[i] = s[i]
    BY AppendProperties
  <2>2. DOMAIN a = 1..Len(a) /\ DOMAIN s = 1..m /\ m \in Nat
    BY <2>1, LenProperties
  <2> QED BY <2>1, <2>2
<1>2. IsFiniteSet(P) /\ Cardinality(P) = Times(n, s)
  BY TimesIsNat DEF Times
<1>3. Cardinality(Q) = Times(n, a)
  BY DEF Times
<1> HIDE DEF a, m
<1>4. CASE x = n
  <2>1. Q = P \cup {m + 1} /\ m + 1 \notin P
    BY <1>1, <1>4
  <2> HIDE DEF P, Q
  <2>2. Cardinality(Q) = Cardinality(P) + 1
    BY <1>2, <2>1, FS_AddElement
  <2> QED BY <1>2, <1>3, <1>4, <2>2 DEF a
<1>5. CASE x # n
  <2>1. Q = P
    BY <1>1, <1>5
  <2> HIDE DEF P, Q
  <2> QED BY <1>2, <1>3, <1>5, <2>1 DEF a
<1> QED BY <1>4, <1>5

\* Nothing is told in an empty sequence.
LEMMA TimesNone ==
  ASSUME NEW n
  PROVE  Times(n, << >>) = 0
<1>1. {i \in DOMAIN << >> : << >>[i] = n} = {}
  OBVIOUS
<1> QED BY <1>1, FS_EmptySet DEF Times

\* What is told in two sequences.
LEMMA TimesConcatenated ==
  ASSUME NEW S, NEW s \in Seq(S), NEW t \in Seq(S), NEW n
  PROVE  Times(n, s \o t) = Times(n, s) + Times(n, t)
<1> DEFINE c == s \o t
           m == Len(s)
           k == Len(t)
           P == {i \in DOMAIN s : s[i] = n}
           Q == {i \in DOMAIN t : t[i] = n}
           R == {i \in DOMAIN c : c[i] = n}
           M == R \ P
           f == [i \in Q |-> m + i]
<1>1. /\ m \in Nat /\ k \in Nat /\ DOMAIN s = 1..m /\ DOMAIN t = 1..k
      /\ DOMAIN c = 1..(m + k)
      /\ \A i \in 1..(m + k) : c[i] = IF i <= m THEN s[i] ELSE t[i - m]
  <2>1. /\ c \in Seq(S) /\ Len(c) = m + k
        /\ \A i \in 1..(m + k) : c[i] = IF i <= m THEN s[i] ELSE t[i - m]
    BY ConcatProperties
  <2>2. DOMAIN c = 1..Len(c) /\ DOMAIN s = 1..m /\ m \in Nat /\ DOMAIN t = 1..k /\ k \in Nat
    BY <2>1, LenProperties
  <2> QED BY <2>1, <2>2
<1>2. /\ IsFiniteSet(P) /\ Cardinality(P) = Times(n, s)
      /\ IsFiniteSet(Q) /\ Cardinality(Q) = Times(n, t)
  BY TimesIsNat DEF Times
<1>3. Cardinality(R) = Times(n, c)
  BY DEF Times
<1> HIDE DEF c, m, k
<1>4. P \subseteq R /\ R = P \cup M /\ P \cap M = {}
  <2>1. ASSUME NEW i \in P
        PROVE  i \in R
    <3>1. i \in 1..(m + k) /\ i <= m
      BY <1>1
    <3> QED BY <1>1, <3>1
  <2> QED BY <2>1
<1>5. f \in Bijection(Q, M)
  <2>1. ASSUME NEW i \in Q
        PROVE  m + i \in M
    <3>1. m + i \in 1..(m + k) /\ ~(m + i <= m) /\ (m + i) - m = i
      BY <1>1
    <3>2. c[m + i] = n
      BY <1>1, <3>1
    <3> QED BY <1>1, <3>1, <3>2
  <2>2. ASSUME NEW i \in M
        PROVE  i - m \in Q /\ m + (i - m) = i
    <3>1. i \in 1..(m + k) /\ c[i] = n
      BY <1>1
    <3>2. ~(i <= m)
      BY <1>1, <3>1
    <3>3. i - m \in 1..k /\ c[i] = t[i - m]
      BY <1>1, <3>1, <3>2
    <3> QED BY <1>1, <3>1, <3>3
  <2>3. \A i, j \in Q : m + i = m + j => i = j
    BY <1>1
  <2> HIDE DEF Q, M
  <2>4. f \in [Q -> M]
    BY <2>1
  <2>5. f \in Injection(Q, M)
    BY <2>3, <2>4 DEF Injection, IsInjective
  <2>6. f \in Surjection(Q, M)
    BY <2>2, <2>4 DEF Surjection
  <2> QED BY <2>5, <2>6 DEF Bijection
<1> HIDE DEF P, Q, R, M, f
<1>6. IsFiniteSet(M) /\ Cardinality(M) = Cardinality(Q)
  BY <1>2, <1>5, FS_Bijection DEF ExistsBijection
<1>7. Cardinality(R) = Cardinality(P) + Cardinality(M)
  <2>1. Cardinality(P \cup M) = Cardinality(P) + Cardinality(M) - Cardinality({})
    BY <1>2, <1>4, <1>6, FS_Union
  <2>2. Cardinality(P) \in Nat /\ Cardinality(M) \in Nat
    BY <1>2, <1>6, FS_CardinalityType
  <2> QED BY <1>4, <2>1, <2>2, FS_EmptySet
<1> QED BY <1>2, <1>3, <1>6, <1>7 DEF c

\* The loop that keeps what is in T keeps it as often as it is there.
LEMMA TimesOnly ==
  ASSUME NEW S, NEW s \in Seq(S), NEW T, NEW n
  PROVE  Times(n, Only(s, T)) = IF n \in T THEN Times(n, s) ELSE 0
<1> DEFINE m == Len(s)
           P(i) == {j \in 1..i : s[j] = n}
<1>1. m \in Nat /\ DOMAIN s = 1..m /\ \A i \in 1..m : s[i] \in S
  BY LenProperties, ElementOfSeq
<1>2. PICK f \in [0..m -> Seq(S)] :
             /\ f[0] = << >> /\ f[m] = Only(s, T)
             /\ \A i \in 1..m : f[i] = IF s[i] \in T THEN Append(f[i - 1], s[i]) ELSE f[i - 1]
  BY OnlySteps
<1> HIDE DEF m
<1> DEFINE Done(i) == /\ IsFiniteSet(P(i))
                      /\ Times(n, f[i]) = IF n \in T THEN Cardinality(P(i)) ELSE 0
<1>3. Done(0)
  <2>1. P(0) = {}
    OBVIOUS
  <2> HIDE DEF P
  <2>2. Times(n, f[0]) = 0
    BY <1>2, TimesNone
  <2> QED BY <2>1, <2>2, FS_EmptySet
<1>4. ASSUME NEW i \in 1..m, Done(i - 1)
      PROVE  Done(i)
  <2> DEFINE o == f[i - 1]
             x == s[i]
             A == P(i - 1)
             B == P(i)
  <2>1. i - 1 \in 0..m /\ x \in S
    BY <1>1
  <2>2. /\ o \in Seq(S) /\ IsFiniteSet(A)
        /\ Times(n, o) = IF n \in T THEN Cardinality(A) ELSE 0
    BY <1>4, <2>1
  <2>3. f[i] = IF x \in T THEN Append(o, x) ELSE o
    BY <1>2
  <2>4. i \notin A /\ B = IF x = n THEN A \cup {i} ELSE A
    BY <1>1
  <2> HIDE DEF A, B, o, x, P
  <2>5. /\ IsFiniteSet(B)
        /\ Cardinality(B) = IF x = n THEN Cardinality(A) + 1 ELSE Cardinality(A)
    BY <2>2, <2>4, FS_AddElement
  <2>6. Times(n, Append(o, x)) = IF x = n THEN Times(n, o) + 1 ELSE Times(n, o)
    BY <2>1, <2>2, TimesAppended
  <2>7. Times(n, f[i]) = IF n \in T THEN Cardinality(B) ELSE 0
    <3>1. CASE x = n
      BY <2>2, <2>3, <2>5, <2>6, <3>1
    <3>2. CASE x # n
      BY <2>2, <2>3, <2>5, <2>6, <3>2
    <3> QED BY <3>1, <3>2
  <2> QED BY <2>5, <2>7 DEF B
<1>5. P(m) = {i \in DOMAIN s : s[i] = n}
  BY <1>1
<1> HIDE DEF Done
<1>6. Done(m)
  <2> DEFINE G == {i \in 0..m : Done(i)}
  <2>1. 0 \in G /\ \A i \in 1..m : i - 1 \in G => i \in G
    BY <1>1, <1>3, <1>4
  <2>2. \A i \in 0..m : i \in G
    <3> HIDE DEF G
    <3> QED BY <1>1, <2>1, UpTo
  <2> QED BY <1>1, <2>2
<1> QED BY <1>2, <1>5, <1>6 DEF Done, Times

-----------------------------------------------------------------------------
(* The names of a PROPPATCH and its answer *)

\* What the lists in a sequence of lists hold.
LEMMA FlattenedHolds ==
  ASSUME NEW S, NEW lists \in Seq(Seq(S))
  PROVE  /\ FlattenSeq(lists) \in Seq(S)
         /\ \A i \in DOMAIN lists : ToSet(lists[i]) \subseteq ToSet(FlattenSeq(lists))
<1> DEFINE n == Len(lists)
           flat == CHOOSE f : f = [i \in 1..n |-> IF i = 1 THEN lists[i] ELSE f[i - 1] \o lists[i]]
           step == [i \in 1..n |-> [x \in Seq(S) |-> x \o lists[i]]]
<1>1. n \in Nat /\ DOMAIN lists = 1..n /\ \A i \in 1..n : lists[i] \in Seq(S)
  BY LenProperties, ElementOfSeq
<1>2. CASE n = 0
  <2>1. lists = << >>
    BY <1>2, EmptySeq
  <2>2. FlattenSeq(lists) = << >>
    BY <1>2, <2>1 DEF FlattenSeq
  <2> QED BY <1>1, <1>2, <2>2
<1>3. CASE n # 0
  <2>1. \A i \in 1..n : step[i] \in [Seq(S) -> Seq(S)]
    BY <1>1, ConcatProperties
  <2>2. \A i \in 1..n : \A x \in Seq(S) : step[i][x] = x \o lists[i]
    OBVIOUS
  <2>3. FlattenSeq(lists) = flat[n]
    BY <1>3 DEF FlattenSeq
  <2> HIDE DEF n, step
  <2>4. PICK g \in [0..n -> Seq(S)] : g[0] = << >> /\ \A i \in 1..n : g[i] = step[i][g[i - 1]]
    <3>1. << >> \in Seq(S)
      OBVIOUS
    <3>2. Steps(n, Seq(S), << >>, step)
      BY <1>1, <2>1, <3>1 DEF Steps
    <3>3. Loops(n, Seq(S), << >>, step) # {}
      BY <3>2, Recursion
    <3> QED BY <3>3 DEF Loops
  <2>5. \A i \in 1..n : i - 1 \in 0..n /\ g[i - 1] \in Seq(S) /\ g[i] = g[i - 1] \o lists[i]
    <3>1. ASSUME NEW i \in 1..n
          PROVE  i - 1 \in 0..n /\ g[i - 1] \in Seq(S)
      <4>1. i - 1 \in 0..n
        BY <1>1
      <4> QED BY <4>1
    <3> QED BY <2>2, <2>4, <3>1
  <2> DEFINE f == [i \in 1..n |-> g[i]]
  <2>6. f = [i \in 1..n |-> IF i = 1 THEN lists[i] ELSE f[i - 1] \o lists[i]]
    <3> DEFINE W(i) == IF i = 1 THEN lists[i] ELSE f[i - 1] \o lists[i]
    <3>1. ASSUME NEW i \in 1..n
          PROVE  g[i] = W(i)
      <4>1. CASE i = 1
        <5>1. g[1] = << >> \o lists[1]
          <6>1. 1 \in 1..n /\ 1 - 1 = 0
            BY <4>1
          <6>2. g[1] = g[1 - 1] \o lists[1]
            BY <2>5, <6>1
          <6> QED BY <2>4, <6>1, <6>2
        <5>2. << >> \o lists[1] = lists[1]
          BY <1>1, <4>1, ConcatEmptySeq
        <5> QED BY <4>1, <5>1, <5>2
      <4>2. CASE i # 1
        <5>1. i - 1 \in 1..n
          BY <1>1, <4>2
        <5> QED BY <2>5, <4>2, <5>1
      <4> QED BY <4>1, <4>2
    <3> HIDE DEF W
    <3>2. f = [i \in 1..n |-> W(i)]
      BY <3>1
    <3> QED BY <3>2 DEF W
  <2> HIDE DEF f
  <2>7. flat = [i \in 1..n |-> IF i = 1 THEN lists[i] ELSE flat[i - 1] \o lists[i]]
    BY <2>6
  <2> HIDE DEF flat
  <2>8. \A i \in 1..n : flat[i] = IF i = 1 THEN lists[i] ELSE flat[i - 1] \o lists[i]
    BY <2>7
  <2> DEFINE Done(i) == /\ flat[i] \in Seq(S)
                        /\ \A k \in 1..i : ToSet(lists[k]) \subseteq ToSet(flat[i])
             G == {i \in 0..n : i # 0 => Done(i)}
  <2>9. ASSUME NEW i \in 1..n, i - 1 \in G
        PROVE  i \in G
    <3>1. i \in 0..n /\ lists[i] \in Seq(S)
      BY <1>1
    <3>2. CASE i = 1
      <4>1. flat[i] = lists[i]
        BY <2>8, <3>2
      <4> QED BY <3>1, <3>2, <4>1
    <3>3. CASE i # 1
      <4> DEFINE o == flat[i - 1]
                 l == lists[i]
                 c == o \o l
      <4>1. i - 1 # 0 /\ flat[i] = c
        <5>1. i - 1 # 0
          BY <1>1, <3>3
        <5> QED BY <2>8, <3>3, <5>1
      <4>2. o \in Seq(S) /\ \A k \in 1..(i - 1) : ToSet(lists[k]) \subseteq ToSet(o)
        BY <2>9, <4>1
      <4>3. l \in Seq(S)
        BY <3>1
      <4> HIDE DEF o, l
      <4>4. /\ c \in Seq(S) /\ Len(c) = Len(o) + Len(l)
            /\ \A j \in 1..(Len(o) + Len(l)) :
                 c[j] = IF j <= Len(o) THEN o[j] ELSE l[j - Len(o)]
        BY <4>2, <4>3, ConcatProperties
      <4>5. /\ DOMAIN c = 1..Len(c) /\ DOMAIN o = 1..Len(o) /\ DOMAIN l = 1..Len(l)
            /\ Len(o) \in Nat /\ Len(l) \in Nat
        BY <4>2, <4>3, <4>4, LenProperties
      <4>6. ToSet(o) \subseteq ToSet(c)
        <5>1. ASSUME NEW j \in DOMAIN o
              PROVE  j \in DOMAIN c /\ c[j] = o[j]
          BY <4>4, <4>5
        <5> HIDE DEF c
        <5> QED BY <5>1 DEF ToSet
      <4>7. ToSet(l) \subseteq ToSet(c)
        <5>1. ASSUME NEW j \in DOMAIN l
              PROVE  Len(o) + j \in DOMAIN c /\ c[Len(o) + j] = l[j]
          <6>1. Len(o) + j \in 1..(Len(o) + Len(l)) /\ ~(Len(o) + j <= Len(o))
                /\ (Len(o) + j) - Len(o) = j
            BY <4>5
          <6> QED BY <4>4, <4>5, <6>1
        <5> HIDE DEF c
        <5> QED BY <5>1 DEF ToSet
      <4> HIDE DEF c
      <4>8. ASSUME NEW k \in 1..i
            PROVE  ToSet(lists[k]) \subseteq ToSet(c)
        <5>1. CASE k = i
          BY <4>7, <5>1 DEF l
        <5>2. CASE k # i
          <6>1. k \in 1..(i - 1)
            BY <5>2
          <6> QED BY <4>2, <4>6, <6>1
        <5> QED BY <5>1, <5>2
      <4> QED BY <3>1, <4>1, <4>4, <4>8
    <3> QED BY <3>2, <3>3
  <2>10. \A i \in 0..n : i \in G
    <3>1. 0 \in G
      BY <1>1
    <3> HIDE DEF G
    <3> QED BY <1>1, <2>9, <3>1, UpTo
  <2>11. n \in 0..n
    BY <1>1
  <2>12. Done(n)
    BY <1>3, <2>10, <2>11
  <2> QED BY <1>1, <2>3, <2>12
<1> QED BY <1>2, <1>3

\* One list, and two.
LEMMA FlattenedOne ==
  ASSUME NEW a
  PROVE  FlattenSeq(<<a>>) = a
<1> DEFINE flat == CHOOSE f : f = [i \in 1..1 |-> IF i = 1 THEN <<a>>[i] ELSE f[i - 1] \o <<a>>[i]]
<1>1. Len(<<a>>) = 1
  OBVIOUS
<1>2. FlattenSeq(<<a>>) = flat[1]
  BY <1>1 DEF FlattenSeq
<1> DEFINE g == [i \in 1..1 |-> a]
<1>3. g = [i \in 1..1 |-> IF i = 1 THEN <<a>>[i] ELSE g[i - 1] \o <<a>>[i]]
  OBVIOUS
<1> HIDE DEF g
<1>4. flat = [i \in 1..1 |-> IF i = 1 THEN <<a>>[i] ELSE flat[i - 1] \o <<a>>[i]]
  BY <1>3
<1> HIDE DEF flat
<1>5. flat[1] = <<a>>[1]
  BY <1>4
<1> QED BY <1>2, <1>5

\* The second follows the first.
LEMMA FlattenedTwo ==
  ASSUME NEW a, NEW b
  PROVE  FlattenSeq(<<a, b>>) = a \o b
<1> DEFINE l == <<a, b>>
           flat == CHOOSE f : f = [i \in 1..2 |-> IF i = 1 THEN l[i] ELSE f[i - 1] \o l[i]]
<1>1. Len(l) = 2 /\ l[1] = a /\ l[2] = b
  OBVIOUS
<1> HIDE DEF l
<1>2. FlattenSeq(l) = flat[2]
  BY <1>1 DEF FlattenSeq
<1> DEFINE g == [i \in 1..2 |-> IF i = 1 THEN a ELSE a \o b]
<1>3. g = [i \in 1..2 |-> IF i = 1 THEN l[i] ELSE g[i - 1] \o l[i]]
  <2>1. g[1] = a
    OBVIOUS
  <2> DEFINE W(i) == IF i = 1 THEN l[i] ELSE g[i - 1] \o l[i]
             V(i) == IF i = 1 THEN a ELSE a \o b
  <2>2. ASSUME NEW i \in 1..2
        PROVE  V(i) = W(i)
    <3>1. CASE i = 1
      BY <1>1, <3>1
    <3>2. CASE i = 2
      <4>1. i - 1 = 1
        BY <3>2
      <4> HIDE DEF g
      <4> QED BY <1>1, <2>1, <3>2, <4>1
    <3> QED BY <3>1, <3>2
  <2>3. g = [i \in 1..2 |-> V(i)]
    OBVIOUS
  <2> HIDE DEF V, W, g
  <2>4. g = [i \in 1..2 |-> W(i)]
    BY <2>2, <2>3
  <2> QED BY <2>4 DEF W
<1> HIDE DEF g
<1>4. flat = [i \in 1..2 |-> IF i = 1 THEN l[i] ELSE flat[i - 1] \o l[i]]
  BY <1>3
<1> HIDE DEF flat
<1>5. \A i \in 1..2 : flat[i] = IF i = 1 THEN l[i] ELSE flat[i - 1] \o l[i]
  BY <1>4
<1>6. flat[1] = a
  BY <1>1, <1>5
<1>7. flat[2] = a \o b
  <2>1. 2 \in 1..2 /\ 2 # 1 /\ 2 - 1 = 1
    OBVIOUS
  <2>2. flat[2] = flat[2 - 1] \o l[2]
    BY <1>5, <2>1
  <2> QED BY <1>1, <1>6, <2>1, <2>2
<1> QED BY <1>2, <1>7 DEF l

\* makePropstats keeps what names a property, or one that names none.
LEMMA MakePropstatsIs ==
  ASSUME NEW s, NEW a, NEW t, NEW b, NEW stats,
         stats = MakePropstats(Propstat(s, a), Propstat(t, b))
  PROVE  /\ a # << >> /\ b # << >> => stats = <<Propstat(s, a), Propstat(t, b)>>
         /\ a # << >> /\ b = << >> => stats = <<Propstat(s, a)>>
         /\ a = << >> /\ b # << >> => stats = <<Propstat(t, b)>>
         /\ a = << >> /\ b = << >> => stats = <<Propstat("OK", << >>)>>
<1> DEFINE x == Propstat(s, a)
           y == Propstat(t, b)
<1>1. x.props = a /\ y.props = b
  BY DEF Propstat
<1>2. stats = MakePropstats(x, y)
  OBVIOUS
<1> HIDE DEF x, y
<1>3. <<x>> \o <<y>> = <<x, y>> /\ <<x, y>> # << >>
  <2> DEFINE z == <<x>> \o <<y>>
             w == <<x, y>>
  <2>1. <<x>> \in Seq({x, y}) /\ <<y>> \in Seq({x, y}) /\ Len(<<x>>) = 1 /\ Len(<<y>>) = 1
    OBVIOUS
  <2>2. /\ z \in Seq({x, y}) /\ Len(z) = 2
        /\ \A i \in 1..2 : z[i] = IF i <= 1 THEN <<x>>[i] ELSE <<y>>[i - 1]
    BY <2>1, ConcatProperties
  <2>3. z[1] = x /\ z[2] = y
    BY <2>2
  <2>4. w \in Seq({x, y}) /\ Len(w) = 2 /\ w[1] = x /\ w[2] = y /\ w # << >>
    OBVIOUS
  <2> HIDE DEF z, w
  <2>5. \A i \in 1..2 : z[i] = w[i]
    BY <2>3, <2>4
  <2>6. z = w
    BY <2>2, <2>4, <2>5, SeqEqual
  <2> QED BY <2>4, <2>6 DEF z, w
<1>4. <<x>> \o << >> = <<x>> /\ << >> \o <<y>> = <<y>> /\ << >> \o << >> = << >>
  <2>1. <<x>> \in Seq({x}) /\ <<y>> \in Seq({y}) /\ << >> \in Seq({})
    OBVIOUS
  <2> QED BY <2>1, ConcatEmptySeq
<1>5. <<x>> # << >> /\ <<y>> # << >>
  OBVIOUS
<1>6. /\ a # << >> /\ b # << >> => stats = <<x, y>>
      /\ a # << >> /\ b = << >> => stats = <<x>>
      /\ a = << >> /\ b # << >> => stats = <<y>>
      /\ a = << >> /\ b = << >> => stats = <<Propstat("OK", << >>)>>
  BY <1>1, <1>2, <1>3, <1>4, <1>5 DEF MakePropstats
<1> QED BY <1>6 DEF x, y

-----------------------------------------------------------------------------
(* The answer of a PROPFIND *)

\* A slice of the names of a finite set.
LEMMA ListOf ==
  ASSUME NEW S, IsFiniteSet(S)
  PROVE  SetToSeq(S) \in Seq(S)
<1> DEFINE n == Cardinality(S)
<1>1. n \in Nat /\ ExistsBijection(1..n, S)
  BY FS_CardinalityType
<1>2. \E f \in [1..n -> S] : IsInjective(f)
  BY <1>1 DEF ExistsBijection, Bijection, Injection
<1>3. SetToSeq(S) \in [1..n -> S]
  BY <1>2 DEF SetToSeq
<1> QED BY <1>1, <1>3, SeqDef

\* The live properties that are shown, and the dead ones, are some of the
\* names and finitely many.
LEMMA ShownNames ==
  ASSUME NEW d \in DeadMaps, NEW k
  PROVE  /\ Shown(k) \cup DOMAIN d \subseteq AllNames
         /\ IsFiniteSet(Shown(k) \cup DOMAIN d)
<1>1. DOMAIN d \subseteq DeadNames /\ IsFiniteSet(DOMAIN d)
  BY DEF DeadMaps
<1>2. Shown(k) \subseteq liveProps
  BY DEF Shown, liveProps
<1>3. IsFiniteSet(liveProps)
  BY LiveAssumption DEF liveProps
<1>4. IsFiniteSet(Shown(k))
  BY <1>2, <1>3, FS_Subset
<1> QED BY <1>1, <1>2, <1>4, FS_Union DEF AllNames

\* makePropstats of the names that are known and of the others.
LEMMA Sorted ==
  ASSUME NEW names \in Seq(AllNames), NEW known
  PROVE  OneEach(ToSet(names), MakePropstats(Propstat("OK", Only(names, known)),
                                             Propstat("NotFound", Only(names, AllNames \ known))))
<1> DEFINE stats == MakePropstats(Propstat("OK", Only(names, known)),
                                  Propstat("NotFound", Only(names, AllNames \ known)))
<1> SUFFICES /\ stats # << >>
             /\ \A i, j \in DOMAIN stats :
                  i # j => /\ stats[i].status # stats[j].status
                           /\ ToSet(stats[i].props) \cap ToSet(stats[j].props) = {}
             /\ ToSet(names) \subseteq UNION {ToSet(stats[i].props) : i \in DOMAIN stats}
  BY DEF OneEach
<1> DEFINE a == Only(names, known)
           b == Only(names, AllNames \ known)
<1>1. /\ ToSet(a) = ToSet(names) \cap known
      /\ ToSet(b) = ToSet(names) \cap (AllNames \ known)
      /\ ToSet(names) \subseteq AllNames
  <2>1. \A i \in DOMAIN names : names[i] \in AllNames
    BY LenProperties, ElementOfSeq
  <2>2. ToSet(names) \subseteq AllNames
    BY <2>1 DEF ToSet
  <2>3. ToSet(a) = ToSet(names) \cap known
    BY OnlyIs
  <2>4. ToSet(b) = ToSet(names) \cap (AllNames \ known)
    BY OnlyIs
  <2> QED BY <2>2, <2>3, <2>4
<1>2. stats = MakePropstats(Propstat("OK", a), Propstat("NotFound", b))
  OBVIOUS
<1> HIDE DEF a, b, stats
<1> DEFINE x == Propstat("OK", a)
           y == Propstat("NotFound", b)
<1>3. /\ x.status = "OK" /\ x.props = a
      /\ y.status = "NotFound" /\ y.props = b
  BY DEF Propstat
<1>4. ToSet(<< >>) = {}
  BY DEF ToSet
<1>5. ToSet(a) \cap ToSet(b) = {} /\ ToSet(names) = ToSet(a) \cup ToSet(b)
  BY <1>1
<1>6. /\ a # << >> /\ b # << >> => stats = <<x, y>>
      /\ a # << >> /\ b = << >> => stats = <<x>>
      /\ a = << >> /\ b # << >> => stats = <<y>>
      /\ a = << >> /\ b = << >> => stats = <<Propstat("OK", << >>)>>
  BY <1>2, MakePropstatsIs
<1> HIDE DEF x, y
<1>7. CASE a # << >> /\ b # << >>
  <2>1. stats # << >> /\ DOMAIN stats = {1, 2} /\ stats[1] = x /\ stats[2] = y
    BY <1>6, <1>7
  <2>2. \A i, j \in DOMAIN stats :
          i # j => /\ stats[i].status # stats[j].status
                   /\ ToSet(stats[i].props) \cap ToSet(stats[j].props) = {}
    <3>1. x.status # y.status /\ ToSet(x.props) \cap ToSet(y.props) = {}
      BY <1>3, <1>5
    <3> QED BY <2>1, <3>1
  <2>3. UNION {ToSet(stats[i].props) : i \in DOMAIN stats} = ToSet(a) \cup ToSet(b)
    BY <1>3, <2>1
  <2> QED BY <1>5, <2>1, <2>2, <2>3
<1>8. CASE a # << >> /\ b = << >>
  <2>1. DOMAIN stats = {1} /\ stats[1] = x /\ stats # << >>
    <3>1. stats = <<x>>
      BY <1>6, <1>8
    <3> QED BY <3>1
  <2> QED BY <1>3, <1>4, <1>5, <1>8, <2>1
<1>9. CASE a = << >> /\ b # << >>
  <2>1. DOMAIN stats = {1} /\ stats[1] = y /\ stats # << >>
    <3>1. stats = <<y>>
      BY <1>6, <1>9
    <3> QED BY <3>1
  <2> QED BY <1>3, <1>4, <1>5, <1>9, <2>1
<1>10. CASE a = << >> /\ b = << >>
  <2>1. DOMAIN stats = {1} /\ stats # << >>
    BY <1>6, <1>10
  <2> QED BY <1>4, <1>5, <1>10, <2>1
<1> QED BY <1>7, <1>8, <1>9, <1>10

-----------------------------------------------------------------------------
(* The invariant *)

\* A resource has no dead properties when the server starts, and nobody asks.
LEMMA InitPropInv ==
  ASSUME Init
  PROVE  PropInv
<1>1. dead \in DeadMaps
  <2>1. NoProps \in [{} -> Values] /\ IsFiniteSet({})
    BY FS_EmptySet DEF NoProps
  <2> QED BY <2>1 DEF DeadMaps, Init
<1>2. PatchOK
  BY DEF Init, NoPatch, PatchOK
<1>3. find = NoFind /\ NoFind \in [at : {"idle"}, pf : {NoBody}, names : {<< >>}, reply : {<< >>}]
  BY DEF Init, NoFind
<1>4. FindOK
  BY <1>3 DEF NoFind, NoBody, FindOK, Bodies
<1>5. EachNameInOne
  BY <1>3 DEF NoFind, EachNameInOne
<1> QED BY <1>1, <1>2, <1>4, <1>5 DEF PropInv

\* A request that fails, or has not started, leaves nothing to say of it.
LEMMA NoFindOK ==
  ASSUME find' \in {[NoFind EXCEPT !.at = at] : at \in {"idle", "body", "400", "404", "500"}}
  PROVE  FindOK' /\ EachNameInOne'
<1>1. PICK at \in {"idle", "body", "400", "404", "500"} :
             find' = [at |-> at, pf |-> NoBody, names |-> << >>, reply |-> << >>]
  BY DEF NoFind
<1>2. NoBody \in Bodies /\ NoBody.prop = << >> /\ << >> \in Seq(AllNames)
  BY DEF NoBody, Bodies
<1>3. /\ find'.at = at /\ find'.pf = NoBody /\ find'.names = << >>
      /\ find' = [at |-> find'.at, pf |-> find'.pf, names |-> find'.names, reply |-> find'.reply]
  BY <1>1
<1>4. FindOK'
  BY <1>2, <1>3 DEF FindOK
<1>5. EachNameInOne'
  BY <1>3 DEF EachNameInOne
<1> QED BY <1>4, <1>5

\* The children of a propfind element.
LEMMA FindChildKeeps ==
  ASSUME PropInv, FindChild
  PROVE  PropInv'
<1>1. dead' \in DeadMaps /\ PatchOK'
  BY DEF PropInv, FindChild, PatchOK
<1> DEFINE pf == find.pf
<1>2. /\ find = [at |-> "body", pf |-> pf, names |-> find.names, reply |-> find.reply]
      /\ find.names \in Seq(AllNames)
      /\ pf \in Bodies
  BY DEF PropInv, FindOK, FindChild
<1>3. CASE find' = BadRequest
  <2>1. FindOK' /\ EachNameInOne'
    BY <1>3, NoFindOK DEF BadRequest
  <2> QED BY <1>1, <2>1 DEF PropInv
<1>4. ASSUME NEW q \in Bodies, find' = [find EXCEPT !.pf = q]
      PROVE  PropInv'
  <2>1. find' = [at |-> "body", pf |-> q, names |-> find.names, reply |-> find.reply]
    BY <1>2, <1>4
  <2>2. FindOK' /\ EachNameInOne'
    BY <1>2, <2>1 DEF FindOK, EachNameInOne
  <2> QED BY <1>1, <2>2 DEF PropInv
<1>5. CASE find' \in {[find EXCEPT !.pf.allprop = TRUE], [find EXCEPT !.pf.propname = TRUE]}
  <2>1. [pf EXCEPT !.allprop = TRUE] \in Bodies /\ [pf EXCEPT !.propname = TRUE] \in Bodies
    BY <1>2 DEF Bodies
  <2> QED BY <1>4, <1>5, <2>1
<1>6. ASSUME NEW field \in {"prop", "include"}, NEW more \in NameSeqs, find' = Names(field, more)
      PROVE  PropInv'
  <2>1. more \in Seq(AllNames)
    BY <1>6, SeqDef DEF NameSeqs, SeqOf
  <2>2. pf[field] \in Seq(AllNames)
    BY <1>2 DEF Bodies
  <2> DEFINE names == pf[field] \o more
  <2>3. names \in Seq(AllNames)
    BY <2>1, <2>2, ConcatProperties
  <2>4. find' = BadRequest \/ find' = [find EXCEPT !.pf[field] = names]
    BY <1>6 DEF Names
  <2> HIDE DEF names
  <2>5. [pf EXCEPT ![field] = names] \in Bodies
    BY <1>2, <2>3 DEF Bodies
  <2> QED BY <1>3, <1>4, <2>4, <2>5
<1> QED BY <1>3, <1>5, <1>6 DEF FindChild

\* The end of the body.
LEMMA FindBodyKeeps ==
  ASSUME PropInv, FindBody
  PROVE  PropInv'
<1>1. dead' \in DeadMaps /\ PatchOK'
  BY DEF PropInv, FindBody, PatchOK
<1> DEFINE pf == find.pf
<1>2. /\ find = [at |-> "body", pf |-> pf, names |-> find.names, reply |-> find.reply]
      /\ find.names \in Seq(AllNames)
      /\ pf \in Bodies
  BY DEF PropInv, FindOK, FindBody
<1>3. CASE find' = BadRequest
  <2>1. FindOK' /\ EachNameInOne'
    BY <1>3, NoFindOK DEF BadRequest
  <2> QED BY <1>1, <2>1 DEF PropInv
<1>4. CASE find' = [find EXCEPT !.at = IF find.pf.prop # << >> THEN "named" ELSE "names",
                                !.names = find.pf.prop]
  <2>1. find' = [at |-> IF pf.prop # << >> THEN "named" ELSE "names", pf |-> pf,
                 names |-> pf.prop, reply |-> find.reply]
    BY <1>2, <1>4
  <2>2. pf.prop \in Seq(AllNames)
    BY <1>2 DEF Bodies
  <2>3. FindOK' /\ EachNameInOne'
    BY <1>2, <2>1, <2>2 DEF FindOK, EachNameInOne
  <2> QED BY <1>1, <2>3 DEF PropInv
<1>5. CASE find.pf = NoBody /\ find' = [find EXCEPT !.at = "names", !.pf.allprop = TRUE]
  <2> DEFINE q == [pf EXCEPT !.allprop = TRUE]
  <2>1. q \in Bodies /\ q.prop = << >>
    <3>1. pf.prop = << >>
      BY <1>5 DEF NoBody
    <3> QED BY <1>2, <3>1 DEF Bodies
  <2>2. find' = [at |-> "names", pf |-> q, names |-> find.names, reply |-> find.reply]
    BY <1>2, <1>5
  <2> HIDE DEF q
  <2>3. FindOK' /\ EachNameInOne'
    BY <1>2, <2>1, <2>2 DEF FindOK, EachNameInOne
  <2> QED BY <1>1, <2>3 DEF PropInv
<1> QED BY <1>3, <1>4, <1>5 DEF FindBody

\* The names of propnames: in one propstat, or looked up next.
LEMMA FindNamesKeeps ==
  ASSUME PropInv, FindNames
  PROVE  PropInv'
<1>1. dead' \in DeadMaps /\ PatchOK'
  BY DEF PropInv, FindNames, PatchOK
<1> DEFINE pf    == find.pf
           names == SetToSeq(Shown(kind) \cup DOMAIN dead)
           more  == Only(pf.prop, AllNames \ ToSet(names))
<1>2. /\ find = [at |-> "names", pf |-> pf, names |-> find.names, reply |-> find.reply]
      /\ find.names \in Seq(AllNames)
      /\ pf \in Bodies /\ pf.prop = << >>
  BY DEF PropInv, FindOK, FindNames
<1>3. names \in Seq(AllNames)
  <2>1. /\ Shown(kind) \cup DOMAIN dead \subseteq AllNames
        /\ IsFiniteSet(Shown(kind) \cup DOMAIN dead)
    BY ShownNames DEF PropInv
  <2>2. names \in Seq(Shown(kind) \cup DOMAIN dead)
    BY <2>1, ListOf
  <2> QED BY <2>1, <2>2, SeqDef
<1>4. names \o more \in Seq(AllNames)
  <2>1. more = << >>
    BY <1>2, OnlyOfNothing
  <2> HIDE DEF names, more
  <2> QED BY <1>3, <2>1, ConcatEmptySeq
<1>5. \/ find' = FindFails
      \/ find' = [find EXCEPT !.at = "207", !.reply = <<Propstat("OK", names)>>]
      \/ find' = [find EXCEPT !.at = "props", !.names = names \o more]
  BY DEF FindNames
<1>6. CASE find' = FindFails
  <2>1. FindOK' /\ EachNameInOne'
    BY <1>6, NoFindOK DEF FindFails
  <2> QED BY <1>1, <2>1 DEF PropInv
<1> HIDE DEF names, more
<1>7. CASE find' = [find EXCEPT !.at = "207", !.reply = <<Propstat("OK", names)>>]
  <2>1. find' = [at |-> "207", pf |-> pf, names |-> find.names,
                 reply |-> <<Propstat("OK", names)>>]
    BY <1>2, <1>7
  <2>2. FindOK'
    BY <1>2, <2>1 DEF FindOK
  <2>3. EachNameInOne'
    <3>1. find'.reply = <<Propstat("OK", names)>> /\ ToSet(find'.pf.prop) = {}
      BY <1>2, <2>1 DEF ToSet
    <3>2. DOMAIN find'.reply = {1} /\ find'.reply # << >>
      BY <3>1
    <3> QED BY <3>1, <3>2 DEF EachNameInOne
  <2> QED BY <1>1, <2>2, <2>3 DEF PropInv
<1>8. CASE find' = [find EXCEPT !.at = "props", !.names = names \o more]
  <2>1. find' = [at |-> "props", pf |-> pf, names |-> names \o more, reply |-> find.reply]
    BY <1>2, <1>8
  <2>2. FindOK' /\ EachNameInOne'
    BY <1>2, <1>4, <2>1 DEF FindOK, EachNameInOne
  <2> QED BY <1>1, <2>2 DEF PropInv
<1> QED BY <1>5, <1>6, <1>7, <1>8

\* The names that are looked up.
LEMMA FindPropsKeeps ==
  ASSUME PropInv, FindProps
  PROVE  PropInv'
<1>1. dead' \in DeadMaps /\ PatchOK'
  BY DEF PropInv, FindProps, PatchOK
<1> DEFINE pf    == find.pf
           known == DOMAIN dead \cup Shown(kind)
           stats == MakePropstats(Propstat("OK", Only(find.names, known)),
                                  Propstat("NotFound", Only(find.names, AllNames \ known)))
<1>2. /\ find = [at |-> find.at, pf |-> pf, names |-> find.names, reply |-> find.reply]
      /\ find.names \in Seq(AllNames)
      /\ pf \in Bodies
      /\ pf.prop = << >> \/ find.names = pf.prop
  BY DEF PropInv, FindOK, FindProps
<1>3. find' = FindFails \/ find' = [find EXCEPT !.at = "207", !.reply = stats]
  BY DEF FindProps
<1>4. CASE find' = FindFails
  <2>1. FindOK' /\ EachNameInOne'
    BY <1>4, NoFindOK DEF FindFails
  <2> QED BY <1>1, <2>1 DEF PropInv
<1>5. OneEach(ToSet(find.names), stats)
  BY <1>2, Sorted
<1> HIDE DEF stats
<1>6. CASE find' = [find EXCEPT !.at = "207", !.reply = stats]
  <2>1. find' = [at |-> "207", pf |-> pf, names |-> find.names, reply |-> stats]
    BY <1>2, <1>6
  <2>2. FindOK'
    BY <1>2, <2>1 DEF FindOK
  <2>3. OneEach(ToSet(pf.prop), stats)
    <3>1. CASE pf.prop = << >>
      <4>1. ToSet(pf.prop) = {}
        BY <3>1 DEF ToSet
      <4> QED BY <1>5, <4>1 DEF OneEach
    <3>2. CASE find.names = pf.prop
      BY <1>5, <3>2
    <3> QED BY <1>2, <3>1, <3>2
  <2>4. find'.reply = stats /\ find'.pf.prop = pf.prop
    BY <2>1
  <2>5. EachNameInOne'
    <3>1. OneEach(ToSet(find'.pf.prop), find'.reply)
      BY <2>3, <2>4
    <3> QED BY <3>1 DEF EachNameInOne, OneEach
  <2> QED BY <1>1, <2>2, <2>5 DEF PropInv
<1> QED BY <1>3, <1>4, <1>6

\* So does a PROPPATCH.
LEMMA NoPatchOK ==
  ASSUME patch' \in {[NoPatch EXCEPT !.at = at] : at \in {"idle", "found", "400", "404", "500"}}
  PROVE  PatchOK'
<1>1. PICK at \in {"idle", "found", "400", "404", "500"} :
             patch' = [at |-> at, patches |-> << >>, reply |-> << >>]
  BY DEF NoPatch
<1>2. patch'.at = at /\ patch'.patches = << >> /\ patch'.reply = << >>
  BY <1>1
<1>3. << >> \in Seq(Elements)
  OBVIOUS
<1> QED BY <1>1, <1>2, <1>3 DEF PatchOK

\* The children of a propertyupdate element.
LEMMA PatchChildKeeps ==
  ASSUME PropInv, PatchChild
  PROVE  PropInv'
<1>1. dead' \in DeadMaps /\ FindOK' /\ EachNameInOne'
  BY DEF PropInv, PatchChild, FindOK, EachNameInOne
<1> DEFINE asked == patch.patches
<1>2. /\ patch = [at |-> patch.at, patches |-> asked, reply |-> patch.reply]
      /\ asked \in Seq(Elements)
  BY DEF PropInv, PatchOK
<1>3. ASSUME NEW remove \in BOOLEAN, NEW props \in SeqOf(Instructions, MaxNames),
             patch' = [patch EXCEPT !.at = "body",
                         !.patches = Append(@, [remove |-> remove, props |-> props])]
      PROVE  PatchOK'
  <2>1. props \in Seq(Instructions)
    BY <1>3, SeqDef DEF SeqOf
  <2> DEFINE more == Append(asked, [remove |-> remove, props |-> props])
  <2>2. more \in Seq(Elements)
    BY <1>2, <2>1 DEF Elements
  <2>3. patch' = [at |-> "body", patches |-> more, reply |-> patch.reply]
    BY <1>2, <1>3
  <2> HIDE DEF more
  <2> QED BY <2>2, <2>3 DEF PatchOK
<1>4. ASSUME patch' = [NoPatch EXCEPT !.at = "400"]
      PROVE  PatchOK'
  BY <1>4, NoPatchOK
<1>5. PatchOK'
  <2>1. [name : AllNames, value : Values] = Instructions
    BY DEF Instructions
  <2>2. CASE \E remove \in BOOLEAN, props \in SeqOf(Instructions, MaxNames) :
                patch' = [patch EXCEPT !.at = "body",
                            !.patches = Append(@, [remove |-> remove, props |-> props])]
    BY <1>3, <2>2
  <2>3. \/ \E remove \in BOOLEAN, props \in SeqOf(Instructions, MaxNames) :
             patch' = [patch EXCEPT !.at = "body",
                         !.patches = Append(@, [remove |-> remove, props |-> props])]
        \/ patch' = [NoPatch EXCEPT !.at = "400"]
    BY <2>1 DEF PatchChild
  <2> QED BY <1>4, <2>2, <2>3
<1> QED BY <1>1, <1>5 DEF PropInv

\* The instructions, all of them or none.
LEMMA PatchApplyKeeps ==
  ASSUME PropInv, PatchApply
  PROVE  PropInv'
<1>1. FindOK' /\ EachNameInOne'
  BY DEF PropInv, PatchApply, FindOK, EachNameInOne
<1>2. /\ patch = [at |-> patch.at, patches |-> patch.patches, reply |-> patch.reply]
      /\ patch.patches \in Seq(Elements)
      /\ dead \in DeadMaps
  BY DEF PropInv, PatchOK
<1>3. dead' \in DeadMaps
  BY <1>2, AppliedKeeps DEF PatchApply
<1>4. PatchOK'
  <2>1. ASSUME NEW r, patch' = [patch EXCEPT !.at = "207", !.reply = r]
        PROVE  PatchOK'
    <3>1. patch' = [at |-> "207", patches |-> patch.patches, reply |-> r]
      BY <1>2, <2>1
    <3> QED BY <1>2, <3>1 DEF PatchOK
  <2>2. CASE patch' = [NoPatch EXCEPT !.at = "500"]
    BY <2>2, NoPatchOK
  <2> QED BY <2>1, <2>2 DEF PatchApply
<1> QED BY <1>1, <1>3, <1>4 DEF PropInv

\* Every step.
LEMMA PropStep ==
  ASSUME PropInv, [Next]_vars
  PROVE  PropInv'
<1>1. CASE UNCHANGED vars
  BY <1>1 DEF PropInv, PatchOK, FindOK, EachNameInOne, vars
<1>2. CASE StartFind
  <2>1. dead' \in DeadMaps /\ PatchOK'
    BY <1>2 DEF PropInv, PatchOK, StartFind
  <2>2. FindOK' /\ EachNameInOne'
    BY <1>2, NoFindOK DEF StartFind
  <2> QED BY <2>1, <2>2 DEF PropInv
<1>3. CASE FindDone
  <2>1. dead' \in DeadMaps /\ PatchOK'
    BY <1>3 DEF PropInv, PatchOK, FindDone
  <2>2. find' \in {[NoFind EXCEPT !.at = at] : at \in {"idle", "body", "400", "404", "500"}}
    BY <1>3 DEF FindDone, NoFind
  <2>3. FindOK' /\ EachNameInOne'
    BY <2>2, NoFindOK
  <2> QED BY <2>1, <2>3 DEF PropInv
<1>4. CASE StartPatch \/ PatchBody \/ PatchDone
  <2>1. dead' \in DeadMaps /\ FindOK' /\ EachNameInOne'
    BY <1>4 DEF PropInv, FindOK, EachNameInOne, StartPatch, PatchBody, PatchDone
  <2>2. PatchOK'
    <3>1. CASE StartPatch \/ PatchDone
      <4>1. patch' \in {[NoPatch EXCEPT !.at = at] : at \in {"idle", "found", "404"}}
        BY <3>1 DEF StartPatch, PatchDone, NoPatch
      <4> QED BY <4>1, NoPatchOK
    <3>2. CASE PatchBody
      <4>1. patch' = [at |-> "patch", patches |-> patch.patches, reply |-> patch.reply]
        BY <3>2 DEF PatchBody, PropInv, PatchOK
      <4> QED BY <4>1 DEF PropInv, PatchOK
    <3> QED BY <1>4, <3>1, <3>2
  <2> QED BY <2>1, <2>2 DEF PropInv
<1>5. CASE Others
  <2>1. FindOK' /\ EachNameInOne' /\ PatchOK'
    BY <1>5 DEF PropInv, FindOK, EachNameInOne, PatchOK, Others
  <2>2. NoProps \in [{} -> Values] /\ IsFiniteSet({})
    BY FS_EmptySet DEF NoProps
  <2>3. NoProps \in DeadMaps
    BY <2>2 DEF DeadMaps
  <2>4. dead' \in DeadMaps
    BY <1>5, <2>3 DEF PropInv, Others
  <2> QED BY <2>1, <2>4 DEF PropInv
<1> QED BY <1>1, <1>2, <1>3, <1>4, <1>5, FindChildKeeps, FindBodyKeeps, FindNamesKeeps,
          FindPropsKeeps, PatchChildKeeps, PatchApplyKeeps DEF Next

\* The invariant holds of every state.
THEOREM PropertiesInvariant == Spec => []PropInv
<1>1. Init => PropInv
  BY InitPropInv
<1>2. PropInv /\ [Next]_vars => PropInv'
  BY PropStep
<1> QED BY <1>1, <1>2, PTL DEF Spec

\* A live property is computed from the resource: whatever a client asks for,
\* patch (webdav/prop.go) gives no dead property the name of a live one, the
\* hidden ones included.
THEOREM NoDeadHidesALive == Spec => []DeadNeverLive
<1>1. PropInv => DeadNeverLive
  BY NamesAssumption DEF PropInv, DeadMaps, DeadNeverLive, liveProps
<1> QED BY <1>1, PropertiesInvariant, PTL

\* A PROPFIND answers each name of its prop element in just one propstat, and
\* never without a propstat, whatever removes or makes the resource meanwhile
\* (props, allprop, makePropstats, webdav/prop.go).
THEOREM NamesAreToldOnce == Spec => []EachNameInOne
<1>1. PropInv => EachNameInOne
  BY DEF PropInv
<1> QED BY <1>1, PropertiesInvariant, PTL

-----------------------------------------------------------------------------
(* The answer of a PROPPATCH *)

\* What two propstats tell.
LEMMA TimesTold ==
  ASSUME NEW s, NEW a \in Seq(AllNames), NEW t, NEW b \in Seq(AllNames), NEW n,
         NEW stats, stats = MakePropstats(Propstat(s, a), Propstat(t, b))
  PROVE  Times(n, FlattenSeq([i \in DOMAIN stats |-> stats[i].props])) = Times(n, a) + Times(n, b)
<1> DEFINE x == Propstat(s, a)
           y == Propstat(t, b)
           lists == [i \in DOMAIN stats |-> stats[i].props]
<1>1. x.props = a /\ y.props = b /\ Propstat("OK", << >>).props = << >>
  BY DEF Propstat
<1>2. /\ a # << >> /\ b # << >> => stats = <<x, y>>
      /\ a # << >> /\ b = << >> => stats = <<x>>
      /\ a = << >> /\ b # << >> => stats = <<y>>
      /\ a = << >> /\ b = << >> => stats = <<Propstat("OK", << >>)>>
  BY MakePropstatsIs
<1>3. Times(n, a) \in Nat /\ Times(n, b) \in Nat /\ Times(n, << >>) = 0
  BY TimesIsNat, TimesNone
<1> HIDE DEF x, y
<1>4. CASE a # << >> /\ b # << >>
  <2>1. stats = <<x, y>>
    BY <1>2, <1>4
  <2>2. lists = <<a, b>>
    BY <1>1, <2>1
  <2>3. FlattenSeq(lists) = a \o b
    BY <2>2, FlattenedTwo
  <2> QED BY <2>3, TimesConcatenated
<1>5. CASE a # << >> /\ b = << >>
  <2>1. stats = <<x>>
    BY <1>2, <1>5
  <2>2. lists = <<a>>
    BY <1>1, <2>1
  <2>3. FlattenSeq(lists) = a
    BY <2>2, FlattenedOne
  <2> QED BY <1>3, <1>5, <2>3
<1>6. CASE a = << >> /\ b # << >>
  <2>1. stats = <<y>>
    BY <1>2, <1>6
  <2>2. lists = <<b>>
    BY <1>1, <2>1
  <2>3. FlattenSeq(lists) = b
    BY <2>2, FlattenedOne
  <2> QED BY <1>3, <1>6, <2>3
<1>7. CASE a = << >> /\ b = << >>
  <2>1. stats = <<Propstat("OK", << >>)>>
    BY <1>2, <1>7
  <2> DEFINE e == << >>
  <2>2. lists = <<e>>
    BY <1>1, <2>1
  <2> HIDE DEF e
  <2>3. FlattenSeq(lists) = e
    BY <2>2, FlattenedOne
  <2> QED BY <1>3, <1>7, <2>3 DEF e
<1> QED BY <1>4, <1>5, <1>6, <1>7

\* The names of the instructions, one after the other.
LEMMA NamedOf ==
  ASSUME NEW patches \in Seq(Elements)
  PROVE  /\ Named(patches) \in Seq(AllNames)
         /\ \A i \in DOMAIN patches : \A j \in DOMAIN patches[i].props :
              /\ patches[i].props[j].name \in ToSet(Named(patches))
              /\ patches[i].props[j].name \in ToSet(PropNames(patches[i].props))
<1> DEFINE n == Len(patches)
           lists == [i \in DOMAIN patches |-> PropNames(patches[i].props)]
<1>1. n \in Nat /\ DOMAIN patches = 1..n /\ \A i \in 1..n : patches[i] \in Elements
  BY LenProperties, ElementOfSeq
<1>2. ASSUME NEW i \in 1..n
      PROVE  /\ PropNames(patches[i].props) \in Seq(AllNames)
             /\ \A j \in DOMAIN patches[i].props :
                  patches[i].props[j].name \in ToSet(PropNames(patches[i].props))
  <2> DEFINE props == patches[i].props
             m == Len(props)
  <2>1. props \in Seq(Instructions)
    BY <1>1 DEF Elements
  <2>2. m \in Nat /\ DOMAIN props = 1..m /\ \A j \in 1..m : props[j] \in Instructions
    BY <2>1, LenProperties, ElementOfSeq
  <2> HIDE DEF props, m
  <2>3. \A j \in 1..m : props[j].name \in AllNames
    BY <2>2 DEF Instructions
  <2>4. PropNames(props) \in [1..m -> AllNames]
    BY <2>2, <2>3 DEF PropNames
  <2>5. PropNames(props) \in Seq(AllNames)
    BY <2>2, <2>4, SeqDef
  <2>6. \A j \in DOMAIN props : props[j].name \in ToSet(PropNames(props))
    BY DEF PropNames, ToSet
  <2> QED BY <2>5, <2>6 DEF props
<1> HIDE DEF n
<1>3. lists \in [1..n -> Seq(AllNames)]
  BY <1>1, <1>2
<1>4. lists \in Seq(Seq(AllNames))
  BY <1>1, <1>3, SeqDef
<1>5. Named(patches) = FlattenSeq(lists)
  BY DEF Named
<1>6. \A i \in 1..n : lists[i] = PropNames(patches[i].props) /\ i \in DOMAIN lists
  BY <1>1
<1> HIDE DEF lists
<1>7. /\ Named(patches) \in Seq(AllNames)
      /\ \A i \in 1..n : ToSet(lists[i]) \subseteq ToSet(Named(patches))
  BY <1>4, <1>5, <1>6, FlattenedHolds
<1> QED BY <1>1, <1>2, <1>6, <1>7

\* All instructions are followed, each name told once for each of them, or none is.
LEMMA PatchApplyAnswers ==
  ASSUME PropInv, PatchApply, patch'.at = "207"
  PROVE  PatchAnswer
<1> DEFINE asked == patch.patches
           reply == patch'.reply
           named == Named(asked)
           told  == FlattenSeq([i \in DOMAIN reply |-> reply[i].props])
           names == UNION {ToSet(PropNames(asked[i].props)) : i \in DOMAIN asked}
           all   == AllNames
<1>1. /\ patch = [at |-> patch.at, patches |-> asked, reply |-> patch.reply]
      /\ asked \in Seq(Elements)
      /\ dead \in DeadMaps
  BY DEF PropInv, PatchOK
<1>2. /\ named \in Seq(AllNames)
      /\ \A i \in DOMAIN asked : \A j \in DOMAIN asked[i].props :
           /\ asked[i].props[j].name \in ToSet(named)
           /\ asked[i].props[j].name \in ToSet(PropNames(asked[i].props))
  BY <1>1, NamedOf
<1>3. CASE ~Conflict(asked) /\ dead' = Applied(dead, asked)
           /\ patch' = [patch EXCEPT !.at = "207", !.reply = <<Propstat("OK", Named(asked))>>]
  <2> DEFINE x == Propstat("OK", named)
  <2>1. reply = <<x>>
    BY <1>1, <1>3
  <2>2. x.status = "OK" /\ x.props = named
    BY DEF Propstat
  <2> HIDE DEF named, x, reply
  <2>3. DOMAIN reply = {1} /\ reply[1] = x
    BY <2>1
  <2>4. told = named
    <3>1. [i \in DOMAIN reply |-> reply[i].props] = <<named>>
      BY <2>1, <2>2
    <3> QED BY <3>1, FlattenedOne
  <2>5. \A i \in DOMAIN reply : reply[i].status = "OK"
    BY <2>2, <2>3
  <2>6. ASSUME NEW n \in (AllNames \cup DOMAIN dead') \ names
        PROVE  Alike(dead', dead, n)
    <3>1. \A i \in DOMAIN asked : \A j \in DOMAIN asked[i].props : asked[i].props[j].name # n
      BY <1>2, <2>6
    <3>2. Alike(Applied(dead, asked), dead, n)
      BY <1>1, <1>3, <3>1, AppliedSays
    <3> QED BY <1>3, <3>2
  <2>7. \A i \in DOMAIN asked : \A j \in DOMAIN asked[i].props :
          LastWord(asked, i, j) => Says(dead', asked[i].remove, asked[i].props[j])
    BY <1>1, <1>3, AppliedSays
  <2> HIDE DEF asked, names, told
  <2>8. \A n \in AllNames : Times(n, told) = Times(n, named)
    BY <2>4
  <2> QED BY <2>5, <2>6, <2>7, <2>8 DEF PatchAnswer, asked, reply, named, told, names
<1>4. CASE Conflict(asked) /\ UNCHANGED dead
           /\ patch' = [patch EXCEPT !.at = "207",
                !.reply = MakePropstats(Propstat("Forbidden", Told(asked, TRUE)),
                                        Propstat("FailedDependency", Told(asked, FALSE)))]
  <2> DEFINE a == Told(asked, TRUE)
             b == Told(asked, FALSE)
             U == {n \in AllNames : Protected(n) = TRUE}
             V == {n \in AllNames : Protected(n) = FALSE}
  <2>1. reply = MakePropstats(Propstat("Forbidden", a), Propstat("FailedDependency", b))
    BY <1>1, <1>4
  <2>2. a = Only(named, U) /\ b = Only(named, V)
    BY DEF Told
  <2>3. \A n \in AllNames : (n \in U /\ n \notin V) \/ (n \notin U /\ n \in V)
    BY DEF Protected
  <2>4. a \in Seq(AllNames) /\ b \in Seq(AllNames) /\ ToSet(a) = ToSet(named) \cap U
    <3> HIDE DEF named, U, V, a, b
    <3> QED BY <1>2, <2>2, OnlyIs
  <2>5. ASSUME NEW n \in AllNames
        PROVE  Times(n, told) = Times(n, named)
    <3>1. Times(n, told) = Times(n, a) + Times(n, b)
      <4> HIDE DEF a, b, reply
      <4> QED BY <2>1, <2>4, TimesTold
    <3> HIDE DEF named, U, V, told, a, b
    <3>2. Times(n, a) = IF n \in U THEN Times(n, named) ELSE 0
      BY <1>2, <2>2, TimesOnly
    <3>3. Times(n, b) = IF n \in V THEN Times(n, named) ELSE 0
      BY <1>2, <2>2, TimesOnly
    <3>4. Times(n, named) \in Nat
      BY <1>2, TimesIsNat
    <3>5. CASE n \in U /\ n \notin V
      BY <3>1, <3>2, <3>3, <3>4, <3>5
    <3>6. CASE n \notin U /\ n \in V
      BY <3>1, <3>2, <3>3, <3>4, <3>6
    <3> QED BY <2>3, <3>5, <3>6
  <2>6. a # << >>
    <3>1. PICK i \in DOMAIN asked : \E j \in DOMAIN asked[i].props :
                 Protected(asked[i].props[j].name)
      BY <1>4 DEF Conflict
    <3>2. PICK j \in DOMAIN asked[i].props : Protected(asked[i].props[j].name)
      BY <3>1
    <3> DEFINE n == asked[i].props[j].name
    <3>3. n \in ToSet(named) /\ Protected(n)
      BY <1>2, <3>1, <3>2
    <3>4. n \in U
      BY <3>3 DEF Protected, AllNames
    <3>5. n \in ToSet(a)
      BY <2>4, <3>3, <3>4
    <3>6. ToSet(<< >>) = {}
      BY DEF ToSet
    <3> HIDE DEF a, n
    <3> QED BY <3>5, <3>6
  <2> DEFINE x == Propstat("Forbidden", a)
             y == Propstat("FailedDependency", b)
  <2>7. x.status # "OK" /\ y.status # "OK"
    BY DEF Propstat
  <2>8. reply = <<x, y>> \/ reply = <<x>>
    <3> HIDE DEF a, b, reply
    <3> QED BY <2>1, <2>6, MakePropstatsIs
  <2> HIDE DEF x, y, a, b, reply
  <2>9. /\ \A i \in DOMAIN reply : reply[i].status # "OK"
        /\ ~\A i \in DOMAIN reply : reply[i].status = "OK"
    <3>1. CASE reply = <<x, y>>
      <4>1. DOMAIN reply = {1, 2} /\ reply[1] = x /\ reply[2] = y
        BY <3>1
      <4> QED BY <2>7, <4>1
    <3>2. CASE reply = <<x>>
      <4>1. DOMAIN reply = {1} /\ reply[1] = x
        BY <3>2
      <4> QED BY <2>7, <4>1
    <3> QED BY <2>8, <3>1, <3>2
  <2> HIDE DEF asked, names, told, named
  <2>10. dead' = dead
    BY <1>4
  <2> QED BY <2>5, <2>9, <2>10 DEF PatchAnswer, asked, reply, named, told, names
<1>5. CASE patch' = [NoPatch EXCEPT !.at = "500"]
  <2>1. patch'.at = "500"
    BY <1>5 DEF NoPatch
  <2> QED BY <2>1
<1> QED BY <1>3, <1>4, <1>5 DEF PatchApply

\* A PROPPATCH follows all its instructions, in the order of the document, or
\* none of them, and tells each name as often as it was given (patch,
\* webdav/prop.go, with Patch, awsfs/open.go), however long its body is.
THEOREM AllPatchesOrNone == Spec => PatchesAreAtomic
<1>1. PropInv /\ [Next]_vars => [patch'.at = "207" /\ patch.at = "patch" => PatchAnswer]_vars
  <2> SUFFICES ASSUME PropInv, Next, patch'.at = "207", patch.at = "patch"
               PROVE  PatchAnswer
    OBVIOUS
  <2>1. PatchApply
    <3>1. ~Answered(patch) /\ Busy(patch)
      BY DEF Answered, Busy
    <3>2. CASE FindDone
      BY <3>2 DEF FindDone
    <3>3. CASE PatchDone
      BY <3>1, <3>3 DEF PatchDone
    <3>4. CASE StartPatch \/ PatchChild \/ PatchBody
      BY <3>4 DEF StartPatch, PatchChild, PatchBody
    <3>5. CASE Others
      BY <3>5 DEF Others
    <3> QED BY <3>1, <3>2, <3>3, <3>4, <3>5 DEF Next
  <2> QED BY <2>1, PatchApplyAnswers
<1> QED BY <1>1, PropertiesInvariant, PTL DEF Spec, PatchesAreAtomic

=============================================================================
