--------------------------- MODULE PathMapProofs ---------------------------
(***************************************************************************)
(* The order of resource names: "is at or above" is a partial order, and   *)
(* the names above a name are a chain.  Then what the edits of the map of  *)
(* paths do to its paths and identifiers.  At the end induction along a    *)
(* sequence, for loops that are modelled as recursive functions.           *)
(***************************************************************************)
EXTENDS PathMap, SequenceTheorems, WellFoundedInduction, TLAPS

\* A name is at or above itself: the walk to the root starts with the name.
LEMMA AtOrAboveReflexive ==
  ASSUME NEW S, NEW p \in Seq(S)
  PROVE  AtOrAbove(p, p)
BY DEF AtOrAbove

\* What is above a parent is above its child.
LEMMA AtOrAboveTransitive ==
  ASSUME NEW S, NEW p \in Seq(S), NEW q \in Seq(S), NEW r \in Seq(S),
         AtOrAbove(p, q), AtOrAbove(q, r)
  PROVE  AtOrAbove(p, r)
BY DEF AtOrAbove

\* Two different names cannot each be above the other.
LEMMA AtOrAboveAntisymmetric ==
  ASSUME NEW S, NEW p \in Seq(S), NEW q \in Seq(S),
         AtOrAbove(p, q), AtOrAbove(q, p)
  PROVE  p = q
<1>1. Len(p) = Len(q)
  BY DEF AtOrAbove
<1>2. \A i \in 1..Len(p) : p[i] = q[i]
  BY DEF AtOrAbove
<1> QED BY <1>1, <1>2

\* The ancestors of a name are a chain: two infinite locks that cover one
\* resource are one above the other.
LEMMA AncestorsAreAChain ==
  ASSUME NEW S, NEW p \in Seq(S), NEW q \in Seq(S), NEW r \in Seq(S),
         AtOrAbove(p, r), AtOrAbove(q, r)
  PROVE  AtOrAbove(p, q) \/ AtOrAbove(q, p)
BY DEF AtOrAbove

\* The root is above every name.
LEMMA RootAboveAll ==
  ASSUME NEW S, NEW p \in Seq(S)
  PROVE  AtOrAbove(Root, p)
BY DEF AtOrAbove, Root

\* The parent of a path is right above it.
LEMMA ParentAbove ==
  ASSUME NEW S, NEW q \in Seq(S), q # Root
  PROVE  /\ Parent(q) \in Seq(S) /\ Len(Parent(q)) = Len(q) - 1
         /\ \A i \in 1..(Len(q) - 1) : Parent(q)[i] = q[i]
         /\ Above(Parent(q), q)
<1> DEFINE n == Len(q) - 1
<1>1. n \in Nat /\ n < Len(q) /\ Len(q) \in Nat
  BY DEF Root
<1>2. Parent(q) = SubSeq(q, 1, n)
  BY DEF Parent
<1>3. \A i \in 1..n : q[i] \in S
  BY <1>1
<1> HIDE DEF n
<1>4. /\ SubSeq(q, 1, n) \in Seq(S)
      /\ Len(SubSeq(q, 1, n)) = n
      /\ \A i \in 1..n : SubSeq(q, 1, n)[i] = q[i]
  BY <1>1, <1>3
<1>5. Above(Parent(q), q)
  BY <1>1, <1>2, <1>4 DEF Above, AtOrAbove
<1> QED BY <1>2, <1>4, <1>5 DEF n

\* Whatever is above a path is its parent or above it.
LEMMA AboveParent ==
  ASSUME NEW S, NEW p \in Seq(S), NEW q \in Seq(S), Above(p, q)
  PROVE  q # Root /\ AtOrAbove(p, Parent(q))
<1>1. Len(p) \in Nat /\ Len(q) \in Nat /\ Len(p) <= Len(q) /\ \A i \in 1..Len(p) : p[i] = q[i]
  BY DEF Above, AtOrAbove
<1>2. Len(p) # Len(q)
  BY <1>1 DEF Above
<1>3. q # Root
  BY <1>1, <1>2 DEF Root
<1>4. /\ Len(Parent(q)) = Len(q) - 1
      /\ \A i \in 1..(Len(q) - 1) : Parent(q)[i] = q[i]
  BY <1>3, ParentAbove
<1> QED BY <1>1, <1>2, <1>3, <1>4 DEF AtOrAbove

-----------------------------------------------------------------------------
(* No two paths have the same identifier. *)
OneToOne(m) == \A q, r \in DOMAIN m : m[q] = m[r] => q = r

\* An identifier that no path had keeps the map one-to-one.
LEMMA LinkedOneToOne ==
  ASSUME NEW m, NEW path, NEW id, OneToOne(m), \A q \in DOMAIN m : m[q] # id
  PROVE  OneToOne(Linked(m, path, id))
<1> DEFINE l == Linked(m, path, id)
<1>1. /\ DOMAIN l = DOMAIN m \cup {path}
      /\ l[path] = id
      /\ \A q \in DOMAIN m : q # path => l[q] = m[q]
  BY DEF Linked
<1> HIDE DEF l
<1>2. OneToOne(l)
  BY <1>1 DEF OneToOne
<1> QED BY <1>2 DEF l

\* Replacing a prefix and replacing it back gives the path again.
LEMMA RebaseBack ==
  ASSUME NEW S, NEW q \in Seq(S), NEW p \in Seq(S), NEW r \in Seq(S), AtOrAbove(p, q)
  PROVE  /\ Rebase(q, p, r) \in Seq(S)
         /\ AtOrAbove(r, Rebase(q, p, r))
         /\ Rebase(Rebase(q, p, r), r, p) = q
<1> DEFINE rest == SubSeq(q, Len(p) + 1, Len(q))
           t    == r \o rest
<1>1. /\ Len(p) \in Nat /\ Len(q) \in Nat /\ Len(r) \in Nat /\ Len(p) <= Len(q)
      /\ \A i \in 1..Len(p) : p[i] = q[i]
  BY DEF AtOrAbove
<1>2. rest \in Seq(S) /\ Len(rest) = Len(q) - Len(p)
  BY <1>1
<1>3. \A i \in 1..Len(rest) : rest[i] = q[Len(p) + i]
  BY <1>1, <1>2
<1> HIDE DEF rest
<1>4. t \in Seq(S) /\ Len(t) = Len(r) + Len(rest)
  BY <1>2, ConcatProperties DEF t
<1>5. \A i \in 1..Len(r) : t[i] = r[i]
  BY <1>2, <1>1
<1>6. \A i \in 1..Len(rest) : t[Len(r) + i] = rest[i]
  BY <1>2, <1>1
<1>7. Rebase(q, p, r) = t
  BY DEF Rebase, rest
<1> HIDE DEF t
<1>8. AtOrAbove(r, t)
  BY <1>1, <1>2, <1>4, <1>5 DEF AtOrAbove
<1>9. SubSeq(t, Len(r) + 1, Len(t)) = rest
  <2> DEFINE u == SubSeq(t, Len(r) + 1, Len(t))
  <2>1. u \in Seq(S) /\ Len(u) = Len(rest)
    BY <1>1, <1>2, <1>4
  <2>2. \A i \in 1..Len(rest) : u[i] = t[Len(r) + i]
    BY <1>1, <1>2, <1>4
  <2> HIDE DEF u
  <2>3. u = rest
    <3>1. \A i \in 1..Len(u) : u[i] = rest[i]
      BY <2>1, <2>2, <1>6
    <3> QED BY <3>1, <2>1, <1>2, SeqEqual
  <2> QED BY <2>3 DEF u
<1>10. p \o rest = q
  <2> DEFINE u == p \o rest
  <2>1. u \in Seq(S) /\ Len(u) = Len(q)
    BY <1>1, <1>2
  <2>2. \A i \in 1..Len(p) : u[i] = p[i]
    BY <1>1, <1>2
  <2>3. \A i \in 1..Len(rest) : u[Len(p) + i] = rest[i]
    BY <1>1, <1>2
  <2> HIDE DEF u
  <2>4. ASSUME NEW i \in 1..Len(q) PROVE u[i] = q[i]
    <3>1. CASE i <= Len(p)
      BY <3>1, <2>2, <1>1
    <3>2. CASE i > Len(p)
      <4>1. i - Len(p) \in 1..Len(rest) /\ Len(p) + (i - Len(p)) = i
        BY <3>2, <1>1, <1>2
      <4> QED BY <4>1, <2>3, <1>3
    <3> QED BY <3>1, <3>2, <1>1
  <2>5. u = q
    BY <2>1, <2>4
  <2> QED BY <2>5 DEF u
<1>11. Rebase(t, r, p) = q
  BY <1>9, <1>10 DEF Rebase
<1> QED BY <1>4, <1>7, <1>8, <1>11

\* Replacing a prefix by a path puts what was at the prefix at that path.
LEMMA RebaseOfPrefix ==
  ASSUME NEW S, NEW p \in Seq(S), NEW r \in Seq(S)
  PROVE  Rebase(p, p, r) = r
<1>1. SubSeq(p, Len(p) + 1, Len(p)) = << >>
  BY SubSeqEmpty
<1>2. r \o << >> = r
  BY ConcatEmptySeq
<1> QED BY <1>1, <1>2 DEF Rebase

\* Below the prefix, a rebased path keeps its last segment, and its parent is
\* the rebased parent.
LEMMA RebaseBelow ==
  ASSUME NEW S, NEW q \in Seq(S), NEW p \in Seq(S), NEW r \in Seq(S), Above(p, q)
  PROVE  /\ Rebase(q, p, r) # Root
         /\ Parent(Rebase(q, p, r)) = Rebase(Parent(q), p, r)
         /\ Base(Rebase(q, p, r)) = Base(q)
<1> DEFINE n    == Len(q)
           k    == Len(p)
           l    == Len(r)
           rest == SubSeq(q, k + 1, n)
           t    == r \o rest
           less == SubSeq(Parent(q), k + 1, n - 1)
           u    == r \o less
<1>1. /\ k \in Nat /\ n \in Nat /\ l \in Nat /\ k < n
      /\ q # Root /\ Parent(q) \in Seq(S) /\ Len(Parent(q)) = n - 1
      /\ \A i \in 1..(n - 1) : Parent(q)[i] = q[i]
      /\ \A i \in 1..n : q[i] \in S
  <2>1. q # Root /\ AtOrAbove(p, Parent(q))
    BY AboveParent
  <2>2. /\ Parent(q) \in Seq(S) /\ Len(Parent(q)) = n - 1
        /\ \A i \in 1..(n - 1) : Parent(q)[i] = q[i]
    BY <2>1, ParentAbove
  <2>3. k \in Nat /\ n \in Nat /\ l \in Nat
    OBVIOUS
  <2>4. k <= n - 1
    BY <2>1, <2>2 DEF AtOrAbove
  <2>5. \A i \in 1..n : q[i] \in S
    OBVIOUS
  <2> QED BY <2>1, <2>2, <2>3, <2>4, <2>5
<1>2. Rebase(q, p, r) = t /\ Rebase(Parent(q), p, r) = u
  BY <1>1 DEF Rebase
<1> HIDE DEF n, k, l
<1>3. /\ rest \in Seq(S) /\ Len(rest) = n - k
      /\ \A i \in 1..(n - k) : rest[i] = q[k + i]
  <2>1. k + 1 \in Int /\ n \in Int /\ (\A i \in (k + 1)..n : q[i] \in S)
    BY <1>1
  <2> DEFINE a == k + 1
  <2> HIDE DEF a
  <2>2. /\ SubSeq(q, a, n) \in Seq(S)
        /\ Len(SubSeq(q, a, n)) = IF a <= n THEN n - a + 1 ELSE 0
        /\ \A i \in 1..(n - a + 1) : SubSeq(q, a, n)[i] = q[a + i - 1]
    BY <2>1, SubSeqProperties DEF a
  <2>3. a = k + 1
    BY DEF a
  <2>4. /\ SubSeq(q, a, n) \in Seq(S) /\ Len(SubSeq(q, a, n)) = n - k
        /\ \A i \in 1..(n - k) : SubSeq(q, a, n)[i] = q[k + i]
    BY <1>1, <2>2, <2>3
  <2> QED BY <2>4 DEF a
<1>4. /\ less \in Seq(S) /\ Len(less) = n - 1 - k
      /\ \A i \in 1..(n - 1 - k) : less[i] = q[k + i]
  <2> DEFINE a == k + 1
             b == n - 1
             f == Parent(q)
  <2>1. a \in Int /\ b \in Int /\ (\A i \in a..b : f[i] = q[i] /\ f[i] \in S)
    BY <1>1
  <2> HIDE DEF a, b, f
  <2>2. /\ SubSeq(f, a, b) \in Seq(S)
        /\ Len(SubSeq(f, a, b)) = IF a <= b THEN b - a + 1 ELSE 0
        /\ \A i \in 1..(b - a + 1) : SubSeq(f, a, b)[i] = f[a + i - 1]
    BY <2>1, SubSeqProperties
  <2>3. \A i \in 1..(b - a + 1) : a + i - 1 \in a..b
    BY <2>1
  <2>4. \A i \in 1..(b - a + 1) : SubSeq(f, a, b)[i] = q[a + i - 1]
    BY <2>1, <2>2, <2>3
  <2> QED BY <1>1, <2>2, <2>4 DEF a, b, f
<1> HIDE DEF rest, less
<1>5. /\ t \in Seq(S) /\ Len(t) = l + (n - k)
      /\ \A i \in 1..(l + (n - k)) : t[i] = IF i <= l THEN r[i] ELSE q[k + (i - l)]
  <2>1. /\ t \in Seq(S) /\ Len(t) = l + Len(rest)
        /\ \A i \in 1..(l + Len(rest)) : t[i] = IF i <= l THEN r[i] ELSE rest[i - l]
    BY <1>3, ConcatProperties DEF l
  <2> HIDE DEF t
  <2> QED BY <1>1, <1>3, <2>1
<1>6. /\ u \in Seq(S) /\ Len(u) = l + (n - 1 - k)
      /\ \A i \in 1..(l + (n - 1 - k)) : u[i] = IF i <= l THEN r[i] ELSE q[k + (i - l)]
  <2>1. /\ u \in Seq(S) /\ Len(u) = l + Len(less)
        /\ \A i \in 1..(l + Len(less)) : u[i] = IF i <= l THEN r[i] ELSE less[i - l]
    BY <1>4, ConcatProperties DEF l
  <2> HIDE DEF u
  <2> QED BY <1>1, <1>4, <2>1
<1> HIDE DEF t, u
<1>7. t # Root
  BY <1>1, <1>5 DEF Root
<1>8. Parent(t) = u
  <2>1. /\ Parent(t) \in Seq(S) /\ Len(Parent(t)) = Len(t) - 1
        /\ \A i \in 1..(Len(t) - 1) : Parent(t)[i] = t[i]
    BY <1>5, <1>7, ParentAbove
  <2>2. Len(Parent(t)) = Len(u)
    BY <1>1, <1>5, <1>6, <2>1
  <2>3. \A i \in 1..Len(Parent(t)) : Parent(t)[i] = u[i]
    BY <1>1, <1>5, <1>6, <2>1
  <2> QED BY <1>6, <2>1, <2>2, <2>3, SeqEqual
<1>9. Base(t) = Base(q)
  <2>1. Base(t) = t[Len(t)] /\ Base(q) = q[n]
    BY <1>1, <1>7 DEF Base, n
  <2> QED BY <1>1, <1>5, <2>1
<1> QED BY <1>2, <1>7, <1>8, <1>9

\* Where the paths of a moved tree come from.
LEMMA MovedTreeOrigins ==
  ASSUME NEW S, NEW m, DOMAIN m \subseteq Seq(S), NEW old \in Seq(S), NEW new \in Seq(S)
  PROVE  LET t == MovedTree(m, old, new)
         IN  /\ t = [x \in DOMAIN t |-> t[x]]
             /\ \A x \in DOMAIN m : ~AtOrAbove(old, x) => x \in DOMAIN t
             /\ \A x \in DOMAIN t :
                  \/ x \in DOMAIN m /\ ~AtOrAbove(old, x) /\ t[x] = m[x]
                  \/ \E q \in DOMAIN m :
                       AtOrAbove(old, q) /\ x = Rebase(q, old, new) /\ t[x] = m[q]
<1> DEFINE moved == {Rebase(q, old, new) : q \in {r \in DOMAIN m : AtOrAbove(old, r)}}
           kept  == {q \in DOMAIN m : ~AtOrAbove(old, q)}
           t     == [q \in kept \cup moved |->
                       IF q \in moved THEN m[Rebase(q, new, old)] ELSE m[q]]
<1>1. MovedTree(m, old, new) = t
  BY DEF MovedTree
<1>2. ASSUME NEW x \in moved
      PROVE  \E q \in DOMAIN m :
               AtOrAbove(old, q) /\ x = Rebase(q, old, new) /\ t[x] = m[q]
  <2>1. PICK q \in DOMAIN m : AtOrAbove(old, q) /\ x = Rebase(q, old, new)
    OBVIOUS
  <2>2. Rebase(x, new, old) = q
    BY <2>1, RebaseBack
  <2>3. t[x] = m[Rebase(x, new, old)]
    OBVIOUS
  <2> QED BY <2>1, <2>2, <2>3
<1>3. ASSUME NEW x \in DOMAIN t, x \notin moved
      PROVE  x \in DOMAIN m /\ ~AtOrAbove(old, x) /\ t[x] = m[x]
  BY <1>3
<1>4. t = [x \in DOMAIN t |-> t[x]] /\ \A x \in DOMAIN m : ~AtOrAbove(old, x) => x \in DOMAIN t
  OBVIOUS
<1> HIDE DEF t, moved
<1>5. \A x \in DOMAIN t :
        \/ x \in DOMAIN m /\ ~AtOrAbove(old, x) /\ t[x] = m[x]
        \/ \E q \in DOMAIN m : AtOrAbove(old, q) /\ x = Rebase(q, old, new) /\ t[x] = m[q]
  BY <1>2, <1>3
<1> QED BY <1>1, <1>4, <1>5

\* Moving a directory (Rename, awsfs/rename.go:40-51) never gives two paths the
\* same identifier, whatever lies under the new path already, and loses no path
\* but those it replaces: what was in the tree is found under the new path, what
\* was outside it where it was.
THEOREM MovedTreeKeepsFiles ==
  ASSUME NEW S, NEW m, DOMAIN m \subseteq Seq(S), NEW old \in Seq(S), NEW new \in Seq(S),
         OneToOne(m)
  PROVE  LET t == MovedTree(m, old, new)
         IN  /\ OneToOne(t)
             /\ \A q \in DOMAIN m : AtOrAbove(old, q) =>
                  /\ Rebase(q, old, new) \in DOMAIN t
                  /\ t[Rebase(q, old, new)] = m[q]
             /\ \A q \in DOMAIN m : ~AtOrAbove(old, q) /\ ~AtOrAbove(new, q) =>
                  /\ q \in DOMAIN t
                  /\ t[q] = m[q]
<1> DEFINE moved == {Rebase(q, old, new) : q \in {r \in DOMAIN m : AtOrAbove(old, r)}}
           kept  == {q \in DOMAIN m : ~AtOrAbove(old, q)}
           t     == [q \in kept \cup moved |->
                       IF q \in moved THEN m[Rebase(q, new, old)] ELSE m[q]]
<1>0. MovedTree(m, old, new) = t
  BY DEF MovedTree
<1>1. /\ DOMAIN t = kept \cup moved
      /\ \A q \in DOMAIN m : AtOrAbove(old, q) => t[Rebase(q, old, new)] = m[q]
      /\ \A q \in DOMAIN m : ~AtOrAbove(old, q) /\ q \notin moved => t[q] = m[q]
  <2>1. ASSUME NEW q \in DOMAIN m, AtOrAbove(old, q)
        PROVE  t[Rebase(q, old, new)] = m[q]
    <3>1. Rebase(q, old, new) \in moved
      BY <2>1
    <3>2. Rebase(Rebase(q, old, new), new, old) = q
      BY <2>1, RebaseBack
    <3>3. t[Rebase(q, old, new)] = m[Rebase(Rebase(q, old, new), new, old)]
      BY <3>1
    <3> QED BY <3>2, <3>3
  <2>2. ASSUME NEW q \in DOMAIN m, ~AtOrAbove(old, q), q \notin moved
        PROVE  t[q] = m[q]
    BY <2>2
  <2> QED BY <2>1, <2>2
<1> HIDE DEF t
<1>2. ASSUME NEW x \in moved
      PROVE  /\ AtOrAbove(new, x)
             /\ \E q \in DOMAIN m : AtOrAbove(old, q) /\ x = Rebase(q, old, new) /\ t[x] = m[q]
  <2>1. PICK q \in DOMAIN m : AtOrAbove(old, q) /\ x = Rebase(q, old, new)
    OBVIOUS
  <2>2. AtOrAbove(new, x)
    BY <2>1, RebaseBack
  <2> QED BY <2>1, <2>2, <1>1
<1>3. ASSUME NEW x \in DOMAIN t, NEW y \in DOMAIN t, t[x] = t[y]
      PROVE  x = y
  <2>1. CASE x \in moved /\ y \in moved
    <3>1. PICK q \in DOMAIN m : AtOrAbove(old, q) /\ x = Rebase(q, old, new) /\ t[x] = m[q]
      BY <2>1, <1>2
    <3>2. PICK r \in DOMAIN m : AtOrAbove(old, r) /\ y = Rebase(r, old, new) /\ t[y] = m[r]
      BY <2>1, <1>2
    <3> QED BY <3>1, <3>2, <1>3 DEF OneToOne
  <2>2. CASE x \in moved /\ y \notin moved
    <3>1. PICK q \in DOMAIN m : AtOrAbove(old, q) /\ t[x] = m[q]
      BY <2>2, <1>2
    <3>2. y \in DOMAIN m /\ ~AtOrAbove(old, y) /\ t[y] = m[y]
      BY <2>2, <1>1
    <3> QED BY <3>1, <3>2, <1>3 DEF OneToOne
  <2>3. CASE x \notin moved /\ y \in moved
    <3>1. PICK q \in DOMAIN m : AtOrAbove(old, q) /\ t[y] = m[q]
      BY <2>3, <1>2
    <3>2. x \in DOMAIN m /\ ~AtOrAbove(old, x) /\ t[x] = m[x]
      BY <2>3, <1>1
    <3> QED BY <3>1, <3>2, <1>3 DEF OneToOne
  <2>4. CASE x \notin moved /\ y \notin moved
    <3>1. x \in DOMAIN m /\ t[x] = m[x] /\ y \in DOMAIN m /\ t[y] = m[y]
      BY <2>4, <1>1
    <3> QED BY <3>1, <1>3 DEF OneToOne
  <2> QED BY <2>1, <2>2, <2>3, <2>4
<1>4. OneToOne(t)
  BY <1>3 DEF OneToOne
<1>5. ASSUME NEW q \in DOMAIN m, AtOrAbove(old, q)
      PROVE  Rebase(q, old, new) \in DOMAIN t /\ t[Rebase(q, old, new)] = m[q]
  BY <1>1, <1>5
<1>6. ASSUME NEW q \in DOMAIN m, ~AtOrAbove(old, q), ~AtOrAbove(new, q)
      PROVE  q \in DOMAIN t /\ t[q] = m[q]
  <2>1. q \notin moved
    BY <1>2, <1>6
  <2> QED BY <2>1, <1>1, <1>6
<1> QED BY <1>0, <1>4, <1>5, <1>6

-----------------------------------------------------------------------------
(* The maps m and n say the same of the path x. *)
SameAt(m, n, x) ==
  /\ x \in DOMAIN m <=> x \in DOMAIN n
  /\ x \in DOMAIN m => n[x] = m[x]

\* An edit of the map says nothing new of the paths that are neither its
\* arguments nor, for the edits of a tree, below them.
LEMMA EditsElsewhere ==
  ASSUME NEW S, NEW m, DOMAIN m \subseteq Seq(S), NEW old \in Seq(S), NEW new \in Seq(S),
         NEW id, NEW x
  PROVE  /\ x # old => SameAt(m, Linked(m, old, id), x)
         /\ ~AtOrAbove(old, x) => SameAt(m, Without(m, old), x)
         /\ x # old /\ x # new => SameAt(m, MovedAlone(m, old, new), x)
         /\ ~AtOrAbove(old, x) /\ ~AtOrAbove(new, x) => SameAt(m, MovedTree(m, old, new), x)
<1>1. x # old => SameAt(m, Linked(m, old, id), x)
  BY DEF SameAt, Linked
<1>2. ~AtOrAbove(old, x) => SameAt(m, Without(m, old), x)
  BY DEF SameAt, Without, Restrict
<1>3. x # old /\ x # new => SameAt(m, MovedAlone(m, old, new), x)
  BY DEF SameAt, MovedAlone, Linked, Restrict
<1>4. ASSUME ~AtOrAbove(old, x), ~AtOrAbove(new, x)
      PROVE  SameAt(m, MovedTree(m, old, new), x)
  <2> DEFINE t == MovedTree(m, old, new)
  <2>1. /\ \A y \in DOMAIN m : ~AtOrAbove(old, y) => y \in DOMAIN t
        /\ \A y \in DOMAIN t :
             \/ y \in DOMAIN m /\ ~AtOrAbove(old, y) /\ t[y] = m[y]
             \/ \E q \in DOMAIN m : AtOrAbove(old, q) /\ y = Rebase(q, old, new) /\ t[y] = m[q]
    BY MovedTreeOrigins
  <2> HIDE DEF t
  <2>2. x \in DOMAIN t => x \in DOMAIN m /\ t[x] = m[x]
    BY <1>4, <2>1, RebaseBack
  <2> QED BY <1>4, <2>1, <2>2 DEF SameAt, t
<1> QED BY <1>1, <1>2, <1>3, <1>4

\* A path that is moved, or stays, has an identifier that some path had.
LEMMA EditsInvent ==
  ASSUME NEW S, NEW m, DOMAIN m \subseteq Seq(S), NEW old \in DOMAIN m, NEW new \in Seq(S)
  PROVE  /\ DOMAIN Without(m, old) \subseteq DOMAIN m
         /\ \A x \in DOMAIN Without(m, old) : Without(m, old)[x] = m[x]
         /\ DOMAIN MovedAlone(m, old, new) \subseteq Seq(S)
         /\ \A x \in DOMAIN MovedAlone(m, old, new) :
              \E q \in DOMAIN m : MovedAlone(m, old, new)[x] = m[q]
         /\ DOMAIN MovedTree(m, old, new) \subseteq Seq(S)
         /\ \A x \in DOMAIN MovedTree(m, old, new) :
              \E q \in DOMAIN m : MovedTree(m, old, new)[x] = m[q]
<1>1. /\ DOMAIN Without(m, old) \subseteq DOMAIN m
      /\ \A x \in DOMAIN Without(m, old) : Without(m, old)[x] = m[x]
  BY DEF Without, Restrict
<1>2. /\ DOMAIN MovedAlone(m, old, new) \subseteq Seq(S)
      /\ \A x \in DOMAIN MovedAlone(m, old, new) :
           \E q \in DOMAIN m : MovedAlone(m, old, new)[x] = m[q]
  BY DEF MovedAlone, Linked, Restrict
<1>3. /\ DOMAIN MovedTree(m, old, new) \subseteq Seq(S)
      /\ \A x \in DOMAIN MovedTree(m, old, new) :
           \E q \in DOMAIN m : MovedTree(m, old, new)[x] = m[q]
  <2> DEFINE t == MovedTree(m, old, new)
  <2>1. \A y \in DOMAIN t :
          \/ y \in DOMAIN m /\ ~AtOrAbove(old, y) /\ t[y] = m[y]
          \/ \E q \in DOMAIN m : AtOrAbove(old, q) /\ y = Rebase(q, old, new) /\ t[y] = m[q]
    BY MovedTreeOrigins
  <2> HIDE DEF t
  <2>2. DOMAIN t \subseteq Seq(S)
    BY <2>1, RebaseBack
  <2>3. \A y \in DOMAIN t : \E q \in DOMAIN m : t[y] = m[q]
    BY <2>1
  <2> QED BY <2>2, <2>3 DEF t
<1> QED BY <1>1, <1>2, <1>3

-----------------------------------------------------------------------------
(* Induction along a sequence *)

\* The least of some numbers.
LEMMA LeastNumber ==
  ASSUME NEW B \in SUBSET Nat, B # {}
  PROVE  \E x \in B : \A y \in B : x <= y
<1> DEFINE R == OpToRel(<, Nat)
<1>1. IsWellFoundedOn(R, Nat)
  BY NatLessThanWellFounded
<1>2. \A y, x \in Nat : y < x => <<y, x>> \in R
  BY DEF OpToRel
<1> HIDE DEF R
<1>3. PICK x \in B : \A y \in B : ~(<<y, x>> \in R)
  BY <1>1, WFMin
<1>4. ASSUME NEW y \in B
      PROVE  x <= y
  <2>1. x \in Nat /\ y \in Nat /\ ~(y < x)
    BY <1>2, <1>3
  <2> QED BY <2>1
<1> QED BY <1>4

\* Induction, over a set in place of a formula.
LEMMA UpTo ==
  ASSUME NEW n \in Nat, NEW T, 0 \in T, \A i \in 1..n : i - 1 \in T => i \in T
  PROVE  \A i \in 0..n : i \in T
<1> SUFFICES ASSUME NEW k \in 0..n, k \notin T
             PROVE  FALSE
  OBVIOUS
<1> DEFINE B == {i \in 0..n : i \notin T}
<1>1. PICK x \in B : \A y \in B : x <= y
  <2>1. B \in SUBSET Nat /\ B # {}
    OBVIOUS
  <2> HIDE DEF B
  <2> QED BY <2>1, LeastNumber
<1>2. x \in 1..n /\ x - 1 \in 0..n /\ x - 1 < x
  BY <1>1
<1>3. x - 1 \in T
  BY <1>1, <1>2
<1> QED BY <1>1, <1>2, <1>3

(* The n steps of a loop over values in S, and what such a loop computes. *)
Steps(n, S, base, step) == n \in Nat /\ base \in S /\ \A i \in 1..n : step[i] \in [S -> S]
Loops(n, S, base, step) ==
  {f \in [0..n -> S] : f[0] = base /\ \A i \in 1..n : f[i] = step[i][f[i - 1]]}

\* A function over 0..n that is defined step by step exists.
LEMMA Recursion ==
  ASSUME NEW n, NEW S, NEW base, NEW step, Steps(n, S, base, step)
  PROVE  Loops(n, S, base, step) # {}
<1> SUFFICES ASSUME n \in Nat, base \in S, \A i \in 1..n : step[i] \in [S -> S]
             PROVE  \E f \in [0..n -> S] : f[0] = base /\ \A i \in 1..n : f[i] = step[i][f[i - 1]]
  BY DEF Steps, Loops
<1> DEFINE Good(k) == \E f \in [0..k -> S] :
              f = [i \in 0..k |-> IF i = 0 THEN base ELSE step[i][f[i - 1]]]
           T == {k \in 0..n : Good(k)}
<1>1. Good(0)
  <2> DEFINE f == [i \in 0..0 |-> base]
  <2>1. f \in [0..0 -> S]
    OBVIOUS
  <2>2. f = [i \in 0..0 |-> IF i = 0 THEN base ELSE step[i][f[i - 1]]]
    OBVIOUS
  <2> QED BY <2>1, <2>2
<1>2. ASSUME NEW k \in 1..n, Good(k - 1)
      PROVE  Good(k)
  <2>1. PICK f \in [0..(k - 1) -> S] :
               f = [i \in 0..(k - 1) |-> IF i = 0 THEN base ELSE step[i][f[i - 1]]]
    BY <1>2
  <2> DEFINE v == step[k][f[k - 1]]
             g == [i \in 0..k |-> IF i = k THEN v ELSE f[i]]
  <2>2. k - 1 \in 0..(k - 1) /\ k # 0
    OBVIOUS
  <2>3. v \in S
    BY <2>1, <2>2
  <2>4. g \in [0..k -> S]
    BY <2>1, <2>3
  <2>5. ASSUME NEW i \in 0..k
        PROVE  g[i] = IF i = 0 THEN base ELSE step[i][g[i - 1]]
    <3>1. CASE i = k
      <4>1. k - 1 \in 0..k /\ k - 1 # k
        OBVIOUS
      <4> QED BY <2>2, <3>1, <4>1
    <3>2. CASE i # k
      <4>1. i \in 0..(k - 1) /\ (i # 0 => i - 1 \in 0..k /\ i - 1 # k)
        BY <3>2
      <4>2. f[i] = IF i = 0 THEN base ELSE step[i][f[i - 1]]
        BY <2>1, <4>1
      <4> QED BY <3>2, <4>1, <4>2
    <3> QED BY <3>1, <3>2
  <2> HIDE DEF g
  <2>6. g = [i \in 0..k |-> IF i = 0 THEN base ELSE step[i][g[i - 1]]]
    BY <2>4, <2>5
  <2> QED BY <2>4, <2>6
<1> HIDE DEF Good
<1>3. 0 \in T /\ \A i \in 1..n : i - 1 \in T => i \in T
  BY <1>1, <1>2
<1>4. \A i \in 0..n : i \in T
  <2> HIDE DEF T
  <2> QED BY <1>3, UpTo
<1>5. n \in 0..n
  OBVIOUS
<1>6. PICK f \in [0..n -> S] :
             f = [i \in 0..n |-> IF i = 0 THEN base ELSE step[i][f[i - 1]]]
  BY <1>4, <1>5 DEF Good
<1>7. f[0] = base
  BY <1>6
<1>8. ASSUME NEW i \in 1..n
      PROVE  f[i] = step[i][f[i - 1]]
  <2>1. i \in 0..n /\ i # 0
    OBVIOUS
  <2> QED BY <1>6, <2>1
<1> QED BY <1>7, <1>8
=============================================================================
