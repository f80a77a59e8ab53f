---------------------------- MODULE MemFSProofs ----------------------------
(***************************************************************************)
(* A file of memFS holds what was written to it, for any number of nodes   *)
(* and handles, and nodes and members are a tree: memFS implements OsTree. *)
(***************************************************************************)
EXTENDS MemFS, PathMapProofs, FiniteSetTheorems

Byte == 0..255

(* What the members of a node can be. *)
MemberMaps == UNION {[D -> Nat] : D \in {E \in SUBSET Segments : IsFiniteSet(E)}}

Dirs == {n \in Nodes : isDir[n]}

(* Every member is a node that was made, and a file has none. *)
NodesOK ==
  /\ isDir \in Seq(BOOLEAN) /\ Top \in Dirs
  /\ children \in Seq(MemberMaps) /\ Len(children) = Len(isDir)
  /\ data \in Seq(Seq(Byte)) /\ Len(data) = Len(isDir)
  /\ \A n \in Nodes : \A s \in DOMAIN children[n] : isDir[n] /\ children[n][s] \in Nodes

(* A handle that is open has a node that was made, whatever became of it. *)
HandlesOK ==
  /\ file = [h \in Handles |-> file[h]]
  /\ \A h \in Handles :
       /\ DOMAIN file[h] = {"n", "pos", "names"}
       /\ file[h].n \in Nodes \cup {0}
       /\ file[h].pos \in Nat
       /\ file[h].names \in Seq(Segments)

WroteOK ==
  /\ wrote = [n \in Nodes |-> wrote[n]]
  /\ \A n \in Nodes : DOMAIN wrote[n] \subseteq Nat
  /\ HoldsWhatWasWritten

(* The inductive invariant. *)
FileInv == NodesOK /\ HandlesOK /\ WroteOK

-----------------------------------------------------------------------------
(* What Write leaves *)

\* Zeros is a sequence of zeros.
LEMMA ZerosIsSeq ==
  ASSUME NEW n \in Nat
  PROVE  Zeros(n) \in Seq(Byte) /\ Len(Zeros(n)) = n /\ \A i \in 1..n : Zeros(n)[i] = 0
<1>1. Zeros(n) \in [1..n -> Byte]
  BY DEF Zeros, Byte
<1> QED BY <1>1 DEF Zeros

\* The file has the bytes from the position on, what it had before elsewhere, and
\* zeros in the hole.
LEMMA WrittenBytes ==
  ASSUME NEW d \in Seq(Byte), NEW pos \in Nat, NEW bytes \in Seq(Byte)
  PROVE  LET w == Written(d, pos, bytes)
         IN  /\ w \in Seq(Byte)
             /\ Len(w) >= Len(d) /\ Len(w) >= pos + Len(bytes)
             /\ \A i \in 1..Len(w) :
                  w[i] = IF i \in (pos + 1)..(pos + Len(bytes)) THEN bytes[i - pos]
                         ELSE IF i <= Len(d) THEN d[i] ELSE 0
<1> DEFINE filled == IF pos > Len(d) THEN d \o Zeros(pos - Len(d)) ELSE d
           end    == pos + Len(bytes)
           head   == SubSeq(filled, 1, pos)
           tail   == SubSeq(filled, end + 1, Len(filled))
           front  == head \o bytes
           w      == front \o tail
<1>1. Written(d, pos, bytes) = w
  BY DEF Written
<1>2. Len(d) \in Nat /\ Len(bytes) \in Nat /\ end \in Nat /\ pos <= end
  OBVIOUS
<1>3. /\ filled \in Seq(Byte) /\ Len(filled) >= Len(d) /\ Len(filled) >= pos
      /\ \A i \in 1..Len(filled) : filled[i] = IF i <= Len(d) THEN d[i] ELSE 0
      /\ pos <= Len(d) => Len(filled) = Len(d)
      /\ pos > Len(d) => Len(filled) = pos
  <2>1. CASE pos > Len(d)
    <3> DEFINE z == Zeros(pos - Len(d))
    <3>1. pos - Len(d) \in Nat
      BY <2>1, <1>2
    <3>2. z \in Seq(Byte) /\ Len(z) = pos - Len(d) /\ \A i \in 1..(pos - Len(d)) : z[i] = 0
      BY <3>1, ZerosIsSeq
    <3> HIDE DEF z
    <3>3. /\ d \o z \in Seq(Byte) /\ Len(d \o z) = Len(d) + Len(z)
          /\ \A i \in 1..(Len(d) + Len(z)) : (d \o z)[i] = IF i <= Len(d) THEN d[i] ELSE z[i - Len(d)]
      BY <3>2, ConcatProperties
    <3>4. Len(d \o z) = pos
      BY <3>2, <3>3, <1>2
    <3>5. \A i \in 1..pos : (d \o z)[i] = IF i <= Len(d) THEN d[i] ELSE 0
      BY <3>2, <3>3, <1>2
    <3>6. filled = d \o z
      BY <2>1 DEF z
    <3> HIDE DEF filled
    <3> QED BY <2>1, <3>3, <3>4, <3>5, <3>6, <1>2
  <2>2. CASE ~(pos > Len(d))
    <3>1. filled = d
      BY <2>2
    <3> HIDE DEF filled
    <3> QED BY <2>2, <3>1, <1>2
  <2> QED BY <2>1, <2>2
<1> HIDE DEF filled
<1>4. head \in Seq(Byte) /\ Len(head) = pos /\ \A i \in 1..pos : head[i] = filled[i]
  <2>1. \A i \in 1..pos : filled[i] \in Byte
    BY <1>3
  <2> QED BY <2>1, <1>3, SubSeqProperties
<1>5. /\ tail \in Seq(Byte)
      /\ Len(tail) = IF end < Len(filled) THEN Len(filled) - end ELSE 0
      /\ \A i \in 1..Len(tail) : tail[i] = filled[end + i]
  <2> DEFINE a == end + 1
             b == Len(filled)
  <2>1. a \in Int /\ b \in Int /\ a >= 1 /\ (\A i \in a..b : filled[i] \in Byte)
    BY <1>2, <1>3
  <2> HIDE DEF a, b
  <2>2. /\ SubSeq(filled, a, b) \in Seq(Byte)
        /\ Len(SubSeq(filled, a, b)) = IF a <= b THEN b - a + 1 ELSE 0
        /\ \A i \in 1..(b - a + 1) : SubSeq(filled, a, b)[i] = filled[a + i - 1]
    BY <2>1, SubSeqProperties
  <2>3. a = end + 1 /\ b = Len(filled) /\ Len(filled) \in Nat
    BY <1>3 DEF a, b
  <2>4. tail = SubSeq(filled, a, b)
    BY DEF a, b
  <2> HIDE DEF end, tail
  <2>5. Len(tail) = IF end < Len(filled) THEN Len(filled) - end ELSE 0
    BY <1>2, <2>2, <2>3, <2>4
  <2>6. \A i \in 1..Len(tail) : tail[i] = filled[end + i]
    BY <1>2, <2>2, <2>3, <2>4, <2>5
  <2> QED BY <2>2, <2>4, <2>5, <2>6
<1> HIDE DEF head, tail
<1>6. /\ front \in Seq(Byte) /\ Len(front) = end
      /\ \A i \in 1..end : front[i] = IF i <= pos THEN head[i] ELSE bytes[i - pos]
  BY <1>2, <1>4, ConcatProperties
<1> HIDE DEF front, end
<1>7. /\ w \in Seq(Byte) /\ Len(w) = end + Len(tail)
      /\ \A i \in 1..(end + Len(tail)) : w[i] = IF i <= end THEN front[i] ELSE tail[i - end]
  <2>1. /\ w \in Seq(Byte) /\ Len(w) = Len(front) + Len(tail)
        /\ \A i \in 1..(Len(front) + Len(tail)) :
             w[i] = IF i <= Len(front) THEN front[i] ELSE tail[i - Len(front)]
    BY <1>5, <1>6, ConcatProperties
  <2> HIDE DEF w
  <2> QED BY <1>6, <2>1
<1> HIDE DEF w
<1>8. Len(w) >= Len(d) /\ Len(w) >= end /\ Len(w) \in Nat /\ Len(tail) \in Nat
  BY <1>2, <1>3, <1>5, <1>7
<1>9. ASSUME NEW i \in 1..Len(w)
      PROVE  w[i] = IF i \in (pos + 1)..end THEN bytes[i - pos]
                    ELSE IF i <= Len(d) THEN d[i] ELSE 0
  <2>1. CASE i <= pos
    <3>1. i \in 1..pos /\ i \in 1..end /\ i \in 1..Len(filled) /\ i <= end
      BY <2>1, <1>2, <1>3
    <3>2. w[i] = filled[i]
      BY <2>1, <3>1, <1>4, <1>6, <1>7
    <3> QED BY <2>1, <3>1, <3>2, <1>2, <1>3
  <2>2. CASE i > pos /\ i <= end
    <3>1. i \in 1..end /\ i \in (pos + 1)..end
      BY <2>2, <1>2
    <3>2. w[i] = bytes[i - pos]
      BY <2>2, <3>1, <1>2, <1>6, <1>7
    <3> QED BY <3>1, <3>2
  <2>3. CASE i > end
    <3>1. i - end \in 1..Len(tail) /\ end + (i - end) = i
      BY <2>3, <1>2, <1>7, <1>8
    <3>2. i \in 1..Len(filled)
      BY <2>3, <1>2, <1>3, <1>5, <1>7, <1>8
    <3>3. w[i] = tail[i - end]
      <4>1. i \in 1..(end + Len(tail)) /\ ~(i <= end)
        BY <2>3, <1>2, <1>7, <1>8
      <4> QED BY <4>1, <1>7
    <3>4. tail[i - end] = filled[end + (i - end)]
      BY <3>1, <1>5
    <3>5. w[i] = filled[i]
      BY <3>1, <3>3, <3>4
    <3>6. i \notin (pos + 1)..end
      BY <2>3, <1>2
    <3> QED BY <3>2, <3>5, <3>6, <1>3
  <2> QED BY <2>1, <2>2, <2>3, <1>2
<1> QED BY <1>1, <1>2, <1>7, <1>8, <1>9 DEF end
-----------------------------------------------------------------------------
(* What the calls do to the nodes *)

\* What the numbers of the nodes are.
LEMMA NodesAre ==
  ASSUME NodesOK
  PROVE  /\ Nodes = 1..Len(isDir) /\ Len(isDir) \in Nat
         /\ DOMAIN children = Nodes /\ DOMAIN data = Nodes
         /\ Top \in Nodes /\ Dirs \subseteq Nodes
         /\ NotExist \notin Nodes /\ Invalid \notin Nodes /\ 0 \notin Nodes
         /\ \A n \in Nodes : n \in Nat /\ n > 0 /\ ~(n < 0)
         /\ \A n \in Nodes : children[n] \in MemberMaps /\ data[n] \in Seq(Byte)
         /\ \A n \in Nodes : isDir[n] \in BOOLEAN
BY DEF NodesOK, Nodes, Dirs, NotExist, Invalid

\* A map of members is a function.
LEMMA MemberMapsAre ==
  ASSUME NEW m
  PROVE  m \in MemberMaps <=>
           /\ m = [s \in DOMAIN m |-> m[s]]
           /\ DOMAIN m \subseteq Segments /\ IsFiniteSet(DOMAIN m)
           /\ \A s \in DOMAIN m : m[s] \in Nat
<1>1. ASSUME m \in MemberMaps
      PROVE  /\ m = [s \in DOMAIN m |-> m[s]] /\ DOMAIN m \subseteq Segments
             /\ IsFiniteSet(DOMAIN m) /\ \A s \in DOMAIN m : m[s] \in Nat
  BY <1>1 DEF MemberMaps
<1>2. ASSUME m = [s \in DOMAIN m |-> m[s]], DOMAIN m \subseteq Segments,
             IsFiniteSet(DOMAIN m), \A s \in DOMAIN m : m[s] \in Nat
      PROVE  m \in MemberMaps
  <2>1. m \in [DOMAIN m -> Nat]
    BY <1>2
  <2> QED BY <1>2, <2>1 DEF MemberMaps
<1> QED BY <1>1, <1>2

\* The members of a new node.
LEMMA NoMembersMap == NoMembers \in MemberMaps /\ DOMAIN NoMembers = {}
<1>1. DOMAIN NoMembers = {} /\ NoMembers = [s \in DOMAIN NoMembers |-> NoMembers[s]]
  BY DEF NoMembers
<1>2. NoMembers \in MemberMaps
  BY <1>1, FS_EmptySet, MemberMapsAre
<1> QED BY <1>1, <1>2

\* A member more.
LEMMA WithMember ==
  ASSUME NEW m \in MemberMaps, NEW s \in Segments, NEW n \in Nat
  PROVE  LET more == With(m, s, n)
         IN  /\ more \in MemberMaps
             /\ DOMAIN more = DOMAIN m \cup {s}
             /\ more[s] = n
             /\ \A t \in DOMAIN m : t # s => more[t] = m[t]
<1> DEFINE more == [t \in DOMAIN m \cup {s} |-> IF t = s THEN n ELSE m[t]]
<1>1. With(m, s, n) = more
  BY DEF With
<1>2. /\ DOMAIN more = DOMAIN m \cup {s}
      /\ more[s] = n
      /\ \A t \in DOMAIN m : t # s => more[t] = m[t]
      /\ more = [t \in DOMAIN more |-> more[t]]
  OBVIOUS
<1> HIDE DEF more
<1>3. more \in MemberMaps
  <2>1. IsFiniteSet(DOMAIN m) /\ DOMAIN m \subseteq Segments /\ \A t \in DOMAIN m : m[t] \in Nat
    BY MemberMapsAre
  <2>2. IsFiniteSet(DOMAIN more)
    BY <1>2, <2>1, FS_AddElement
  <2> QED BY <1>2, <2>1, <2>2, MemberMapsAre
<1> QED BY <1>1, <1>2, <1>3

\* A member less.
LEMMA WithoutMember ==
  ASSUME NEW m \in MemberMaps, NEW s
  PROVE  LET less == Less(m, s)
         IN  /\ less \in MemberMaps
             /\ DOMAIN less = DOMAIN m \ {s}
             /\ \A t \in DOMAIN m : t # s => less[t] = m[t]
<1> DEFINE less == [t \in DOMAIN m \ {s} |-> m[t]]
<1>1. /\ DOMAIN less = DOMAIN m \ {s}
      /\ \A t \in DOMAIN m : t # s => less[t] = m[t]
      /\ less = [t \in DOMAIN less |-> less[t]]
  OBVIOUS
<1>2. Less(m, s) = less
  BY DEF Less
<1> HIDE DEF less
<1>3. less \in MemberMaps
  <2>1. IsFiniteSet(DOMAIN m) /\ DOMAIN m \subseteq Segments /\ \A t \in DOMAIN m : m[t] \in Nat
    BY MemberMapsAre
  <2>2. IsFiniteSet(DOMAIN less)
    BY <1>1, <2>1, FS_RemoveElement
  <2> QED BY <1>1, <2>1, <2>2, MemberMapsAre
<1> QED BY <1>1, <1>2, <1>3

(* The nodes whose number is in no map yet, and what the others keep. *)
Grown(dir, frag, directory) ==
  /\ Nodes' = Nodes \cup {Len(isDir) + 1} /\ Len(isDir) + 1 \notin Nodes
  /\ isDir'[Len(isDir) + 1] = directory
  /\ \A n \in Nodes : isDir'[n] = isDir[n]
  /\ children'[Len(isDir) + 1] = NoMembers
  /\ children'[dir] = With(children[dir], frag, Len(isDir) + 1)
  /\ \A n \in Nodes \ {dir} : children'[n] = children[n]
  /\ data'[Len(isDir) + 1] = << >>
  /\ \A n \in Nodes : data'[n] = data[n]

\* A new node.
LEMMA NewMemberGrows ==
  ASSUME NodesOK, NEW dir \in Dirs, NEW frag \in Segments, NEW directory \in BOOLEAN,
         NewMember(dir, frag, directory)
  PROVE  NodesOK' /\ Grown(dir, frag, directory)
<1> DEFINE new   == Len(isDir) + 1
           more  == With(children[dir], frag, new)
           edits == [children EXCEPT ![dir] = more]
<1>1. /\ Nodes = 1..Len(isDir) /\ Len(isDir) \in Nat
      /\ children \in Seq(MemberMaps) /\ isDir \in Seq(BOOLEAN) /\ data \in Seq(Seq(Byte))
      /\ Len(children) = Len(isDir) /\ Len(data) = Len(isDir)
      /\ dir \in Nodes /\ children[dir] \in MemberMaps /\ new \in Nat
  BY NodesAre DEF NodesOK, Dirs
<1>2. /\ children' = Append(edits, NoMembers)
      /\ isDir' = Append(isDir, directory)
      /\ data' = Append(data, << >>)
  BY DEF NewMember
<1>3. /\ more \in MemberMaps
      /\ DOMAIN more = DOMAIN children[dir] \cup {frag}
      /\ more[frag] = new
      /\ \A t \in DOMAIN children[dir] : t # frag => more[t] = children[dir][t]
  BY <1>1, WithMember
<1>4. NoMembers \in MemberMaps /\ DOMAIN NoMembers = {}
  BY NoMembersMap
<1> HIDE DEF more
<1>5. /\ edits \in Seq(MemberMaps) /\ Len(edits) = Len(isDir)
      /\ edits[dir] = more /\ \A n \in Nodes \ {dir} : edits[n] = children[n]
  BY <1>1, <1>3, ExceptSeq
<1> HIDE DEF edits
<1>6. /\ children' \in Seq(MemberMaps) /\ Len(children') = new
      /\ children'[new] = NoMembers /\ \A n \in Nodes : children'[n] = edits[n]
  BY <1>1, <1>2, <1>4, <1>5, AppendProperties
<1>7. /\ isDir' \in Seq(BOOLEAN) /\ Len(isDir') = new
      /\ isDir'[new] = directory /\ \A n \in Nodes : isDir'[n] = isDir[n]
  BY <1>1, <1>2, AppendProperties
<1>8. /\ data' \in Seq(Seq(Byte)) /\ Len(data') = new
      /\ data'[new] = << >> /\ \A n \in Nodes : data'[n] = data[n]
  <2>1. << >> \in Seq(Byte)
    OBVIOUS
  <2> DEFINE e == << >>
             E == Seq(Byte)
  <2>2. e \in E /\ data' = Append(data, e) /\ data \in Seq(E)
    BY <1>1, <1>2, <2>1
  <2> HIDE DEF e, E
  <2>3. /\ data' \in Seq(E) /\ Len(data') = Len(data) + 1
        /\ data'[Len(data) + 1] = e /\ \A n \in 1..Len(data) : data'[n] = data[n]
    BY <2>2, AppendProperties
  <2> QED BY <1>1, <2>3 DEF e, E
<1>9. Nodes' = Nodes \cup {new} /\ new \notin Nodes
  BY <1>1, <1>7 DEF Nodes
<1>10. Grown(dir, frag, directory)
  BY <1>1, <1>5, <1>6, <1>7, <1>8, <1>9 DEF Grown, more
<1>11. Top \in Dirs'
  BY <1>7, <1>9 DEF NodesOK, Dirs
<1>12. ASSUME NEW n \in Nodes', NEW s \in DOMAIN children'[n]
       PROVE  isDir'[n] /\ children'[n][s] \in Nodes'
  <2>1. CASE n = new
    BY <1>4, <1>6, <2>1
  <2>2. CASE n = dir
    <3>1. children'[n] = more /\ isDir'[n]
      BY <1>1, <1>5, <1>6, <1>7, <2>2 DEF Dirs
    <3>2. s \in DOMAIN children[dir] => children[dir][s] \in Nodes
      BY <1>1 DEF NodesOK
    <3> QED BY <1>3, <1>9, <3>1, <3>2
  <2>3. CASE n # new /\ n # dir
    <3>1. n \in Nodes /\ children'[n] = children[n] /\ isDir'[n] = isDir[n]
      BY <1>5, <1>6, <1>7, <1>9, <2>3
    <3>2. isDir[n] /\ children[n][s] \in Nodes
      BY <3>1 DEF NodesOK
    <3> QED BY <3>1, <3>2, <1>9
  <2> QED BY <2>1, <2>2, <2>3
<1> QED BY <1>6, <1>7, <1>8, <1>10, <1>11, <1>12 DEF NodesOK

(* What is left in c when the member frag of dir goes. *)
OneLess(c, dir, frag) ==
  /\ c \in Seq(MemberMaps) /\ Len(c) = Len(isDir)
  /\ \A n \in Nodes : \A s :
       s \in DOMAIN c[n] <=> s \in DOMAIN children[n] /\ ~(n = dir /\ s = frag)
  /\ \A n \in Nodes : \A s \in DOMAIN c[n] : c[n][s] = children[n][s]

\* A member goes.
LEMMA LessMember ==
  ASSUME NodesOK, NEW dir \in Dirs, NEW frag
  PROVE  OneLess([children EXCEPT ![dir] = Less(@, frag)], dir, frag)
<1> DEFINE less == Less(children[dir], frag)
           c    == [children EXCEPT ![dir] = less]
<1>1. /\ Nodes = 1..Len(isDir) /\ children \in Seq(MemberMaps) /\ Len(children) = Len(isDir)
      /\ dir \in Nodes /\ children[dir] \in MemberMaps
  BY NodesAre DEF NodesOK, Dirs
<1>2. /\ less \in MemberMaps /\ DOMAIN less = DOMAIN children[dir] \ {frag}
      /\ \A t \in DOMAIN children[dir] : t # frag => less[t] = children[dir][t]
  BY <1>1, WithoutMember
<1> HIDE DEF less
<1>3. /\ c \in Seq(MemberMaps) /\ Len(c) = Len(isDir)
      /\ c[dir] = less /\ \A n \in Nodes : n # dir => c[n] = children[n]
  BY <1>1, <1>2, ExceptSeq
<1> HIDE DEF c
<1>4. ASSUME NEW n \in Nodes
      PROVE  /\ \A s : s \in DOMAIN c[n] <=> s \in DOMAIN children[n] /\ ~(n = dir /\ s = frag)
             /\ \A s \in DOMAIN c[n] : c[n][s] = children[n][s]
  <2>1. CASE n = dir
    BY <1>2, <1>3, <2>1
  <2>2. CASE n # dir
    BY <1>3, <2>2
  <2> QED BY <2>1, <2>2
<1> QED BY <1>3, <1>4 DEF OneLess, c, less

(* What is in c when a member has moved. *)
OneMoved(c, oDir, oFrag, nDir, nFrag) ==
  /\ c \in Seq(MemberMaps) /\ Len(c) = Len(isDir)
  /\ \A n \in Nodes : \A s :
       s \in DOMAIN c[n] <=> \/ s \in DOMAIN children[n] /\ ~(n = oDir /\ s = oFrag)
                             \/ n = nDir /\ s = nFrag
  /\ \A n \in Nodes : \A s \in DOMAIN c[n] :
       c[n][s] = IF n = nDir /\ s = nFrag THEN children[oDir][oFrag] ELSE children[n][s]

\* A member moves, be it in one directory or to another one.
LEMMA RelinkedMember ==
  ASSUME NodesOK, NEW oDir \in Dirs, NEW oFrag \in DOMAIN children[oDir],
         NEW nDir \in Dirs, NEW nFrag \in Segments
  PROVE  OneMoved(Relinked(oDir, oFrag, nDir, nFrag), oDir, oFrag, nDir, nFrag)
<1> DEFINE node  == children[oDir][oFrag]
           taken == [children EXCEPT ![oDir] = Less(@, oFrag)]
           more  == With(taken[nDir], nFrag, node)
           c     == [taken EXCEPT ![nDir] = more]
<1>1. Relinked(oDir, oFrag, nDir, nFrag) = c
  BY DEF Relinked
<1>2. /\ Nodes = 1..Len(isDir) /\ oDir \in Nodes /\ nDir \in Nodes
      /\ node \in Nat
  BY NodesAre DEF NodesOK, Dirs
<1>3. /\ taken \in Seq(MemberMaps) /\ Len(taken) = Len(isDir)
      /\ \A n \in Nodes : \A s :
           s \in DOMAIN taken[n] <=> s \in DOMAIN children[n] /\ ~(n = oDir /\ s = oFrag)
      /\ \A n \in Nodes : \A s \in DOMAIN taken[n] : taken[n][s] = children[n][s]
  <2>1. OneLess(taken, oDir, oFrag)
    BY LessMember
  <2> HIDE DEF taken
  <2> QED BY <2>1 DEF OneLess
<1> HIDE DEF taken
<1>4. taken[nDir] \in MemberMaps
  BY <1>2, <1>3, ElementOfSeq
<1> HIDE DEF node
<1>5. /\ more \in MemberMaps /\ DOMAIN more = DOMAIN taken[nDir] \cup {nFrag}
      /\ more[nFrag] = node /\ \A t \in DOMAIN taken[nDir] : t # nFrag => more[t] = taken[nDir][t]
  BY <1>2, <1>4, WithMember
<1> HIDE DEF more
<1>6. /\ c \in Seq(MemberMaps) /\ Len(c) = Len(isDir)
      /\ c[nDir] = more /\ \A n \in Nodes : n # nDir => c[n] = taken[n]
  BY <1>2, <1>3, <1>5, ExceptSeq
<1> HIDE DEF c
<1>7. ASSUME NEW n \in Nodes
      PROVE  /\ \A s : s \in DOMAIN c[n] <=>
                         \/ s \in DOMAIN children[n] /\ ~(n = oDir /\ s = oFrag)
                         \/ n = nDir /\ s = nFrag
             /\ \A s \in DOMAIN c[n] : c[n][s] = IF n = nDir /\ s = nFrag THEN node
                                                 ELSE children[n][s]
  <2>1. CASE n = nDir
    BY <1>3, <1>5, <1>6, <2>1
  <2>2. CASE n # nDir
    BY <1>3, <1>6, <2>2
  <2> QED BY <2>1, <2>2
<1> QED BY <1>1, <1>6, <1>7 DEF OneMoved, node

\* The nodes stay in order when the edges are edited.
LEMMA EditedNodes ==
  ASSUME NodesOK, UNCHANGED isDir, data' \in Seq(Seq(Byte)), Len(data') = Len(isDir),
         children' \in Seq(MemberMaps), Len(children') = Len(isDir),
         \A n \in Nodes : \A s \in DOMAIN children'[n] : isDir[n] /\ children'[n][s] \in Nodes
  PROVE  NodesOK' /\ Nodes' = Nodes
BY DEF NodesOK, Nodes, Dirs

-----------------------------------------------------------------------------
(* What find returns *)

\* The walk is a sequence of directories, up to its error if there is one.
LEMMA FindIsWalk ==
  ASSUME NodesOK, NEW path \in Seq(Segments), path # Root
  PROVE  \E f \in [0..(Len(path) - 1) -> Dirs \cup {NotExist, Invalid}] :
           /\ f[0] = Top
           /\ \A i \in 1..(Len(path) - 1) : f[i] = Step(f[i - 1], path[i])
           /\ Find(path) = f[Len(path) - 1]
<1> DEFINE n  == Len(path) - 1
           S  == Dirs \cup {NotExist, Invalid}
           at == CHOOSE f : f = [i \in 0..n |-> IF i = 0 THEN Top ELSE Step(f[i - 1], path[i])]
           step == [i \in 1..n |-> [x \in S |-> Step(x, path[i])]]
<1>1. n \in Nat
  BY DEF Root
<1>2. Find(path) = at[n]
  BY DEF Find
<1>3. ASSUME NEW x \in S, NEW s
      PROVE  Step(x, s) \in S
  <2>1. CASE x \in {NotExist, Invalid}
    BY <2>1 DEF Step, NotExist, Invalid
  <2>2. CASE x \in Dirs
    <3>1. x \in Nodes /\ ~(x < 0)
      BY <2>2, NodesAre DEF Dirs
    <3>2. s \in DOMAIN children[x] => children[x][s] \in Nodes
      BY <3>1 DEF NodesOK
    <3> QED BY <3>1, <3>2 DEF Step, Dirs
  <2> QED BY <2>1, <2>2
<1>4. \A i \in 1..n : step[i] \in [S -> S]
  BY <1>3
<1>5. \A i \in 1..n : \A x \in S : step[i][x] = Step(x, path[i])
  OBVIOUS
<1>6. Top \in S
  BY DEF NodesOK
<1> HIDE DEF n, step, S
<1>7. PICK f \in [0..n -> S] : f[0] = Top /\ \A i \in 1..n : f[i] = step[i][f[i - 1]]
  <2>1. Steps(n, S, Top, step)
    BY <1>1, <1>4, <1>6 DEF Steps
  <2>2. Loops(n, S, Top, step) # {}
    BY <2>1, Recursion
  <2> QED BY <2>2 DEF Loops
<1>8. \A i \in 1..n : f[i] = Step(f[i - 1], path[i])
  <2> SUFFICES ASSUME NEW i \in 1..n PROVE f[i] = Step(f[i - 1], path[i])
    OBVIOUS
  <2>1. i - 1 \in 0..n
    BY <1>1
  <2>2. f[i - 1] \in S
    BY <2>1
  <2> QED BY <1>5, <1>7, <2>2
<1>9. f = [i \in 0..n |-> IF i = 0 THEN Top ELSE Step(f[i - 1], path[i])]
  <2> DEFINE W(i) == IF i = 0 THEN Top ELSE Step(f[i - 1], path[i])
  <2>1. ASSUME NEW i \in 0..n
        PROVE  f[i] = W(i)
    <3>1. i # 0 => i \in 1..n
      BY <1>1
    <3> QED BY <1>7, <1>8, <3>1
  <2> HIDE DEF W
  <2>2. f = [i \in 0..n |-> W(i)]
    BY <2>1
  <2> QED BY <2>2 DEF W
<1>10. at = [i \in 0..n |-> IF i = 0 THEN Top ELSE Step(at[i - 1], path[i])]
  BY <1>9
<1> HIDE DEF at
<1>11. \A i \in 0..n : at[i] = f[i]
  <2> DEFINE T == {i \in 0..n : at[i] = f[i]}
  <2>1. 0 \in 0..n /\ at[0] = Top
    BY <1>1, <1>10
  <2>2. 0 \in T
    BY <1>7, <2>1
  <2>3. ASSUME NEW i \in 1..n, i - 1 \in T
        PROVE  i \in T
    <3>1. i \in 0..n /\ i # 0 /\ at[i - 1] = f[i - 1]
      BY <1>1, <2>3
    <3>2. at[i] = Step(at[i - 1], path[i])
      BY <1>10, <3>1
    <3> QED BY <1>8, <3>1, <3>2
  <2> HIDE DEF T
  <2>4. \A i \in 0..n : i \in T
    BY <1>1, <2>2, <2>3, UpTo
  <2> QED BY <2>4 DEF T
<1>12. Find(path) = f[n]
  BY <1>1, <1>2, <1>11
<1> QED BY <1>7, <1>8, <1>12 DEF n, S

\* find returns a directory or one of two errors.
LEMMA FindsDirectory ==
  ASSUME NodesOK, NEW path \in Seq(Segments), path # Root
  PROVE  /\ Find(path) \in Dirs \cup {NotExist, Invalid}
         /\ Find(path) > 0 => Find(path) \in Dirs
         /\ Frag(path) \in Segments
<1>1. PICK f \in [0..(Len(path) - 1) -> Dirs \cup {NotExist, Invalid}] :
             Find(path) = f[Len(path) - 1]
  BY FindIsWalk
<1>2. Len(path) - 1 \in 0..(Len(path) - 1) /\ Len(path) \in 1..Len(path)
  BY DEF Root
<1>3. Find(path) \in Dirs \cup {NotExist, Invalid}
  BY <1>1, <1>2
<1>4. Frag(path) \in Segments
  BY <1>2 DEF Frag, Last
<1> QED BY <1>3, <1>4 DEF NotExist, Invalid

-----------------------------------------------------------------------------
(* The calls and the bytes *)

\* The tree starts with one empty directory.
LEMMA InitFileInv == Init => FileInv
<1> SUFFICES ASSUME Init PROVE FileInv
  OBVIOUS
<1>1. isDir = <<TRUE>> /\ children = <<NoMembers>> /\ data = << << >> >> /\ wrote = <<Nothing>>
  BY DEF Init
<1>2. DOMAIN NoMembers = {} /\ NoMembers \in MemberMaps /\ DOMAIN Nothing = {}
  BY NoMembersMap DEF Nothing
<1> HIDE DEF NoMembers, Nothing
<1>3. /\ isDir \in Seq(BOOLEAN) /\ Len(isDir) = 1 /\ Nodes = {1} /\ isDir[1] = TRUE
      /\ children \in Seq(MemberMaps) /\ Len(children) = 1 /\ children[1] = NoMembers
      /\ wrote = [n \in {1} |-> wrote[n]] /\ wrote[1] = Nothing
  BY <1>1, <1>2 DEF Nodes
<1>4. data \in Seq(Seq(Byte)) /\ Len(data) = 1 /\ data[1] = << >>
  <2>1. << >> \in Seq(Byte)
    OBVIOUS
  <2> DEFINE E == Seq(Byte)
  <2>2. << >> \in E
    BY <2>1
  <2> HIDE DEF E
  <2>3. data \in Seq(E) /\ Len(data) = 1 /\ data[1] = << >>
    BY <1>1, <2>2
  <2> QED BY <2>3 DEF E
<1>5. NodesOK
  BY <1>2, <1>3, <1>4 DEF NodesOK, Dirs, Top
<1>6. HandlesOK
  <2>1. /\ DOMAIN Closed = {"n", "pos", "names"} /\ Closed.n = 0 /\ Closed.pos = 0
        /\ Closed.names \in Seq(Segments)
    BY DEF Closed
  <2> QED BY <2>1 DEF Init, HandlesOK
<1>7. WroteOK
  BY <1>2, <1>3, <1>4 DEF WroteOK, HoldsWhatWasWritten
<1> QED BY <1>5, <1>6, <1>7 DEF FileInv

\* A handle that is opened or moved has a node and a position.
LEMMA HandleMoves ==
  ASSUME HandlesOK, Nodes \subseteq Nodes', NEW h \in Handles, NEW f,
         file' = [file EXCEPT ![h] = f],
         DOMAIN f = {"n", "pos", "names"}, f.n \in Nodes' \cup {0}, f.pos \in Nat,
         f.names \in Seq(Segments)
  PROVE  HandlesOK'
<1>1. file' = [i \in Handles |-> IF i = h THEN f ELSE file[i]]
  BY DEF HandlesOK
<1>2. ASSUME NEW i \in Handles
      PROVE  /\ DOMAIN file'[i] = {"n", "pos", "names"}
             /\ file'[i].n \in Nodes' \cup {0} /\ file'[i].pos \in Nat
             /\ file'[i].names \in Seq(Segments)
  <2>1. CASE i = h
    BY <1>1, <2>1
  <2>2. CASE i # h
    BY <1>1, <2>2 DEF HandlesOK
  <2> QED BY <2>1, <2>2
<1>3. file' = [i \in Handles |-> file'[i]]
  BY <1>1
<1> QED BY <1>2, <1>3 DEF HandlesOK

\* A handle of which the position changes keeps its node and its names.
LEMMA HandleSeeks ==
  ASSUME HandlesOK, Nodes' = Nodes, NEW h \in Handles, NEW pos \in Nat, Moved(h, pos)
  PROVE  HandlesOK'
<1> DEFINE f == [file[h] EXCEPT !.pos = pos]
<1>1. /\ DOMAIN file[h] = {"n", "pos", "names"} /\ file[h].n \in Nodes \cup {0}
      /\ file[h].names \in Seq(Segments)
  BY DEF HandlesOK
<1>2. f.n = file[h].n /\ f.pos = pos /\ f.names = file[h].names /\ DOMAIN f = {"n", "pos", "names"}
  BY <1>1
<1>3. file' = [file EXCEPT ![h] = f]
  BY DEF Moved
<1> HIDE DEF f
<1> QED BY <1>1, <1>2, <1>3, HandleMoves

\* Handles that nothing happens to keep their nodes.
LEMMA HandlesStay ==
  ASSUME HandlesOK, Nodes \subseteq Nodes', UNCHANGED file
  PROVE  HandlesOK'
BY DEF HandlesOK

\* A call that adds no node and changes no byte.
LEMMA NothingWritten ==
  ASSUME WroteOK, UNCHANGED <<isDir, data>>, WroteNothing
  PROVE  WroteOK'
<1>1. Nodes' = Nodes /\ wrote' = [n \in Nodes |-> IF n \in Nodes THEN wrote[n] ELSE Nothing]
  BY DEF WroteNothing, Nodes
<1>2. wrote' = wrote
  BY <1>1 DEF WroteOK
<1> QED BY <1>1, <1>2 DEF WroteOK, HoldsWhatWasWritten

\* A node that is added is empty.
LEMMA NewNodeIsEmpty ==
  ASSUME WroteOK, NEW dir, NEW frag, NEW directory, Grown(dir, frag, directory), WroteNothing
  PROVE  WroteOK'
<1> DEFINE new == Len(isDir) + 1
<1>1. /\ Nodes' = Nodes \cup {new} /\ new \notin Nodes
      /\ data'[new] = << >> /\ \A n \in Nodes : data'[n] = data[n]
  BY DEF Grown
<1>2. wrote' = [n \in Nodes' |-> IF n \in Nodes THEN wrote[n] ELSE Nothing]
  BY DEF WroteNothing, Nodes
<1>3. DOMAIN Nothing = {}
  BY DEF Nothing
<1> HIDE DEF new
<1>4. ASSUME NEW n \in Nodes'
      PROVE  /\ DOMAIN wrote'[n] \subseteq Nat
             /\ \A i \in DOMAIN wrote'[n] : i <= Len(data'[n])
             /\ \A i \in 1..Len(data'[n]) :
                  data'[n][i] = IF i \in DOMAIN wrote'[n] THEN wrote'[n][i] ELSE 0
  <2>1. CASE n = new
    <3>1. wrote'[n] = Nothing /\ data'[n] = << >>
      BY <1>1, <1>2, <2>1
    <3> QED BY <1>3, <3>1
  <2>2. CASE n # new
    <3>1. n \in Nodes /\ wrote'[n] = wrote[n] /\ data'[n] = data[n]
      BY <1>1, <1>2, <2>2
    <3> QED BY <3>1 DEF WroteOK, HoldsWhatWasWritten
  <2> QED BY <2>1, <2>2
<1>5. wrote' = [n \in Nodes' |-> wrote'[n]]
  BY <1>2
<1> QED BY <1>4, <1>5 DEF WroteOK, HoldsWhatWasWritten

\* Each node has its bytes, and the others keep theirs.
LEMMA OneNodeWritten ==
  ASSUME NodesOK, WroteOK, UNCHANGED isDir, NEW n \in Nodes, NEW bytes, NEW last,
         data' = [data EXCEPT ![n] = bytes], wrote' = [wrote EXCEPT ![n] = last],
         DOMAIN last \subseteq Nat, \A i \in DOMAIN last : i <= Len(bytes),
         \A i \in 1..Len(bytes) : bytes[i] = IF i \in DOMAIN last THEN last[i] ELSE 0
  PROVE  WroteOK'
<1>1. Nodes' = Nodes /\ DOMAIN data = Nodes
  BY NodesAre DEF Nodes
<1>2. /\ data'[n] = bytes /\ \A m \in Nodes : m # n => data'[m] = data[m]
      /\ wrote'[n] = last /\ \A m \in Nodes : m # n => wrote'[m] = wrote[m]
  BY <1>1 DEF WroteOK
<1>3. wrote' = [m \in Nodes |-> wrote'[m]]
  BY DEF WroteOK
<1>4. ASSUME NEW m \in Nodes
      PROVE  /\ DOMAIN wrote'[m] \subseteq Nat
             /\ \A i \in DOMAIN wrote'[m] : i <= Len(data'[m])
             /\ \A i \in 1..Len(data'[m]) :
                  data'[m][i] = IF i \in DOMAIN wrote'[m] THEN wrote'[m][i] ELSE 0
  <2>1. CASE m = n
    BY <1>2, <2>1
  <2>2. CASE m # n
    BY <1>2, <2>2 DEF WroteOK, HoldsWhatWasWritten
  <2> QED BY <2>1, <2>2
<1> QED BY <1>1, <1>3, <1>4 DEF WroteOK, HoldsWhatWasWritten

-----------------------------------------------------------------------------
(* The calls of the file system *)

\* A call that is refused changes nothing but the outcome.
LEMMA RefusedFileInv ==
  ASSUME FileInv, NEW result, Refused(result), WroteNothing
  PROVE  FileInv'
<1>1. UNCHANGED <<children, isDir, data, file>>
  BY DEF Refused, nodeVars
<1>2. Nodes' = Nodes
  BY <1>1 DEF Nodes
<1>3. NodesOK'
  BY <1>1, <1>2 DEF FileInv, NodesOK, Dirs
<1>4. HandlesOK'
  BY <1>1, <1>2, HandlesStay DEF FileInv
<1>5. WroteOK'
  BY <1>1, NothingWritten DEF FileInv
<1> QED BY <1>3, <1>4, <1>5 DEF FileInv

\* Mkdir (webdav/file.go:258).
LEMMA MkdirFileInv ==
  ASSUME FileInv, NEW path \in Names, Mkdir(path), WroteNothing
  PROVE  FileInv'
<1>1. ASSUME NEW result, Refused(result) PROVE FileInv'
  BY <1>1, RefusedFileInv
<1>2. ASSUME path # Root, Find(path) > 0, NewMember(Find(path), Frag(path), TRUE), UNCHANGED file
      PROVE  FileInv'
  <2>1. Find(path) \in Dirs /\ Frag(path) \in Segments
    BY <1>2, FindsDirectory, NamesAssumption DEF FileInv
  <2>2. NodesOK' /\ Grown(Find(path), Frag(path), TRUE)
    BY <1>2, <2>1, NewMemberGrows DEF FileInv
  <2>3. HandlesOK'
    BY <1>2, <2>2, HandlesStay DEF FileInv, Grown
  <2>4. WroteOK'
    BY <2>2, NewNodeIsEmpty DEF FileInv
  <2> QED BY <2>2, <2>3, <2>4 DEF FileInv
<1> QED BY <1>1, <1>2 DEF Mkdir

\* RemoveAll (webdav/file.go:342) takes a member away and leaves its node.
LEMMA RemoveAllFileInv ==
  ASSUME FileInv, NEW path \in Names, RemoveAll(path), WroteNothing
  PROVE  FileInv'
<1>1. ASSUME NEW result, Refused(result) PROVE FileInv'
  BY <1>1, RefusedFileInv
<1>2. ASSUME path # Root, Find(path) > 0, UNCHANGED <<isDir, data, file>>,
             children' = [children EXCEPT ![Find(path)] = Less(@, Frag(path))]
      PROVE  FileInv'
  <2>1. Find(path) \in Dirs
    BY <1>2, FindsDirectory, NamesAssumption DEF FileInv
  <2>2. OneLess([children EXCEPT ![Find(path)] = Less(@, Frag(path))], Find(path), Frag(path))
    BY <2>1, LessMember DEF FileInv
  <2>3. OneLess(children', Find(path), Frag(path))
    BY <1>2, <2>2
  <2>4. /\ children' \in Seq(MemberMaps) /\ Len(children') = Len(isDir)
        /\ \A n \in Nodes : \A s \in DOMAIN children'[n] : isDir[n] /\ children'[n][s] \in Nodes
    BY <2>3 DEF OneLess, FileInv, NodesOK
  <2>5. NodesOK' /\ Nodes' = Nodes
    BY <1>2, <2>4, EditedNodes DEF FileInv, NodesOK
  <2>6. HandlesOK'
    BY <1>2, <2>5, HandlesStay DEF FileInv
  <2>7. WroteOK'
    BY <1>2, NothingWritten DEF FileInv
  <2> QED BY <2>5, <2>6, <2>7 DEF FileInv
<1> QED BY <1>1, <1>2 DEF RemoveAll

\* Rename (webdav/file.go:358): a member moves, with its node and its bytes.
LEMMA RenameFileInv ==
  ASSUME FileInv, NEW old \in Names, NEW new \in Names, Rename(old, new), WroteNothing
  PROVE  FileInv'
<1> DEFINE oDir == Find(old)
           nDir == Find(new)
<1>1. ASSUME NEW result, Refused(result) PROVE FileInv'
  BY <1>1, RefusedFileInv
<1>2. ASSUME old # Root, new # Root, oDir > 0, nDir > 0, Frag(old) \in DOMAIN children[oDir],
             children' = Relinked(oDir, Frag(old), nDir, Frag(new)),
             UNCHANGED <<isDir, data, file>>
      PROVE  FileInv'
  <2>1. oDir \in Dirs /\ nDir \in Dirs /\ Frag(new) \in Segments
    BY <1>2, FindsDirectory, NamesAssumption DEF FileInv
  <2> HIDE DEF oDir, nDir
  <2>2. OneMoved(children', oDir, Frag(old), nDir, Frag(new))
    BY <1>2, <2>1, RelinkedMember DEF FileInv
  <2>3. children[oDir][Frag(old)] \in Nodes /\ isDir[nDir]
    BY <1>2, <2>1 DEF FileInv, NodesOK, Dirs
  <2>4. /\ children' \in Seq(MemberMaps) /\ Len(children') = Len(isDir)
        /\ \A n \in Nodes : \A s \in DOMAIN children'[n] : isDir[n] /\ children'[n][s] \in Nodes
    BY <2>2, <2>3 DEF OneMoved, FileInv, NodesOK
  <2>5. NodesOK' /\ Nodes' = Nodes
    BY <1>2, <2>4, EditedNodes DEF FileInv, NodesOK
  <2>6. HandlesOK'
    BY <1>2, <2>5, HandlesStay DEF FileInv
  <2>7. WroteOK'
    BY <1>2, NothingWritten DEF FileInv
  <2> QED BY <2>5, <2>6, <2>7 DEF FileInv
<1> QED BY <1>1, <1>2 DEF Rename

\* Stat (webdav/file.go:406) changes nothing.
LEMMA StatFileInv ==
  ASSUME FileInv, NEW path \in Names, Stat(path), WroteNothing
  PROVE  FileInv'
<1>1. ASSUME NEW result, Refused(result) PROVE FileInv'
  BY <1>1, RefusedFileInv
<1> QED BY <1>1 DEF Stat

(* What wrote becomes in a call of OpenFile. *)
OpenWrote(h, flag) ==
  IF {"write", "trunc"} \subseteq flag /\ outcome' = "ok" /\ Node(h)' \in Nodes
  THEN wrote' = [wrote EXCEPT ![Node(h)'] = Nothing] ELSE WroteNothing

\* A handle is opened on a node that is there or was made.
LEMMA NewFileHandles ==
  ASSUME HandlesOK, Nodes \subseteq Nodes', NEW h \in Handles, NEW n \in Nodes',
         NEW members \in MemberMaps, NewFile(h, n, members)
  PROVE  HandlesOK' /\ Node(h)' = n
<1>1. PICK names \in SetToSeqs(DOMAIN members) :
             file' = [file EXCEPT ![h] = [n |-> n, pos |-> 0, names |-> names]]
  BY DEF NewFile
<1>n. names \in Seq(Segments)
  <2>1. IsFiniteSet(DOMAIN members) /\ DOMAIN members \subseteq Segments
    BY MemberMapsAre
  <2>2. Cardinality(DOMAIN members) \in Nat
    BY <2>1, FS_CardinalityType
  <2>3. names \in [1..Cardinality(DOMAIN members) -> DOMAIN members]
    BY DEF SetToSeqs
  <2> QED BY <2>1, <2>2, <2>3
<1>2. HandlesOK'
  <2> DEFINE f == [n |-> n, pos |-> 0, names |-> names]
  <2>1. DOMAIN f = {"n", "pos", "names"} /\ f.n = n /\ f.pos = 0 /\ f.names = names
    OBVIOUS
  <2>2. file' = [file EXCEPT ![h] = f]
    BY <1>1
  <2> HIDE DEF f
  <2>3. f.n \in Nodes' \cup {0} /\ f.pos \in Nat /\ f.names \in Seq(Segments)
    BY <1>n, <2>1
  <2> QED BY <2>1, <2>2, <2>3, HandleMoves
<1>3. file'[h].n = n
  BY <1>1 DEF HandlesOK
<1> QED BY <1>2, <1>3 DEF Node

\* OpenFile (webdav/file.go:280): the file is empty if it is new, and empty again
\* if it is truncated.
LEMMA OpenFileFileInv ==
  ASSUME FileInv, NEW h \in Handles, NEW path \in Names, NEW flag,
         OpenFile(h, path, flag), OpenWrote(h, flag)
  PROVE  FileInv'
<1> DEFINE dir  == Find(path)
           frag == Frag(path)
           n    == children[dir][frag]
<1>1. ASSUME NEW result, Refused(result), result # "ok" PROVE FileInv'
  <2>1. WroteNothing
    BY <1>1 DEF OpenWrote, Refused, Done
  <2> QED BY <1>1, <2>1, RefusedFileInv
<1>2. ErrorName(dir) # "ok"
  BY DEF ErrorName
<1>3. ASSUME path = Root, "write" \notin flag, NewFile(h, Top, children[Top]), UNCHANGED nodeVars
      PROVE  FileInv'
  <2>1. WroteNothing
    BY <1>3 DEF OpenWrote
  <2>2. UNCHANGED <<children, isDir, data>> /\ Nodes' = Nodes
    BY <1>3 DEF nodeVars, Nodes
  <2>3. NodesOK'
    BY <2>2 DEF FileInv, NodesOK, Dirs
  <2>4. HandlesOK'
    <3>1. Top \in Nodes'
      BY <2>2, NodesAre DEF FileInv
    <3>2. children[Top] \in MemberMaps
      BY NodesAre DEF FileInv
    <3> QED BY <1>3, <2>2, <3>1, <3>2, NewFileHandles DEF FileInv
  <2>5. WroteOK'
    BY <2>1, <2>2, NothingWritten DEF FileInv
  <2> QED BY <2>3, <2>4, <2>5 DEF FileInv
<1>4. ASSUME path # Root, dir > 0, NewMember(dir, frag, FALSE),
             NewFile(h, Len(isDir) + 1, NoMembers)
      PROVE  FileInv'
  <2>1. dir \in Dirs /\ frag \in Segments
    BY <1>4, FindsDirectory, NamesAssumption DEF FileInv
  <2> HIDE DEF dir, frag
  <2>2. NodesOK' /\ Grown(dir, frag, FALSE)
    BY <1>4, <2>1, NewMemberGrows DEF FileInv
  <2>3. Nodes \subseteq Nodes' /\ Len(isDir) + 1 \in Nodes' /\ Len(isDir) + 1 \notin Nodes
    BY <2>2 DEF Grown
  <2>4. HandlesOK' /\ Node(h)' = Len(isDir) + 1
    BY <1>4, <2>3, NoMembersMap, NewFileHandles DEF FileInv
  <2>5. WroteNothing
    BY <2>3, <2>4 DEF OpenWrote
  <2>6. WroteOK'
    BY <2>2, <2>5, NewNodeIsEmpty DEF FileInv
  <2> QED BY <2>2, <2>4, <2>6 DEF FileInv
<1>5. ASSUME path # Root, dir > 0, frag \in DOMAIN children[dir], outcome' = "ok",
             IF {"write", "trunc"} \subseteq flag THEN Truncated(n) ELSE UNCHANGED nodeVars,
             NewFile(h, n, children[n])
      PROVE  FileInv'
  <2>1. dir \in Dirs
    BY <1>5, FindsDirectory, NamesAssumption DEF FileInv
  <2>2. n \in Nodes
    BY <1>5, <2>1 DEF FileInv, NodesOK, Dirs
  <2> HIDE DEF n
  <2>3. UNCHANGED <<children, isDir>> /\ Nodes' = Nodes
    BY <1>5 DEF nodeVars, Nodes, Truncated
  <2>4. HandlesOK' /\ Node(h)' = n
    <3>1. children[n] \in MemberMaps
      BY <2>2, NodesAre DEF FileInv
    <3> QED BY <1>5, <2>2, <2>3, <3>1, NewFileHandles DEF FileInv
  <2>5. CASE {"write", "trunc"} \subseteq flag
    <3> DEFINE e == << >>
    <3>1. data' = [data EXCEPT ![n] = e] /\ wrote' = [wrote EXCEPT ![n] = Nothing]
      BY <1>5, <2>2, <2>4, <2>5 DEF OpenWrote, Truncated
    <3>2. e \in Seq(Byte) /\ Len(e) = 0 /\ DOMAIN Nothing = {}
      BY DEF Nothing
    <3> HIDE DEF e
    <3>3. data' \in Seq(Seq(Byte)) /\ Len(data') = Len(isDir)
      <4> DEFINE E == Seq(Byte)
      <4>1. data \in Seq(E) /\ Len(data) = Len(isDir) /\ n \in 1..Len(data) /\ e \in E
        BY <2>2, <3>2 DEF FileInv, NodesOK, Nodes
      <4> HIDE DEF E
      <4>2. data' \in Seq(E) /\ Len(data') = Len(data)
        BY <3>1, <4>1, ExceptSeq
      <4> QED BY <4>1, <4>2 DEF E
    <3>4. NodesOK'
      BY <2>3, <3>3 DEF FileInv, NodesOK, Dirs
    <3>5. WroteOK'
      <4>1. DOMAIN Nothing \subseteq Nat /\ (\A i \in DOMAIN Nothing : i <= Len(e))
            /\ \A i \in 1..Len(e) : e[i] = IF i \in DOMAIN Nothing THEN Nothing[i] ELSE 0
        BY <3>2
      <4> QED BY <2>2, <2>3, <3>1, <4>1, OneNodeWritten DEF FileInv
    <3> QED BY <2>4, <3>4, <3>5 DEF FileInv
  <2>6. CASE ~({"write", "trunc"} \subseteq flag)
    <3>1. WroteNothing /\ data' = data
      BY <1>5, <2>6 DEF OpenWrote, nodeVars
    <3>2. NodesOK'
      BY <2>3, <3>1 DEF FileInv, NodesOK, Dirs
    <3>3. WroteOK'
      BY <2>3, <3>1, NothingWritten DEF FileInv
    <3> QED BY <2>4, <3>2, <3>3 DEF FileInv
  <2> QED BY <2>5, <2>6
<1> HIDE DEF dir, frag, n
<1>6. CASE path = Root
  BY <1>1, <1>3, <1>6 DEF OpenFile
<1>7. CASE path # Root
  <2>1. \/ dir < 0 /\ Refused(ErrorName(dir))
        \/ Refused("invalid")
        \/ Refused("exist")
        \/ Refused("notexist")
        \/ dir > 0 /\ NewMember(dir, frag, FALSE) /\ NewFile(h, Len(isDir) + 1, NoMembers)
        \/ /\ dir > 0 /\ frag \in DOMAIN children[dir] /\ outcome' = "ok"
           /\ IF {"write", "trunc"} \subseteq flag THEN Truncated(n) ELSE UNCHANGED nodeVars
           /\ NewFile(h, n, children[n])
    BY <1>7 DEF OpenFile, Done, dir, frag, n
  <2> QED BY <1>1, <1>2, <1>4, <1>5, <1>7, <2>1
<1> QED BY <1>6, <1>7

-----------------------------------------------------------------------------
(* The calls of an open file *)

\* A call that leaves the bytes alone and moves the handle, or closes it.
LEMMA MovedFileInv ==
  ASSUME FileInv, NEW h \in Handles, UNCHANGED nodeVars, WroteNothing,
         \/ \E pos \in Nat : Moved(h, pos)
         \/ file' = [file EXCEPT ![h] = Closed]
  PROVE  FileInv'
<1>1. UNCHANGED <<children, isDir, data>> /\ Nodes' = Nodes
  BY DEF nodeVars, Nodes
<1>2. NodesOK'
  BY <1>1 DEF FileInv, NodesOK, Dirs
<1>3. WroteOK'
  BY <1>1, NothingWritten DEF FileInv
<1>4. ASSUME NEW pos \in Nat, Moved(h, pos)
      PROVE  HandlesOK'
  BY <1>1, <1>4, HandleSeeks DEF FileInv
<1>5. ASSUME file' = [file EXCEPT ![h] = Closed]
      PROVE  HandlesOK'
  <2>1. /\ DOMAIN Closed = {"n", "pos", "names"} /\ Closed.n = 0 /\ Closed.pos = 0
        /\ Closed.names \in Seq(Segments)
    BY DEF Closed
  <2>2. Nodes \subseteq Nodes' /\ Closed.n \in Nodes' \cup {0} /\ Closed.pos \in Nat
    BY <1>1, <2>1
  <2> QED BY <1>5, <2>1, <2>2, HandleMoves DEF FileInv
<1> QED BY <1>2, <1>3, <1>4, <1>5 DEF FileInv

\* The lesser of two numbers is one of them.
LEMMA MinOfTwo ==
  ASSUME NEW a \in Nat, NEW b \in Nat
  PROVE  Min({a, b}) \in Nat
<1>1. \E x \in {a, b} : \A y \in {a, b} : x <= y
  OBVIOUS
<1> QED BY <1>1 DEF Min

\* Read, Readdir, Seek and Close (webdav/file.go:512-575) change no byte.
LEMMA ReadFileInv ==
  ASSUME FileInv, NEW h \in Handles, WroteNothing,
         \/ \E size \in {1, MaxSize} : Read(h, size) \/ Readdir(h, size)
         \/ Readdir(h, 0) \/ Close(h)
         \/ \E from \in {"start", "current", "end"}, offset \in {-1, 0, MaxSize} :
              Seek(h, from, offset)
  PROVE  FileInv'
<1>1. file[h].pos \in Nat
  BY DEF FileInv, HandlesOK
<1>2. ASSUME NEW size \in {1, MaxSize}, Read(h, size)
      PROVE  FileInv'
  <2>1. Node(h) \in Nodes
    BY <1>2 DEF Read, ByHandle, Held, Node, FileInv, HandlesOK
  <2>2. Len(data[Node(h)]) \in Nat
    BY <2>1, NodesAre, LenProperties DEF FileInv
  <2>3. size \in Nat
    BY SizeAssumption
  <2>4. Min({file[h].pos + size, Len(data[Node(h)])}) \in Nat
    <3> DEFINE a == file[h].pos + size
               b == Len(data[Node(h)])
    <3>1. a \in Nat /\ b \in Nat
      BY <1>1, <2>2, <2>3
    <3> HIDE DEF a, b
    <3>2. Min({a, b}) \in Nat
      BY <3>1, MinOfTwo
    <3> QED BY <3>2 DEF a, b
  <2> QED BY <1>2, <2>4, MovedFileInv DEF Read
<1>3. ASSUME NEW size \in {0, 1, MaxSize}, Readdir(h, size)
      PROVE  FileInv'
  <2>1. Len(file[h].names) \in Nat
    BY LenProperties DEF FileInv, HandlesOK
  <2>2. size \in Nat
    BY SizeAssumption
  <2>3. Min({file[h].pos + size, Len(file[h].names)}) \in Nat
    <3> DEFINE a == file[h].pos + size
               b == Len(file[h].names)
    <3>1. a \in Nat /\ b \in Nat
      BY <1>1, <2>1, <2>2
    <3> HIDE DEF a, b
    <3>2. Min({a, b}) \in Nat
      BY <3>1, MinOfTwo
    <3> QED BY <3>2 DEF a, b
  <2> QED BY <1>3, <2>1, <2>3, MovedFileInv DEF Readdir
<1>4. ASSUME Close(h)
      PROVE  FileInv'
  BY <1>4, MovedFileInv DEF Close
<1>5. ASSUME NEW from \in {"start", "current", "end"}, NEW offset \in {-1, 0, MaxSize},
             Seek(h, from, offset)
      PROVE  FileInv'
  <2>1. Node(h) \in Nodes
    BY <1>5 DEF Seek, ByHandle, Held, Node, FileInv, HandlesOK
  <2>2. Len(data[Node(h)]) \in Nat
    BY <2>1, NodesAre, LenProperties DEF FileInv
  <2>3. offset \in Int
    BY SizeAssumption
  <2> DEFINE pos == offset + (CASE from = "start" -> 0
                                [] from = "current" -> file[h].pos
                                [] from = "end" -> Len(data[Node(h)]))
  <2>4. pos \in Int
    BY <1>1, <2>2, <2>3
  <2>5. pos >= 0 /\ Moved(h, pos) /\ UNCHANGED nodeVars
    BY <1>5 DEF Seek
  <2> HIDE DEF pos
  <2>6. pos \in Nat
    BY <2>4, <2>5
  <2> QED BY <2>5, <2>6, MovedFileInv
<1> QED BY <1>2, <1>3, <1>4, <1>5

(* What wrote becomes in a call of Write. *)
WriteWrote(h, bytes) ==
  LET from  == file[h].pos
      until == from + Len(bytes)
  IN  wrote' = [wrote EXCEPT ![Node(h)] =
                  [i \in DOMAIN @ \cup (from + 1..until) |->
                     IF i \in from + 1..until THEN bytes[i - from] ELSE @[i]]]

\* Write (webdav/file.go:577), wherever the handle is: behind the end, across it
\* or before it.
LEMMA WriteFileInv ==
  ASSUME FileInv, NEW h \in Handles, NEW bytes \in Bytes, Write(h, bytes), WriteWrote(h, bytes)
  PROVE  FileInv'
<1> DEFINE n     == Node(h)
           from  == file[h].pos
           until == from + Len(bytes)
           d     == data[n]
           w     == Written(d, from, bytes)
           old   == wrote[n]
           last  == [i \in DOMAIN old \cup (from + 1..until) |->
                       IF i \in from + 1..until THEN bytes[i - from] ELSE old[i]]
<1>1. n \in Nodes /\ from \in Nat
  BY DEF FileInv, HandlesOK, Write, ByHandle, Held, Node
<1>2. bytes \in Seq(Byte) /\ Len(bytes) \in Nat /\ d \in Seq(Byte)
  <2>1. bytes \in Seq(Byte)
    BY BytesAssumption DEF Byte
  <2> QED BY <1>1, <2>1, NodesAre, LenProperties DEF FileInv
<1>3. data' = [data EXCEPT ![n] = w] /\ wrote' = [wrote EXCEPT ![n] = last]
      /\ UNCHANGED <<children, isDir>> /\ Moved(h, until)
  BY DEF Write, WriteWrote
<1> HIDE DEF n
<1>4. /\ w \in Seq(Byte)
      /\ Len(w) >= Len(d) /\ Len(w) >= from + Len(bytes)
      /\ \A i \in 1..Len(w) :
           w[i] = IF i \in (from + 1)..(from + Len(bytes)) THEN bytes[i - from]
                  ELSE IF i <= Len(d) THEN d[i] ELSE 0
  <2> HIDE DEF d, from
  <2> QED BY <1>1, <1>2, WrittenBytes
<1>5. /\ DOMAIN old \subseteq Nat /\ \A i \in DOMAIN old : i <= Len(d)
      /\ \A i \in 1..Len(d) : d[i] = IF i \in DOMAIN old THEN old[i] ELSE 0
  BY <1>1 DEF FileInv, WroteOK, HoldsWhatWasWritten
<1>6. until \in Nat /\ Len(d) \in Nat /\ Len(w) \in Nat
  BY <1>1, <1>2, <1>4, LenProperties
<1>7. /\ DOMAIN last = DOMAIN old \cup (from + 1..until)
      /\ \A i \in from + 1..until : last[i] = bytes[i - from]
      /\ \A i \in DOMAIN old : i \notin from + 1..until => last[i] = old[i]
  OBVIOUS
<1> HIDE DEF d, w, old, last, from
<1>8. DOMAIN last \subseteq Nat /\ \A i \in DOMAIN last : i <= Len(w)
  BY <1>1, <1>2, <1>4, <1>5, <1>6, <1>7
<1>9. ASSUME NEW i \in 1..Len(w)
      PROVE  w[i] = IF i \in DOMAIN last THEN last[i] ELSE 0
  <2>1. CASE i \in from + 1..until
    BY <1>4, <1>7, <2>1
  <2>2. CASE i \notin from + 1..until /\ i <= Len(d)
    <3>1. i \in 1..Len(d) /\ w[i] = d[i]
      BY <1>4, <1>6, <2>2
    <3> QED BY <1>5, <1>7, <2>2, <3>1
  <2>3. CASE i \notin from + 1..until /\ ~(i <= Len(d))
    <3>1. w[i] = 0 /\ i \notin DOMAIN old
      BY <1>4, <1>5, <2>3
    <3> QED BY <1>7, <2>3, <3>1
  <2> QED BY <2>1, <2>2, <2>3
<1>10. WroteOK'
  BY <1>1, <1>3, <1>8, <1>9, OneNodeWritten DEF FileInv
<1>11. Nodes' = Nodes
  BY <1>3 DEF Nodes
<1>12. data' \in Seq(Seq(Byte)) /\ Len(data') = Len(isDir)
  <2> DEFINE E == Seq(Byte)
  <2>1. data \in Seq(E) /\ Len(data) = Len(isDir) /\ n \in 1..Len(data) /\ w \in E
    BY <1>1, <1>4 DEF FileInv, NodesOK, Nodes
  <2> HIDE DEF E
  <2>2. data' \in Seq(E) /\ Len(data') = Len(data)
    BY <1>3, <2>1, ExceptSeq
  <2> QED BY <2>1, <2>2 DEF E
<1>13. NodesOK'
  BY <1>3, <1>11, <1>12 DEF FileInv, NodesOK, Dirs
<1>14. HandlesOK'
  BY <1>3, <1>6, <1>11, HandleSeeks DEF FileInv
<1> QED BY <1>10, <1>13, <1>14 DEF FileInv

\* Every step keeps the invariant.
LEMMA NextFileInv == FileInv /\ [Next]_vars => FileInv'
<1> SUFFICES ASSUME FileInv, [Next]_vars PROVE FileInv'
  OBVIOUS
<1>1. CASE TreeCall
  <2>1. ASSUME NEW path \in Names, Mkdir(path) \/ RemoveAll(path) \/ Stat(path), WroteNothing
        PROVE  FileInv'
    BY <2>1, MkdirFileInv, RemoveAllFileInv, StatFileInv
  <2>2. ASSUME NEW old \in Names, NEW new \in Names, Rename(old, new), WroteNothing
        PROVE  FileInv'
    BY <2>2, RenameFileInv
  <2>3. ASSUME NEW h \in Handles, NEW path \in Names, NEW flag \in Flags,
               OpenFile(h, path, flag), OpenWrote(h, flag)
        PROVE  FileInv'
    BY <2>3, OpenFileFileInv
  <2> QED BY <1>1, <2>1, <2>2, <2>3 DEF TreeCall, OpenWrote
<1>2. CASE FileCall
  <2>1. PICK h \in Handles :
          \/ /\ \/ \E size \in {1, MaxSize} : Read(h, size) \/ Readdir(h, size)
                \/ Readdir(h, 0) \/ Close(h)
                \/ \E from \in {"start", "current", "end"}, offset \in {-1, 0, MaxSize} :
                     Seek(h, from, offset)
             /\ WroteNothing
          \/ \E bytes \in Bytes : Write(h, bytes) /\ WriteWrote(h, bytes)
    BY <1>2 DEF FileCall, WriteWrote
  <2> QED BY <2>1, ReadFileInv, WriteFileInv
<1>3. CASE UNCHANGED vars
  BY <1>3 DEF vars, nodeVars, FileInv, NodesOK, HandlesOK, WroteOK, HoldsWhatWasWritten, Nodes,
              Dirs
<1> QED BY <1>1, <1>2, <1>3 DEF Next

\* Every file of memFS holds the bytes last written to it through any handle,
\* and zeros in the holes, for any number of files, handles and bytes
\* (webdav/file.go:577-610).
THEOREM FilesHoldWhatWasWritten == Spec => []HoldsWhatWasWritten
<1>1. FileInv => HoldsWhatWasWritten
  BY DEF FileInv, WroteOK
<1> QED BY <1>1, InitFileInv, NextFileInv, PTL DEF Spec

-----------------------------------------------------------------------------
(* The nodes show a tree *)

(* The map T gives the paths that lead somewhere their nodes, if c has the *)
(* members of the nodes.                                                   *)
Shows(T, c) ==
  /\ T = [q \in DOMAIN T |-> T[q]]
  /\ DOMAIN T \subseteq Seq(Segments)
  /\ Root \in DOMAIN T /\ T[Root] = Top
  /\ \A q \in Seq(Segments) : q # Root =>
       /\ q \in DOMAIN T <=> Parent(q) \in DOMAIN T /\ Frag(q) \in DOMAIN c[T[Parent(q)]]
       /\ q \in DOMAIN T => T[q] = c[T[Parent(q)]][Frag(q)]

(* T maps paths that are not too long to the nodes N. *)
PathsToNodes(T, N) == \A q \in DOMAIN T : Len(q) <= MaxDepth /\ T[q] \in N

(* What ties the paths of the abstract tree to the nodes. *)
TreeInv ==
  /\ NodesOK
  /\ Shows(paths, children)
  /\ PathsToNodes(paths, Nodes)
  /\ OneToOne(paths)
  /\ Len(isDir) <= MaxNodes

\* The first segments of a path are a path, one longer than its parent.
LEMMA PathPrefix ==
  ASSUME NEW path \in Seq(Segments), NEW i \in 1..Len(path)
  PROVE  /\ SubSeq(path, 1, i) \in Seq(Segments) /\ SubSeq(path, 1, i) # Root
         /\ Parent(SubSeq(path, 1, i)) = SubSeq(path, 1, i - 1)
         /\ Frag(SubSeq(path, 1, i)) = path[i]
<1> DEFINE p == SubSeq(path, 1, i)
           q == SubSeq(path, 1, i - 1)
<1>1. i \in Nat /\ i - 1 \in Nat /\ i <= Len(path) /\ Len(path) \in Nat /\ i >= 1
  OBVIOUS
<1>2. p \in Seq(Segments) /\ Len(p) = i /\ \A j \in 1..i : p[j] = path[j]
  <2>1. \A j \in 1..i : path[j] \in Segments
    BY <1>1
  <2> QED BY <1>1, <2>1, SubSeqProperties
<1>3. q \in Seq(Segments) /\ Len(q) = i - 1 /\ \A j \in 1..(i - 1) : q[j] = path[j]
  <2> DEFINE k == i - 1
  <2>1. k \in Nat /\ k <= Len(path) /\ \A j \in 1..k : path[j] \in Segments
    BY <1>1
  <2> HIDE DEF k
  <2>2. SubSeq(path, 1, k) \in Seq(Segments) /\ Len(SubSeq(path, 1, k)) = k
        /\ \A j \in 1..k : SubSeq(path, 1, k)[j] = path[j]
    BY <2>1, SubSeqProperties
  <2> QED BY <2>2 DEF k
<1> HIDE DEF p, q
<1>4. p # Root /\ Frag(p) = path[i]
  BY <1>1, <1>2 DEF Root, Frag, Last
<1>5. Parent(p) = q
  <2>1. Parent(p) \in Seq(Segments) /\ Len(Parent(p)) = Len(p) - 1
        /\ \A j \in 1..(Len(p) - 1) : Parent(p)[j] = p[j]
    BY <1>2, <1>4, ParentAbove
  <2>2. Len(Parent(p)) = Len(q) /\ \A j \in 1..Len(Parent(p)) : Parent(p)[j] = q[j]
    BY <1>1, <1>2, <1>3, <2>1
  <2> QED BY <1>3, <2>1, <2>2, SeqEqual
<1> QED BY <1>2, <1>4, <1>5 DEF p, q

\* The ends of the walk over the prefixes.
LEMMA PrefixEnds ==
  ASSUME NEW path \in Seq(Segments)
  PROVE  /\ SubSeq(path, 1, 0) = Root
         /\ path # Root => /\ Len(path) - 1 \in Nat /\ Len(path) \in 1..Len(path)
                           /\ SubSeq(path, 1, Len(path) - 1) = Parent(path)
                           /\ Frag(path) \in Segments /\ Frag(path) = Base(path)
<1>1. SubSeq(path, 1, 0) = << >>
  BY SubSeqEmpty
<1>2. ASSUME path # Root
      PROVE  Len(path) - 1 \in Nat /\ Len(path) \in 1..Len(path)
  BY <1>2 DEF Root
<1>3. ASSUME path # Root
      PROVE  path[Len(path)] \in Segments
  BY <1>2, <1>3
<1> QED BY <1>1, <1>2, <1>3 DEF Root, Parent, Frag, Last, Base

\* A path is its parent and its last segment.
LEMMA SamePath ==
  ASSUME NEW p \in Seq(Segments), NEW q \in Seq(Segments), p # Root, q # Root,
         Parent(p) = Parent(q), Frag(p) = Frag(q)
  PROVE  p = q
<1>1. Len(p) \in Nat /\ Len(q) \in Nat
  BY LenProperties
<1>2. /\ Len(Parent(p)) = Len(p) - 1 /\ \A i \in 1..(Len(p) - 1) : Parent(p)[i] = p[i]
      /\ Len(Parent(q)) = Len(q) - 1 /\ \A i \in 1..(Len(q) - 1) : Parent(q)[i] = q[i]
  BY ParentAbove
<1>3. Len(p) = Len(q)
  BY <1>1, <1>2
<1>4. p[Len(p)] = q[Len(q)]
  BY DEF Frag, Last
<1>5. \A i \in 1..Len(p) : p[i] = q[i]
  <2> SUFFICES ASSUME NEW i \in 1..Len(p) PROVE p[i] = q[i]
    OBVIOUS
  <2>1. CASE i = Len(p)
    BY <1>3, <1>4, <2>1
  <2>2. CASE i # Len(p)
    <3>1. i \in 1..(Len(p) - 1) /\ i \in 1..(Len(q) - 1)
      BY <1>1, <1>3, <2>2
    <3> QED BY <1>2, <3>1
  <2> QED BY <2>1, <2>2
<1> QED BY <1>3, <1>5, SeqEqual

\* The tree has the parents of its paths, up to the root.
LEMMA ShowsAncestors ==
  ASSUME NEW T, NEW c, Shows(T, c), NEW q \in DOMAIN T, NEW p \in Seq(Segments), AtOrAbove(p, q)
  PROVE  p \in DOMAIN T
<1> DEFINE n == Len(q)
           K == {k \in 0..n : \A x \in DOMAIN T : Len(x) = k /\ AtOrAbove(p, x) => p \in DOMAIN T}
<1>1. n \in Nat /\ DOMAIN T \subseteq Seq(Segments)
  BY LenProperties DEF Shows
<1>2. ASSUME NEW x \in DOMAIN T, AtOrAbove(p, x), x # Root
      PROVE  p = x \/ (Parent(x) \in DOMAIN T /\ AtOrAbove(p, Parent(x)) /\ Len(Parent(x)) = Len(x) - 1)
  <2>1. x \in Seq(Segments) /\ Parent(x) \in DOMAIN T
    BY <1>1, <1>2 DEF Shows
  <2>2. Len(Parent(x)) = Len(x) - 1
    BY <1>2, <2>1, ParentAbove
  <2>3. p # x => AtOrAbove(p, Parent(x))
    BY <1>2, <2>1, AboveParent DEF Above
  <2> QED BY <2>1, <2>2, <2>3
<1>3. 0 \in K
  <2>1. ASSUME NEW x \in DOMAIN T, Len(x) = 0, AtOrAbove(p, x)
        PROVE  p \in DOMAIN T
    <3>1. x \in Seq(Segments) /\ Len(p) \in Nat
      BY <1>1, LenProperties
    <3>2. Len(p) = 0
      BY <2>1, <3>1 DEF AtOrAbove
    <3>3. p = x
      BY <2>1, <3>1, <3>2
    <3> QED BY <3>3
  <2> QED BY <1>1, <2>1
<1>4. ASSUME NEW k \in 1..n, k - 1 \in K
      PROVE  k \in K
  <2>1. ASSUME NEW x \in DOMAIN T, Len(x) = k, AtOrAbove(p, x)
        PROVE  p \in DOMAIN T
    <3>1. x # Root
      BY <1>1, <2>1 DEF Root
    <3>2. CASE p = x
      BY <3>2
    <3>3. CASE Parent(x) \in DOMAIN T /\ AtOrAbove(p, Parent(x)) /\ Len(Parent(x)) = Len(x) - 1
      BY <1>4, <2>1, <3>3
    <3> QED BY <1>2, <2>1, <3>1, <3>2, <3>3
  <2>2. k \in 0..n
    BY <1>1
  <2> QED BY <2>1, <2>2
<1> HIDE DEF K
<1>5. \A k \in 0..n : k \in K
  BY <1>1, <1>3, <1>4, UpTo
<1>6. n \in K
  BY <1>1, <1>5
<1> QED BY <1>6 DEF K

\* The members of the nodes leave no choice for the map.
LEMMA ShowsOne ==
  ASSUME NEW T, NEW U, NEW c, Shows(T, c), Shows(U, c)
  PROVE  T = U
<1>1. ASSUME NEW q \in Seq(Segments)
      PROVE  SameAt(T, U, q)
  <2> DEFINE n == Len(q)
             K == {k \in 0..n : \A x \in Seq(Segments) : Len(x) = k => SameAt(T, U, x)}
  <2>1. n \in Nat
    BY LenProperties
  <2>2. 0 \in K
    <3>1. ASSUME NEW x \in Seq(Segments), Len(x) = 0
          PROVE  SameAt(T, U, x)
      <4>1. x = Root
        BY <3>1 DEF Root
      <4> QED BY <4>1 DEF Shows, SameAt
    <3> QED BY <2>1, <3>1
  <2>3. ASSUME NEW k \in 1..n, k - 1 \in K
        PROVE  k \in K
    <3>1. ASSUME NEW x \in Seq(Segments), Len(x) = k
          PROVE  SameAt(T, U, x)
      <4>1. x # Root
        BY <2>1, <3>1 DEF Root
      <4>2. Parent(x) \in Seq(Segments) /\ Len(Parent(x)) = k - 1
        BY <3>1, <4>1, ParentAbove
      <4>3. SameAt(T, U, Parent(x))
        BY <2>3, <4>2
      <4> QED BY <4>1, <4>3 DEF Shows, SameAt
    <3>2. k \in 0..n
      BY <2>1
    <3> QED BY <3>1, <3>2
  <2> HIDE DEF K
  <2>4. \A k \in 0..n : k \in K
    BY <2>1, <2>2, <2>3, UpTo
  <2>5. n \in K
    BY <2>1, <2>4
  <2> QED BY <2>5 DEF K
<1>2. DOMAIN T = DOMAIN U
  BY <1>1 DEF SameAt, Shows
<1>3. \A q \in DOMAIN T : T[q] = U[q]
  BY <1>1 DEF SameAt, Shows
<1>4. T = [q \in DOMAIN T |-> T[q]] /\ U = [q \in DOMAIN U |-> U[q]]
  BY DEF Shows
<1> QED BY <1>2, <1>3, <1>4

-----------------------------------------------------------------------------
(* What find says of the tree *)

(* A prefix of the path is a file. *)
FileOnTheWay(T, path) ==
  \E i \in 1..(Len(path) - 1) :
    SubSeq(path, 1, i) \in DOMAIN T /\ ~isDir[T[SubSeq(path, 1, i)]]

(* The parent of the path is a directory. *)
HasPlace(T, path) == Parent(path) \in DOMAIN T /\ isDir[T[Parent(path)]]

\* A path goes on from a directory only.
LEMMA ShowsStep ==
  ASSUME NodesOK, NEW T, Shows(T, children), PathsToNodes(T, Nodes),
         NEW path \in Seq(Segments), NEW i \in 1..Len(path)
  PROVE  LET p == SubSeq(path, 1, i - 1)
             q == SubSeq(path, 1, i)
         IN  /\ q \in DOMAIN T <=> p \in DOMAIN T /\ path[i] \in DOMAIN children[T[p]]
             /\ q \in DOMAIN T => /\ T[q] = children[T[p]][path[i]] /\ T[q] \in Nodes
                                  /\ isDir[T[p]]
<1> DEFINE p == SubSeq(path, 1, i - 1)
           q == SubSeq(path, 1, i)
<1>1. q \in Seq(Segments) /\ q # Root /\ Parent(q) = p /\ Frag(q) = path[i]
  BY PathPrefix
<1> HIDE DEF p, q
<1>2. /\ q \in DOMAIN T <=> p \in DOMAIN T /\ path[i] \in DOMAIN children[T[p]]
      /\ q \in DOMAIN T => T[q] = children[T[p]][path[i]]
  BY <1>1 DEF Shows
<1>3. q \in DOMAIN T => T[q] \in Nodes /\ isDir[T[p]]
  BY <1>2 DEF PathsToNodes, NodesOK
<1> QED BY <1>2, <1>3 DEF p, q

\* find returns the node of the parent, or says what the path runs into.
LEMMA FindTells ==
  ASSUME NodesOK, NEW T, Shows(T, children), PathsToNodes(T, Nodes),
         NEW path \in Seq(Segments), path # Root
  PROVE  IF HasPlace(T, path) THEN Find(path) = T[Parent(path)]
         ELSE Find(path) = IF FileOnTheWay(T, path) THEN Invalid ELSE NotExist
<1> DEFINE n == Len(path) - 1
           at(i) == SubSeq(path, 1, i)
<1>1. PICK f \in [0..n -> Dirs \cup {NotExist, Invalid}] :
        f[0] = Top /\ (\A i \in 1..n : f[i] = Step(f[i - 1], path[i])) /\ Find(path) = f[n]
  BY FindIsWalk
<1>2. n \in Nat /\ at(0) = Root /\ at(n) = Parent(path) /\ n <= Len(path)
  BY PrefixEnds
<1> DEFINE Files(i) == \E j \in 1..i : at(j) \in DOMAIN T /\ ~isDir[T[at(j)]]
           Place(i) == at(i) \in DOMAIN T /\ isDir[T[at(i)]]
           K == {i \in 0..n : IF Place(i) THEN f[i] = T[at(i)] /\ ~Files(i)
                              ELSE f[i] = IF Files(i) THEN Invalid ELSE NotExist}
<1>3. 0 \in K
  <2>1. at(0) \in DOMAIN T /\ T[at(0)] = Top
    BY <1>2 DEF Shows
  <2>2. isDir[Top]
    BY DEF NodesOK, Dirs
  <2>3. 0 \in 0..n /\ ~Files(0)
    BY <1>2
  <2> QED BY <1>1, <2>1, <2>2, <2>3
<1>4. ASSUME NEW i \in 1..n, i - 1 \in K
      PROVE  i \in K
  <2> DEFINE p == at(i - 1)
             q == at(i)
  <2>1. i \in 1..Len(path) /\ i \in 0..n /\ i - 1 \in 0..n
    BY <1>2
  <2>2. /\ q \in DOMAIN T <=> p \in DOMAIN T /\ path[i] \in DOMAIN children[T[p]]
        /\ q \in DOMAIN T => T[q] = children[T[p]][path[i]] /\ T[q] \in Nodes /\ isDir[T[p]]
    BY <2>1, ShowsStep
  <2>3. f[i] = Step(f[i - 1], path[i])
    BY <1>1
  <2>4. Files(i) <=> Files(i - 1) \/ (q \in DOMAIN T /\ ~isDir[T[q]])
    <3>1. \A j : j \in 1..i <=> j \in 1..(i - 1) \/ j = i
      BY <2>1
    <3> HIDE DEF at
    <3> QED BY <3>1
  <2>5. IF Place(i - 1) THEN f[i - 1] = T[p] /\ ~Files(i - 1)
        ELSE f[i - 1] = IF Files(i - 1) THEN Invalid ELSE NotExist
    BY <1>4
  <2>6. p \in DOMAIN T => T[p] \in Nodes /\ ~(T[p] < 0)
    BY NodesAre DEF PathsToNodes
  <2>7. Place(i - 1) <=> p \in DOMAIN T /\ isDir[T[p]]
    OBVIOUS
  <2>8. Place(i) <=> q \in DOMAIN T /\ isDir[T[q]]
    OBVIOUS
  <2> HIDE DEF p, q, at, Files, Place
  <2>9. IF Place(i) THEN f[i] = T[q] /\ ~Files(i)
        ELSE f[i] = IF Files(i) THEN Invalid ELSE NotExist
    <3>1. CASE Place(i - 1) /\ q \in DOMAIN T
      BY <2>2, <2>3, <2>4, <2>5, <2>6, <2>7, <2>8, <3>1 DEF Step
    <3>2. CASE Place(i - 1) /\ q \notin DOMAIN T
      BY <2>2, <2>3, <2>4, <2>5, <2>6, <2>7, <2>8, <3>2 DEF Step
    <3>3. CASE ~Place(i - 1)
      <4>1. f[i] = f[i - 1]
        BY <2>3, <2>5, <3>3 DEF Step, Invalid, NotExist
      <4> QED BY <2>2, <2>4, <2>5, <2>7, <2>8, <3>3, <4>1
    <3> QED BY <3>1, <3>2, <3>3
  <2> QED BY <2>1, <2>9 DEF q
<1> HIDE DEF K
<1>5. \A i \in 0..n : i \in K
  BY <1>2, <1>3, <1>4, UpTo
<1>6. n \in K
  BY <1>2, <1>5
<1>7. IF Place(n) THEN f[n] = T[at(n)] ELSE f[n] = IF Files(n) THEN Invalid ELSE NotExist
  BY <1>6 DEF K
<1>8. (Place(n) <=> HasPlace(T, path)) /\ (Files(n) <=> FileOnTheWay(T, path))
  BY <1>2 DEF HasPlace, FileOnTheWay
<1> QED BY <1>1, <1>2, <1>7, <1>8

\* The path leads to the node that the map says, or nowhere.
LEMMA LookupTells ==
  ASSUME NodesOK, NEW T, Shows(T, children), PathsToNodes(T, Nodes), NEW path \in Seq(Segments)
  PROVE  /\ path \in DOMAIN T => Lookup(path) = T[path] /\ T[path] > 0
         /\ path \notin DOMAIN T => Lookup(path) = NotExist
<1>1. CASE path = Root
  BY <1>1 DEF Shows, Lookup, Top
<1>2. CASE path # Root
  <2> DEFINE d == T[Parent(path)]
  <2>1. IF HasPlace(T, path) THEN Find(path) = d
        ELSE Find(path) \in {Invalid, NotExist}
    BY <1>2, FindTells
  <2>2. /\ path \in DOMAIN T <=> Parent(path) \in DOMAIN T /\ Frag(path) \in DOMAIN children[d]
        /\ path \in DOMAIN T => T[path] = children[d][Frag(path)]
    BY <1>2 DEF Shows
  <2>3. Parent(path) \in DOMAIN T => d \in Nodes /\ d > 0
    BY NodesAre DEF PathsToNodes
  <2>4. path \in DOMAIN T => isDir[d] /\ T[path] > 0
    BY <2>2, <2>3, NodesAre DEF NodesOK
  <2> HIDE DEF d
  <2>5. CASE HasPlace(T, path)
    BY <1>2, <2>1, <2>2, <2>3, <2>4, <2>5 DEF HasPlace, Lookup
  <2>6. CASE ~HasPlace(T, path)
    <3>1. path \notin DOMAIN T
      BY <2>2, <2>4, <2>6 DEF HasPlace, d
    <3>2. ~(Find(path) > 0)
      BY <2>1, <2>6 DEF Invalid, NotExist
    <3> QED BY <1>2, <3>1, <3>2 DEF Lookup
  <2> QED BY <2>5, <2>6
<1> QED BY <1>1, <1>2

(* PathsOf is the one map that the nodes show. *)
PathsOfIsShown == \A T : NodesOK /\ Shows(T, children) /\ PathsToNodes(T, Nodes) => PathsOf = T

\* The paths that are walked from the top are the tree.
LEMMA PathsOfShown == PathsOfIsShown
<1> SUFFICES ASSUME NodesOK, NEW T, Shows(T, children), PathsToNodes(T, Nodes)
             PROVE  PathsOf = T
  BY DEF PathsOfIsShown
<1> DEFINE node == [q \in AllPaths |-> Lookup(q)]
           D    == {q \in AllPaths : node[q] > 0}
<1>1. PathsOf = [path \in D |-> node[path]]
  BY DEF PathsOf
<1>2. \A q : q \in AllPaths <=> q \in Seq(Segments) /\ Len(q) <= MaxDepth
  <2>1. ASSUME NEW q \in AllPaths
        PROVE  q \in Seq(Segments) /\ Len(q) <= MaxDepth
    <3>1. PICK m \in 0..MaxDepth : q \in [1..m -> Segments]
      BY DEF AllPaths, BoundedSeq, SeqOf
    <3>2. m \in Nat /\ m <= MaxDepth
      BY SizeAssumption
    <3>3. q \in Seq(Segments) /\ Len(q) = m
      BY <3>1, <3>2
    <3> QED BY <3>2, <3>3
  <2>2. ASSUME NEW q \in Seq(Segments), Len(q) <= MaxDepth
        PROVE  q \in AllPaths
    <3>1. Len(q) \in 0..MaxDepth /\ q \in [1..Len(q) -> Segments]
      BY <2>2, SizeAssumption
    <3> QED BY <3>1 DEF AllPaths, BoundedSeq, SeqOf
  <2> QED BY <2>1, <2>2
<1>3. \A q \in AllPaths : node[q] = Lookup(q)
  OBVIOUS
<1>4. DOMAIN T \subseteq AllPaths
  BY <1>2 DEF Shows, PathsToNodes
<1>5. \A q \in AllPaths : /\ q \in DOMAIN T => Lookup(q) = T[q] /\ T[q] > 0
                          /\ q \notin DOMAIN T => Lookup(q) = NotExist
  BY <1>2, LookupTells
<1> HIDE DEF node
<1>6. D = DOMAIN T
  BY <1>3, <1>4, <1>5 DEF NotExist
<1> HIDE DEF D
<1>7. \A q \in D : node[q] = T[q]
  BY <1>3, <1>4, <1>5, <1>6
<1>8. T = [q \in DOMAIN T |-> T[q]]
  BY DEF Shows
<1> QED BY <1>1, <1>6, <1>7, <1>8

\* And so they are after a step.
LEMMA PathsOfShownNext == PathsOfIsShown'
BY PathsOfShown, PTL

(* What a call of the tree makes of the paths. *)
PathsFollow == IF children' = children THEN UNCHANGED paths ELSE paths' = PathsOf'

\* After a call the paths are the map that the nodes show.
LEMMA PathsAreShown ==
  ASSUME TreeInv, NodesOK', PathsFollow, NEW T, Shows(T, children'), PathsToNodes(T, Nodes')
  PROVE  paths' = T
<1>1. CASE children' = children
  <2>1. paths' = paths
    BY <1>1 DEF PathsFollow
  <2>2. Shows(paths, children')
    BY <1>1 DEF TreeInv
  <2> QED BY <2>1, <2>2, ShowsOne
<1>2. CASE children' # children
  <2>1. paths' = PathsOf'
    BY <1>2 DEF PathsFollow
  <2>2. (NodesOK' /\ Shows(T, children') /\ PathsToNodes(T, Nodes')) => PathsOf' = T
    BY PathsOfShownNext DEF PathsOfIsShown
  <2> QED BY <2>1, <2>2
<1> QED BY <1>1, <1>2

-----------------------------------------------------------------------------
(* The edits of the nodes are the edits of the tree *)

\* In a tree, a member of the parent's node is a path or is missing, and no other
\* path has that parent's node.
LEMMA ShowsPlace ==
  ASSUME TreeInv, NEW path \in Seq(Segments), path # Root, Parent(path) \in DOMAIN paths,
         NEW q \in Seq(Segments), q # Root, Parent(q) \in DOMAIN paths
  PROVE  /\ paths[Parent(path)] = paths[Parent(q)] /\ Frag(path) = Frag(q) => q = path
         /\ path \in DOMAIN paths <=> Frag(path) \in DOMAIN children[paths[Parent(path)]]
<1>1. paths[Parent(path)] = paths[Parent(q)] => Parent(path) = Parent(q)
  BY DEF TreeInv, OneToOne
<1>2. Parent(path) = Parent(q) /\ Frag(path) = Frag(q) => q = path
  BY SamePath
<1> QED BY <1>1, <1>2 DEF TreeInv, Shows

\* A node that is added is a path that is added.
LEMMA GrownShows ==
  ASSUME TreeInv, NEW path \in Seq(Segments), path # Root, Len(path) <= MaxDepth,
         Parent(path) \in DOMAIN paths, path \notin DOMAIN paths,
         NodesOK', NEW directory, Grown(paths[Parent(path)], Frag(path), directory)
  PROVE  LET T == Linked(paths, path, Len(isDir) + 1)
         IN  Shows(T, children') /\ PathsToNodes(T, Nodes') /\ OneToOne(T)
<1> DEFINE new == Len(isDir) + 1
           dir == paths[Parent(path)]
           T   == Linked(paths, path, new)
<1>1. /\ NodesOK /\ Shows(paths, children) /\ PathsToNodes(paths, Nodes) /\ OneToOne(paths)
      /\ dir \in Nodes
  BY DEF TreeInv, PathsToNodes
<1>2. /\ T = [q \in DOMAIN T |-> T[q]] /\ DOMAIN T = DOMAIN paths \cup {path}
      /\ T[path] = new /\ \A q \in DOMAIN paths : T[q] = paths[q]
  BY DEF Linked
<1>3. /\ Nodes' = Nodes \cup {new} /\ new \notin Nodes
      /\ DOMAIN children'[new] = {}
      /\ \A n \in Nodes \ {dir} : children'[n] = children[n]
  BY NoMembersMap DEF Grown
<1>4. /\ DOMAIN children'[dir] = DOMAIN children[dir] \cup {Frag(path)}
      /\ children'[dir][Frag(path)] = new
      /\ \A s \in DOMAIN children[dir] : s # Frag(path) => children'[dir][s] = children[dir][s]
  <2>1. children[dir] \in MemberMaps /\ Frag(path) \in Segments /\ new \in Nat
    BY <1>1, NodesAre, PrefixEnds
  <2>2. children'[dir] = With(children[dir], Frag(path), new)
    BY DEF Grown
  <2> DEFINE m == children[dir]
             s == Frag(path)
  <2>3. m \in MemberMaps /\ s \in Segments /\ children'[dir] = With(m, s, new)
    BY <2>1, <2>2
  <2> HIDE DEF dir, new, m, s
  <2>4. /\ DOMAIN With(m, s, new) = DOMAIN m \cup {s} /\ With(m, s, new)[s] = new
        /\ \A t \in DOMAIN m : t # s => With(m, s, new)[t] = m[t]
    BY <2>1, <2>3, WithMember
  <2> QED BY <2>3, <2>4 DEF m, s
<1> HIDE DEF T, new, dir
<1>5. Root \in DOMAIN T /\ T[Root] = Top /\ DOMAIN T \subseteq Seq(Segments)
  BY <1>1, <1>2 DEF Shows
<1>6. ASSUME NEW q \in Seq(Segments), q # Root
      PROVE  /\ q \in DOMAIN T <=> Parent(q) \in DOMAIN T /\ Frag(q) \in DOMAIN children'[T[Parent(q)]]
             /\ q \in DOMAIN T => T[q] = children'[T[Parent(q)]][Frag(q)]
  <2>1. CASE Parent(q) = path
    <3>1. Above(path, q) /\ q # path
      BY <1>6, <2>1, ParentAbove DEF Above
    <3>2. q \notin DOMAIN paths
      BY <1>1, <1>6, <2>1 DEF Shows
    <3> QED BY <1>2, <1>3, <2>1, <3>1, <3>2
  <2>2. CASE Parent(q) # path /\ Parent(q) \notin DOMAIN paths
    <3>1. q \notin DOMAIN paths /\ q # path
      BY <1>1, <1>6, <2>2 DEF Shows
    <3> QED BY <1>2, <2>2, <3>1
  <2>3. CASE Parent(q) # path /\ Parent(q) \in DOMAIN paths /\ q # path
    <3> DEFINE m == paths[Parent(q)]
    <3>1. T[Parent(q)] = m /\ m \in Nodes /\ (q \in DOMAIN T <=> q \in DOMAIN paths)
      BY <1>1, <1>2, <2>3 DEF PathsToNodes
    <3>2. m = dir => Frag(q) # Frag(path)
      BY <1>6, <2>3, ShowsPlace DEF dir
    <3>3. /\ q \in DOMAIN paths <=> Frag(q) \in DOMAIN children[m]
          /\ q \in DOMAIN paths => T[q] = children[m][Frag(q)]
      BY <1>1, <1>2, <1>6, <2>3 DEF Shows
    <3> HIDE DEF m
    <3>4. /\ Frag(q) \in DOMAIN children'[m] <=> Frag(q) \in DOMAIN children[m]
          /\ Frag(q) \in DOMAIN children[m] => children'[m][Frag(q)] = children[m][Frag(q)]
      BY <1>3, <1>4, <3>1, <3>2
    <3> QED BY <1>2, <2>3, <3>1, <3>3, <3>4
  <2>4. CASE q = path
    <3>1. Parent(q) \in DOMAIN T /\ T[Parent(q)] = dir
      BY <1>2, <2>4 DEF dir
    <3> QED BY <1>2, <1>4, <2>4, <3>1
  <2> QED BY <2>1, <2>2, <2>3, <2>4
<1>7. Shows(T, children')
  BY <1>2, <1>5, <1>6 DEF Shows
<1>8. PathsToNodes(T, Nodes')
  BY <1>1, <1>2, <1>3 DEF PathsToNodes
<1>9. OneToOne(T)
  BY <1>1, <1>2, <1>3 DEF OneToOne, PathsToNodes
<1> QED BY <1>7, <1>8, <1>9 DEF T, new

\* A member that goes is a path that goes, with all that was under it.
LEMMA OneLessShows ==
  ASSUME TreeInv, NEW path \in Seq(Segments), path # Root, Parent(path) \in DOMAIN paths,
         UNCHANGED isDir, OneLess(children', paths[Parent(path)], Frag(path))
  PROVE  LET T == Without(paths, path)
         IN  Shows(T, children') /\ PathsToNodes(T, Nodes') /\ OneToOne(T)
<1> DEFINE dir == paths[Parent(path)]
           T   == Without(paths, path)
<1>1. NodesOK /\ Shows(paths, children) /\ PathsToNodes(paths, Nodes) /\ OneToOne(paths)
  BY DEF TreeInv
<1>2. /\ T = [q \in DOMAIN T |-> T[q]] /\ \A q \in DOMAIN T : T[q] = paths[q]
      /\ \A q : q \in DOMAIN T <=> q \in DOMAIN paths /\ ~AtOrAbove(path, q)
  BY DEF Without, Restrict
<1>3. /\ \A n \in Nodes : \A s :
           s \in DOMAIN children'[n] <=> s \in DOMAIN children[n] /\ ~(n = dir /\ s = Frag(path))
      /\ \A n \in Nodes : \A s \in DOMAIN children'[n] : children'[n][s] = children[n][s]
  BY DEF OneLess
<1> HIDE DEF T
<1>4. Root \in DOMAIN T /\ T[Root] = Top /\ DOMAIN T \subseteq Seq(Segments)
  <2>1. ~AtOrAbove(path, Root)
    <3>1. Len(path) \in Nat /\ Len(path) # 0 /\ Len(Root) = 0
      BY DEF Root
    <3> QED BY <3>1 DEF AtOrAbove
  <2> QED BY <1>1, <1>2, <2>1 DEF Shows
<1>5. ASSUME NEW q \in Seq(Segments), q # Root
      PROVE  /\ q \in DOMAIN T <=> Parent(q) \in DOMAIN T /\ Frag(q) \in DOMAIN children'[T[Parent(q)]]
             /\ q \in DOMAIN T => T[q] = children'[T[Parent(q)]][Frag(q)]
  <2>0. Parent(q) \in Seq(Segments) /\ Above(Parent(q), q) /\ AtOrAbove(Parent(q), q)
    BY <1>5, ParentAbove DEF Above
  <2>1. CASE Parent(q) \notin DOMAIN paths
    <3>1. q \notin DOMAIN paths
      BY <1>1, <1>5, <2>1 DEF Shows
    <3> QED BY <1>2, <2>1, <3>1
  <2>2. CASE AtOrAbove(path, Parent(q))
    <3>1. AtOrAbove(path, q)
      BY <2>0, <2>2, AtOrAboveTransitive
    <3> QED BY <1>2, <2>2, <3>1
  <2>3. CASE Parent(q) \in DOMAIN paths /\ ~AtOrAbove(path, Parent(q))
    <3> DEFINE m == paths[Parent(q)]
    <3>1. Parent(q) \in DOMAIN T /\ T[Parent(q)] = m /\ m \in Nodes
      BY <1>1, <1>2, <2>3 DEF PathsToNodes
    <3>2. AtOrAbove(path, q) <=> q = path
      <4>1. Above(path, q) => AtOrAbove(path, Parent(q))
        BY <1>5, AboveParent
      <4> QED BY <2>3, <4>1, AtOrAboveReflexive DEF Above
    <3>3. m = dir /\ Frag(q) = Frag(path) <=> q = path
      BY <1>5, <2>3, ShowsPlace DEF dir
    <3>4. /\ q \in DOMAIN paths <=> Frag(q) \in DOMAIN children[m]
          /\ q \in DOMAIN paths => paths[q] = children[m][Frag(q)]
      BY <1>1, <1>5, <2>3 DEF Shows
    <3> HIDE DEF m, dir
    <3> QED BY <1>2, <1>3, <3>1, <3>2, <3>3, <3>4
  <2> QED BY <2>1, <2>2, <2>3
<1>6. Shows(T, children')
  BY <1>2, <1>4, <1>5 DEF Shows
<1>7. PathsToNodes(T, Nodes')
  BY <1>1, <1>2 DEF PathsToNodes, Nodes
<1>8. OneToOne(T)
  BY <1>1, <1>2 DEF OneToOne
<1> QED BY <1>6, <1>7, <1>8 DEF T

(* The map when old has moved to new and has replaced what was there. *)
Replacement(old, new) ==
  MovedTree(Restrict(paths, {q \in DOMAIN paths : AtOrAbove(old, q) \/ ~AtOrAbove(new, q)}),
            old, new)

\* What is under the new path was under the old one; the rest was where it is.
LEMMA ReplacementPaths ==
  ASSUME TreeInv, NEW old \in Seq(Segments), NEW new \in Seq(Segments), NEW x \in Seq(Segments)
  PROVE  LET T == Replacement(old, new)
             y == Rebase(x, new, old)
         IN  /\ AtOrAbove(new, x) =>
                  /\ x \in DOMAIN T <=> y \in DOMAIN paths
                  /\ x \in DOMAIN T => T[x] = paths[y]
             /\ ~AtOrAbove(new, x) =>
                  /\ x \in DOMAIN T <=> x \in DOMAIN paths /\ ~AtOrAbove(old, x)
                  /\ x \in DOMAIN T => T[x] = paths[x]
<1> DEFINE K == {q \in DOMAIN paths : AtOrAbove(old, q) \/ ~AtOrAbove(new, q)}
           m == Restrict(paths, K)
           moved == {Rebase(q, old, new) : q \in {r \in DOMAIN m : AtOrAbove(old, r)}}
           kept  == {q \in DOMAIN m : ~AtOrAbove(old, q)}
           T     == [q \in kept \cup moved |-> IF q \in moved THEN m[Rebase(q, new, old)] ELSE m[q]]
<1>1. Replacement(old, new) = T
  BY DEF Replacement, MovedTree
<1>2. /\ DOMAIN m = K /\ \A q \in K : m[q] = paths[q]
      /\ DOMAIN paths \subseteq Seq(Segments)
  BY DEF Restrict, TreeInv, Shows
<1>3. \A q : q \in kept <=> q \in DOMAIN paths /\ ~AtOrAbove(old, q) /\ ~AtOrAbove(new, q)
  BY <1>2
<1>4. x \in moved <=> AtOrAbove(new, x) /\ Rebase(x, new, old) \in DOMAIN paths
  <2>1. ASSUME x \in moved
        PROVE  AtOrAbove(new, x) /\ Rebase(x, new, old) \in DOMAIN paths
    <3>1. PICK q \in K : AtOrAbove(old, q) /\ x = Rebase(q, old, new)
      BY <1>2, <2>1
    <3> HIDE DEF m, moved
    <3> QED BY <1>2, <3>1, RebaseBack
  <2>2. ASSUME AtOrAbove(new, x), Rebase(x, new, old) \in DOMAIN paths
        PROVE  x \in moved
    <3> DEFINE q == Rebase(x, new, old)
    <3>1. AtOrAbove(old, q) /\ Rebase(q, old, new) = x
      BY <2>2, RebaseBack
    <3> HIDE DEF q
    <3>2. q \in K
      BY <2>2, <3>1 DEF q
    <3>3. q \in DOMAIN m
      BY <1>2, <3>2
    <3> QED BY <3>1, <3>3
  <2> QED BY <2>1, <2>2
<1>5. ASSUME x \in moved
      PROVE  T[x] = paths[Rebase(x, new, old)]
  <2>1. AtOrAbove(new, x) /\ Rebase(x, new, old) \in DOMAIN paths
    BY <1>4, <1>5
  <2>2. AtOrAbove(old, Rebase(x, new, old))
    BY <2>1, RebaseBack
  <2>3. m[Rebase(x, new, old)] = paths[Rebase(x, new, old)]
    BY <1>2, <2>1, <2>2
  <2>4. T[x] = m[Rebase(x, new, old)]
    BY <1>5
  <2> QED BY <2>3, <2>4
<1>6. ASSUME x \in kept, x \notin moved
      PROVE  T[x] = paths[x]
  <2>1. T[x] = m[x]
    BY <1>6
  <2> QED BY <1>2, <1>6, <2>1
<1>7. DOMAIN T = kept \cup moved
  OBVIOUS
<1> HIDE DEF T, kept, moved, m, K
<1> QED BY <1>1, <1>3, <1>4, <1>5, <1>6, <1>7

\* The map when a path has moved is a function on paths, and has each node once.
LEMMA ReplacementNodes ==
  ASSUME TreeInv, NEW old \in Seq(Segments), NEW new \in Seq(Segments)
  PROVE  LET T == Replacement(old, new)
         IN  /\ T = [q \in DOMAIN T |-> T[q]] /\ DOMAIN T \subseteq Seq(Segments)
             /\ OneToOne(T)
<1> DEFINE m == Restrict(paths, {q \in DOMAIN paths : AtOrAbove(old, q) \/ ~AtOrAbove(new, q)})
           T == MovedTree(m, old, new)
<1>1. DOMAIN m \subseteq DOMAIN paths /\ \A q \in DOMAIN m : m[q] = paths[q]
  BY DEF Restrict
<1>2. DOMAIN m \subseteq Seq(Segments) /\ OneToOne(m)
  <2>1. DOMAIN paths \subseteq Seq(Segments) /\ OneToOne(paths)
    BY DEF TreeInv, Shows
  <2> HIDE DEF m
  <2> QED BY <1>1, <2>1 DEF OneToOne
<1> HIDE DEF m
<1>3. /\ T = [x \in DOMAIN T |-> T[x]]
      /\ \A x \in DOMAIN T :
           \/ x \in DOMAIN m /\ ~AtOrAbove(old, x) /\ T[x] = m[x]
           \/ \E q \in DOMAIN m : AtOrAbove(old, q) /\ x = Rebase(q, old, new) /\ T[x] = m[q]
  BY <1>2, MovedTreeOrigins
<1>4. OneToOne(T)
  BY <1>2, MovedTreeKeepsFiles
<1> HIDE DEF T
<1>5. DOMAIN T \subseteq Seq(Segments)
  BY <1>2, <1>3, RebaseBack
<1>6. Replacement(old, new) = T
  BY DEF Replacement, T, m
<1> QED BY <1>3, <1>4, <1>5, <1>6

\* A member that moves is a path that moves, with all that is under it, and what
\* was at the new path and below is gone.
LEMMA OneMovedShows ==
  ASSUME TreeInv, UNCHANGED isDir,
         NEW old \in DOMAIN paths, NEW new \in Seq(Segments), old # Root, new # Root,
         Parent(new) \in DOMAIN paths, ~AtOrAbove(old, new),
         \A q \in DOMAIN paths : AtOrAbove(old, q) => Len(Rebase(q, old, new)) <= MaxDepth,
         OneMoved(children', paths[Parent(old)], Frag(old), paths[Parent(new)], Frag(new))
  PROVE  LET T == Replacement(old, new)
         IN  Shows(T, children') /\ PathsToNodes(T, Nodes') /\ OneToOne(T)
<1> DEFINE oDir == paths[Parent(old)]
           nDir == paths[Parent(new)]
           node == children[oDir][Frag(old)]
           T    == Replacement(old, new)
           back(x) == Rebase(x, new, old)
<1>1. /\ NodesOK /\ Shows(paths, children) /\ PathsToNodes(paths, Nodes) /\ OneToOne(paths)
      /\ old \in Seq(Segments) /\ DOMAIN paths \subseteq Seq(Segments)
  BY DEF TreeInv, Shows
<1>2. Parent(old) \in DOMAIN paths /\ paths[old] = node /\ Frag(old) \in DOMAIN children[oDir]
  BY <1>1 DEF Shows
<1>3. /\ \A n \in Nodes : \A s :
           s \in DOMAIN children'[n] <=>
             \/ s \in DOMAIN children[n] /\ ~(n = oDir /\ s = Frag(old))
             \/ n = nDir /\ s = Frag(new)
      /\ \A n \in Nodes : \A s \in DOMAIN children'[n] :
           children'[n][s] = IF n = nDir /\ s = Frag(new) THEN node ELSE children[n][s]
  BY DEF OneMoved
<1>4. /\ T = [q \in DOMAIN T |-> T[q]] /\ DOMAIN T \subseteq Seq(Segments) /\ OneToOne(T)
  BY <1>1, ReplacementNodes
<1>5. ASSUME NEW x \in Seq(Segments), AtOrAbove(new, x)
      PROVE  /\ x \in DOMAIN T <=> back(x) \in DOMAIN paths
             /\ x \in DOMAIN T => T[x] = paths[back(x)]
  BY <1>1, <1>5, ReplacementPaths
<1>6. ASSUME NEW x \in Seq(Segments), ~AtOrAbove(new, x)
      PROVE  /\ x \in DOMAIN T <=> x \in DOMAIN paths /\ ~AtOrAbove(old, x)
             /\ x \in DOMAIN T => T[x] = paths[x]
  BY <1>1, <1>6, ReplacementPaths
<1> HIDE DEF T, node
<1>7. ~AtOrAbove(old, Parent(new)) /\ ~AtOrAbove(new, Parent(new)) /\ Parent(new) \in Seq(Segments)
  <2>1. Parent(new) \in Seq(Segments) /\ Above(Parent(new), new)
    BY ParentAbove
  <2>2. ~AtOrAbove(old, Parent(new))
    BY <1>1, <2>1, AtOrAboveTransitive DEF Above
  <2>3. ~AtOrAbove(new, Parent(new))
    BY <2>1, AtOrAboveAntisymmetric DEF Above
  <2> QED BY <2>1, <2>2, <2>3
<1>8. Root \in DOMAIN T /\ T[Root] = Top
  <2>1. ASSUME NEW p \in Seq(Segments), p # Root PROVE ~AtOrAbove(p, Root)
    <3>1. Len(p) \in Nat /\ Len(p) # 0 /\ Len(Root) = 0
      BY <2>1 DEF Root
    <3> QED BY <3>1 DEF AtOrAbove
  <2>2. Root \in Seq(Segments)
    BY DEF Root
  <2> QED BY <1>1, <1>6, <2>1, <2>2 DEF Shows
<1>9. ASSUME NEW q \in Seq(Segments), q # Root
      PROVE  /\ q \in DOMAIN T <=> Parent(q) \in DOMAIN T /\ Frag(q) \in DOMAIN children'[T[Parent(q)]]
             /\ q \in DOMAIN T => T[q] = children'[T[Parent(q)]][Frag(q)]
  <2> DEFINE p == Parent(q)
  <2>1. p \in Seq(Segments) /\ AtOrAbove(p, q) /\ Frag(q) = Base(q)
    BY <1>9, ParentAbove, PrefixEnds DEF Above
  <2>2. CASE q = new
    <3>1. back(new) = old
      BY <1>1, RebaseOfPrefix
    <3>2. new \in DOMAIN T /\ T[new] = node
      BY <1>1, <1>2, <1>5, <3>1, AtOrAboveReflexive
    <3>3. p \in DOMAIN T /\ T[p] = nDir /\ nDir \in Nodes
      BY <1>1, <1>6, <1>7, <2>2 DEF PathsToNodes
    <3> HIDE DEF nDir
    <3>4. Frag(new) \in DOMAIN children'[nDir] /\ children'[nDir][Frag(new)] = node
      BY <1>3, <3>3
    <3> QED BY <2>2, <3>2, <3>3, <3>4
  <2>3. CASE Above(new, q)
    <3> DEFINE r == back(q)
    <3>1. AtOrAbove(new, p) /\ AtOrAbove(new, q)
      BY <1>9, <2>3, AboveParent DEF Above
    <3>2. /\ r # Root /\ Parent(r) = back(p) /\ Frag(r) = Frag(q)
          /\ r \in Seq(Segments) /\ AtOrAbove(old, Parent(r)) /\ Parent(r) \in Seq(Segments)
      <4>1. r # Root /\ Parent(r) = back(p) /\ Base(r) = Base(q)
        BY <1>1, <1>9, <2>3, RebaseBelow
      <4>2. r \in Seq(Segments) /\ back(p) \in Seq(Segments) /\ AtOrAbove(old, back(p))
        BY <1>1, <1>9, <2>1, <3>1, RebaseBack
      <4> HIDE DEF r
      <4>3. Frag(r) = Base(r)
        BY <4>1, <4>2, PrefixEnds
      <4> QED BY <2>1, <4>1, <4>2, <4>3
    <3>3. /\ q \in DOMAIN T <=> r \in DOMAIN paths
          /\ q \in DOMAIN T => T[q] = paths[r]
      BY <1>5, <3>1
    <3>4. /\ p \in DOMAIN T <=> Parent(r) \in DOMAIN paths
          /\ p \in DOMAIN T => T[p] = paths[Parent(r)]
      BY <1>5, <2>1, <3>1, <3>2
    <3> DEFINE k == paths[Parent(r)]
    <3>5. /\ r \in DOMAIN paths <=> Parent(r) \in DOMAIN paths /\ Frag(r) \in DOMAIN children[k]
          /\ r \in DOMAIN paths => paths[r] = children[k][Frag(r)]
      BY <1>1, <3>2 DEF Shows
    <3>6. Parent(r) \in DOMAIN paths => k \in Nodes /\ k # oDir /\ k # nDir
      <4>1. Parent(r) # Parent(old)
        <5>1. Above(Parent(old), old) /\ Parent(old) \in Seq(Segments)
          BY <1>1, ParentAbove
        <5>2. ~AtOrAbove(old, Parent(old))
          BY <1>1, <5>1, AtOrAboveAntisymmetric DEF Above
        <5> QED BY <3>2, <5>2
      <4>2. Parent(r) # Parent(new)
        BY <1>7, <3>2
      <4> QED BY <1>1, <1>2, <4>1, <4>2 DEF OneToOne, PathsToNodes
    <3> HIDE DEF r, k, oDir, nDir
    <3>7. Parent(r) \in DOMAIN paths =>
            /\ Frag(q) \in DOMAIN children'[k] <=> Frag(q) \in DOMAIN children[k]
            /\ Frag(q) \in DOMAIN children'[k] => children'[k][Frag(q)] = children[k][Frag(q)]
      BY <1>3, <3>6
    <3>8. T[p] = k \/ p \notin DOMAIN T
      BY <3>4 DEF k
    <3> HIDE DEF p
    <3> QED BY <3>2, <3>3, <3>4, <3>5, <3>7, <3>8 DEF p
  <2>4. CASE ~AtOrAbove(new, q)
    <3>1. ~AtOrAbove(new, p)
      BY <2>1, <2>4, AtOrAboveTransitive
    <3>2. AtOrAbove(old, q) <=> AtOrAbove(old, p) \/ q = old
      <4>1. AtOrAbove(old, p) => AtOrAbove(old, q)
        BY <1>1, <2>1, AtOrAboveTransitive
      <4>2. Above(old, q) => AtOrAbove(old, p)
        BY <1>1, AboveParent
      <4> QED BY <1>1, <4>1, <4>2, AtOrAboveReflexive DEF Above
    <3>3. /\ q \in DOMAIN T <=> q \in DOMAIN paths /\ ~AtOrAbove(old, q)
          /\ q \in DOMAIN T => T[q] = paths[q]
          /\ p \in DOMAIN T <=> p \in DOMAIN paths /\ ~AtOrAbove(old, p)
          /\ p \in DOMAIN T => T[p] = paths[p]
      BY <1>6, <2>1, <2>4, <3>1
    <3> DEFINE k == paths[p]
    <3>4. /\ q \in DOMAIN paths <=> p \in DOMAIN paths /\ Frag(q) \in DOMAIN children[k]
          /\ q \in DOMAIN paths => paths[q] = children[k][Frag(q)]
      BY <1>1, <1>9 DEF Shows
    <3>5. p \in DOMAIN paths =>
            /\ k \in Nodes
            /\ k = oDir /\ Frag(q) = Frag(old) <=> q = old
            /\ ~(k = nDir /\ Frag(q) = Frag(new))
      <4> SUFFICES ASSUME p \in DOMAIN paths
                   PROVE  /\ k \in Nodes
                          /\ k = oDir /\ Frag(q) = Frag(old) <=> q = old
                          /\ ~(k = nDir /\ Frag(q) = Frag(new))
        OBVIOUS
      <4>1. k \in Nodes
        BY <1>1 DEF PathsToNodes
      <4>2. k = oDir /\ Frag(q) = Frag(old) <=> q = old
        BY <1>1, <1>2, <1>9, ShowsPlace
      <4>3. k = nDir /\ Frag(q) = Frag(new) => q = new
        BY <1>9, ShowsPlace
      <4>4. q # new
        BY <2>4, AtOrAboveReflexive
      <4> QED BY <4>1, <4>2, <4>3, <4>4
    <3> HIDE DEF k, p, oDir, nDir
    <3>6. p \in DOMAIN paths =>
            /\ Frag(q) \in DOMAIN children'[k] <=> Frag(q) \in DOMAIN children[k] /\ q # old
            /\ Frag(q) \in DOMAIN children'[k] => children'[k][Frag(q)] = children[k][Frag(q)]
      BY <1>3, <3>5
    <3>7. T[p] = k \/ p \notin DOMAIN T
      BY <3>3 DEF k
    <3> QED BY <3>2, <3>3, <3>4, <3>6, <3>7 DEF p
  <2> QED BY <2>2, <2>3, <2>4 DEF Above
<1>10. Shows(T, children')
  BY <1>4, <1>8, <1>9 DEF Shows
<1>11. PathsToNodes(T, Nodes')
  <2> SUFFICES ASSUME NEW x \in DOMAIN T
               PROVE  Len(x) <= MaxDepth /\ T[x] \in Nodes
    BY DEF PathsToNodes, Nodes
  <2>1. x \in Seq(Segments)
    BY <1>4
  <2>2. CASE AtOrAbove(new, x)
    <3>1. /\ back(x) \in DOMAIN paths /\ T[x] = paths[back(x)]
          /\ AtOrAbove(old, back(x)) /\ Rebase(back(x), old, new) = x
      BY <1>1, <1>5, <2>1, <2>2, RebaseBack
    <3> QED BY <1>1, <3>1 DEF PathsToNodes
  <2>3. CASE ~AtOrAbove(new, x)
    BY <1>1, <1>6, <2>1, <2>3 DEF PathsToNodes
  <2> QED BY <2>2, <2>3
<1> QED BY <1>4, <1>10, <1>11 DEF T

-----------------------------------------------------------------------------
(* The calls are the calls of OsTree *)

\* OsTree takes paths apart and edits the map as this module does.
LEMMA SamePaths ==
  /\ Os!Root = Root
  /\ \A p : Os!Parent(p) = Parent(p)
  /\ \A p, q : Os!AtOrAbove(p, q) = AtOrAbove(p, q)
  /\ \A p, q : Os!Above(p, q) = Above(p, q)
  /\ \A m, p, id : Os!Linked(m, p, id) = Linked(m, p, id)
  /\ \A m, p : Os!Without(m, p) = Without(m, p)
  /\ \A old, new : Os!Replaced(old, new) = Replacement(old, new)
<1>1. Os!Root = Root
  BY DEF Os!Root, Root
<1>2. \A p : Os!Parent(p) = Parent(p)
  BY DEF Os!Parent, Parent, Os!Root, Root
<1>3. \A p, q : Os!AtOrAbove(p, q) = AtOrAbove(p, q)
  BY DEF Os!AtOrAbove, AtOrAbove
<1>4. \A p, q : Os!Above(p, q) = Above(p, q)
  BY DEF Os!AtOrAbove, AtOrAbove, Os!Above, Above
<1>5. \A m, p, id : Os!Linked(m, p, id) = Linked(m, p, id)
  BY DEF Os!Linked, Linked
<1>6. \A m, p : Os!Without(m, p) = Without(m, p)
  BY DEF Os!Without, Without, Os!Restrict, Restrict, Os!AtOrAbove, AtOrAbove
<1>7. \A old, new : Os!Replaced(old, new) = Replacement(old, new)
  BY DEF Os!Replaced, Replacement, Os!Restrict, Restrict, Os!AtOrAbove, AtOrAbove, Os!MovedTree,
         MovedTree, Os!Rebase, Rebase
<1> QED BY <1>1, <1>2, <1>3, <1>4, <1>5, <1>6, <1>7

\* find returns the parent of a path that has a place in the tree, and else the
\* error of the lookup.
LEMMA FindInTree ==
  ASSUME TreeInv, NEW path \in Names, path # Root
  PROVE  LET dir == Find(path)
         IN  \/ /\ dir < 0 /\ ~(dir > 0) /\ ~Os!Member(path)
                /\ ErrorName(dir) = Os!LookupError(path)
             \/ /\ dir > 0 /\ ~(dir < 0) /\ Os!Member(path)
                /\ dir \in Dirs /\ Parent(path) \in DOMAIN paths /\ dir = paths[Parent(path)]
                /\ Frag(path) \in DOMAIN children[dir] <=> path \in DOMAIN paths
                /\ path \in DOMAIN paths => paths[path] = children[dir][Frag(path)]
<1> DEFINE dir == Find(path)
<1>1. path \in Seq(Segments) /\ NodesOK /\ Shows(paths, children) /\ PathsToNodes(paths, Nodes)
  BY NamesAssumption DEF TreeInv
<1>2. IF HasPlace(paths, path) THEN dir = paths[Parent(path)]
      ELSE dir = IF FileOnTheWay(paths, path) THEN Invalid ELSE NotExist
  BY <1>1, FindTells
<1>3. HasPlace(paths, path) <=> Os!Member(path)
  BY <1>1, SamePaths DEF HasPlace, Os!Member, PathsToNodes
<1>4. Os!LookupError(path) = IF FileOnTheWay(paths, path) THEN "invalid" ELSE "notexist"
  <2>1. ASSUME NEW i \in 1..(Len(path) - 1), SubSeq(path, 1, i) \in DOMAIN paths
        PROVE  paths[SubSeq(path, 1, i)] \in Nodes
    BY <1>1, <2>1 DEF PathsToNodes
  <2>2. FileOnTheWay(paths, path) <=>
          \E i \in 1..(Len(path) - 1) :
            /\ SubSeq(path, 1, i) \in DOMAIN paths
            /\ paths[SubSeq(path, 1, i)] \notin {n \in Nodes : isDir[n]}
    BY <2>1 DEF FileOnTheWay
  <2> QED BY <2>2 DEF Os!LookupError
<1>5. /\ path \in DOMAIN paths <=>
           Parent(path) \in DOMAIN paths /\ Frag(path) \in DOMAIN children[paths[Parent(path)]]
      /\ path \in DOMAIN paths => paths[path] = children[paths[Parent(path)]][Frag(path)]
  BY <1>1 DEF Shows
<1> HIDE DEF dir
<1>6. CASE HasPlace(paths, path)
  <2>1. dir \in Dirs /\ dir > 0 /\ ~(dir < 0)
    BY <1>1, <1>2, <1>6, NodesAre DEF HasPlace, PathsToNodes, Dirs
  <2> QED BY <1>2, <1>3, <1>5, <1>6, <2>1 DEF HasPlace, dir
<1>7. CASE ~HasPlace(paths, path)
  BY <1>2, <1>3, <1>4, <1>7 DEF ErrorName, Invalid, NotExist, dir
<1> QED BY <1>6, <1>7

\* A call that is refused is refused by OsTree.
LEMMA RefusedIsOs ==
  ASSUME TreeInv, NEW result, Refused(result), PathsFollow
  PROVE  TreeInv' /\ Os!Refused(result)
<1>1. UNCHANGED <<children, isDir, data, paths>> /\ outcome' = result
  BY DEF Refused, nodeVars, PathsFollow, Done
<1>2. Nodes' = Nodes
  BY <1>1 DEF Nodes
<1>3. TreeInv'
  BY <1>1, <1>2 DEF TreeInv, NodesOK, Dirs
<1>4. {n \in Nodes : isDir[n]}' = {n \in Nodes : isDir[n]}
  BY <1>1, <1>2
<1> QED BY <1>1, <1>3, <1>4 DEF Os!Refused

\* A node that is made is a file that was never used.
LEMMA NewMemberIsOs ==
  ASSUME TreeInv, PathsFollow, NEW path \in Names, path # Root, path \notin DOMAIN paths,
         Find(path) > 0, NEW directory \in BOOLEAN,
         NewMember(Find(path), Frag(path), directory)
  PROVE  /\ TreeInv'
         /\ paths' = Linked(paths, path, Len(isDir) + 1)
         /\ Dirs' = IF directory THEN Dirs \cup {Len(isDir) + 1} ELSE Dirs
         /\ Len(isDir) + 1 \in 1..MaxNodes /\ Os!Unused(Len(isDir) + 1)
<1> DEFINE new == Len(isDir) + 1
           dir == Find(path)
           T   == Linked(paths, path, new)
<1>1. /\ path \in Seq(Segments) /\ Len(path) <= MaxDepth /\ NodesOK /\ PathsToNodes(paths, Nodes)
      /\ dir \in Dirs /\ Parent(path) \in DOMAIN paths /\ dir = paths[Parent(path)]
      /\ Frag(path) \in Segments
  BY NamesAssumption, DepthAssumption, FindInTree, PrefixEnds DEF TreeInv
<1> HIDE DEF dir
<1>2. NodesOK' /\ Grown(dir, Frag(path), directory)
  BY <1>1, NewMemberGrows DEF dir
<1>3. Shows(T, children') /\ PathsToNodes(T, Nodes') /\ OneToOne(T)
  BY <1>1, <1>2, GrownShows
<1> HIDE DEF T
<1>4. paths' = T
  BY <1>2, <1>3, PathsAreShown
<1>5. Len(isDir') <= MaxNodes /\ new \in 1..MaxNodes
  <2>1. Len(isDir) \in Nat /\ Len(isDir) < MaxNodes /\ MaxNodes \in Nat
    BY <1>1, NodesAre, SizeAssumption DEF NewMember
  <2>2. Len(isDir') = new
    BY <1>1, AppendProperties DEF NewMember, NodesOK
  <2> QED BY <2>1, <2>2
<1>6. TreeInv'
  BY <1>2, <1>3, <1>4, <1>5 DEF TreeInv
<1>7. /\ Nodes' = Nodes \cup {new} /\ new \notin Nodes /\ isDir'[new] = directory
      /\ \A n \in Nodes : isDir'[n] = isDir[n]
  BY <1>2 DEF Grown
<1> HIDE DEF new
<1>8. Dirs' = IF directory THEN Dirs \cup {new} ELSE Dirs
  BY <1>7 DEF Dirs
<1>9. Os!Unused(new)
  BY <1>1, <1>7 DEF Os!Unused, PathsToNodes
<1> QED BY <1>4, <1>5, <1>6, <1>8, <1>9 DEF T, new

\* A call that leaves the members alone leaves the tree alone.
LEMMA SameTreeIsOs ==
  ASSUME TreeInv, NodesOK', UNCHANGED <<children, isDir, paths>>
  PROVE  TreeInv' /\ UNCHANGED <<paths, {n \in Nodes : isDir[n]}>>
<1>1. Nodes' = Nodes
  BY DEF Nodes
<1> QED BY <1>1 DEF TreeInv

\* Mkdir (webdav/file.go:258).
LEMMA MkdirIsOs ==
  ASSUME TreeInv, PathsFollow, NEW path \in Names, Mkdir(path)
  PROVE  TreeInv' /\ Os!Mkdir(path)
<1>1. CASE path = Root
  <2>1. Refused("invalid")
    BY <1>1 DEF Mkdir
  <2> QED BY <1>1, <2>1, RefusedIsOs, SamePaths DEF Os!Mkdir
<1>2. CASE path # Root
  <2> DEFINE dir == Find(path)
  <2>1. \/ dir < 0 /\ Refused(ErrorName(dir))
        \/ dir > 0 /\ Frag(path) \in DOMAIN children[dir] /\ Refused("exist")
        \/ /\ dir > 0 /\ Frag(path) \notin DOMAIN children[dir]
           /\ NewMember(dir, Frag(path), TRUE) /\ Done("ok")
    BY <1>2 DEF Mkdir
  <2>2. \/ /\ dir < 0 /\ ~(dir > 0) /\ ~Os!Member(path)
           /\ ErrorName(dir) = Os!LookupError(path)
        \/ /\ dir > 0 /\ ~(dir < 0) /\ Os!Member(path)
           /\ Frag(path) \in DOMAIN children[dir] <=> path \in DOMAIN paths
    BY <1>2, FindInTree
  <2>3. Os!Root = Root
    BY SamePaths
  <2>4. CASE dir < 0 /\ Refused(ErrorName(dir))
    <3>1. TreeInv' /\ Os!Refused(ErrorName(dir))
      BY <2>4, RefusedIsOs
    <3> QED BY <1>2, <2>2, <2>3, <2>4, <3>1 DEF Os!Mkdir
  <2>5. CASE dir > 0 /\ Frag(path) \in DOMAIN children[dir] /\ Refused("exist")
    <3>1. TreeInv' /\ Os!Refused("exist")
      BY <2>5, RefusedIsOs
    <3> QED BY <2>2, <2>5, <3>1 DEF Os!Mkdir
  <2>6. CASE /\ dir > 0 /\ Frag(path) \notin DOMAIN children[dir]
             /\ NewMember(dir, Frag(path), TRUE) /\ Done("ok")
    <3> DEFINE new == Len(isDir) + 1
    <3>1. path \notin DOMAIN paths /\ Os!Member(path)
      BY <2>2, <2>6
    <3>2. /\ TreeInv' /\ paths' = Os!Linked(paths, path, new) /\ Dirs' = Dirs \cup {new}
          /\ new \in 1..MaxNodes /\ Os!Unused(new)
      BY <1>2, <2>6, <3>1, NewMemberIsOs, SamePaths
    <3>3. outcome' = "ok"
      BY <2>6 DEF Done
    <3> HIDE DEF new
    <3> QED BY <3>1, <3>2, <3>3 DEF Os!Mkdir, Dirs
  <2> HIDE DEF dir
  <2> QED BY <2>1, <2>4, <2>5, <2>6
<1> QED BY <1>1, <1>2

\* Stat (webdav/file.go:406).
LEMMA StatIsOs ==
  ASSUME TreeInv, PathsFollow, NEW path \in Names, Stat(path)
  PROVE  TreeInv' /\ Os!Stat(path)
<1>1. CASE path = Root
  <2>1. Refused("ok") /\ path \in DOMAIN paths
    BY <1>1 DEF Stat, TreeInv, Shows
  <2> QED BY <2>1, RefusedIsOs DEF Os!Stat
<1>2. CASE path # Root
  <2> DEFINE dir == Find(path)
             there == Frag(path) \in DOMAIN children[dir]
  <2>1. \/ dir < 0 /\ Refused(ErrorName(dir))
        \/ dir > 0 /\ Refused(IF there THEN "ok" ELSE "notexist")
    BY <1>2 DEF Stat
  <2>2. \/ /\ dir < 0 /\ ~(dir > 0) /\ ~Os!Member(path)
           /\ ErrorName(dir) = Os!LookupError(path)
        \/ /\ dir > 0 /\ ~(dir < 0) /\ Os!Member(path)
           /\ there <=> path \in DOMAIN paths
    BY <1>2, FindInTree
  <2>3. Os!Root = Root
    BY SamePaths
  <2> HIDE DEF there
  <2>4. CASE dir < 0 /\ Refused(ErrorName(dir))
    <3>1. TreeInv' /\ Os!Refused(ErrorName(dir))
      BY <2>4, RefusedIsOs
    <3> QED BY <1>2, <2>2, <2>3, <2>4, <3>1 DEF Os!Stat
  <2>5. CASE dir > 0 /\ there /\ Refused("ok")
    <3>1. TreeInv' /\ Os!Refused("ok")
      BY <2>5, RefusedIsOs
    <3> QED BY <2>2, <2>5, <3>1 DEF Os!Stat
  <2>6. CASE dir > 0 /\ ~there /\ Refused("notexist")
    <3>1. TreeInv' /\ Os!Refused("notexist")
      BY <2>6, RefusedIsOs
    <3> QED BY <2>2, <2>6, <3>1 DEF Os!Stat
  <2> QED BY <2>1, <2>4, <2>5, <2>6
<1> QED BY <1>1, <1>2

\* RemoveAll (webdav/file.go:342).
LEMMA RemoveAllIsOs ==
  ASSUME TreeInv, NodesOK', PathsFollow, NEW path \in Names, RemoveAll(path)
  PROVE  TreeInv' /\ Os!RemoveAll(path)
<1>1. CASE path = Root
  <2>1. Refused("invalid")
    BY <1>1 DEF RemoveAll
  <2> QED BY <1>1, <2>1, RefusedIsOs, SamePaths DEF Os!RemoveAll
<1>2. CASE path # Root
  <2> DEFINE dir == Find(path)
             T   == Without(paths, path)
  <2>1. \/ dir < 0 /\ Refused(ErrorName(dir))
        \/ /\ dir > 0
           /\ children' = [children EXCEPT ![dir] = Less(@, Frag(path))]
           /\ outcome' = "ok" /\ UNCHANGED <<isDir, data, file>>
    BY <1>2 DEF RemoveAll, Done
  <2>2. \/ /\ dir < 0 /\ ~(dir > 0) /\ ~Os!Member(path)
           /\ ErrorName(dir) = Os!LookupError(path)
        \/ /\ dir > 0 /\ ~(dir < 0) /\ Os!Member(path)
           /\ dir \in Dirs /\ Parent(path) \in DOMAIN paths /\ dir = paths[Parent(path)]
    BY <1>2, FindInTree
  <2>3. Os!Root = Root
    BY SamePaths
  <2>4. CASE dir < 0 /\ Refused(ErrorName(dir))
    <3>1. TreeInv' /\ Os!Refused(ErrorName(dir))
      BY <2>4, RefusedIsOs
    <3> QED BY <1>2, <2>2, <2>3, <2>4, <3>1 DEF Os!RemoveAll
  <2>5. CASE /\ dir > 0
             /\ children' = [children EXCEPT ![dir] = Less(@, Frag(path))]
             /\ outcome' = "ok" /\ UNCHANGED <<isDir, data, file>>
    <3>1. OneLess(children', dir, Frag(path))
      <4>1. dir \in Dirs /\ NodesOK
        BY <2>2, <2>5 DEF TreeInv
      <4> HIDE DEF dir
      <4> QED BY <2>5, <4>1, LessMember
    <3>2. path \in Seq(Segments)
      BY NamesAssumption
    <3>3. Shows(T, children') /\ PathsToNodes(T, Nodes') /\ OneToOne(T)
      <4>1. /\ OneLess(children', paths[Parent(path)], Frag(path))
            /\ Parent(path) \in DOMAIN paths /\ UNCHANGED isDir
        BY <2>2, <2>5, <3>1
      <4> QED BY <1>2, <3>2, <4>1, OneLessShows
    <3> HIDE DEF T
    <3>4. paths' = T
      BY <3>3, PathsAreShown
    <3>5. TreeInv'
      BY <2>5, <3>3, <3>4 DEF TreeInv
    <3>6. {n \in Nodes : isDir[n]}' = {n \in Nodes : isDir[n]}
      BY <2>5 DEF Nodes
    <3>7. paths' = Os!Without(paths, path)
      BY <3>4, SamePaths DEF T
    <3> QED BY <2>2, <2>5, <3>5, <3>6, <3>7 DEF Os!RemoveAll
  <2> HIDE DEF dir
  <2> QED BY <2>1, <2>4, <2>5
<1> QED BY <1>1, <1>2

\* A call that opens what is there, emptied or not, is no more than Stat to the tree.
LEMMA OpenedIsOs ==
  ASSUME TreeInv, NodesOK', PathsFollow, NEW path \in DOMAIN paths,
         UNCHANGED <<children, isDir>>, Done("ok")
  PROVE  TreeInv' /\ Os!Stat(path)
<1>1. UNCHANGED paths /\ outcome' = "ok"
  BY DEF PathsFollow, Done
<1>2. TreeInv' /\ UNCHANGED <<paths, {n \in Nodes : isDir[n]}>>
  BY <1>1, SameTreeIsOs
<1> QED BY <1>1, <1>2 DEF Os!Stat, Os!Refused

\* OpenFile (webdav/file.go:280).
LEMMA OpenFileIsOs ==
  ASSUME TreeInv, NodesOK', PathsFollow, NEW h \in Handles, NEW path \in Names, NEW flag,
         OpenFile(h, path, flag)
  PROVE  TreeInv' /\ Os!Open(path)
<1>1. CASE path = Root
  <2>1. path \in DOMAIN paths /\ Os!Root = Root
    BY <1>1, SamePaths DEF TreeInv, Shows
  <2>2. Refused("permission") \/ (Done("ok") /\ UNCHANGED <<children, isDir>>)
    <3>1. CASE "write" \in flag
      BY <1>1, <3>1 DEF OpenFile
    <3>2. CASE "write" \notin flag
      <4>1. Done("ok") /\ UNCHANGED nodeVars
        BY <1>1, <3>2 DEF OpenFile
      <4> QED BY <4>1 DEF nodeVars
    <3> QED BY <3>1, <3>2
  <2>3. CASE Refused("permission")
    BY <1>1, <2>1, <2>3, RefusedIsOs DEF Os!Open
  <2>4. CASE Done("ok") /\ UNCHANGED <<children, isDir>>
    BY <2>1, <2>4, OpenedIsOs DEF Os!Open
  <2> QED BY <2>2, <2>3, <2>4
<1>2. CASE path # Root
  <2> DEFINE dir == Find(path)
             there == Frag(path) \in DOMAIN children[dir]
  <2>1. \/ dir < 0 /\ Refused(ErrorName(dir))
        \/ dir > 0 /\ Refused("invalid")
        \/ dir > 0 /\ there /\ Refused("exist")
        \/ dir > 0 /\ ~there /\ Refused("notexist")
        \/ dir > 0 /\ ~there /\ NewMember(dir, Frag(path), FALSE) /\ Done("ok")
        \/ dir > 0 /\ there /\ Done("ok") /\ UNCHANGED <<children, isDir>>
    BY <1>2 DEF OpenFile, nodeVars, Truncated
  <2>2. \/ /\ dir < 0 /\ ~(dir > 0) /\ ~Os!Member(path)
           /\ ErrorName(dir) = Os!LookupError(path)
        \/ /\ dir > 0 /\ ~(dir < 0) /\ Os!Member(path)
           /\ there <=> path \in DOMAIN paths
    BY <1>2, FindInTree
  <2>3. Os!Root = Root
    BY SamePaths
  <2> HIDE DEF there
  <2>4. CASE dir < 0 /\ Refused(ErrorName(dir))
    <3>1. TreeInv' /\ Os!Refused(ErrorName(dir))
      BY <2>4, RefusedIsOs
    <3> QED BY <1>2, <2>2, <2>3, <2>4, <3>1 DEF Os!Open, Os!Stat
  <2>5. CASE dir > 0 /\ Refused("invalid")
    <3>1. TreeInv' /\ Os!Refused("invalid")
      BY <2>5, RefusedIsOs
    <3> QED BY <2>2, <2>5, <3>1 DEF Os!Open
  <2>6. CASE dir > 0 /\ there /\ Refused("exist")
    <3>1. TreeInv' /\ Os!Refused("exist")
      BY <2>6, RefusedIsOs
    <3> QED BY <2>2, <2>6, <3>1 DEF Os!Open
  <2>7. CASE dir > 0 /\ ~there /\ Refused("notexist")
    <3>1. TreeInv' /\ Os!Refused("notexist")
      BY <2>7, RefusedIsOs
    <3> QED BY <2>2, <2>7, <3>1 DEF Os!Open, Os!Stat
  <2>8. CASE dir > 0 /\ ~there /\ NewMember(dir, Frag(path), FALSE) /\ Done("ok")
    <3> DEFINE new == Len(isDir) + 1
    <3>1. path \notin DOMAIN paths /\ Os!Member(path)
      BY <2>2, <2>8
    <3>2. /\ TreeInv' /\ paths' = Os!Linked(paths, path, new) /\ Dirs' = Dirs
          /\ new \in 1..MaxNodes /\ Os!Unused(new)
      BY <1>2, <2>8, <3>1, NewMemberIsOs, SamePaths
    <3>3. outcome' = "ok"
      BY <2>8 DEF Done
    <3> HIDE DEF new
    <3> QED BY <3>1, <3>2, <3>3 DEF Os!Open, Dirs
  <2>9. CASE dir > 0 /\ there /\ Done("ok") /\ UNCHANGED <<children, isDir>>
    <3>1. path \in DOMAIN paths
      BY <2>2, <2>9
    <3> QED BY <2>9, <3>1, OpenedIsOs DEF Os!Open
  <2> HIDE DEF dir
  <2> QED BY <2>1, <2>4, <2>5, <2>6, <2>7, <2>8, <2>9
<1> QED BY <1>1, <1>2

\* What is under a path of the tree starts with a member of its node.
LEMMA MembersAreBelow ==
  ASSUME TreeInv, NEW path \in DOMAIN paths
  PROVE  DOMAIN children[paths[path]] # {} <=> \E q \in DOMAIN paths : Above(path, q)
<1>1. /\ NodesOK /\ Shows(paths, children) /\ PathsToNodes(paths, Nodes)
      /\ path \in Seq(Segments) /\ DOMAIN paths \subseteq Seq(Segments)
  BY DEF TreeInv, Shows
<1>2. ASSUME NEW s \in DOMAIN children[paths[path]]
      PROVE  \E q \in DOMAIN paths : Above(path, q)
  <2> DEFINE q == Append(path, s)
  <2>1. s \in Segments
    <3>1. children[paths[path]] \in MemberMaps
      BY <1>1, NodesAre DEF PathsToNodes
    <3> QED BY <1>2, <3>1, MemberMapsAre
  <2>2. /\ q \in Seq(Segments) /\ Len(q) = Len(path) + 1 /\ q[Len(path) + 1] = s
        /\ \A i \in 1..Len(path) : q[i] = path[i]
    BY <1>1, <2>1, AppendProperties
  <2>3. Len(path) \in Nat
    BY <1>1
  <2> HIDE DEF q
  <2>4. q # Root
    BY <2>2, <2>3 DEF Root
  <2>5. Parent(q) \in Seq(Segments) /\ Above(Parent(q), q) /\ Len(Parent(q)) = Len(path)
    BY <2>2, <2>3, <2>4, ParentAbove
  <2>6. Parent(q) = path
    <3>1. AtOrAbove(Parent(q), path)
      <4>1. \A i \in 1..Len(Parent(q)) : Parent(q)[i] = q[i]
        BY <2>2, <2>4, <2>5 DEF Above, AtOrAbove
      <4> QED BY <2>2, <2>3, <2>5, <4>1 DEF AtOrAbove
    <3>2. AtOrAbove(path, Parent(q))
      <4>1. \A i \in 1..Len(Parent(q)) : Parent(q)[i] = q[i]
        BY <2>2, <2>4, <2>5 DEF Above, AtOrAbove
      <4> QED BY <2>2, <2>3, <2>5, <4>1 DEF AtOrAbove
    <3> QED BY <1>1, <2>5, <3>1, <3>2, AtOrAboveAntisymmetric
  <2>7. Frag(q) = s
    BY <2>2, <2>3 DEF Frag, Last
  <2>8. q \in DOMAIN paths
    BY <1>1, <1>2, <2>2, <2>4, <2>6, <2>7 DEF Shows
  <2> QED BY <2>5, <2>6, <2>8
<1>3. ASSUME NEW q \in DOMAIN paths, Above(path, q)
      PROVE  DOMAIN children[paths[path]] # {}
  <2> DEFINE i == Len(path) + 1
             p == SubSeq(q, 1, i)
  <2>1. /\ q \in Seq(Segments) /\ AtOrAbove(path, q) /\ Len(path) \in Nat /\ Len(q) \in Nat
        /\ Len(path) <= Len(q)
    BY <1>1, <1>3 DEF Above, AtOrAbove
  <2>2. Len(path) # Len(q)
    <3>1. Len(path) = Len(q) => AtOrAbove(q, path)
      BY <2>1 DEF AtOrAbove
    <3> QED BY <1>1, <1>3, <2>1, <3>1, AtOrAboveAntisymmetric DEF Above
  <2>3. i \in 1..Len(q) /\ i - 1 = Len(path)
    BY <2>1, <2>2
  <2> HIDE DEF i
  <2>4. /\ p \in Seq(Segments) /\ p # Root
        /\ Parent(p) = SubSeq(q, 1, i - 1)
    BY <2>1, <2>3, PathPrefix
  <2>5. AtOrAbove(p, q)
    BY <2>1, <2>3, SubSeqProperties DEF AtOrAbove
  <2>6. SubSeq(q, 1, Len(path)) = path
    <3> DEFINE r == SubSeq(q, 1, Len(path))
    <3>1. r \in Seq(Segments) /\ Len(r) = Len(path) /\ \A j \in 1..Len(path) : r[j] = q[j]
      BY <2>1, SubSeqProperties
    <3>2. \A j \in 1..Len(path) : r[j] = path[j]
      BY <2>1, <3>1 DEF AtOrAbove
    <3> HIDE DEF r
    <3>3. AtOrAbove(r, path) /\ AtOrAbove(path, r)
      BY <2>1, <3>1, <3>2 DEF AtOrAbove
    <3> QED BY <1>1, <3>1, <3>3, AtOrAboveAntisymmetric DEF r
  <2>7. p \in DOMAIN paths
    <3> HIDE DEF p
    <3> QED BY <1>1, <1>3, <2>4, <2>5, ShowsAncestors
  <2> HIDE DEF p
  <2>8. Frag(p) \in DOMAIN children[paths[path]]
    BY <1>1, <2>3, <2>4, <2>6, <2>7 DEF Shows
  <2> QED BY <2>8
<1> QED BY <1>2, <1>3

\* What a Rename that is done makes of the tree.
LEMMA RelinkedIsOs ==
  ASSUME TreeInv, NodesOK', PathsFollow,
         NEW old \in Names, NEW new \in Names, old # Root, new # Root, ~AtOrAbove(old, new),
         old \in DOMAIN paths, Parent(old) \in DOMAIN paths, Parent(new) \in DOMAIN paths,
         paths[Parent(old)] \in Dirs, paths[Parent(new)] \in Dirs,
         Frag(old) \in DOMAIN children[paths[Parent(old)]],
         \A q \in DOMAIN paths : AtOrAbove(old, q) => Len(Rebase(q, old, new)) <= MaxDepth,
         children' = Relinked(paths[Parent(old)], Frag(old), paths[Parent(new)], Frag(new)),
         UNCHANGED isDir
  PROVE  TreeInv' /\ paths' = Os!Replaced(old, new) /\ UNCHANGED {n \in Nodes : isDir[n]}
<1> DEFINE T == Replacement(old, new)
<1>1. /\ old \in Seq(Segments) /\ new \in Seq(Segments) /\ NodesOK
      /\ Frag(new) \in Segments
  BY NamesAssumption, PrefixEnds DEF TreeInv
<1>2. OneMoved(children', paths[Parent(old)], Frag(old), paths[Parent(new)], Frag(new))
  BY <1>1, RelinkedMember
<1>3. Shows(T, children') /\ PathsToNodes(T, Nodes') /\ OneToOne(T)
  BY <1>1, <1>2, OneMovedShows
<1> HIDE DEF T
<1>4. paths' = T
  BY <1>3, PathsAreShown
<1>5. TreeInv'
  BY <1>3, <1>4 DEF TreeInv
<1>6. UNCHANGED {n \in Nodes : isDir[n]}
  BY DEF Nodes
<1>7. T = Os!Replaced(old, new)
  BY SamePaths DEF T
<1> QED BY <1>4, <1>5, <1>6, <1>7

\* Rename (webdav/file.go:358).
LEMMA RenameIsOs ==
  ASSUME TreeInv, NodesOK', PathsFollow, NEW old \in Names, NEW new \in Names, Rename(old, new)
  PROVE  TreeInv' /\ Os!Rename(old, new)
<1>0. /\ old \in Seq(Segments) /\ new \in Seq(Segments)
      /\ Os!Root = Root /\ Os!Above(old, new) = Above(old, new)
      /\ Os!AtOrAbove(old, new) = AtOrAbove(old, new)
      /\ \A q : Os!Above(new, q) = Above(new, q)
  BY NamesAssumption, SamePaths
<1>1. CASE old = new
  <2>1. Refused("ok")
    BY <1>1 DEF Rename
  <2> QED BY <1>1, <2>1, RefusedIsOs DEF Os!Rename
<1>2. CASE old # new /\ (old = Root \/ Above(old, new))
  <2>1. Refused("invalid")
    BY <1>2 DEF Rename
  <2>2. Above(old, new)
    BY <1>0, <1>2, RootAboveAll DEF Above
  <2> QED BY <1>0, <2>1, <2>2, RefusedIsOs DEF Os!Rename
<1>3. CASE old # Root /\ ~AtOrAbove(old, new) /\ old # new
  <2> DEFINE oDir  == Find(old)
             nDir  == Find(new)
             there == Frag(old) \in DOMAIN children[oDir]
             moved == children[oDir][Frag(old)]
             taken == Frag(new) \in DOMAIN children[nDir]
             gone  == children[nDir][Frag(new)]
             room  == \A q \in DOMAIN paths : AtOrAbove(old, q) => Len(Rebase(q, old, new)) <= MaxDepth
  <2>1. \/ oDir < 0 /\ Refused(ErrorName(oDir))
        \/ oDir > 0 /\ new = Root /\ Refused("invalid")
        \/ oDir > 0 /\ new # Root /\ nDir < 0 /\ Refused(ErrorName(nDir))
        \/ oDir > 0 /\ new # Root /\ nDir > 0 /\ ~there /\ Refused("notexist")
        \/ /\ oDir > 0 /\ new # Root /\ nDir > 0 /\ there /\ isDir[moved] /\ taken
           /\ \/ ~isDir[gone] /\ Refused("notdir")
              \/ isDir[gone] /\ DOMAIN children[gone] # {} /\ Refused("notempty")
        \/ /\ oDir > 0 /\ new # Root /\ nDir > 0 /\ there
           /\ isDir[moved] /\ taken => isDir[gone] /\ DOMAIN children[gone] = {}
           /\ room
           /\ children' = Relinked(oDir, Frag(old), nDir, Frag(new))
           /\ outcome' = "ok" /\ UNCHANGED isDir
    BY <1>3 DEF Rename, Done, Above
  <2>2. \/ /\ oDir < 0 /\ ~(oDir > 0) /\ ~Os!Member(old)
           /\ ErrorName(oDir) = Os!LookupError(old)
        \/ /\ oDir > 0 /\ ~(oDir < 0) /\ Os!Member(old)
           /\ oDir \in Dirs /\ Parent(old) \in DOMAIN paths /\ oDir = paths[Parent(old)]
           /\ there <=> old \in DOMAIN paths
           /\ old \in DOMAIN paths => paths[old] = moved
    BY <1>3, FindInTree
  <2>3. new # Root =>
        \/ /\ nDir < 0 /\ ~(nDir > 0) /\ ~Os!Member(new)
           /\ ErrorName(nDir) = Os!LookupError(new)
        \/ /\ nDir > 0 /\ ~(nDir < 0) /\ Os!Member(new)
           /\ nDir \in Dirs /\ Parent(new) \in DOMAIN paths /\ nDir = paths[Parent(new)]
           /\ taken <=> new \in DOMAIN paths
           /\ new \in DOMAIN paths => paths[new] = gone
    BY FindInTree
  <2>4. ~Os!AtOrAbove(old, new)
    BY <1>0, <1>3
  <2>5. \A q \in DOMAIN paths : paths[q] \in Nodes
    BY DEF TreeInv, PathsToNodes
  <2> HIDE DEF oDir, nDir, there, taken, moved, gone, room
  <2>6. CASE oDir < 0 /\ Refused(ErrorName(oDir))
    <3>1. TreeInv' /\ Os!Refused(ErrorName(oDir))
      BY <2>6, RefusedIsOs
    <3>2. old # Os!Root /\ ~Os!Member(old) /\ Os!Refused(Os!LookupError(old))
      BY <1>0, <1>3, <2>2, <2>6, <3>1
    <3> QED BY <2>4, <3>1, <3>2 DEF Os!Rename
  <2>7. CASE oDir > 0 /\ new = Root /\ Refused("invalid")
    <3>1. TreeInv' /\ Os!Refused("invalid")
      BY <2>7, RefusedIsOs
    <3>2. Os!Member(old) /\ new = Os!Root
      BY <1>0, <2>2, <2>7
    <3> QED BY <2>4, <3>1, <3>2 DEF Os!Rename
  <2>8. CASE oDir > 0 /\ new # Root /\ nDir < 0 /\ Refused(ErrorName(nDir))
    <3>1. TreeInv' /\ Os!Refused(ErrorName(nDir))
      BY <2>8, RefusedIsOs
    <3>2. Os!Member(old) /\ new # Os!Root /\ ~Os!Member(new) /\ Os!Refused(Os!LookupError(new))
      BY <1>0, <2>2, <2>3, <2>8, <3>1
    <3> QED BY <2>4, <3>1, <3>2 DEF Os!Rename
  <2>9. CASE oDir > 0 /\ new # Root /\ nDir > 0 /\ ~there /\ Refused("notexist")
    <3>1. TreeInv' /\ Os!Refused("notexist")
      BY <2>9, RefusedIsOs
    <3>2. Os!Member(old) /\ Os!Member(new) /\ old \notin DOMAIN paths
      BY <2>2, <2>3, <2>9
    <3> QED BY <2>4, <3>1, <3>2 DEF Os!Rename
  <2>10. CASE /\ oDir > 0 /\ new # Root /\ nDir > 0 /\ there /\ isDir[moved] /\ taken
              /\ \/ ~isDir[gone] /\ Refused("notdir")
                 \/ isDir[gone] /\ DOMAIN children[gone] # {} /\ Refused("notempty")
    <3>1. /\ Os!Member(old) /\ Os!Member(new) /\ old \in DOMAIN paths /\ new \in DOMAIN paths
          /\ paths[old] \in {n \in Nodes : isDir[n]} /\ paths[new] = gone /\ gone \in Nodes
      BY <2>2, <2>3, <2>5, <2>10
    <3>2. CASE ~isDir[gone] /\ Refused("notdir")
      <4>1. TreeInv' /\ Os!Refused("notdir")
        BY <3>2, RefusedIsOs
      <4>2. paths[new] \notin {n \in Nodes : isDir[n]}
        BY <3>1, <3>2
      <4> QED BY <2>4, <3>1, <4>1, <4>2 DEF Os!Rename
    <3>3. CASE isDir[gone] /\ DOMAIN children[gone] # {} /\ Refused("notempty")
      <4>1. TreeInv' /\ Os!Refused("notempty")
        BY <3>3, RefusedIsOs
      <4>2. paths[new] \in {n \in Nodes : isDir[n]}
        BY <3>1, <3>3
      <4>3. \E q \in DOMAIN paths : Os!Above(new, q)
        BY <1>0, <3>1, <3>3, MembersAreBelow
      <4> QED BY <2>4, <3>1, <4>1, <4>2, <4>3 DEF Os!Rename
    <3> QED BY <2>10, <3>2, <3>3
  <2>11. CASE /\ oDir > 0 /\ new # Root /\ nDir > 0 /\ there
              /\ isDir[moved] /\ taken => isDir[gone] /\ DOMAIN children[gone] = {}
              /\ room
              /\ children' = Relinked(oDir, Frag(old), nDir, Frag(new))
              /\ outcome' = "ok" /\ UNCHANGED isDir
    <3>1. Os!Member(old) /\ Os!Member(new) /\ old \in DOMAIN paths
      BY <2>2, <2>3, <2>11
    <3>2. \/ paths[old] \notin {n \in Nodes : isDir[n]} \/ new \notin DOMAIN paths
          \/ (paths[new] \in {n \in Nodes : isDir[n]} /\ \A q \in DOMAIN paths : ~Os!Above(new, q))
      <4> SUFFICES ASSUME isDir[moved], new \in DOMAIN paths
                   PROVE  /\ paths[new] \in {n \in Nodes : isDir[n]}
                          /\ \A q \in DOMAIN paths : ~Os!Above(new, q)
        BY <2>2, <3>1, <2>11
      <4>1. isDir[gone] /\ DOMAIN children[gone] = {} /\ paths[new] = gone /\ gone \in Nodes
        BY <2>3, <2>5, <2>11
      <4>2. \A q \in DOMAIN paths : ~Above(new, q)
        BY <4>1, MembersAreBelow
      <4> QED BY <1>0, <4>1, <4>2
    <3>3. TreeInv' /\ paths' = Os!Replaced(old, new) /\ UNCHANGED {n \in Nodes : isDir[n]}
      <4>1. /\ oDir \in Dirs /\ Parent(old) \in DOMAIN paths /\ oDir = paths[Parent(old)]
            /\ nDir \in Dirs /\ Parent(new) \in DOMAIN paths /\ nDir = paths[Parent(new)]
        BY <2>2, <2>3, <2>11
      <4>2. /\ Frag(old) \in DOMAIN children[paths[Parent(old)]]
            /\ \A q \in DOMAIN paths : AtOrAbove(old, q) => Len(Rebase(q, old, new)) <= MaxDepth
            /\ children' = Relinked(paths[Parent(old)], Frag(old), paths[Parent(new)], Frag(new))
            /\ UNCHANGED isDir /\ new # Root
        BY <2>11, <4>1 DEF there, room
      <4>3. old # Root /\ ~AtOrAbove(old, new)
        BY <1>3
      <4> QED BY <3>1, <4>1, <4>2, <4>3, RelinkedIsOs
    <3> QED BY <2>4, <2>11, <3>1, <3>2, <3>3 DEF Os!Rename
  <2> QED BY <2>1, <2>6, <2>7, <2>8, <2>9, <2>10, <2>11
<1>4. old # Root /\ ~Above(old, new) /\ old # new => ~AtOrAbove(old, new)
  BY DEF Above
<1> QED BY <1>1, <1>2, <1>3, <1>4

\* A call of an open file (webdav/file.go:512-610) is no more than Stat to the tree.
LEMMA FileCallIsOs ==
  ASSUME TreeInv, NodesOK', FileCall, UNCHANGED paths
  PROVE  TreeInv' /\ Os!Stat(Root)
<1>1. UNCHANGED <<children, isDir>> /\ outcome' = "ok"
  <2> SUFFICES ASSUME NEW h \in Handles,
                      \/ \E size \in {1, MaxSize} : Read(h, size) \/ Readdir(h, size)
                      \/ Readdir(h, 0) \/ Close(h)
                      \/ \E from \in {"start", "current", "end"}, offset \in {-1, 0, MaxSize} :
                           Seek(h, from, offset)
                      \/ \E bytes \in Bytes : Write(h, bytes)
               PROVE  UNCHANGED <<children, isDir>> /\ outcome' = "ok"
    BY DEF FileCall
  <2> QED BY DEF Read, Readdir, Close, Seek, Write, ByHandle, Done, nodeVars
<1>2. TreeInv' /\ UNCHANGED <<paths, {n \in Nodes : isDir[n]}>>
  BY <1>1, SameTreeIsOs
<1>3. Root \in DOMAIN paths
  BY DEF TreeInv, Shows
<1> QED BY <1>1, <1>2, <1>3 DEF Os!Stat, Os!Refused

\* The tree is the root alone at the start.
LEMMA InitIsOs == Init => TreeInv /\ Os!TreeInit
<1> SUFFICES ASSUME Init PROVE TreeInv /\ Os!TreeInit
  OBVIOUS
<1>1. NodesOK
  BY InitFileInv DEF FileInv
<1>2. /\ children = <<NoMembers>> /\ isDir = <<TRUE>> /\ outcome = "ok"
      /\ paths = [path \in {Root} |-> Top]
  BY DEF Init
<1>3. Nodes = {Top} /\ isDir[Top] /\ children[Top] = NoMembers /\ Len(isDir) = 1
  BY <1>2 DEF Nodes, Top
<1>4. DOMAIN paths = {Root} /\ paths[Root] = Top
  BY <1>2
<1>5. Shows(paths, children)
  <2>1. Root \in Seq(Segments)
    BY DEF Root
  <2>2. DOMAIN NoMembers = {}
    BY NoMembersMap
  <2>3. paths = [q \in DOMAIN paths |-> paths[q]]
    BY <1>2
  <2> QED BY <1>3, <1>4, <2>1, <2>2, <2>3 DEF Shows
<1>6. PathsToNodes(paths, Nodes)
  <2>1. Len(Root) = 0 /\ MaxDepth \in Nat
    BY SizeAssumption DEF Root
  <2> QED BY <1>3, <1>4, <2>1 DEF PathsToNodes
<1>7. OneToOne(paths)
  BY <1>4 DEF OneToOne
<1>8. Len(isDir) <= MaxNodes /\ Top \in 1..MaxNodes
  BY <1>3, SizeAssumption DEF Top
<1>9. TreeInv
  BY <1>1, <1>5, <1>6, <1>7, <1>8 DEF TreeInv
<1>10. Os!TreeInit
  <2>1. {n \in Nodes : isDir[n]} = {Top}
    BY <1>3
  <2>2. paths = [q \in {Os!Root} |-> Top]
    BY <1>2, SamePaths
  <2> QED BY <1>2, <1>8, <2>1, <2>2 DEF Os!TreeInit
<1> QED BY <1>9, <1>10

\* Every step of the nodes is a step of the tree.
LEMMA NextIsOs ==
  FileInv /\ TreeInv /\ [Next]_vars
    => TreeInv' /\ [Os!TreeNext]_<<paths, {n \in Nodes : isDir[n]}, outcome>>
<1> SUFFICES ASSUME FileInv, TreeInv, [Next]_vars
             PROVE  TreeInv' /\ [Os!TreeNext]_<<paths, {n \in Nodes : isDir[n]}, outcome>>
  OBVIOUS
<1>1. NodesOK'
  BY NextFileInv DEF FileInv
<1>2. CASE TreeCall /\ PathsFollow
  <2>1. ASSUME NEW path \in Names, Mkdir(path) \/ RemoveAll(path) \/ Stat(path)
        PROVE  TreeInv' /\ Os!TreeNext
    <3>1. TreeInv' /\ (Os!Mkdir(path) \/ Os!RemoveAll(path) \/ Os!Stat(path))
      BY <1>1, <1>2, <2>1, MkdirIsOs, RemoveAllIsOs, StatIsOs
    <3> QED BY <3>1 DEF Os!TreeNext
  <2>2. ASSUME NEW old \in Names, NEW new \in Names, Rename(old, new)
        PROVE  TreeInv' /\ Os!TreeNext
    BY <1>1, <1>2, <2>2, RenameIsOs DEF Os!TreeNext
  <2>3. ASSUME NEW h \in Handles, NEW path \in Names, NEW flag, OpenFile(h, path, flag)
        PROVE  TreeInv' /\ Os!TreeNext
    BY <1>1, <1>2, <2>3, OpenFileIsOs DEF Os!TreeNext
  <2> QED BY <1>2, <2>1, <2>2, <2>3 DEF TreeCall
<1>3. CASE FileCall /\ UNCHANGED paths
  <2>1. TreeInv' /\ Os!Stat(Root)
    BY <1>1, <1>3, FileCallIsOs
  <2>2. Root \in Names
    BY NamesAssumption
  <2> QED BY <2>1, <2>2 DEF Os!TreeNext
<1>4. CASE UNCHANGED vars
  <2>1. UNCHANGED <<children, isDir, paths, outcome>>
    BY <1>4 DEF vars, nodeVars
  <2> QED BY <1>1, <2>1, SameTreeIsOs
<1> QED BY <1>2, <1>3, <1>4 DEF Next, PathsFollow

\* The nodes of memFS and their members are a tree of named files, whatever is
\* made, removed, moved or replaced in whatever order: a file has one path or
\* none, no directory is tied to itself or cut off by a Rename, and each call has
\* the effect and the error it has on a map from paths to files, for any number
\* of nodes, names and handles (webdav/file.go:140-470).
THEOREM NodesAreATree == Spec => ImplementsTree
<1>1. Init => Os!TreeInit /\ FileInv /\ TreeInv
  BY InitIsOs, InitFileInv
<1>2. FileInv /\ TreeInv /\ [Next]_vars
        => /\ (FileInv /\ TreeInv)'
           /\ [Os!TreeNext]_<<paths, {n \in Nodes : isDir[n]}, outcome>>
  BY NextIsOs, NextFileInv
<1> QED BY <1>1, <1>2, PTL DEF Spec, ImplementsTree, Os!TreeSpec
=============================================================================
