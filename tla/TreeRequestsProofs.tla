------------------------ MODULE TreeRequestsProofs -------------------------
(***************************************************************************)
(* What COPY, MOVE and PROPFIND do call by call, while other clients edit  *)
(* the store: the calls under way are about paths the request names, the  *)
(* store stays one item for each path, a MOVE loses nothing, and a listing *)
(* comes in order and without repetition.  Then what the answers say: a    *)
(* multistatus that looks whole is, and a COPY that succeeds has made the  *)
(* destination what the source is.                                         *)
(***************************************************************************)
EXTENDS TreeRequests, PathMapProofs, FiniteSetTheorems, FunctionTheorems

(* What an item can be called: Base of the root is "/". *)
Labels == Segments \cup {"/"}

IsItem(e) ==
  /\ e = Item(e.parent, e.name, e.dir, e.body)
  /\ e.name \in Labels /\ e.dir \in BOOLEAN

(* The map and the items: each path has an item of its own. *)
StoreOK ==
  /\ DOMAIN tree \subseteq Seq(Labels) /\ Root \in DOMAIN tree
  /\ tree = [p \in DOMAIN tree |-> tree[p]]
  /\ entry = [i \in DOMAIN entry |-> entry[i]]
  /\ \A p \in DOMAIN tree : tree[p] \in DOMAIN entry
  /\ OneToOne(tree)
  /\ nextID \in Nat
  /\ \A i \in DOMAIN entry : i \in Nat /\ i < nextID /\ IsItem(entry[i])

CopyStages == {"open", "stat", "remove", "make", "readdir", "children"}
MoveStages == {"move", "clear", "rename"}
WalkStages == {"find", "visit", "enter", "list", "members"}

IsCall(c, stages) ==
  /\ c = [at |-> c.at, src |-> c.src, dst |-> c.dst, handle |-> c.handle,
          created |-> c.created, todo |-> c.todo]
  /\ c.at \in stages /\ c.src \in Seq(Labels) /\ c.dst \in Seq(Labels) /\ c.todo \subseteq Labels

IsNode(c) ==
  /\ c = [at |-> c.at, name |-> c.name, dir |-> c.dir, depth |-> c.depth,
          handle |-> c.handle, todo |-> c.todo]
  /\ c.at \in WalkStages /\ c.name \in Seq(Labels) /\ c.todo \subseteq Labels

(* A call of copyFiles has come to a path of the destination, one of        *)
(* moveFiles has the paths of the request, and walkFS has come to a path.  *)
CallOK(c) ==
  /\ req.method = "COPY" => IsCall(c, CopyStages) /\ AtOrAbove(req.dst, c.dst)
  /\ req.method = "MOVE" => IsCall(c, MoveStages) /\ c.src = req.src /\ c.dst = req.dst
  /\ req.method = "PROPFIND" => IsNode(c)

StackOK ==
  /\ stack \in Seq(Range(stack))
  /\ (status = "none") = (stack # << >>)
  /\ req.method = "COPY" => Len(stack) <= MaxRecursion
  /\ req.method = "MOVE" => Len(stack) <= 1
  /\ \A i \in 1..Len(stack) : CallOK(stack[i])

(* What the request found when it came. *)
HistoryOK ==
  /\ req \in Requests
  /\ edits \in Nat
  /\ before = [tree |-> before.tree, entry |-> before.entry]
  /\ before.tree = [p \in DOMAIN before.tree |-> before.tree[p]]
  /\ DOMAIN before.tree \subseteq Seq(Labels)
  /\ OneToOne(before.tree)
  /\ \A p \in DOMAIN before.tree : \A n \in 0..Len(p) : SubSeq(p, 1, n) \in DOMAIN before.tree
  /\ steady \subseteq DOMAIN before.tree
  /\ document \in {"none", "open", "closed"}

(* None of the paths l is p or below it. *)
Fresh(l, p) == \A k \in 1..Len(l) : ~AtOrAbove(p, l[k])

(* None of the paths l is one that the step c of walkFS is about to visit or *)
(* to list.                                                                *)
NotYet(l, c) ==
  /\ c.at = "find" => l = << >> /\ c.name = req.src
  /\ c.at = "visit" => Fresh(l, c.name)
  /\ c.at \in {"enter", "list"} => \A k \in 1..Len(l) : ~Above(c.name, l[k])
  /\ c.at = "members" => \A n \in c.todo : Fresh(l, Append(c.name, n))

(* The call d is made for a member that the loop of c has taken. *)
Within(c, d) ==
  c.at = "members" /\ \E n \in Labels \ c.todo : AtOrAbove(Append(c.name, n), d.name)

WalkOK ==
  /\ listed \in Seq(Seq(Labels))
  /\ ListedInOrder
  /\ req.method # "PROPFIND" => listed = << >>
  /\ req.method = "PROPFIND" =>
       /\ \A i \in 1..Len(stack) : NotYet(listed, stack[i])
       /\ \A i, j \in 1..Len(stack) : i < j => Within(stack[i], stack[j])

(* What a MOVE has done so far, with nobody else about. *)
Cleared == Without(before.tree, req.dst)

MovedBefore ==
  IF Kind(before, req.src) THEN MovedTree(Cleared, req.src, req.dst)
                           ELSE MovedAlone(Cleared, req.src, req.dst)

MoveOK ==
  req.method = "MOVE" /\ edits = 0 /\ ~Overlap =>
    /\ status = "none" /\ Top.at \in {"move", "clear"} => tree = before.tree
    /\ status = "none" /\ Top.at = "rename" => tree = Cleared
    /\ Succeeded => req.src \in DOMAIN Cleared /\ tree = MovedBefore
    /\ status # "none" /\ ~Succeeded => tree \in {before.tree, Cleared}
    /\ \A p \in DOMAIN before.tree : ~AtOrAbove(req.dst, p) /\ ~Succeeded =>
         entry[before.tree[p]].dir = before.entry[before.tree[p]].dir

(* The inductive invariant. *)
RequestInv == HistoryOK /\ StoreOK /\ StackOK /\ WalkOK /\ MoveOK
-----------------------------------------------------------------------------
(* The calls of the store *)

(* The path x is, or is not, where it was, with the item it had. *)
Untouched(x) ==
  /\ SameAt(tree, tree', x)
  /\ x \in DOMAIN tree => entry'[tree[x]] = entry[tree[x]]

\* A path that is not the root ends in a label, and its parent is a path.
LEMMA LabelsOfPaths ==
  ASSUME NEW p \in Seq(Labels), p # Root
  PROVE  Parent(p) \in Seq(Labels) /\ Base(p) \in Labels
<1>1. Parent(p) \in Seq(Labels)
  BY ParentAbove
<1>2. Len(p) \in 1..Len(p)
  BY DEF Root
<1> QED BY <1>1, <1>2, ElementOfSeq DEF Base

\* A call that changes nothing.
LEMMA StoreStays ==
  ASSUME StoreOK, UNCHANGED storeVars
  PROVE  StoreOK' /\ \A x : Untouched(x)
BY DEF StoreOK, storeVars, Untouched, SameAt, OneToOne, IsItem

\* AddEntry gives a new path an item that none had.
LEMMA AddedKeeps ==
  ASSUME StoreOK, NEW path \in Seq(Labels), NEW dir \in BOOLEAN, NEW body,
         ~Exists(path), Added(path, dir, body)
  PROVE  StoreOK' /\ \A x : x # path => Untouched(x)
<1>1. path # Root /\ nextID \notin DOMAIN entry
  BY DEF StoreOK, Exists
<1>2. Base(path) \in Labels
  BY <1>1, LabelsOfPaths
<1>3. tree' = [q \in DOMAIN tree \cup {path} |-> IF q = path THEN nextID ELSE tree[q]]
  BY DEF Added, Linked
<1> DEFINE new == Item(tree[Parent(path)], Base(path), dir, body)
<1>4. entry' = [i \in DOMAIN entry \cup {nextID} |-> IF i = nextID THEN new ELSE entry[i]]
  BY DEF Added, Linked
<1>5. IsItem(new)
  BY <1>2 DEF IsItem, Item
<1> HIDE DEF new
<1>6. nextID' = nextID + 1
  BY DEF Added
<1>7. OneToOne(tree')
  BY <1>1, LinkedOneToOne DEF StoreOK, Added
<1>8. StoreOK'
  <2>1. DOMAIN tree' \subseteq Seq(Labels) /\ Root \in DOMAIN tree'
    BY <1>3 DEF StoreOK
  <2>2. tree' = [p \in DOMAIN tree' |-> tree'[p]] /\ entry' = [i \in DOMAIN entry' |-> entry'[i]]
    BY <1>3, <1>4
  <2>3. \A p \in DOMAIN tree' : tree'[p] \in DOMAIN entry'
    BY <1>3, <1>4 DEF StoreOK
  <2>4. nextID' \in Nat
    BY <1>6 DEF StoreOK
  <2>5. \A i \in DOMAIN entry' : i \in Nat /\ i < nextID' /\ IsItem(entry'[i])
    BY <1>4, <1>5, <1>6 DEF StoreOK
  <2> QED BY <2>1, <2>2, <2>3, <2>4, <2>5, <1>7 DEF StoreOK, IsItem
<1>9. ASSUME NEW x, x # path
      PROVE  Untouched(x)
  BY <1>9, <1>1, <1>3, <1>4 DEF Untouched, SameAt, StoreOK
<1> QED BY <1>8, <1>9

\* Mkdir (awsfs/mkdir.go) adds its path or changes nothing.
LEMMA MkdirKeeps ==
  ASSUME StoreOK, NEW path \in Seq(Labels), NEW result, Mkdir(path, result)
  PROVE  StoreOK' /\ \A x : x # path => Untouched(x)
<1>1. CASE UNCHANGED storeVars
  BY <1>1, StoreStays
<1>2. CASE ~Exists(path) /\ Added(path, TRUE, Empty)
  BY <1>2, AddedKeeps
<1> QED BY <1>1, <1>2 DEF Mkdir

\* Create (awsfs/create.go) adds its path or replaces the body of its item.
LEMMA CreateKeeps ==
  ASSUME StoreOK, NEW path \in Seq(Labels), NEW body, NEW result, Create(path, body, result)
  PROVE  StoreOK' /\ \A x : x # path => Untouched(x)
<1>1. CASE UNCHANGED storeVars
  BY <1>1, StoreStays
<1>2. CASE ~Exists(path) /\ Added(path, FALSE, body)
  BY <1>2, AddedKeeps
<1>3. CASE Stored(path, body)
  <2> DEFINE id  == tree[path]
             put == Item(entry[id].parent, entry[id].name, entry[id].dir, body)
  <2>1. id \in DOMAIN entry /\ IsItem(entry[id]) /\ path \in DOMAIN tree
    BY <1>3 DEF Stored, Exists, StoreOK
  <2>2. tree' = tree /\ nextID' = nextID
    BY <1>3 DEF Stored
  <2>3. [entry[id] EXCEPT !.body = body] = put
    <3>1. entry[id] = Item(entry[id].parent, entry[id].name, entry[id].dir, entry[id].body)
      BY <2>1 DEF IsItem
    <3> QED BY <3>1 DEF Item
  <2>4. entry' = [entry EXCEPT ![id] = put]
    BY <1>3, <2>3 DEF Stored
  <2>5. entry' = [i \in DOMAIN entry |-> IF i = id THEN put ELSE entry[i]]
    BY <2>1, <2>4 DEF StoreOK
  <2>6. IsItem(put)
    BY <2>1 DEF IsItem, Item
  <2> HIDE DEF put
  <2>7. StoreOK'
    BY <2>2, <2>5, <2>6 DEF StoreOK, OneToOne, IsItem
  <2>8. ASSUME NEW x, x # path
        PROVE  Untouched(x)
    BY <2>1, <2>2, <2>5, <2>8 DEF Untouched, SameAt, StoreOK, OneToOne
  <2> QED BY <2>7, <2>8
<1> QED BY <1>1, <1>2, <1>3 DEF Create

\* RemoveAll (awsfs/remove.go) takes its path and all below it, each with its
\* item, and no item of another path.
LEMMA RemoveAllKeeps ==
  ASSUME StoreOK, NEW path \in Seq(Labels), NEW result, RemoveAll(path, result)
  PROVE  StoreOK' /\ \A x : ~AtOrAbove(path, x) => Untouched(x)
<1>1. CASE UNCHANGED storeVars
  BY <1>1, StoreStays
<1> DEFINE gone == {tree[q] : q \in {r \in DOMAIN tree : AtOrAbove(path, r)}}
<1>2. CASE /\ path # Root /\ Exists(path) /\ UNCHANGED nextID
           /\ tree' = Without(tree, path)
           /\ entry' = Restrict(entry, DOMAIN entry \ gone)
  <2>1. tree' = [p \in {q \in DOMAIN tree : ~AtOrAbove(path, q)} |-> tree[p]]
    BY <1>2 DEF Without, Restrict
  <2>2. entry' = [i \in DOMAIN entry \ gone |-> entry[i]]
    BY <1>2 DEF Restrict
  <2>3. ~AtOrAbove(path, Root)
    <3>1. Len(path) # 0
      BY <1>2 DEF Root
    <3> QED BY <3>1 DEF AtOrAbove, Root
  <2>4. \A p \in DOMAIN tree : ~AtOrAbove(path, p) => tree[p] \notin gone
    BY DEF StoreOK, OneToOne
  <2> HIDE DEF gone
  <2>5. StoreOK'
    <3>1. DOMAIN tree' \subseteq Seq(Labels) /\ Root \in DOMAIN tree'
      BY <2>1, <2>3 DEF StoreOK
    <3>2. tree' = [p \in DOMAIN tree' |-> tree'[p]] /\ entry' = [i \in DOMAIN entry' |-> entry'[i]]
      BY <2>1, <2>2
    <3>3. \A p \in DOMAIN tree' : tree'[p] \in DOMAIN entry'
      BY <2>1, <2>2, <2>4 DEF StoreOK
    <3>4. OneToOne(tree')
      BY <2>1 DEF StoreOK, OneToOne
    <3>5. nextID' \in Nat /\ \A i \in DOMAIN entry' : i \in Nat /\ i < nextID' /\ IsItem(entry'[i])
      BY <1>2, <2>2 DEF StoreOK
    <3> QED BY <3>1, <3>2, <3>3, <3>4, <3>5 DEF StoreOK, IsItem
  <2>6. ASSUME NEW x, ~AtOrAbove(path, x)
        PROVE  Untouched(x)
    BY <2>1, <2>2, <2>4, <2>6 DEF Untouched, SameAt, StoreOK
  <2> QED BY <2>5, <2>6
<1> QED BY <1>1, <1>2 DEF RemoveAll

\* Rename (awsfs/rename.go) changes nothing outside its two paths.
LEMMA RenameKeeps ==
  ASSUME StoreOK, NEW old \in Seq(Labels), NEW new \in Seq(Labels), NEW result,
         Rename(old, new, result)
  PROVE  /\ StoreOK'
         /\ \A x : ~AtOrAbove(old, x) /\ ~AtOrAbove(new, x) => Untouched(x)
<1>1. CASE UNCHANGED storeVars
  BY <1>1, StoreStays
<1> DEFINE id == tree[old]
<1>2. CASE /\ Root \notin {old, new} /\ Exists(old) /\ Exists(Parent(new))
           /\ tree' = IF IsDir(old) THEN MovedTree(tree, old, new) ELSE MovedAlone(tree, old, new)
           /\ entry' = [entry EXCEPT ![id].parent = tree[Parent(new)], ![id].name = Base(new)]
           /\ UNCHANGED nextID
  <2> DEFINE e   == entry[id]
             put == Item(tree[Parent(new)], Base(new), e.dir, e.body)
  <2>1. old \in DOMAIN tree /\ id \in DOMAIN entry /\ IsItem(e) /\ old # Root /\ new # Root
    BY <1>2 DEF Exists, StoreOK
  <2>2. IsItem(put)
    BY <2>1, LabelsOfPaths DEF IsItem, Item
  <2>3. entry' = [i \in DOMAIN entry |-> IF i = id THEN put ELSE entry[i]]
    <3> DEFINE moved == [entry EXCEPT ![id].parent = tree[Parent(new)]]
    <3>1. e = Item(e.parent, e.name, e.dir, e.body)
      BY <2>1 DEF IsItem
    <3>2. [e EXCEPT !.parent = tree[Parent(new)]]
             = Item(tree[Parent(new)], e.name, e.dir, e.body)
      BY <3>1 DEF Item
    <3>3. moved = [i \in DOMAIN entry |-> IF i = id THEN Item(tree[Parent(new)], e.name, e.dir, e.body)
                                                    ELSE entry[i]]
      BY <2>1, <3>2 DEF StoreOK
    <3>5. entry' = [moved EXCEPT ![id].name = Base(new)]
      BY <1>2
    <3> HIDE DEF moved, e
    <3>4. [moved[id] EXCEPT !.name = Base(new)] = put
      <4>1. moved[id] = Item(tree[Parent(new)], e.name, e.dir, e.body)
        BY <2>1, <3>3
      <4> QED BY <4>1 DEF Item
    <3> HIDE DEF put
    <3>6. entry' = [i \in DOMAIN moved |-> IF i = id THEN put ELSE moved[i]]
      BY <2>1, <3>3, <3>4, <3>5
    <3> QED BY <3>3, <3>6
  <2> HIDE DEF put, e
  <2>4. OneToOne(tree')
    <3>1. OneToOne(MovedTree(tree, old, new))
      BY MovedTreeKeepsFiles DEF StoreOK
    <3>2. OneToOne(MovedAlone(tree, old, new))
      <4> DEFINE rest == Restrict(tree, DOMAIN tree \ {old})
      <4>1. rest = [p \in DOMAIN tree \ {old} |-> tree[p]]
        BY DEF Restrict
      <4> HIDE DEF rest
      <4>2. OneToOne(rest) /\ \A q \in DOMAIN rest : rest[q] # tree[old]
        BY <2>1, <4>1 DEF OneToOne, StoreOK
      <4>3. OneToOne(Linked(rest, new, tree[old]))
        BY <4>2, LinkedOneToOne
      <4> QED BY <4>3 DEF rest, MovedAlone
    <3> QED BY <1>2, <3>1, <3>2
  <2>5. /\ DOMAIN tree' \subseteq Seq(Labels)
        /\ \A x \in DOMAIN tree' : \E q \in DOMAIN tree : tree'[x] = tree[q]
    <3>1. DOMAIN tree \subseteq Seq(Labels)
      BY DEF StoreOK
    <3>2. /\ DOMAIN MovedAlone(tree, old, new) \subseteq Seq(Labels)
          /\ \A x \in DOMAIN MovedAlone(tree, old, new) :
               \E q \in DOMAIN tree : MovedAlone(tree, old, new)[x] = tree[q]
          /\ DOMAIN MovedTree(tree, old, new) \subseteq Seq(Labels)
          /\ \A x \in DOMAIN MovedTree(tree, old, new) :
               \E q \in DOMAIN tree : MovedTree(tree, old, new)[x] = tree[q]
      BY <2>1, <3>1, EditsInvent
    <3> QED BY <1>2, <3>2
  <2>6. tree' = [p \in DOMAIN tree' |-> tree'[p]]
    <3>1. MovedTree(tree, old, new)
             = [p \in DOMAIN MovedTree(tree, old, new) |-> MovedTree(tree, old, new)[p]]
      BY DEF MovedTree
    <3>2. MovedAlone(tree, old, new)
             = [p \in DOMAIN MovedAlone(tree, old, new) |-> MovedAlone(tree, old, new)[p]]
      BY DEF MovedAlone, Linked
    <3> QED BY <1>2, <3>1, <3>2
  <2>7. ASSUME NEW x, ~AtOrAbove(old, x), ~AtOrAbove(new, x)
        PROVE  SameAt(tree, tree', x)
    <3>1. SameAt(tree, MovedTree(tree, old, new), x)
      BY <2>7, EditsElsewhere DEF StoreOK
    <3>2. AtOrAbove(old, old) /\ AtOrAbove(new, new)
      BY AtOrAboveReflexive
    <3>3. SameAt(tree, MovedAlone(tree, old, new), x)
      BY <2>7, <3>2, EditsElsewhere DEF StoreOK
    <3> QED BY <1>2, <3>1, <3>3
  <2>8. ASSUME NEW x, ~AtOrAbove(old, x), ~AtOrAbove(new, x)
        PROVE  Untouched(x)
    <3>1. x # old
      BY <2>8, AtOrAboveReflexive
    <3> QED BY <2>1, <2>3, <2>7, <2>8, <3>1 DEF Untouched, StoreOK, OneToOne
  <2>9. Root \in DOMAIN tree'
    <3>1. Len(old) # 0 /\ Len(new) # 0
      BY <2>1 DEF Root
    <3>2. ~AtOrAbove(old, Root) /\ ~AtOrAbove(new, Root)
      BY <3>1 DEF AtOrAbove, Root
    <3> QED BY <2>7, <3>2 DEF SameAt, StoreOK
  <2>10. StoreOK'
    <3>1. entry' = [i \in DOMAIN entry' |-> entry'[i]] /\ DOMAIN entry' = DOMAIN entry
      BY <2>3
    <3>2. \A p \in DOMAIN tree' : tree'[p] \in DOMAIN entry'
      BY <2>5, <3>1 DEF StoreOK
    <3>3. nextID' \in Nat /\ \A i \in DOMAIN entry' : i \in Nat /\ i < nextID' /\ IsItem(entry'[i])
      BY <1>2, <2>2, <2>3 DEF StoreOK
    <3> QED BY <2>4, <2>5, <2>6, <2>9, <3>1, <3>2, <3>3 DEF StoreOK, IsItem
  <2> QED BY <2>8, <2>10
<1> QED BY <1>1, <1>2 DEF Rename

-----------------------------------------------------------------------------
(* The calls under way *)

\* All of a sequence but its last element.
LEMMA FrontOf ==
  ASSUME NEW S, NEW s \in Seq(S), s # << >>
  PROVE  /\ Front(s) \in Seq(S) /\ Len(Front(s)) = Len(s) - 1
         /\ \A i \in 1..(Len(s) - 1) : Front(s)[i] = s[i]
<1>1. Len(s) \in Nat \ {0}
  BY EmptySeq
<1>2. \A i \in 1..(Len(s) - 1) : s[i] \in S
  BY <1>1, ElementOfSeq
<1>3. /\ Front(s) = SubSeq(s, 1, Len(s) - 1)
      /\ Front(s) \in Seq(S)
      /\ Len(Front(s)) = IF 1 <= Len(s) - 1 THEN (Len(s) - 1) - 1 + 1 ELSE 0
  BY <1>1, <1>2, SubSeqProperties DEF Front
<1>4. \A i \in 1..(Len(s) - 1) : Front(s)[i] = s[i]
  BY <1>1 DEF Front
<1>5. Len(Front(s)) = Len(s) - 1
  <2> DEFINE k == Len(s) - 1
  <2>1. k \in Nat /\ Len(Front(s)) = IF 1 <= k THEN k - 1 + 1 ELSE 0
    BY <1>1, <1>3
  <2> HIDE DEF k
  <2>2. Len(Front(s)) = k
    BY <2>1
  <2> QED BY <2>2 DEF k
<1> QED BY <1>3, <1>4, <1>5

\* The innermost call goes on: it alone is another.
LEMMA Continues ==
  ASSUME stack \in Seq(Range(stack)), stack # << >>, NEW c, Continue(c)
  PROVE  /\ stack' \in Seq(Range(stack')) /\ Len(stack') = Len(stack) /\ stack' # << >>
         /\ \A i \in 1..(Len(stack) - 1) : stack'[i] = stack[i]
         /\ stack'[Len(stack)] = c
         /\ status' = status
<1> DEFINE n == Len(stack)
           S == Range(stack) \cup {c}
<1>1. n \in Nat \ {0} /\ stack \in Seq(S)
  BY SeqMonotonic, EmptySeq
<1>2. /\ Front(stack) \in Seq(S) /\ Len(Front(stack)) = n - 1
      /\ \A i \in 1..(n - 1) : Front(stack)[i] = stack[i]
  BY <1>1, FrontOf
<1>4. stack' = Append(Front(stack), c) /\ status' = status
  BY DEF Continue
<1> HIDE DEF n, S
<1>5. /\ stack' \in Seq(S) /\ Len(stack') = n /\ stack'[n] = c
      /\ \A i \in 1..(n - 1) : stack'[i] = Front(stack)[i]
  BY <1>1, <1>2, <1>4, AppendProperties DEF S
<1>6. stack' \in Seq(Range(stack')) /\ stack' # << >>
  BY <1>1, <1>5, SeqOfRange
<1> QED BY <1>2, <1>4, <1>5, <1>6 DEF n

\* The innermost call makes another.
LEMMA Enters ==
  ASSUME stack \in Seq(Range(stack)), stack # << >>, NEW c, NEW d, Enter(c, d)
  PROVE  /\ stack' \in Seq(Range(stack')) /\ Len(stack') = Len(stack) + 1 /\ stack' # << >>
         /\ \A i \in 1..(Len(stack) - 1) : stack'[i] = stack[i]
         /\ stack'[Len(stack)] = c /\ stack'[Len(stack) + 1] = d
         /\ status' = status
<1> DEFINE n == Len(stack)
           S == Range(stack) \cup {c, d}
<1>1. n \in Nat \ {0} /\ stack \in Seq(S)
  BY SeqMonotonic, EmptySeq
<1>2. /\ Front(stack) \in Seq(S) /\ Len(Front(stack)) = n - 1
      /\ \A i \in 1..(n - 1) : Front(stack)[i] = stack[i]
  BY <1>1, FrontOf
<1>4. stack' = Front(stack) \o <<c, d>> /\ status' = status
  BY DEF Enter
<1> DEFINE t == <<c, d>>
<1>5. t \in Seq(S) /\ Len(t) = 2 /\ t[1] = c /\ t[2] = d
  OBVIOUS
<1> HIDE DEF n, S, t
<1>6. /\ stack' \in Seq(S) /\ Len(stack') = n + 1
      /\ stack'[n] = c /\ stack'[n + 1] = d
      /\ \A i \in 1..(n - 1) : stack'[i] = Front(stack)[i]
  <2>1. stack' = Front(stack) \o t
    BY <1>4 DEF t
  <2>2. /\ stack' \in Seq(S) /\ Len(stack') = Len(Front(stack)) + Len(t)
        /\ \A i \in 1..(Len(Front(stack)) + Len(t)) :
             stack'[i] = IF i <= Len(Front(stack)) THEN Front(stack)[i] ELSE t[i - Len(Front(stack))]
    BY <1>2, <1>5, <2>1, ConcatProperties
  <2> QED BY <1>1, <1>2, <1>5, <2>2
<1>7. stack' \in Seq(Range(stack')) /\ stack' # << >>
  BY <1>1, <1>6, SeqOfRange
<1> QED BY <1>2, <1>4, <1>6, <1>7 DEF n

\* The innermost call returns.
LEMMA Returns ==
  ASSUME stack \in Seq(Range(stack)), stack # << >>, NEW code, Return(code)
  PROVE  /\ stack' \in Seq(Range(stack')) /\ Len(stack') = Len(stack) - 1
         /\ stack' = << >> <=> Len(stack) = 1
         /\ \A i \in 1..(Len(stack) - 1) : stack'[i] = stack[i]
         /\ status' = IF Len(stack) = 1 THEN code ELSE status
<1> DEFINE n == Len(stack)
<1>1. n \in Nat \ {0}
  BY EmptySeq
<1>2. /\ Front(stack) \in Seq(Range(stack)) /\ Len(Front(stack)) = n - 1
      /\ \A i \in 1..(n - 1) : Front(stack)[i] = stack[i]
  BY <1>1, FrontOf
<1>4. stack' = Front(stack) /\ status' = IF n = 1 THEN code ELSE status
  BY DEF Return
<1>5. stack' \in Seq(Range(stack'))
  BY <1>2, <1>4, SeqOfRange
<1>6. stack' = << >> <=> n = 1
  BY <1>1, <1>2, <1>4, EmptySeq
<1> QED BY <1>2, <1>4, <1>5, <1>6

(* The call d is about the same paths as c. *)
LikeCall(d, c, stages) == IsCall(d, stages) /\ d.src = c.src /\ d.dst = c.dst

(* The step d of walkFS is about the same path as c. *)
LikeNode(d, c, at, todo) == IsNode(d) /\ d.name = c.name /\ d.at = at /\ d.todo = todo

\* What a call becomes when it goes on is a call about the same paths.
LEMMA CallGoesOn ==
  ASSUME NEW stages, NEW c, IsCall(c, stages), NEW at \in stages, NEW x,
         NEW todo, todo \subseteq Labels
  PROVE  /\ LikeCall([c EXCEPT !.at = at], c, stages)
         /\ LikeCall([c EXCEPT !.at = at, !.handle = x], c, stages)
         /\ LikeCall([c EXCEPT !.at = at, !.created = x], c, stages)
         /\ LikeCall([c EXCEPT !.at = at, !.todo = todo], c, stages)
         /\ LikeCall([c EXCEPT !.todo = todo], c, stages)
<1> DEFINE r(a, h, k, t) == [at |-> a, src |-> c.src, dst |-> c.dst, handle |-> h,
                             created |-> k, todo |-> t]
           e == [c EXCEPT !.at = at]
<1>1. c = r(c.at, c.handle, c.created, c.todo)
  BY DEF IsCall
<1>2. e = r(at, c.handle, c.created, c.todo)
  BY <1>1
<1>3. [c EXCEPT !.todo = todo] = r(c.at, c.handle, c.created, todo)
  BY <1>1
<1>4. /\ [c EXCEPT !.at = at, !.handle = x] = [e EXCEPT !.handle = x]
      /\ [c EXCEPT !.at = at, !.created = x] = [e EXCEPT !.created = x]
      /\ [c EXCEPT !.at = at, !.todo = todo] = [e EXCEPT !.todo = todo]
  OBVIOUS
<1> HIDE DEF e
<1>5. [e EXCEPT !.handle = x] = r(at, x, c.created, c.todo)
  BY <1>2
<1>6. [e EXCEPT !.created = x] = r(at, c.handle, x, c.todo)
  BY <1>2
<1>7. [e EXCEPT !.todo = todo] = r(at, c.handle, c.created, todo)
  BY <1>2
<1>8. c.at \in stages /\ c.src \in Seq(Labels) /\ c.dst \in Seq(Labels) /\ c.todo \subseteq Labels
  BY DEF IsCall
<1>9. ASSUME NEW a \in stages, NEW h, NEW k, NEW t, t \subseteq Labels
      PROVE  LikeCall(r(a, h, k, t), c, stages)
  BY <1>8, <1>9 DEF LikeCall, IsCall
<1> HIDE DEF r
<1>10. [c EXCEPT !.at = at] = r(at, c.handle, c.created, c.todo)
  BY <1>2 DEF e
<1> QED BY <1>3, <1>4, <1>5, <1>6, <1>7, <1>8, <1>9, <1>10

\* What a step of walkFS becomes when it goes on is a step at the same path.
LEMMA NodeGoesOn ==
  ASSUME NEW c, IsNode(c), NEW at \in WalkStages, NEW x, NEW todo, todo \subseteq Labels
  PROVE  /\ LikeNode([c EXCEPT !.at = at], c, at, c.todo)
         /\ LikeNode([c EXCEPT !.at = at, !.handle = x], c, at, c.todo)
         /\ LikeNode([c EXCEPT !.at = at, !.todo = todo], c, at, todo)
         /\ LikeNode([c EXCEPT !.todo = todo], c, c.at, todo)
<1> DEFINE r(a, h, t) == [at |-> a, name |-> c.name, dir |-> c.dir, depth |-> c.depth,
                          handle |-> h, todo |-> t]
           e == [c EXCEPT !.at = at]
<1>1. c = r(c.at, c.handle, c.todo)
  BY DEF IsNode
<1>2. e = r(at, c.handle, c.todo)
  BY <1>1
<1>3. [c EXCEPT !.todo = todo] = r(c.at, c.handle, todo)
  BY <1>1
<1>4. /\ [c EXCEPT !.at = at, !.handle = x] = [e EXCEPT !.handle = x]
      /\ [c EXCEPT !.at = at, !.todo = todo] = [e EXCEPT !.todo = todo]
  OBVIOUS
<1> HIDE DEF e
<1>5. [e EXCEPT !.handle = x] = r(at, x, c.todo)
  BY <1>2
<1>6. [e EXCEPT !.todo = todo] = r(at, c.handle, todo)
  BY <1>2
<1>7. c.at \in WalkStages /\ c.name \in Seq(Labels) /\ c.todo \subseteq Labels
  BY DEF IsNode
<1>8. ASSUME NEW a \in WalkStages, NEW h, NEW t, t \subseteq Labels
      PROVE  LikeNode(r(a, h, t), c, a, t)
  BY <1>7, <1>8 DEF LikeNode, IsNode
<1> HIDE DEF r
<1>9. [c EXCEPT !.at = at] = r(at, c.handle, c.todo)
  BY <1>2 DEF e
<1> QED BY <1>3, <1>4, <1>5, <1>6, <1>7, <1>8, <1>9

\* Readdir finds labels.
LEMMA MembersAreLabels ==
  ASSUME StoreOK, NEW handle
  PROVE  Members(handle) \subseteq Labels
BY DEF StoreOK, IsItem, Members

\* The stack after the innermost call goes on.
LEMMA StackContinues ==
  ASSUME StackOK, stack # << >>, req' = req, NEW c, CallOK(c), Continue(c)
  PROVE  StackOK'
<1>1. /\ stack' \in Seq(Range(stack')) /\ Len(stack') = Len(stack) /\ stack' # << >>
      /\ \A i \in 1..(Len(stack) - 1) : stack'[i] = stack[i]
      /\ stack'[Len(stack)] = c
      /\ status' = status
  BY Continues DEF StackOK
<1>2. Len(stack) \in Nat \ {0} /\ \A i \in 1..Len(stack) : CallOK(stack[i])
  BY EmptySeq DEF StackOK
<1>3. \A i \in 1..Len(stack') : (i < Len(stack) /\ stack'[i] = stack[i]) \/ stack'[i] = c
  BY <1>1, <1>2
<1>4. \A i \in 1..Len(stack') : CallOK(stack'[i])
  BY <1>1, <1>2, <1>3
<1>5. \A i \in 1..Len(stack') : CallOK(stack[i])'
  BY <1>4 DEF CallOK
<1>6. (status' = "none") = (stack' # << >>)
  BY <1>1 DEF StackOK
<1> QED BY <1>1, <1>5, <1>6 DEF StackOK

\* The stack after the innermost call makes another.
LEMMA StackEnters ==
  ASSUME StackOK, stack # << >>, req' = req, req.method # "MOVE",
         req.method = "COPY" => Len(stack) < MaxRecursion,
         NEW c, NEW d, CallOK(c), CallOK(d), Enter(c, d)
  PROVE  StackOK'
<1>1. /\ stack' \in Seq(Range(stack')) /\ Len(stack') = Len(stack) + 1 /\ stack' # << >>
      /\ \A i \in 1..(Len(stack) - 1) : stack'[i] = stack[i]
      /\ stack'[Len(stack)] = c /\ stack'[Len(stack) + 1] = d
      /\ status' = status
  BY Enters DEF StackOK
<1>2. Len(stack) \in Nat \ {0} /\ \A i \in 1..Len(stack) : CallOK(stack[i])
  BY EmptySeq DEF StackOK
<1>3. \A i \in 1..Len(stack') :
        (i < Len(stack) /\ stack'[i] = stack[i]) \/ stack'[i] = c \/ stack'[i] = d
  BY <1>1, <1>2
<1>4. \A i \in 1..Len(stack') : CallOK(stack'[i])
  BY <1>1, <1>2, <1>3
<1>5. \A i \in 1..Len(stack') : CallOK(stack[i])'
  BY <1>4 DEF CallOK
<1>6. (status' = "none") = (stack' # << >>)
  BY <1>1 DEF StackOK
<1>7. req.method = "COPY" => Len(stack') <= MaxRecursion
  BY <1>1, <1>2, BoundsAssumption
<1> QED BY <1>1, <1>5, <1>6, <1>7 DEF StackOK

\* The stack after the innermost call returns.
LEMMA StackReturns ==
  ASSUME StackOK, stack # << >>, req' = req, NEW code, code # "none", Return(code)
  PROVE  StackOK'
<1>1. /\ stack' \in Seq(Range(stack')) /\ Len(stack') = Len(stack) - 1
      /\ stack' = << >> <=> Len(stack) = 1
      /\ \A i \in 1..(Len(stack) - 1) : stack'[i] = stack[i]
      /\ status' = IF Len(stack) = 1 THEN code ELSE status
  BY Returns DEF StackOK
<1>2. Len(stack) \in Nat \ {0} /\ \A i \in 1..Len(stack) : CallOK(stack[i])
  BY EmptySeq DEF StackOK
<1>3. \A i \in 1..Len(stack') : CallOK(stack'[i])
  BY <1>1, <1>2
<1>4. \A i \in 1..Len(stack') : CallOK(stack[i])'
  BY <1>3 DEF CallOK
<1>5. (status' = "none") = (stack' # << >>)
  BY <1>1 DEF StackOK
<1>6. /\ req.method = "COPY" => Len(stack') <= MaxRecursion
      /\ req.method = "MOVE" => Len(stack') <= 1
  BY <1>1, <1>2, BoundsAssumption DEF StackOK
<1> QED BY <1>1, <1>4, <1>5, <1>6 DEF StackOK

\* The stack after an error.
LEMMA StackFails ==
  ASSUME StackOK, req' = req, NEW code, code # "none", Fail(code)
  PROVE  StackOK'
<1>1. stack' = << >> /\ status' = code
  BY DEF Fail
<1>2. stack' \in Seq(Range(stack')) /\ Len(stack') = 0
  BY <1>1, EmptySeq
<1> QED BY <1>1, <1>2, BoundsAssumption DEF StackOK

\* The stage of the innermost call tells the method.
LEMMA TopTells ==
  ASSUME HistoryOK, StackOK, NEW step, At(step)
  PROVE  /\ stack # << >> /\ Top.at = step /\ req' = req /\ CallOK(Top)
         /\ Len(stack) \in Nat \ {0} /\ Top = stack[Len(stack)] /\ status = "none"
         /\ step \in CopyStages => req.method = "COPY"
         /\ step \in MoveStages => req.method = "MOVE"
         /\ step \in WalkStages => req.method = "PROPFIND"
<1>1. stack # << >> /\ Top.at = step /\ req' = req
  BY DEF At
<1>2. Len(stack) \in Nat \ {0} /\ Top = stack[Len(stack)] /\ status = "none"
  BY <1>1, EmptySeq DEF StackOK, Last, Top
<1>3. CallOK(Top)
  BY <1>2 DEF StackOK
<1>4. req.method \in {"COPY", "MOVE", "PROPFIND"}
  BY RequestsAssumption DEF HistoryOK
<1> QED BY <1>1, <1>2, <1>3, <1>4 DEF CallOK, IsCall, IsNode, CopyStages, MoveStages, WalkStages

-----------------------------------------------------------------------------
(* The steps of a request *)

(* What a call with the store may have changed. *)
Keeps(elsewhere(_)) ==
  StoreOK' /\ StackOK' /\ \A x \in Seq(Labels) : elsewhere(x) => Untouched(x)

(* Paths that are not the destination's. *)
OffDst(x) == ~AtOrAbove(req.dst, x)

\* What is below a path below the destination is below the destination.
LEMMA BelowDst ==
  ASSUME HistoryOK, NEW p \in Seq(Labels), AtOrAbove(req.dst, p),
         NEW x \in Seq(Labels), OffDst(x)
  PROVE  x # p /\ ~AtOrAbove(p, x)
<1>1. req.dst \in Seq(Labels)
  <2>1. req.dst \in Seq(Segments)
    BY RequestsAssumption DEF HistoryOK
  <2> QED BY <2>1, SeqMonotonic DEF Labels
<1> QED BY <1>1, AtOrAboveTransitive DEF OffDst

\* A call of copyFiles goes on.
LEMMA CopyGoesOn ==
  ASSUME req.method = "COPY", CallOK(Top), NEW at \in CopyStages, NEW x,
         NEW todo, todo \subseteq Labels
  PROVE  /\ CallOK([Top EXCEPT !.at = at])
         /\ CallOK([Top EXCEPT !.at = at, !.handle = x])
         /\ CallOK([Top EXCEPT !.at = at, !.created = x])
         /\ CallOK([Top EXCEPT !.at = at, !.todo = todo])
         /\ CallOK([Top EXCEPT !.todo = todo])
<1> DEFINE c == Top
<1>1. IsCall(c, CopyStages) /\ AtOrAbove(req.dst, c.dst)
  BY DEF CallOK
<1>2. ASSUME NEW d, LikeCall(d, c, CopyStages)
      PROVE  CallOK(d)
  BY <1>1, <1>2 DEF CallOK, LikeCall
<1> HIDE DEF c
<1>3. /\ LikeCall([c EXCEPT !.at = at], c, CopyStages)
      /\ LikeCall([c EXCEPT !.at = at, !.handle = x], c, CopyStages)
      /\ LikeCall([c EXCEPT !.at = at, !.created = x], c, CopyStages)
      /\ LikeCall([c EXCEPT !.at = at, !.todo = todo], c, CopyStages)
      /\ LikeCall([c EXCEPT !.todo = todo], c, CopyStages)
  BY <1>1, CallGoesOn
<1>4. /\ CallOK([c EXCEPT !.at = at])
      /\ CallOK([c EXCEPT !.at = at, !.handle = x])
      /\ CallOK([c EXCEPT !.at = at, !.created = x])
      /\ CallOK([c EXCEPT !.at = at, !.todo = todo])
      /\ CallOK([c EXCEPT !.todo = todo])
  BY <1>2, <1>3
<1> QED BY <1>4 DEF c

\* copyFiles opens its source.
LEMMA CopyOpenKeeps ==
  ASSUME HistoryOK, StoreOK, StackOK, CopyOpen
  PROVE  Keeps(OffDst)
<1>1. At("open") /\ UNCHANGED storeVars
  BY DEF CopyOpen, OpenFile
<1>2. StoreOK' /\ \A x : Untouched(x)
  BY <1>1, StoreStays
<1>3. /\ stack # << >> /\ req' = req /\ req.method = "COPY" /\ CallOK(Top)
  BY <1>1, TopTells DEF CopyStages
<1> DEFINE c == [Top EXCEPT !.at = "stat", !.handle = Handle(Top.src)]
<1>4. Continue(c) \/ Fail("NotFound") \/ Fail("InternalServerError")
  BY DEF CopyOpen
<1>5. CallOK(c)
  <2>1. "stat" \in CopyStages /\ {} \subseteq Labels
    BY DEF CopyStages
  <2> QED BY <1>3, <2>1, CopyGoesOn
<1> HIDE DEF c
<1>6. StackOK'
  BY <1>3, <1>4, <1>5, StackContinues, StackFails
<1> QED BY <1>2, <1>6 DEF Keeps

\* copyFiles looks whether its destination is there.
LEMMA CopyStatKeeps ==
  ASSUME HistoryOK, StoreOK, StackOK, CopyStat
  PROVE  Keeps(OffDst)
<1>1. At("stat") /\ UNCHANGED storeVars
  BY DEF CopyStat, Stat
<1>2. StoreOK' /\ \A x : Untouched(x)
  BY <1>1, StoreStays
<1>3. /\ stack # << >> /\ req' = req /\ req.method = "COPY" /\ CallOK(Top)
  BY <1>1, TopTells DEF CopyStages
<1> DEFINE c == [Top EXCEPT !.at = "make", !.created = TRUE]
           d == [Top EXCEPT !.at = "remove"]
<1>4. Continue(c) \/ Continue(d) \/ Fail("PreconditionFailed") \/ Fail("Forbidden")
  <2>1. PICK result \in Results :
          CASE result = "notexist" -> Continue(c)
            [] result = "ok" /\ req.overwrite -> Continue(d)
            [] result = "ok" /\ ~req.overwrite -> Fail("PreconditionFailed")
            [] OTHER -> Fail("Forbidden")
    BY DEF CopyStat
  <2> HIDE DEF c, d
  <2> QED BY <2>1
<1>5. CallOK(c) /\ CallOK(d)
  <2>1. "make" \in CopyStages /\ "remove" \in CopyStages /\ {} \subseteq Labels
    BY DEF CopyStages
  <2> QED BY <1>3, <2>1, CopyGoesOn
<1> HIDE DEF c, d
<1>6. StackOK'
  BY <1>3, <1>4, <1>5, StackContinues, StackFails
<1> QED BY <1>2, <1>6 DEF Keeps

\* copyFiles removes what the destination was.
LEMMA CopyRemoveKeeps ==
  ASSUME HistoryOK, StoreOK, StackOK, CopyRemove
  PROVE  Keeps(OffDst)
<1>1. At("remove")
  BY DEF CopyRemove
<1>2. /\ stack # << >> /\ req' = req /\ req.method = "COPY" /\ CallOK(Top)
  BY <1>1, TopTells DEF CopyStages
<1> DEFINE c == [Top EXCEPT !.at = "make"]
<1>3. PICK result \in Results :
        RemoveAll(Top.dst, result) /\ (Continue(c) \/ Fail("Forbidden"))
  BY DEF CopyRemove
<1>4. CallOK(c)
  <2>1. "make" \in CopyStages /\ {} \subseteq Labels
    BY DEF CopyStages
  <2> QED BY <1>2, <2>1, CopyGoesOn
<1> HIDE DEF c
<1>5. StackOK'
  BY <1>2, <1>3, <1>4, StackContinues, StackFails
<1>6. Top.dst \in Seq(Labels) /\ AtOrAbove(req.dst, Top.dst)
  BY <1>2 DEF CallOK, IsCall
<1>7. StoreOK' /\ \A x : ~AtOrAbove(Top.dst, x) => Untouched(x)
  BY <1>3, <1>6, RemoveAllKeeps
<1>8. \A x \in Seq(Labels) : OffDst(x) => ~AtOrAbove(Top.dst, x)
  BY <1>6, BelowDst
<1> QED BY <1>5, <1>7, <1>8 DEF Keeps

\* copyFiles makes a directory.
LEMMA CopyMkdirKeeps ==
  ASSUME HistoryOK, StoreOK, StackOK, CopyMkdir
  PROVE  Keeps(OffDst)
<1>1. At("make")
  BY DEF CopyMkdir
<1>2. /\ stack # << >> /\ req' = req /\ req.method = "COPY" /\ CallOK(Top)
  BY <1>1, TopTells DEF CopyStages
<1> DEFINE c == [Top EXCEPT !.at = "readdir"]
<1>3. PICK result \in Results :
        Mkdir(Top.dst, result) /\ (Continue(c) \/ Return(Success) \/ Fail("Forbidden"))
  <2>1. PICK result \in Results :
          /\ Mkdir(Top.dst, result)
          /\ CASE result = "ok" /\ req.depth = Infinite -> Continue(c)
               [] result = "ok" /\ req.depth # Infinite -> Return(Success)
               [] OTHER -> Fail("Forbidden")
    BY DEF CopyMkdir
  <2> HIDE DEF c
  <2> QED BY <2>1
<1>4. CallOK(c)
  <2>1. "readdir" \in CopyStages /\ {} \subseteq Labels
    BY DEF CopyStages
  <2> QED BY <1>2, <2>1, CopyGoesOn
<1> HIDE DEF c
<1>5. Success # "none"
  BY DEF Success
<1>6. StackOK'
  BY <1>2, <1>3, <1>4, <1>5, StackContinues, StackFails, StackReturns
<1>7. Top.dst \in Seq(Labels) /\ AtOrAbove(req.dst, Top.dst)
  BY <1>2 DEF CallOK, IsCall
<1>8. StoreOK' /\ \A x : x # Top.dst => Untouched(x)
  BY <1>3, <1>7, MkdirKeeps
<1>9. \A x \in Seq(Labels) : OffDst(x) => x # Top.dst
  BY <1>7, BelowDst
<1> QED BY <1>6, <1>8, <1>9 DEF Keeps

\* copyFiles makes a file.
LEMMA CopyCreateKeeps ==
  ASSUME HistoryOK, StoreOK, StackOK, CopyCreate
  PROVE  Keeps(OffDst)
<1>1. At("make")
  BY DEF CopyCreate
<1>2. /\ stack # << >> /\ req' = req /\ req.method = "COPY" /\ CallOK(Top)
  BY <1>1, TopTells DEF CopyStages
<1>3. PICK result \in Results :
        /\ Create(Top.dst, Top.handle.rest, result)
        /\ Return(Success) \/ Fail("Conflict") \/ Fail("Forbidden")
  BY DEF CopyCreate
<1>4. Success # "none"
  BY DEF Success
<1>5. StackOK'
  BY <1>2, <1>3, <1>4, StackFails, StackReturns
<1>6. Top.dst \in Seq(Labels) /\ AtOrAbove(req.dst, Top.dst)
  BY <1>2 DEF CallOK, IsCall
<1>7. StoreOK' /\ \A x : x # Top.dst => Untouched(x)
  BY <1>3, <1>6, CreateKeeps
<1>8. \A x \in Seq(Labels) : OffDst(x) => x # Top.dst
  BY <1>6, BelowDst
<1> QED BY <1>5, <1>7, <1>8 DEF Keeps

\* copyFiles lists its source.
LEMMA CopyListKeeps ==
  ASSUME HistoryOK, StoreOK, StackOK, CopyList
  PROVE  Keeps(OffDst)
<1>1. At("readdir") /\ UNCHANGED storeVars
  BY DEF CopyList
<1>2. StoreOK' /\ \A x : Untouched(x)
  BY <1>1, StoreStays
<1>3. /\ stack # << >> /\ req' = req /\ req.method = "COPY" /\ CallOK(Top)
  BY <1>1, TopTells DEF CopyStages
<1> DEFINE c == [Top EXCEPT !.at = "children", !.todo = Members(Top.handle)]
<1>4. Continue(c) \/ Fail("Forbidden")
  BY DEF CopyList
<1>5. CallOK(c)
  <2>1. "children" \in CopyStages /\ Members(Top.handle) \subseteq Labels
    BY MembersAreLabels DEF CopyStages
  <2> QED BY <1>3, <2>1, CopyGoesOn
<1> HIDE DEF c
<1>6. StackOK'
  BY <1>3, <1>4, <1>5, StackContinues, StackFails
<1> QED BY <1>2, <1>6 DEF Keeps

\* A member of a path is below the path.
LEMMA MemberBelow ==
  ASSUME NEW p \in Seq(Labels), NEW n \in Labels
  PROVE  Append(p, n) \in Seq(Labels) /\ AtOrAbove(p, Append(p, n))
<1>1. /\ Append(p, n) \in Seq(Labels) /\ Len(Append(p, n)) = Len(p) + 1
      /\ \A i \in 1..Len(p) : Append(p, n)[i] = p[i]
  BY AppendProperties
<1> QED BY <1>1, EmptySeq DEF AtOrAbove

\* copyFiles calls itself for a member.
LEMMA CopyMemberKeeps ==
  ASSUME HistoryOK, StoreOK, StackOK, CopyMember
  PROVE  Keeps(OffDst)
<1>1. At("children") /\ UNCHANGED storeVars
  BY DEF CopyMember
<1>2. StoreOK' /\ \A x : Untouched(x)
  BY <1>1, StoreStays
<1>3. /\ stack # << >> /\ req' = req /\ req.method = "COPY" /\ CallOK(Top)
      /\ Len(stack) \in Nat \ {0}
  BY <1>1, TopTells DEF CopyStages
<1>4. /\ Top.src \in Seq(Labels) /\ Top.dst \in Seq(Labels) /\ Top.todo \subseteq Labels
      /\ AtOrAbove(req.dst, Top.dst)
  BY <1>3 DEF CallOK, IsCall
<1>5. CASE Top.todo = {} /\ Return(Success)
  <2>1. StackOK'
    BY <1>3, <1>5, StackReturns DEF Success
  <2> QED BY <1>2, <2>1 DEF Keeps
<1>6. CASE \E name \in Top.todo :
             IF Len(stack) = MaxRecursion
             THEN Fail("InternalServerError")
             ELSE Enter([Top EXCEPT !.todo = @ \ {name}],
                        Call(Append(Top.src, name), Append(Top.dst, name)))
  <2>1. CASE Fail("InternalServerError")
    <3>1. StackOK'
      BY <1>3, <2>1, StackFails
    <3> QED BY <1>2, <3>1 DEF Keeps
  <2>2. ASSUME NEW name \in Top.todo, Len(stack) # MaxRecursion,
               Enter([Top EXCEPT !.todo = Top.todo \ {name}],
                     Call(Append(Top.src, name), Append(Top.dst, name)))
        PROVE  Keeps(OffDst)
    <3> DEFINE c == [Top EXCEPT !.todo = Top.todo \ {name}]
               d == Call(Append(Top.src, name), Append(Top.dst, name))
    <3>1. CallOK(c)
      <4>1. "children" \in CopyStages /\ Top.todo \ {name} \subseteq Labels
        BY <1>4 DEF CopyStages
      <4> QED BY <1>3, <4>1, CopyGoesOn
    <3>2. CallOK(d)
      <4>1. /\ Append(Top.src, name) \in Seq(Labels) /\ Append(Top.dst, name) \in Seq(Labels)
            /\ AtOrAbove(Top.dst, Append(Top.dst, name))
        BY <1>4, MemberBelow
      <4>2. req.dst \in Seq(Labels)
        <5>1. req.dst \in Seq(Segments)
          BY RequestsAssumption DEF HistoryOK
        <5> QED BY <5>1, SeqMonotonic DEF Labels
      <4>3. AtOrAbove(req.dst, Append(Top.dst, name))
        BY <1>4, <4>1, <4>2, AtOrAboveTransitive
      <4>4. IsCall(d, CopyStages) /\ d.dst = Append(Top.dst, name)
        BY <4>1 DEF Call, IsCall, CopyStages
      <4> QED BY <1>3, <4>3, <4>4 DEF CallOK
    <3>3. Len(stack) < MaxRecursion
      BY <1>3, <2>2, BoundsAssumption DEF StackOK
    <3> HIDE DEF c, d
    <3>4. Enter(c, d)
      BY <2>2 DEF c, d
    <3>5. StackOK'
      BY <1>3, <3>1, <3>2, <3>3, <3>4, StackEnters
    <3> QED BY <1>2, <3>5 DEF Keeps
  <2> QED BY <1>6, <2>1, <2>2
<1> QED BY <1>5, <1>6 DEF CopyMember

\* A step of COPY keeps the store, the calls, and what is off its destination.
LEMMA CopyKeeps ==
  ASSUME HistoryOK, StoreOK, StackOK, Copy
  PROVE  Keeps(OffDst) /\ req.method = "COPY" /\ req' = req
<1>1. Keeps(OffDst)
  BY CopyOpenKeeps, CopyStatKeeps, CopyRemoveKeeps, CopyMkdirKeeps, CopyCreateKeeps,
     CopyListKeeps, CopyMemberKeeps DEF Copy
<1>2. PICK step \in CopyStages : At(step)
  BY DEF Copy, CopyOpen, CopyStat, CopyRemove, CopyMkdir, CopyCreate, CopyList, CopyMember,
         CopyStages
<1> QED BY <1>1, <1>2, TopTells

(* Paths that are neither the source's nor the destination's. *)
OffBoth(x) == ~AtOrAbove(req.dst, x) /\ ~AtOrAbove(req.src, x)

\* A call of moveFiles goes on.
LEMMA MoveGoesOn ==
  ASSUME req.method = "MOVE", CallOK(Top), NEW at \in MoveStages, NEW x
  PROVE  /\ CallOK([Top EXCEPT !.at = at])
         /\ CallOK([Top EXCEPT !.at = at, !.created = x])
<1> DEFINE c == Top
<1>1. IsCall(c, MoveStages) /\ c.src = req.src /\ c.dst = req.dst /\ {} \subseteq Labels
  BY DEF CallOK
<1>2. ASSUME NEW d, LikeCall(d, c, MoveStages)
      PROVE  CallOK(d)
  BY <1>1, <1>2 DEF CallOK, LikeCall
<1> HIDE DEF c
<1>3. /\ LikeCall([c EXCEPT !.at = at], c, MoveStages)
      /\ LikeCall([c EXCEPT !.at = at, !.created = x], c, MoveStages)
  BY <1>1, CallGoesOn
<1>4. /\ CallOK([c EXCEPT !.at = at])
      /\ CallOK([c EXCEPT !.at = at, !.created = x])
  BY <1>2, <1>3
<1> QED BY <1>4 DEF c

\* moveFiles looks whether its destination is there.
LEMMA MoveLooksKeeps ==
  ASSUME HistoryOK, StoreOK, StackOK, MoveStat
  PROVE  Keeps(OffBoth)
<1>1. At("move") /\ UNCHANGED storeVars
  BY DEF MoveStat, Stat
<1>2. StoreOK' /\ \A x : Untouched(x)
  BY <1>1, StoreStays
<1>3. /\ stack # << >> /\ req' = req /\ req.method = "MOVE" /\ CallOK(Top)
  BY <1>1, TopTells DEF MoveStages
<1> DEFINE c == [Top EXCEPT !.at = "rename", !.created = TRUE]
           d == [Top EXCEPT !.at = "clear"]
<1>4. Continue(c) \/ Continue(d) \/ Fail("PreconditionFailed") \/ Fail("Forbidden")
  <2>1. PICK result \in Results :
          CASE result = "notexist" -> Continue(c)
            [] result = "ok" /\ req.overwrite -> Continue(d)
            [] result = "ok" /\ ~req.overwrite -> Fail("PreconditionFailed")
            [] OTHER -> Fail("Forbidden")
    BY DEF MoveStat
  <2> HIDE DEF c, d
  <2> QED BY <2>1
<1>5. CallOK(c) /\ CallOK(d)
  <2>1. "rename" \in MoveStages /\ "clear" \in MoveStages
    BY DEF MoveStages
  <2> QED BY <1>3, <2>1, MoveGoesOn
<1> HIDE DEF c, d
<1>6. StackOK'
  BY <1>3, <1>4, <1>5, StackContinues, StackFails
<1> QED BY <1>2, <1>6 DEF Keeps

\* The paths of the request are paths.
LEMMA PathsOfRequest ==
  ASSUME HistoryOK
  PROVE  req.src \in Seq(Labels) /\ req.dst \in Seq(Labels)
<1>1. req.src \in Seq(Segments) /\ req.dst \in Seq(Segments)
  BY RequestsAssumption DEF HistoryOK
<1> QED BY <1>1, SeqMonotonic DEF Labels

\* moveFiles removes what the destination was.
LEMMA MoveRemoveKeeps ==
  ASSUME HistoryOK, StoreOK, StackOK, MoveRemove
  PROVE  Keeps(OffBoth)
<1>1. At("clear")
  BY DEF MoveRemove
<1>2. /\ stack # << >> /\ req' = req /\ req.method = "MOVE" /\ CallOK(Top)
  BY <1>1, TopTells DEF MoveStages
<1> DEFINE c == [Top EXCEPT !.at = "rename"]
<1>3. PICK result \in Results :
        RemoveAll(Top.dst, result) /\ (Continue(c) \/ Fail("Forbidden"))
  BY DEF MoveRemove
<1>4. CallOK(c)
  <2>1. "rename" \in MoveStages
    BY DEF MoveStages
  <2> QED BY <1>2, <2>1, MoveGoesOn
<1> HIDE DEF c
<1>5. StackOK'
  BY <1>2, <1>3, <1>4, StackContinues, StackFails
<1>6. Top.dst = req.dst /\ Top.dst \in Seq(Labels)
  BY <1>2, PathsOfRequest DEF CallOK
<1>7. StoreOK' /\ \A x : ~AtOrAbove(Top.dst, x) => Untouched(x)
  BY <1>3, <1>6, RemoveAllKeeps
<1> QED BY <1>5, <1>6, <1>7 DEF Keeps, OffBoth

\* moveFiles calls Rename.
LEMMA MoveRenameKeeps ==
  ASSUME HistoryOK, StoreOK, StackOK, MoveRename
  PROVE  Keeps(OffBoth)
<1>1. At("rename")
  BY DEF MoveRename
<1>2. /\ stack # << >> /\ req' = req /\ req.method = "MOVE" /\ CallOK(Top)
  BY <1>1, TopTells DEF MoveStages
<1>3. PICK result \in Results :
        Rename(Top.src, Top.dst, result) /\ (Return(Success) \/ Fail("Forbidden"))
  BY DEF MoveRename
<1>4. StackOK'
  BY <1>2, <1>3, StackReturns, StackFails DEF Success
<1>5. /\ Top.src = req.src /\ Top.src \in Seq(Labels)
      /\ Top.dst = req.dst /\ Top.dst \in Seq(Labels)
  BY <1>2, PathsOfRequest DEF CallOK
<1>6. StoreOK' /\ \A x : ~AtOrAbove(Top.src, x) /\ ~AtOrAbove(Top.dst, x) => Untouched(x)
  BY <1>3, <1>5, RenameKeeps
<1> QED BY <1>4, <1>5, <1>6 DEF Keeps, OffBoth

\* A step of MOVE keeps the store, the calls, and what is off its two paths.
LEMMA MoveKeeps ==
  ASSUME HistoryOK, StoreOK, StackOK, Move
  PROVE  Keeps(OffBoth) /\ req.method = "MOVE" /\ req' = req
<1>1. Keeps(OffBoth)
  BY MoveLooksKeeps, MoveRemoveKeeps, MoveRenameKeeps DEF Move
<1>2. PICK step \in MoveStages : At(step)
  BY DEF Move, MoveStat, MoveRemove, MoveRename, MoveStages
<1> QED BY <1>1, <1>2, TopTells

-----------------------------------------------------------------------------
(* The steps of PROPFIND *)

(* Responses in order: ListedInOrder of the paths l. *)
InOrder(l) ==
  \A i, j \in DOMAIN l :
    /\ i # j => l[i] # l[j]
    /\ Above(l[i], l[j]) => i < j

\* A response for a path that none is for yet, nor for one below it, keeps the
\* order.
LEMMA ResponseInOrder ==
  ASSUME NEW l \in Seq(Seq(Labels)), InOrder(l), NEW p \in Seq(Labels), Fresh(l, p)
  PROVE  /\ Append(l, p) \in Seq(Seq(Labels)) /\ InOrder(Append(l, p))
         /\ Len(Append(l, p)) = Len(l) + 1 /\ Append(l, p)[Len(l) + 1] = p
         /\ \A i \in 1..Len(l) : Append(l, p)[i] = l[i]
<1> DEFINE t == Append(l, p)
           n == Len(l)
<1>1. /\ t \in Seq(Seq(Labels)) /\ Len(t) = n + 1 /\ DOMAIN t = 1..(n + 1)
      /\ t[n + 1] = p /\ \A i \in 1..n : t[i] = l[i]
      /\ n \in Nat /\ DOMAIN l = 1..n
  BY AppendProperties, LenProperties
<1> HIDE DEF t
<1>2. AtOrAbove(p, p)
  BY AtOrAboveReflexive
<1>3. \A k \in 1..n : l[k] # p /\ ~Above(p, l[k])
  BY <1>2 DEF Fresh, Above
<1>4. ASSUME NEW i \in 1..(n + 1), NEW j \in 1..(n + 1)
      PROVE  (i # j => t[i] # t[j]) /\ (Above(t[i], t[j]) => i < j)
  <2>1. CASE i \in 1..n /\ j \in 1..n
    BY <1>1, <2>1 DEF InOrder
  <2>2. CASE i \in 1..n /\ j = n + 1
    <3>1. t[i] = l[i] /\ t[j] = p /\ i < j
      BY <1>1, <2>2
    <3> QED BY <1>3, <2>2, <3>1
  <2>3. CASE i = n + 1 /\ j \in 1..n
    <3>1. t[i] = p /\ t[j] = l[j]
      BY <1>1, <2>3
    <3> QED BY <1>3, <2>3, <3>1
  <2>4. CASE i = n + 1 /\ j = n + 1
    BY <2>4 DEF Above
  <2> QED BY <1>1, <2>1, <2>2, <2>3, <2>4
<1>5. InOrder(t)
  BY <1>1, <1>4 DEF InOrder
<1> QED BY <1>1, <1>5 DEF t, n

\* A response for what a loop has taken is not one for what it has left.
LEMMA ResponseWithin ==
  ASSUME NEW l \in Seq(Seq(Labels)), NEW p \in Seq(Labels), InOrder(l), Fresh(l, p),
         NEW c, IsNode(c), NEW d, IsNode(d), d.name = p, Within(c, d), NotYet(l, c)
  PROVE  NotYet(Append(l, p), c)
<1>1. /\ Len(Append(l, p)) = Len(l) + 1 /\ Append(l, p)[Len(l) + 1] = p
      /\ \A i \in 1..Len(l) : Append(l, p)[i] = l[i] /\ Len(l) \in Nat
  BY ResponseInOrder, LenProperties
<1>2. c.at = "members" /\ c.name \in Seq(Labels) /\ c.todo \subseteq Labels
  BY DEF Within, IsNode
<1>3. PICK m \in Labels \ c.todo : AtOrAbove(Append(c.name, m), p)
  BY DEF Within
<1>4. ASSUME NEW n \in c.todo
      PROVE  ~AtOrAbove(Append(c.name, n), p)
  <2>1. /\ Len(Append(c.name, m)) = Len(c.name) + 1 /\ Append(c.name, m)[Len(c.name) + 1] = m
        /\ Len(Append(c.name, n)) = Len(c.name) + 1 /\ Append(c.name, n)[Len(c.name) + 1] = n
        /\ Len(c.name) \in Nat
    BY <1>2, AppendProperties, LenProperties
  <2>2. n # m
    BY <1>3
  <2> DEFINE k == Len(c.name) + 1
  <2>3. k \in 1..k
    BY <2>1
  <2>4. p[k] = m
    BY <1>3, <2>1, <2>3 DEF AtOrAbove
  <2>5. AtOrAbove(Append(c.name, n), p) => p[k] = n
    BY <2>1, <2>3 DEF AtOrAbove
  <2> QED BY <2>2, <2>4, <2>5
<1>5. ASSUME NEW n \in c.todo
      PROVE  Fresh(Append(l, p), Append(c.name, n))
  <2>1. Fresh(l, Append(c.name, n))
    BY <1>2 DEF NotYet
  <2>2. \A k \in 1..(Len(l) + 1) : k \in 1..Len(l) \/ k = Len(l) + 1
    BY LenProperties
  <2> QED BY <1>1, <1>4, <2>1, <2>2 DEF Fresh
<1> QED BY <1>2, <1>5 DEF NotYet

(* A step of walkFS sends a response for the path it visits, or none. *)
MaySend ==
  \/ listed' = listed
  \/ Top.at = "visit" /\ listed' = Append(listed, Top.name)

(* The innermost call is one of walkFS. *)
Walking ==
  /\ StackOK /\ WalkOK /\ req.method = "PROPFIND" /\ stack # << >> /\ req' = req
  /\ MaySend

\* Whatever the step sends, it is in order, and none of the calls around the
\* innermost is about to visit it.
LEMMA FramesStay ==
  ASSUME Walking
  PROVE  /\ listed' \in Seq(Seq(Labels)) /\ InOrder(listed')
         /\ Len(stack) \in Nat \ {0} /\ Top = stack[Len(stack)]
         /\ \A i \in 1..Len(stack) : IsNode(stack[i])
         /\ \A i \in 1..(Len(stack) - 1) : Within(stack[i], Top) /\ NotYet(listed', stack[i])
<1>1. /\ Len(stack) \in Nat \ {0} /\ Top = stack[Len(stack)]
      /\ \A i \in 1..Len(stack) : IsNode(stack[i])
  BY EmptySeq DEF Walking, StackOK, CallOK, Top, Last
<1>2. /\ listed \in Seq(Seq(Labels)) /\ InOrder(listed)
      /\ \A i \in 1..Len(stack) : NotYet(listed, stack[i])
      /\ \A i, j \in 1..Len(stack) : i < j => Within(stack[i], stack[j])
  BY DEF Walking, WalkOK, ListedInOrder, InOrder
<1>3. IsNode(Top) /\ NotYet(listed, Top) /\ Top.name \in Seq(Labels)
  BY <1>1, <1>2 DEF IsNode
<1>4. \A i \in 1..(Len(stack) - 1) : Within(stack[i], Top)
  BY <1>1, <1>2
<1>5. CASE listed' = listed
  BY <1>1, <1>2, <1>4, <1>5
<1>6. CASE Top.at = "visit" /\ listed' = Append(listed, Top.name)
  <2>1. Fresh(listed, Top.name)
    BY <1>3, <1>6 DEF NotYet
  <2>2. listed' \in Seq(Seq(Labels)) /\ InOrder(listed')
    BY <1>2, <1>3, <1>6, <2>1, ResponseInOrder
  <2>3. ASSUME NEW i \in 1..(Len(stack) - 1)
        PROVE  NotYet(listed', stack[i])
    <3>1. IsNode(stack[i]) /\ NotYet(listed, stack[i]) /\ Within(stack[i], Top)
      BY <1>1, <1>2, <1>4
    <3> QED BY <1>2, <1>3, <1>6, <2>1, <3>1, ResponseWithin
  <2> QED BY <1>1, <1>4, <2>2, <2>3
<1> QED BY <1>5, <1>6 DEF Walking, MaySend

\* What makes WalkOK true after a step of PROPFIND.
LEMMA WalkAfter ==
  ASSUME Walking, Len(stack') \in Nat,
         \A i \in 1..Len(stack') : NotYet(listed', stack'[i]),
         \A i, j \in 1..Len(stack') : i < j => Within(stack'[i], stack'[j])
  PROVE  WalkOK'
<1>1. listed' \in Seq(Seq(Labels)) /\ InOrder(listed')
  BY FramesStay
<1>2. req' = req /\ req.method = "PROPFIND"
  BY DEF Walking
<1>3. \A i \in 1..Len(stack') : NotYet(listed, stack[i])'
  BY <1>2 DEF NotYet
<1>4. ListedInOrder'
  BY <1>1 DEF ListedInOrder, InOrder
<1> QED BY <1>1, <1>2, <1>3, <1>4 DEF WalkOK

\* The innermost walk goes on at its path.
LEMMA WalkContinues ==
  ASSUME Walking, NEW c, IsNode(c), c.name = Top.name, NotYet(listed', c), Continue(c)
  PROVE  StackOK' /\ WalkOK'
<1>1. /\ Len(stack) \in Nat \ {0} /\ Top = stack[Len(stack)]
      /\ \A i \in 1..(Len(stack) - 1) : Within(stack[i], Top) /\ NotYet(listed', stack[i])
  BY FramesStay
<1>2. CallOK(c) /\ StackOK /\ stack # << >> /\ req' = req
  BY DEF CallOK, Walking
<1>3. StackOK'
  BY <1>2, StackContinues
<1>4. /\ Len(stack') = Len(stack)
      /\ \A i \in 1..(Len(stack) - 1) : stack'[i] = stack[i]
      /\ stack'[Len(stack)] = c
  BY <1>2, Continues DEF StackOK
<1>5. \A i \in 1..Len(stack') : i \in 1..(Len(stack) - 1) \/ i = Len(stack)
  BY <1>1, <1>4
<1>6. \A i \in 1..Len(stack') : NotYet(listed', stack'[i])
  BY <1>1, <1>4, <1>5
<1>7. ASSUME NEW i \in 1..Len(stack'), NEW j \in 1..Len(stack'), i < j
      PROVE  Within(stack'[i], stack'[j])
  <2>1. i \in 1..(Len(stack) - 1) /\ stack'[i] = stack[i]
    BY <1>1, <1>4, <1>7
  <2>2. CASE j \in 1..(Len(stack) - 1)
    <3>1. \A k, l \in 1..Len(stack) : k < l => Within(stack[k], stack[l])
      BY DEF Walking, WalkOK
    <3> QED BY <1>1, <1>4, <1>7, <2>1, <2>2, <3>1
  <2>3. CASE j = Len(stack)
    <3>1. Within(stack[i], c)
      BY <1>1, <2>1 DEF Within
    <3> QED BY <1>4, <2>1, <2>3, <3>1
  <2> QED BY <1>5, <2>2, <2>3
<1>8. WalkOK'
  BY <1>1, <1>4, <1>6, <1>7, WalkAfter
<1> QED BY <1>3, <1>8

\* The innermost walk returns.
LEMMA WalkReturns ==
  ASSUME Walking, NEW code, code # "none", Return(code)
  PROVE  StackOK' /\ WalkOK'
<1>1. /\ Len(stack) \in Nat \ {0}
      /\ \A i \in 1..(Len(stack) - 1) : NotYet(listed', stack[i])
  BY FramesStay
<1>2. StackOK /\ stack # << >> /\ req' = req
  BY DEF Walking
<1>3. StackOK'
  BY <1>2, StackReturns
<1>4. /\ Len(stack') = Len(stack) - 1
      /\ \A i \in 1..(Len(stack) - 1) : stack'[i] = stack[i]
  BY <1>2, Returns DEF StackOK
<1>5. \A i \in 1..Len(stack') : NotYet(listed', stack'[i])
  BY <1>1, <1>4
<1>6. ASSUME NEW i \in 1..Len(stack'), NEW j \in 1..Len(stack'), i < j
      PROVE  Within(stack'[i], stack'[j])
  <2>1. \A k, l \in 1..Len(stack) : k < l => Within(stack[k], stack[l])
    BY DEF Walking, WalkOK
  <2>2. i \in 1..(Len(stack) - 1) /\ j \in 1..(Len(stack) - 1)
    BY <1>4
  <2>3. Within(stack[i], stack[j])
    BY <1>1, <1>6, <2>1, <2>2
  <2> QED BY <1>4, <2>2, <2>3
<1>7. WalkOK'
  BY <1>1, <1>4, <1>5, <1>6, WalkAfter
<1> QED BY <1>3, <1>7

\* The walk ends with an error.
LEMMA WalkFails ==
  ASSUME Walking, NEW code, code # "none", Fail(code)
  PROVE  StackOK' /\ WalkOK'
<1>1. StackOK'
  BY StackFails DEF Walking
<1>2. stack' = << >> /\ Len(stack') = 0
  BY EmptySeq DEF Fail
<1>3. WalkOK'
  BY <1>2, WalkAfter
<1> QED BY <1>1, <1>3

\* The innermost walk takes a member from its list and walks it.
LEMMA WalkEnters ==
  ASSUME Walking, listed' = listed, Top.at = "members", NEW n \in Top.todo,
         NEW c, LikeNode(c, Top, "members", Top.todo \ {n}),
         NEW d, IsNode(d), d.name = Append(Top.name, n), d.at = "visit", Enter(c, d)
  PROVE  StackOK' /\ WalkOK'
<1>1. /\ Len(stack) \in Nat \ {0} /\ Top = stack[Len(stack)]
      /\ \A i \in 1..(Len(stack) - 1) : Within(stack[i], Top) /\ NotYet(listed', stack[i])
      /\ IsNode(Top)
  BY FramesStay
<1>2. CallOK(c) /\ CallOK(d) /\ StackOK /\ stack # << >> /\ req' = req /\ req.method = "PROPFIND"
  BY DEF CallOK, Walking, LikeNode
<1>3. StackOK'
  BY <1>2, StackEnters
<1>4. /\ Len(stack') = Len(stack) + 1
      /\ \A i \in 1..(Len(stack) - 1) : stack'[i] = stack[i]
      /\ stack'[Len(stack)] = c /\ stack'[Len(stack) + 1] = d
  BY <1>2, Enters DEF StackOK
<1>5. \A i \in 1..Len(stack') :
        i \in 1..(Len(stack) - 1) \/ i = Len(stack) \/ i = Len(stack) + 1
  BY <1>1, <1>4
<1>6. /\ c.name = Top.name /\ c.at = "members" /\ c.todo = Top.todo \ {n}
      /\ Top.name \in Seq(Labels) /\ n \in Labels
  BY <1>1 DEF LikeNode, IsNode
<1>7. NotYet(listed, Top)
  BY <1>1 DEF Walking, WalkOK
<1>8. NotYet(listed', c) /\ NotYet(listed', d)
  BY <1>6, <1>7 DEF NotYet
<1>9. \A i \in 1..Len(stack') : NotYet(listed', stack'[i])
  BY <1>1, <1>4, <1>5, <1>8
<1>10. /\ Append(Top.name, n) \in Seq(Labels) /\ AtOrAbove(Top.name, Append(Top.name, n))
       /\ AtOrAbove(Append(Top.name, n), Append(Top.name, n))
  BY <1>6, MemberBelow, AtOrAboveReflexive
<1>11. Within(c, d)
  BY <1>6, <1>10 DEF Within
<1>12. ASSUME NEW i \in 1..(Len(stack) - 1)
       PROVE  Within(stack[i], c) /\ Within(stack[i], d)
  <2>1. Within(stack[i], c)
    BY <1>1, <1>6 DEF Within
  <2>2. IsNode(stack[i])
    BY <1>1, <1>2 DEF StackOK, CallOK
  <2>3. PICK m \in Labels \ stack[i].todo : AtOrAbove(Append(stack[i].name, m), Top.name)
    BY <1>1 DEF Within
  <2>4. Append(stack[i].name, m) \in Seq(Labels)
    BY <2>2, MemberBelow DEF IsNode
  <2>5. AtOrAbove(Append(stack[i].name, m), d.name)
    BY <1>6, <1>10, <2>3, <2>4, AtOrAboveTransitive
  <2>6. Within(stack[i], d)
    BY <1>1, <2>5 DEF Within
  <2> QED BY <2>1, <2>6
<1>13. ASSUME NEW i \in 1..Len(stack'), NEW j \in 1..Len(stack'), i < j
       PROVE  Within(stack'[i], stack'[j])
  <2>1. CASE j \in 1..(Len(stack) - 1)
    <3>1. \A k, l \in 1..Len(stack) : k < l => Within(stack[k], stack[l])
      BY DEF Walking, WalkOK
    <3> QED BY <1>1, <1>4, <1>13, <2>1, <3>1
  <2>2. CASE j = Len(stack)
    <3>1. i \in 1..(Len(stack) - 1)
      BY <1>1, <1>13, <2>2
    <3> QED BY <1>4, <1>12, <2>2, <3>1
  <2>3. CASE j = Len(stack) + 1
    <3>1. i \in 1..(Len(stack) - 1) \/ i = Len(stack)
      BY <1>1, <1>4, <1>13, <2>3
    <3> QED BY <1>4, <1>11, <1>12, <2>3, <3>1
  <2> QED BY <1>5, <2>1, <2>2, <2>3
<1>14. WalkOK'
  BY <1>1, <1>4, <1>9, <1>13, WalkAfter
<1> QED BY <1>3, <1>14

\* The stage of a walk, and what the invariant says of it.
LEMMA WalkingFrom ==
  ASSUME HistoryOK, StackOK, WalkOK, NEW step \in WalkStages, At(step), MaySend
  PROVE  /\ Walking /\ IsNode(Top) /\ Top.at = step /\ NotYet(listed, Top)
         /\ Top.name \in Seq(Labels) /\ Top.todo \subseteq Labels
         /\ req.method = "PROPFIND" /\ req' = req
<1>1. /\ stack # << >> /\ Top.at = step /\ req' = req /\ CallOK(Top)
      /\ Len(stack) \in Nat \ {0} /\ Top = stack[Len(stack)] /\ req.method = "PROPFIND"
  BY TopTells
<1>2. IsNode(Top) /\ NotYet(listed, Top)
  BY <1>1 DEF CallOK, WalkOK
<1>3. Top.name \in Seq(Labels) /\ Top.todo \subseteq Labels
  BY <1>2 DEF IsNode
<1> QED BY <1>1, <1>2, <1>3 DEF Walking

\* The handler has found the file, or has not.
LEMMA WalkFindKeeps ==
  ASSUME HistoryOK, StackOK, WalkOK, WalkFind
  PROVE  StackOK' /\ WalkOK'
<1>1. At("find") /\ listed' = listed
  BY DEF WalkFind, replyVars
<1>2. "find" \in WalkStages /\ "visit" \in WalkStages
  BY DEF WalkStages
<1>3. Walking /\ Top.at = "find" /\ NotYet(listed, Top)
  BY <1>1, <1>2, WalkingFrom DEF MaySend
<1> DEFINE c == Node(req.src, IsDir(req.src), req.depth)
<1>4. Continue(c) \/ Fail("NotFound") \/ Fail("MethodNotAllowed")
  BY DEF WalkFind
<1>5. listed = << >> /\ Top.name = req.src /\ Len(listed) = 0
  BY <1>3, EmptySeq DEF NotYet
<1>6. IsNode(c) /\ c.name = req.src /\ c.at = "visit"
  BY <1>2, PathsOfRequest DEF Node, IsNode
<1> HIDE DEF c
<1>7. NotYet(listed', c)
  BY <1>1, <1>5, <1>6 DEF NotYet, Fresh
<1> QED BY <1>3, <1>4, <1>5, <1>6, <1>7, WalkContinues, WalkFails

\* A file is visited: its response is sent, or it is left out.
LEMMA WalkVisitKeeps ==
  ASSUME HistoryOK, StackOK, WalkOK, WalkVisit
  PROVE  StackOK' /\ WalkOK'
<1> DEFINE c == [Top EXCEPT !.at = "enter"]
<1>1. At("visit")
  BY DEF WalkVisit
<1>2. \/ listed' = Append(listed, Top.name) /\ (Continue(c) \/ Return("Written"))
      \/ listed' = listed /\ (Return("Written") \/ Fail("InternalServerError"))
  <2>1. PICK result \in Results :
          CASE result = "ok" ->
                 /\ listed' = Append(listed, Top.name)
                 /\ UNCHANGED skipped
                 /\ IF Top.dir /\ Top.depth # 0
                    THEN Continue(c) /\ document' = "open"
                    ELSE /\ Return("Written")
                         /\ document' = IF Len(stack) = 1 THEN "closed" ELSE "open"
            [] result = "path" ->
                 /\ Walked
                 /\ skipped' = skipped \cup {Top.name} /\ UNCHANGED listed
            [] OTHER -> Abort
    BY DEF WalkVisit
  <2> HIDE DEF c
  <2>2. CASE result = "ok"
    BY <2>1, <2>2
  <2>3. CASE result = "path"
    BY <2>1, <2>3 DEF Walked
  <2>4. CASE result # "ok" /\ result # "path"
    BY <2>1, <2>4 DEF Abort
  <2> QED BY <2>2, <2>3, <2>4
<1>3. MaySend
  <2>1. Top.at = "visit"
    BY <1>1 DEF At
  <2> QED BY <1>2, <2>1 DEF MaySend
<1>4. "visit" \in WalkStages /\ "enter" \in WalkStages
  BY DEF WalkStages
<1>5. /\ Walking /\ IsNode(Top) /\ Top.at = "visit" /\ NotYet(listed, Top)
      /\ Top.name \in Seq(Labels) /\ Top.todo \subseteq Labels
  BY <1>1, <1>3, <1>4, WalkingFrom
<1>6. LikeNode(c, Top, "enter", Top.todo)
  BY <1>4, <1>5, NodeGoesOn
<1> HIDE DEF c
<1>7. IsNode(c) /\ c.name = Top.name /\ c.at = "enter"
  BY <1>6 DEF LikeNode
<1>8. listed' = Append(listed, Top.name) => NotYet(listed', c)
  <2> SUFFICES ASSUME listed' = Append(listed, Top.name)
               PROVE  \A k \in 1..Len(listed') : ~Above(Top.name, listed'[k])
    BY <1>7 DEF NotYet
  <2>1. Fresh(listed, Top.name)
    BY <1>5 DEF NotYet
  <2>2. listed \in Seq(Seq(Labels)) /\ InOrder(listed)
    BY DEF WalkOK, ListedInOrder, InOrder
  <2>3. /\ Len(listed') = Len(listed) + 1 /\ listed'[Len(listed) + 1] = Top.name
        /\ \A i \in 1..Len(listed) : listed'[i] = listed[i] /\ Len(listed) \in Nat
    BY <1>5, <2>1, <2>2, ResponseInOrder, LenProperties
  <2>4. Len(listed) \in Nat
    BY <2>2, LenProperties
  <2>5. \A k \in 1..Len(listed') : k \in 1..Len(listed) \/ k = Len(listed) + 1
    BY <2>3, <2>4
  <2> QED BY <2>1, <2>3, <2>5 DEF Fresh, Above
<1> QED BY <1>2, <1>5, <1>7, <1>8, WalkContinues, WalkReturns, WalkFails

\* A directory is opened to be read.
LEMMA WalkEnterKeeps ==
  ASSUME HistoryOK, StackOK, WalkOK, WalkEnter
  PROVE  StackOK' /\ WalkOK'
<1> DEFINE c == [Top EXCEPT !.at = "list", !.handle = Handle(Top.name)]
<1>1. At("enter")
  BY DEF WalkEnter
<1>2. listed' = listed /\ (Continue(c) \/ Return("Written") \/ Fail("InternalServerError"))
  <2>1. PICK result \in Results :
          CASE result = "ok" -> Continue(c) /\ UNCHANGED replyVars
            [] result = "path" /\ Len(stack) > 1 -> Return("Written") /\ UNCHANGED replyVars
            [] OTHER -> Abort
    BY DEF WalkEnter
  <2> HIDE DEF c
  <2>2. CASE result = "ok"
    BY <2>1, <2>2 DEF replyVars
  <2>3. CASE result = "path" /\ Len(stack) > 1
    BY <2>1, <2>3 DEF replyVars
  <2>4. CASE result # "ok" /\ ~(result = "path" /\ Len(stack) > 1)
    BY <2>1, <2>4 DEF Abort
  <2> QED BY <2>2, <2>3, <2>4
<1>3. MaySend /\ "list" \in WalkStages /\ "enter" \in WalkStages
  BY <1>2 DEF MaySend, WalkStages
<1>4. /\ Walking /\ IsNode(Top) /\ Top.at = "enter" /\ NotYet(listed, Top)
      /\ Top.todo \subseteq Labels
  BY <1>1, <1>3, WalkingFrom
<1>5. LikeNode(c, Top, "list", Top.todo)
  BY <1>3, <1>4, NodeGoesOn
<1> HIDE DEF c
<1>6. IsNode(c) /\ c.name = Top.name /\ c.at = "list"
  BY <1>5 DEF LikeNode
<1>7. NotYet(listed', c)
  BY <1>2, <1>4, <1>6 DEF NotYet
<1> QED BY <1>2, <1>4, <1>6, <1>7, WalkContinues, WalkReturns, WalkFails

\* A directory is read.
LEMMA WalkListKeeps ==
  ASSUME HistoryOK, StoreOK, StackOK, WalkOK, WalkList
  PROVE  StackOK' /\ WalkOK'
<1> DEFINE names == Members(Top.handle)
           c == [Top EXCEPT !.at = "members", !.todo = names]
<1>1. At("list") /\ listed' = listed /\ (Continue(c) \/ Fail("InternalServerError"))
  BY DEF WalkList, replyVars, Abort
<1>2. MaySend /\ "list" \in WalkStages /\ "members" \in WalkStages /\ names \subseteq Labels
  BY <1>1, MembersAreLabels DEF MaySend, WalkStages
<1>3. /\ Walking /\ IsNode(Top) /\ Top.at = "list" /\ NotYet(listed, Top)
      /\ Top.name \in Seq(Labels)
  BY <1>1, <1>2, WalkingFrom
<1>4. LikeNode(c, Top, "members", names)
  BY <1>2, <1>3, NodeGoesOn
<1> HIDE DEF c, names
<1>5. IsNode(c) /\ c.name = Top.name /\ c.at = "members" /\ c.todo = names
  BY <1>4 DEF LikeNode
<1>6. ASSUME NEW n \in names
      PROVE  Fresh(listed, Append(Top.name, n))
  <2>1. \A k \in 1..Len(listed) : ~Above(Top.name, listed[k])
    BY <1>3 DEF NotYet
  <2>2. ASSUME NEW k \in 1..Len(listed), AtOrAbove(Append(Top.name, n), listed[k])
        PROVE  FALSE
    <3>1. listed[k] \in Seq(Labels)
      BY ElementOfSeq DEF WalkOK
    <3>2. /\ Append(Top.name, n) \in Seq(Labels) /\ AtOrAbove(Top.name, Append(Top.name, n))
          /\ Len(Append(Top.name, n)) = Len(Top.name) + 1 /\ Len(Top.name) \in Nat
      BY <1>2, <1>3, MemberBelow, AppendProperties, LenProperties
    <3>3. AtOrAbove(Top.name, listed[k])
      BY <1>3, <2>2, <3>1, <3>2, AtOrAboveTransitive
    <3>4. Top.name # listed[k]
      BY <2>2, <3>2 DEF AtOrAbove
    <3> QED BY <2>1, <3>3, <3>4 DEF Above
  <2> QED BY <2>2 DEF Fresh
<1>7. NotYet(listed', c)
  BY <1>1, <1>5, <1>6 DEF NotYet
<1> QED BY <1>1, <1>3, <1>5, <1>7, WalkContinues, WalkFails

\* The loop over the members takes the next one.
LEMMA WalkMemberKeeps ==
  ASSUME HistoryOK, StackOK, WalkOK, WalkMember
  PROVE  StackOK' /\ WalkOK'
<1>1. At("members")
  BY DEF WalkMember
<1>2. \/ Return("Written") /\ listed' = listed
      \/ Fail("InternalServerError") /\ listed' = listed
      \/ \E name \in Top.todo :
           /\ Enter([Top EXCEPT !.todo = Top.todo \ {name}],
                    Node(Append(Top.name, name), IsDir(Append(Top.name, name)),
                         DepthBelow(Top.depth)))
           /\ listed' = listed
  BY DEF WalkMember, Walked, Abort, replyVars
<1>3. MaySend /\ "visit" \in WalkStages /\ "members" \in WalkStages
  BY <1>2 DEF MaySend, WalkStages
<1>4. /\ Walking /\ IsNode(Top) /\ Top.at = "members"
      /\ Top.name \in Seq(Labels) /\ Top.todo \subseteq Labels
  BY <1>1, <1>3, WalkingFrom
<1>5. ASSUME NEW name \in Top.todo, listed' = listed,
             Enter([Top EXCEPT !.todo = Top.todo \ {name}],
                   Node(Append(Top.name, name), IsDir(Append(Top.name, name)),
                        DepthBelow(Top.depth)))
      PROVE  StackOK' /\ WalkOK'
  <2> DEFINE c == [Top EXCEPT !.todo = Top.todo \ {name}]
             path == Append(Top.name, name)
             d == Node(path, IsDir(path), DepthBelow(Top.depth))
  <2>1. LikeNode(c, Top, "members", Top.todo \ {name})
    <3>1. Top.todo \ {name} \subseteq Labels
      BY <1>4
    <3> QED BY <1>3, <1>4, <3>1, NodeGoesOn
  <2>2. path \in Seq(Labels)
    BY <1>4, MemberBelow
  <2>3. IsNode(d) /\ d.name = path /\ d.at = "visit"
    BY <1>3, <2>2 DEF Node, IsNode
  <2>4. Enter(c, d)
    BY <1>5
  <2> HIDE DEF c, d
  <2> QED BY <1>4, <1>5, <2>1, <2>3, <2>4, WalkEnters
<1> QED BY <1>2, <1>4, <1>5, WalkReturns, WalkFails

\* A step of PROPFIND changes nothing in the store, and its responses stay in
\* order.
LEMMA WalkKeeps ==
  ASSUME HistoryOK, StoreOK, StackOK, WalkOK, Walk
  PROVE  /\ StoreOK' /\ (\A x : Untouched(x)) /\ StackOK' /\ WalkOK'
         /\ req.method = "PROPFIND" /\ req' = req
         /\ document' \in {"none", "open", "closed"}
<1>1. UNCHANGED storeVars
  BY DEF Walk, WalkFind, WalkVisit, WalkEnter, WalkList, WalkMember, Stat, OpenFile
<1>2. StackOK' /\ WalkOK'
  BY WalkFindKeeps, WalkVisitKeeps, WalkEnterKeeps, WalkListKeeps, WalkMemberKeeps DEF Walk
<1>3. PICK step \in WalkStages : At(step)
  BY DEF Walk, WalkFind, WalkVisit, WalkEnter, WalkList, WalkMember, WalkStages
<1>4. document \in {"none", "open", "closed"}
  BY DEF HistoryOK
<1>5. document' \in {"none", "open", "closed"}
  <2>1. CASE WalkFind
    BY <1>4, <2>1 DEF WalkFind, replyVars
  <2>2. CASE WalkVisit
    BY <1>4, <2>2 DEF WalkVisit, Walked, Abort, CloseDocument
  <2>3. CASE WalkEnter
    BY <1>4, <2>3 DEF WalkEnter, replyVars, Abort, CloseDocument
  <2>4. CASE WalkList
    BY <1>4, <2>4 DEF WalkList, replyVars, Abort, CloseDocument
  <2>5. CASE WalkMember
    BY <1>4, <2>5 DEF WalkMember, replyVars, Walked, Abort, CloseDocument
  <2> QED BY <2>1, <2>2, <2>3, <2>4, <2>5 DEF Walk
<1> QED BY <1>1, <1>2, <1>3, <1>5, StoreStays, TopTells

-----------------------------------------------------------------------------
(* What a MOVE does to what it moves *)

\* Where the destination is not there, nothing is below it either.
LEMMA NothingToClear ==
  ASSUME HistoryOK, req.dst \notin DOMAIN before.tree
  PROVE  Cleared = before.tree
<1> DEFINE m == before.tree
<1>1. m = [p \in DOMAIN m |-> m[p]]
  BY DEF HistoryOK
<1>2. ASSUME NEW q \in DOMAIN m
      PROVE  ~AtOrAbove(req.dst, q)
  <2> SUFFICES ASSUME AtOrAbove(req.dst, q)
               PROVE  FALSE
    OBVIOUS
  <2>1. q \in Seq(Labels) /\ req.dst \in Seq(Labels)
    BY PathsOfRequest DEF HistoryOK
  <2>2. Len(req.dst) \in 0..Len(q)
    BY <2>1, LenProperties DEF AtOrAbove
  <2>3. SubSeq(q, 1, Len(req.dst)) \in DOMAIN m
    BY <2>2 DEF HistoryOK
  <2>4. SubSeq(q, 1, Len(req.dst)) = req.dst
    BY <2>1, <2>2 DEF AtOrAbove
  <2> QED BY <2>3, <2>4
<1>3. {q \in DOMAIN m : ~AtOrAbove(req.dst, q)} = DOMAIN m
  BY <1>2
<1>4. Without(m, req.dst) = [p \in DOMAIN m |-> m[p]]
  BY <1>3 DEF Without, Restrict
<1> QED BY <1>1, <1>4 DEF Cleared

\* The innermost call after it has gone on.
LEMMA TopAfter ==
  ASSUME StackOK, stack # << >>, NEW c, Continue(c)
  PROVE  Top' = c /\ status' = status
<1>1. /\ stack' # << >> /\ Len(stack') = Len(stack)
      /\ stack'[Len(stack)] = c /\ status' = status
  BY Continues DEF StackOK
<1> QED BY <1>1 DEF Top, Last

\* A step of MOVE leaves the map as before, without the destination, or moved.
LEMMA MoveGoesAhead ==
  ASSUME HistoryOK, StoreOK, StackOK, MoveOK, Move, UNCHANGED history
  PROVE  MoveOK'
<1>1. req' = req /\ req.method = "MOVE"
  BY MoveKeeps
<1>2. edits' = edits /\ before' = before
  BY DEF history
<1>3. Overlap' = Overlap /\ Cleared' = Cleared /\ MovedBefore' = MovedBefore
  BY <1>1, <1>2 DEF Overlap, Cleared, MovedBefore, Kind
<1> SUFFICES ASSUME edits = 0, ~Overlap
             PROVE  MoveOK'
  BY <1>2, <1>3 DEF MoveOK
<1> DEFINE Dirs(e) == \A p \in DOMAIN before.tree : ~AtOrAbove(req.dst, p) =>
                        e[before.tree[p]].dir = before.entry[before.tree[p]].dir
<1>4. PICK step \in MoveStages : At(step)
  BY DEF Move, MoveStat, MoveRemove, MoveRename, MoveStages
<1>5. /\ stack # << >> /\ Top.at = step /\ status = "none" /\ CallOK(Top)
      /\ Len(stack) = 1
  <2>1. /\ stack # << >> /\ Top.at = step /\ status = "none" /\ CallOK(Top)
        /\ Len(stack) \in Nat \ {0}
    BY <1>4, TopTells
  <2>2. Len(stack) <= 1
    BY <1>1 DEF StackOK
  <2>3. Len(stack) = 1
    <3> DEFINE n == Len(stack)
    <3>1. n \in Nat \ {0} /\ n <= 1
      BY <2>1, <2>2
    <3> HIDE DEF n
    <3>2. n = 1
      BY <3>1
    <3> QED BY <3>2 DEF n
  <2> QED BY <2>1, <2>3
<1>6. ~Succeeded
  BY <1>5 DEF Succeeded
<1>7. /\ Top.at \in {"move", "clear"} => tree = before.tree
      /\ Top.at = "rename" => tree = Cleared
      /\ Dirs(entry)
  BY <1>1, <1>5, <1>6 DEF MoveOK
<1>8. ASSUME \/ status' = "none" /\ Top'.at = "clear" /\ tree' = before.tree /\ Dirs(entry')
             \/ status' = "none" /\ Top'.at = "rename" /\ tree' = Cleared /\ Dirs(entry')
             \/ /\ status' \in {"PreconditionFailed", "Forbidden"}
                /\ tree' \in {before.tree, Cleared} /\ Dirs(entry')
             \/ /\ status' \in {"Created", "NoContent"}
                /\ tree' = MovedBefore /\ req.src \in DOMAIN Cleared
      PROVE  MoveOK'
  <2>1. Succeeded' <=> status' \in {"Created", "NoContent"}
    BY DEF Succeeded
  <2> QED BY <1>1, <1>2, <1>3, <1>8, <2>1 DEF MoveOK
<1>9. Top.src = req.src /\ Top.dst = req.dst
  BY <1>1, <1>5 DEF CallOK
<1>10. CASE MoveStat
  <2> DEFINE c == [Top EXCEPT !.at = "rename", !.created = TRUE]
             d == [Top EXCEPT !.at = "clear"]
  <2>1. At("move")
    BY <1>10 DEF MoveStat
  <2>2. PICK result \in Results :
          /\ Stat(Top.dst, result)
          /\ CASE result = "notexist" -> Continue(c)
               [] result = "ok" /\ req.overwrite -> Continue(d)
               [] result = "ok" /\ ~req.overwrite -> Fail("PreconditionFailed")
               [] OTHER -> Fail("Forbidden")
    BY <1>10 DEF MoveStat
  <2>3. UNCHANGED storeVars /\ tree = before.tree
    BY <1>7, <2>1, <2>2 DEF Stat, At
  <2>4. tree' = before.tree /\ entry' = entry
    BY <2>3 DEF storeVars
  <2>5. c.at = "rename" /\ d.at = "clear"
    BY <1>1, <1>5 DEF CallOK, IsCall
  <2> HIDE DEF c, d
  <2>6. CASE result = "notexist"
    <3>1. ~Exists(req.dst)
      BY <1>9, <2>2, <2>6 DEF Stat
    <3>2. Cleared = before.tree
      BY <2>3, <3>1, NothingToClear DEF Exists
    <3>3. Continue(c)
      BY <2>2, <2>6
    <3>4. Top' = c /\ status' = "none"
      BY <1>5, <3>3, TopAfter
    <3> QED BY <1>7, <1>8, <2>4, <2>5, <3>2, <3>4
  <2>7. CASE Continue(d)
    <3>1. Top' = d /\ status' = "none"
      BY <1>5, <2>7, TopAfter
    <3> QED BY <1>7, <1>8, <2>4, <2>5, <3>1
  <2>8. CASE Fail("PreconditionFailed") \/ Fail("Forbidden")
    BY <1>7, <1>8, <2>4, <2>8 DEF Fail
  <2> QED BY <2>2, <2>6, <2>7, <2>8
<1>11. CASE MoveRemove
  <2> DEFINE c == [Top EXCEPT !.at = "rename"]
  <2>1. At("clear")
    BY <1>11 DEF MoveRemove
  <2>2. PICK result \in Results :
          /\ RemoveAll(Top.dst, result)
          /\ IF result = "ok" THEN Continue(c) ELSE Fail("Forbidden")
    BY <1>11 DEF MoveRemove
  <2>3. tree = before.tree
    BY <1>7, <2>1 DEF At
  <2>4. c.at = "rename"
    BY <1>1, <1>5 DEF CallOK, IsCall
  <2> HIDE DEF c
  <2>5. CASE result = "ok"
    <3>1. tree' = Cleared
      BY <1>9, <2>2, <2>3, <2>5 DEF RemoveAll, Cleared
    <3>2. \A x : ~AtOrAbove(req.dst, x) => Untouched(x)
      BY <1>9, <2>2, PathsOfRequest, RemoveAllKeeps
    <3>3. Dirs(entry')
      BY <1>7, <2>3, <3>2 DEF Untouched
    <3>4. Top' = c /\ status' = "none"
      <4>1. Continue(c)
        BY <2>2, <2>5
      <4> QED BY <1>5, <4>1, TopAfter
    <3> QED BY <1>8, <2>4, <3>1, <3>3, <3>4
  <2>6. CASE result # "ok"
    <3>1. tree' = before.tree /\ entry' = entry
      BY <2>2, <2>3, <2>6 DEF RemoveAll, storeVars
    <3>2. status' = "Forbidden"
      BY <2>2, <2>6 DEF Fail
    <3> QED BY <1>7, <1>8, <3>1, <3>2
  <2> QED BY <2>5, <2>6
<1>12. CASE MoveRename
  <2>1. At("rename")
    BY <1>12 DEF MoveRename
  <2>2. PICK result \in Results :
          /\ Rename(Top.src, Top.dst, result)
          /\ IF result = "ok" THEN Return(Success) ELSE Fail("Forbidden")
    BY <1>12 DEF MoveRename
  <2>3. tree = Cleared
    BY <1>7, <2>1 DEF At
  <2>4. CASE result = "ok"
    <3>1. /\ Exists(req.src)
          /\ tree' = IF IsDir(req.src) THEN MovedTree(tree, req.src, req.dst)
                                       ELSE MovedAlone(tree, req.src, req.dst)
      BY <1>9, <2>2, <2>4 DEF Rename
    <3>2. /\ req.src \in DOMAIN before.tree /\ ~AtOrAbove(req.dst, req.src)
          /\ tree[req.src] = before.tree[req.src]
      BY <2>3, <3>1 DEF Exists, Cleared, Without, Restrict
    <3>3. IsDir(req.src) = Kind(before, req.src)
      BY <1>7, <3>2 DEF IsDir, Kind
    <3>4. tree' = MovedBefore
      BY <2>3, <3>1, <3>3 DEF MovedBefore
    <3>5. status' \in {"Created", "NoContent"}
      <4>1. Return(Success)
        BY <2>2, <2>4
      <4> QED BY <1>5, <4>1 DEF Return, Success
    <3> QED BY <1>8, <2>3, <3>1, <3>4, <3>5 DEF Exists
  <2>5. CASE result # "ok"
    <3>1. tree' = Cleared /\ entry' = entry
      BY <2>2, <2>3, <2>5 DEF Rename, storeVars
    <3>2. status' = "Forbidden"
      BY <2>2, <2>5 DEF Fail
    <3> QED BY <1>7, <1>8, <3>1, <3>2
  <2> QED BY <2>4, <2>5
<1> QED BY <1>10, <1>11, <1>12 DEF Move

\* The map that a MOVE leaves: what was moved is under the destination, and
\* nothing else is.
LEMMA MovedIsHeld ==
  ASSUME HistoryOK, req.src \in DOMAIN Cleared, ~Overlap, tree = MovedBefore,
         NEW p \in DOMAIN before.tree,
         p = req.src \/ (Above(req.src, p) /\ Kind(before, req.src))
  PROVE  /\ Exists(Rebase(p, req.src, req.dst)) /\ AtOrAbove(req.dst, Rebase(p, req.src, req.dst))
         /\ tree[Rebase(p, req.src, req.dst)] = before.tree[p] /\ ~Exists(p)
<1> DEFINE src == req.src
           dst == req.dst
           m   == Cleared
<1>1. /\ src \in Seq(Labels) /\ dst \in Seq(Labels) /\ p \in Seq(Labels)
      /\ DOMAIN m \subseteq Seq(Labels)
  BY PathsOfRequest DEF HistoryOK, Cleared, Without, Restrict
<1>2. AtOrAbove(src, p) /\ AtOrAbove(dst, Rebase(p, src, dst))
  <2>1. AtOrAbove(src, p)
    BY <1>1, AtOrAboveReflexive DEF Above
  <2> QED BY <1>1, <2>1, RebaseBack
<1>3. ~AtOrAbove(dst, p)
  BY <1>1, <1>2, AncestorsAreAChain DEF Overlap
<1>4. p \in DOMAIN m /\ m[p] = before.tree[p]
  BY <1>3 DEF Cleared, Without, Restrict
<1>5. OneToOne(m)
  BY DEF HistoryOK, OneToOne, Cleared, Without, Restrict
<1> HIDE DEF m
<1>6. CASE Kind(before, src)
  <2> DEFINE t == MovedTree(m, src, dst)
  <2>1. tree = t
    BY <1>6 DEF MovedBefore, m
  <2>2. /\ Rebase(p, src, dst) \in DOMAIN t /\ t[Rebase(p, src, dst)] = m[p]
    BY <1>1, <1>2, <1>4, <1>5, MovedTreeKeepsFiles
  <2>3. \A x \in DOMAIN t :
          \/ x \in DOMAIN m /\ ~AtOrAbove(src, x) /\ t[x] = m[x]
          \/ \E q \in DOMAIN m : AtOrAbove(src, q) /\ x = Rebase(q, src, dst) /\ t[x] = m[q]
    BY <1>1, MovedTreeOrigins
  <2> HIDE DEF t
  <2>4. p \notin DOMAIN t
    <3> SUFFICES ASSUME p \in DOMAIN t
                 PROVE  FALSE
      OBVIOUS
    <3>1. PICK q \in DOMAIN m : AtOrAbove(src, q) /\ p = Rebase(q, src, dst)
      BY <1>2, <2>3
    <3>2. AtOrAbove(dst, p)
      BY <1>1, <3>1, RebaseBack
    <3> QED BY <1>3, <3>2
  <2> QED BY <1>2, <1>4, <2>1, <2>2, <2>4 DEF Exists
<1>7. CASE ~Kind(before, src)
  <2> DEFINE rest == Restrict(m, DOMAIN m \ {src})
  <2>1. p = src /\ Rebase(p, src, dst) = dst
    BY <1>1, <1>7, RebaseOfPrefix
  <2>2. tree = Linked(rest, dst, m[src]) /\ DOMAIN rest = DOMAIN m \ {src}
    BY <1>7 DEF MovedBefore, MovedAlone, m, Restrict
  <2> HIDE DEF rest
  <2>3. src # dst
    BY <1>1, AtOrAboveReflexive DEF Overlap
  <2>4. DOMAIN tree = (DOMAIN m \ {src}) \cup {dst} /\ tree[dst] = m[src]
    BY <2>2 DEF Linked
  <2> QED BY <1>2, <1>4, <2>1, <2>3, <2>4 DEF Exists
<1> QED BY <1>6, <1>7

\* What the map has under the destination after a MOVE was moved there.
LEMMA HeldWasMoved ==
  ASSUME HistoryOK, req.src \in DOMAIN Cleared, tree = MovedBefore,
         NEW q \in DOMAIN tree, AtOrAbove(req.dst, q)
  PROVE  \E p \in DOMAIN before.tree :
           /\ p = req.src \/ (Above(req.src, p) /\ Kind(before, req.src))
           /\ q = Rebase(p, req.src, req.dst)
<1> DEFINE src == req.src
           dst == req.dst
           m   == Cleared
<1>1. /\ src \in Seq(Labels) /\ dst \in Seq(Labels) /\ DOMAIN m \subseteq Seq(Labels)
      /\ \A x \in DOMAIN m : x \in DOMAIN before.tree /\ ~AtOrAbove(dst, x)
  BY PathsOfRequest DEF HistoryOK, Cleared, Without, Restrict
<1> HIDE DEF m
<1>2. CASE Kind(before, src)
  <2> DEFINE t == MovedTree(m, src, dst)
  <2>1. tree = t
    BY <1>2 DEF MovedBefore, m
  <2>2. \A x \in DOMAIN t :
          \/ x \in DOMAIN m /\ ~AtOrAbove(src, x) /\ t[x] = m[x]
          \/ \E r \in DOMAIN m : AtOrAbove(src, r) /\ x = Rebase(r, src, dst) /\ t[x] = m[r]
    BY <1>1, MovedTreeOrigins
  <2> HIDE DEF t
  <2>3. PICK r \in DOMAIN m : AtOrAbove(src, r) /\ q = Rebase(r, src, dst)
    BY <1>1, <2>1, <2>2
  <2> QED BY <1>1, <1>2, <2>3 DEF Above
<1>3. CASE ~Kind(before, src)
  <2> DEFINE rest == Restrict(m, DOMAIN m \ {src})
  <2>1. tree = Linked(rest, dst, m[src]) /\ DOMAIN rest = DOMAIN m \ {src}
    BY <1>3 DEF MovedBefore, MovedAlone, m, Restrict
  <2> HIDE DEF rest
  <2>2. DOMAIN tree = (DOMAIN m \ {src}) \cup {dst}
    BY <2>1 DEF Linked
  <2>3. q = dst
    BY <1>1, <2>2
  <2>4. src \in DOMAIN before.tree /\ dst = Rebase(src, src, dst)
    BY <1>1, RebaseOfPrefix DEF m
  <2> QED BY <2>3, <2>4
<1> QED BY <1>2, <1>3

\* The invariant says what MoveExact does.
LEMMA MoveIsExact ==
  ASSUME RequestInv
  PROVE  MoveExact
<1> SUFFICES ASSUME req.method = "MOVE", edits = 0, ~Overlap
             PROVE  MoveExact
  BY DEF MoveExact
<1> DEFINE source == {p \in DOMAIN before.tree :
                        p = req.src \/ (Above(req.src, p) /\ Kind(before, req.src))}
           Held(p, q) == Exists(q) /\ tree[q] = before.tree[p] /\ tree[q] \in DOMAIN entry
<1>1. HistoryOK /\ StoreOK /\ StackOK /\ MoveOK
  BY DEF RequestInv
<1>2. CASE Succeeded
  <2>1. req.src \in DOMAIN Cleared /\ tree = MovedBefore
    BY <1>1, <1>2 DEF MoveOK
  <2>2. ASSUME NEW p \in source
        PROVE  /\ Held(p, Rebase(p, req.src, req.dst)) /\ ~Exists(p)
               /\ AtOrAbove(req.dst, Rebase(p, req.src, req.dst))
    <3>1. /\ Exists(Rebase(p, req.src, req.dst))
          /\ AtOrAbove(req.dst, Rebase(p, req.src, req.dst))
          /\ tree[Rebase(p, req.src, req.dst)] = before.tree[p] /\ ~Exists(p)
      BY <1>1, <2>1, MovedIsHeld
    <3> QED BY <1>1, <3>1 DEF StoreOK, Exists
  <2>3. ASSUME NEW q \in DOMAIN tree, AtOrAbove(req.dst, q)
        PROVE  \E p \in source : q = Rebase(p, req.src, req.dst)
    BY <1>1, <2>1, <2>3, HeldWasMoved
  <2>4. {q \in DOMAIN tree : AtOrAbove(req.dst, q)}
           = {Rebase(p, req.src, req.dst) : p \in source}
    BY <2>2, <2>3 DEF Exists
  <2> QED BY <1>2, <2>2, <2>4 DEF MoveExact
<1>3. CASE ~Succeeded
  <2>1. tree \in {before.tree, Cleared}
    <3>1. CASE status # "none"
      BY <1>1, <1>3, <3>1 DEF MoveOK
    <3>2. CASE status = "none"
      <4>1. stack # << >> /\ Len(stack) \in Nat \ {0} /\ Top = stack[Len(stack)]
        BY <1>1, <3>2, EmptySeq DEF StackOK, Top, Last
      <4>2. CallOK(Top)
        BY <1>1, <4>1 DEF StackOK
      <4>3. Top.at \in MoveStages
        BY <4>2 DEF CallOK, IsCall
      <4> QED BY <1>1, <3>2, <4>3 DEF MoveOK, MoveStages
    <3> QED BY <3>1, <3>2
  <2>2. ASSUME NEW p \in source
        PROVE  Held(p, p)
    <3>1. /\ p \in Seq(Labels) /\ req.src \in Seq(Labels) /\ req.dst \in Seq(Labels)
          /\ p \in DOMAIN before.tree
      BY <1>1, PathsOfRequest DEF HistoryOK
    <3>2. AtOrAbove(req.src, p)
      BY <3>1, AtOrAboveReflexive DEF Above
    <3>3. ~AtOrAbove(req.dst, p)
      BY <3>1, <3>2, AncestorsAreAChain DEF Overlap
    <3>4. p \in DOMAIN Cleared /\ Cleared[p] = before.tree[p]
      BY <3>1, <3>3 DEF Cleared, Without, Restrict
    <3> QED BY <1>1, <2>1, <3>1, <3>4 DEF StoreOK, Exists
  <2> QED BY <1>3, <2>2 DEF MoveExact
<1> QED BY <1>2, <1>3

-----------------------------------------------------------------------------
(* The invariant *)

\* A step of the handler keeps the invariant.
LEMMA ServeKeeps ==
  ASSUME RequestInv, Serve
  PROVE  /\ RequestInv'
         /\ \A x \in Seq(Labels) : Elsewhere(x) => Untouched(x)
<1>1. HistoryOK /\ StoreOK /\ StackOK /\ WalkOK /\ MoveOK
  BY DEF RequestInv
<1>2. /\ edits' = edits /\ before' = before /\ steady' = steady /\ UNCHANGED history
  BY DEF Serve, history
<1>3. ASSUME req' = req, document' \in {"none", "open", "closed"}
      PROVE  HistoryOK'
  BY <1>1, <1>2, <1>3 DEF HistoryOK
<1>4. ASSUME req' = req, req.method # "PROPFIND", listed' = listed
      PROVE  WalkOK'
  <2>1. listed = << >>
    BY <1>1, <1>4 DEF WalkOK
  <2>2. ListedInOrder'
    BY <1>1, <1>4 DEF WalkOK, ListedInOrder
  <2> QED BY <1>1, <1>4, <2>1, <2>2 DEF WalkOK
<1>5. CASE Copy /\ UNCHANGED replyVars
  <2>1. Keeps(OffDst) /\ req.method = "COPY" /\ req' = req
    BY <1>1, <1>5, CopyKeeps
  <2>2. listed' = listed /\ document' = document
    BY <1>5 DEF replyVars
  <2>3. HistoryOK' /\ WalkOK'
    BY <1>1, <1>3, <1>4, <2>1, <2>2 DEF HistoryOK
  <2>4. MoveOK'
    BY <2>1 DEF MoveOK
  <2>5. \A x \in Seq(Labels) : Elsewhere(x) => Untouched(x)
    BY <2>1 DEF Keeps, OffDst, Elsewhere
  <2> QED BY <2>1, <2>3, <2>4, <2>5 DEF Keeps, RequestInv
<1>6. CASE Move /\ UNCHANGED replyVars
  <2>1. Keeps(OffBoth) /\ req.method = "MOVE" /\ req' = req
    BY <1>1, <1>6, MoveKeeps
  <2>2. listed' = listed /\ document' = document
    BY <1>6 DEF replyVars
  <2>3. HistoryOK' /\ WalkOK'
    BY <1>1, <1>3, <1>4, <2>1, <2>2 DEF HistoryOK
  <2>4. MoveOK'
    BY <1>1, <1>2, <1>6, MoveGoesAhead
  <2>5. \A x \in Seq(Labels) : Elsewhere(x) => Untouched(x)
    BY <2>1 DEF Keeps, OffBoth, Elsewhere
  <2> QED BY <2>1, <2>3, <2>4, <2>5 DEF Keeps, RequestInv
<1>7. CASE Walk
  <2>1. /\ StoreOK' /\ (\A x : Untouched(x)) /\ StackOK' /\ WalkOK'
        /\ req.method = "PROPFIND" /\ req' = req
        /\ document' \in {"none", "open", "closed"}
    BY <1>1, <1>7, WalkKeeps
  <2>2. HistoryOK'
    BY <1>3, <2>1
  <2>3. MoveOK'
    BY <2>1 DEF MoveOK
  <2> QED BY <2>1, <2>2, <2>3 DEF RequestInv
<1> QED BY <1>5, <1>6, <1>7 DEF Serve

\* A request of another client keeps the invariant.
LEMMA OthersKeep ==
  ASSUME RequestInv, Others
  PROVE  RequestInv' /\ edits' # edits
<1>1. HistoryOK /\ StoreOK /\ StackOK /\ WalkOK
  BY DEF RequestInv
<1>2. /\ edits' = edits + 1 /\ before' = before /\ req' = req /\ stack' = stack
      /\ status' = status /\ listed' = listed /\ document' = document
      /\ steady' \subseteq steady
  BY DEF Others, replyVars
<1>3. StoreOK'
  <2>1. DOMAIN tree \subseteq Seq(Labels)
    BY <1>1 DEF StoreOK
  <2>2. \A p \in DOMAIN tree, s \in Segments : Append(p, s) \in Seq(Labels)
    BY <2>1, AppendProperties DEF Labels
  <2>3. CASE \E p \in DOMAIN tree, s \in Segments : Mkdir(Append(p, s), "ok")
    BY <1>1, <2>2, <2>3, MkdirKeeps
  <2>4. CASE \E p \in DOMAIN tree, s \in Segments, b \in Bodies :
               ~Exists(Append(p, s)) /\ Create(Append(p, s), b, "ok")
    BY <1>1, <2>2, <2>4, CreateKeeps
  <2>5. CASE \E p \in DOMAIN tree : RemoveAll(p, "ok")
    BY <1>1, <2>1, <2>5, RemoveAllKeeps
  <2>6. CASE \E old, p \in DOMAIN tree, s \in Segments :
               /\ ~Exists(Append(p, s)) /\ ~AtOrAbove(old, p)
               /\ Rename(old, Append(p, s), "ok")
    BY <1>1, <2>1, <2>2, <2>6, RenameKeeps
  <2> QED BY <2>3, <2>4, <2>5, <2>6 DEF Others
<1>4. edits \in Nat /\ edits' \in Nat /\ edits' # 0
  BY <1>1, <1>2 DEF HistoryOK
<1>5. HistoryOK'
  BY <1>1, <1>2, <1>4 DEF HistoryOK
<1>6. StackOK'
  BY <1>1, <1>2 DEF StackOK, CallOK, IsCall, IsNode
<1>7. WalkOK'
  BY <1>1, <1>2 DEF WalkOK, ListedInOrder, NotYet, Within, Fresh
<1>8. MoveOK'
  BY <1>4 DEF MoveOK
<1> QED BY <1>2, <1>3, <1>4, <1>5, <1>6, <1>7, <1>8 DEF RequestInv

\* The store that HoldsFiles makes of any of the trees gives each path an item
\* of its own.
LEMMA StoreAtFirst ==
  ASSUME NEW t \in Trees, HoldsFiles(t)
  PROVE  /\ StoreOK /\ DOMAIN tree = DOMAIN t /\ OneToOne(tree)
         /\ \A p \in DOMAIN tree :
              p # Root => entry[tree[p]].parent = tree[Parent(p)] /\ entry[tree[p]].name = Base(p)
<1> DEFINE D   == DOMAIN t
           n   == Cardinality(D)
           ids == CHOOSE f \in [D -> 1..n] : \A p, q \in D : p # q => f[p] # f[q]
           At1(i) == CHOOSE p \in D : ids[p] = i
           item(p) == Item(IF p = Root THEN NoParent ELSE ids[Parent(p)], Base(p),
                           t[p] = Directory, IF t[p] = Directory THEN Empty ELSE t[p])
<1>1. D \subseteq Seq(Segments) /\ IsFiniteSet(D) /\ Root \in D
  BY TreesAssumption
<1> HIDE DEF D
<1>2. n \in Nat /\ ExistsBijection(1..n, D)
  BY <1>1, FS_CardinalityType
<1>3. ids \in [D -> 1..n] /\ \A p, q \in D : p # q => ids[p] # ids[q]
  <2>1. PICK f : f \in Bijection(D, 1..n)
    BY <1>2, Fun_ExistsBijSymmetric, Fun_ExistsBij
  <2>2. f \in [D -> 1..n] /\ \A p, q \in D : p # q => f[p] # f[q]
    BY <2>1 DEF Bijection, Injection, IsInjective
  <2> QED BY <2>2
<1>4. tree = ids /\ entry = [i \in 1..n |-> item(At1(i))] /\ nextID = n + 1
  BY DEF HoldsFiles, D
<1> HIDE DEF n, ids
<1>5. \A i \in 1..n : \E p \in D : ids[p] = i
  <2>1. ids \in Injection(D, 1..n)
    BY <1>3 DEF Injection, IsInjective
  <2>2. IsFiniteSet(1..n) /\ Cardinality(1..n) = n
    BY <1>2, FS_Interval
  <2>3. ids \in Surjection(D, 1..n)
    BY <2>1, <2>2, FS_Injection DEF n
  <2> QED BY <2>3 DEF Surjection
<1>6. \A i \in 1..n : At1(i) \in D
  BY <1>5
<1>7. \A p \in D : IsItem(item(p))
  <2> TAKE p \in D
  <2>1. Base(p) \in Labels
    <3>1. CASE p = Root
      BY <3>1 DEF Base, Labels
    <3>2. CASE p # Root
      <4>1. p \in Seq(Labels)
        BY <1>1, SeqMonotonic DEF Labels
      <4> QED BY <3>2, <4>1, LabelsOfPaths
    <3> QED BY <3>1, <3>2
  <2> QED BY <2>1 DEF IsItem, Item
<1>9. \A p \in D : At1(ids[p]) = p /\ ids[p] \in 1..n
  BY <1>3
<1>10. \A p \in D : p # Root => item(p).parent = ids[Parent(p)] /\ item(p).name = Base(p)
  BY DEF Item
<1> HIDE DEF At1, item
<1>11. \A p \in D : entry[ids[p]] = item(p)
  BY <1>4, <1>9
<1>8. StoreOK
  <2>1. D \subseteq Seq(Labels)
    BY <1>1, SeqMonotonic DEF Labels
  <2>2. DOMAIN tree = D /\ DOMAIN entry = 1..n
    BY <1>3, <1>4
  <2>3. /\ tree = [p \in DOMAIN tree |-> tree[p]]
        /\ entry = [i \in DOMAIN entry |-> entry[i]]
    BY <1>3, <1>4
  <2>4. \A p \in DOMAIN tree : tree[p] \in DOMAIN entry
    BY <1>3, <1>4
  <2>5. OneToOne(tree)
    BY <1>3, <1>4 DEF OneToOne
  <2>6. \A i \in DOMAIN entry : i \in Nat /\ i < nextID /\ IsItem(entry[i])
    BY <1>2, <1>4, <1>6, <1>7
  <2> QED BY <1>1, <1>2, <1>4, <2>1, <2>2, <2>3, <2>4, <2>5, <2>6 DEF StoreOK
<1>12. \A p \in DOMAIN tree :
         p # Root => entry[tree[p]].parent = tree[Parent(p)] /\ entry[tree[p]].name = Base(p)
  BY <1>3, <1>4, <1>10, <1>11
<1> QED BY <1>3, <1>4, <1>8, <1>12 DEF D, StoreOK

\* The invariant holds when the request comes.
LEMMA RequestAtFirst ==
  ASSUME Init
  PROVE  RequestInv
<1>1. PICK t \in Trees : HoldsFiles(t)
  BY DEF Init
<1>2. /\ req \in Requests /\ stack = <<FirstCall(req)>> /\ status = "none"
      /\ listed = << >> /\ document = "none" /\ edits = 0
      /\ before = [tree |-> tree, entry |-> entry] /\ steady = DOMAIN tree
  BY DEF Init
<1>3. StoreOK /\ DOMAIN tree = DOMAIN t /\ OneToOne(tree)
  BY <1>1, StoreAtFirst
<1>4. HistoryOK
  <2>1. before.tree = tree /\ before.entry = entry
    BY <1>2
  <2>2. \A p \in DOMAIN tree : \A n \in 0..Len(p) : SubSeq(p, 1, n) \in DOMAIN tree
    BY <1>3, TreesAssumption
  <2> QED BY <1>2, <1>3, <2>1, <2>2 DEF HistoryOK, StoreOK
<1> DEFINE c == FirstCall(req)
<1>5. CallOK(c) /\ c.at \in {"open", "move", "find"} /\ (c.at = "find" => c.name = req.src)
  <2>1. req.method \in {"COPY", "MOVE", "PROPFIND"}
    BY <1>2, RequestsAssumption
  <2>2. req.src \in Seq(Labels) /\ req.dst \in Seq(Labels)
    BY <1>4, PathsOfRequest
  <2>3. CASE req.method = "COPY"
    <3>1. c = Call(req.src, req.dst)
      BY <2>3 DEF FirstCall
    <3>2. AtOrAbove(req.dst, req.dst)
      BY <2>2, AtOrAboveReflexive
    <3> QED BY <2>2, <2>3, <3>1, <3>2 DEF Call, CallOK, IsCall, CopyStages
  <2>4. CASE req.method = "MOVE"
    <3>1. c = [at |-> "move", src |-> req.src, dst |-> req.dst, handle |-> << >>,
               created |-> FALSE, todo |-> {}]
      BY <2>4 DEF FirstCall, Call
    <3> QED BY <2>2, <2>4, <3>1 DEF CallOK, IsCall, MoveStages
  <2>5. CASE req.method = "PROPFIND"
    <3>1. c = [at |-> "find", name |-> req.src, dir |-> FALSE, depth |-> 0,
               handle |-> << >>, todo |-> {}]
      BY <2>5 DEF FirstCall, Node
    <3> QED BY <2>2, <2>5, <3>1 DEF CallOK, IsNode, WalkStages
  <2> QED BY <2>1, <2>3, <2>4, <2>5
<1> HIDE DEF c
<1>6. stack = <<c>> /\ stack \in Seq({c}) /\ Len(stack) = 1 /\ stack[1] = c
  BY <1>2 DEF c
<1>7. StackOK
  <2>1. stack \in Seq(Range(stack)) /\ stack # << >>
    BY <1>6, SeqOfRange
  <2>2. \A i \in 1..Len(stack) : i = 1
    BY <1>6
  <2> QED BY <1>2, <1>5, <1>6, <2>1, <2>2, BoundsAssumption DEF StackOK
<1>8. WalkOK
  <2>1. listed \in Seq(Seq(Labels)) /\ DOMAIN listed = {} /\ Len(listed) = 0
    BY <1>2
  <2>2. NotYet(listed, c)
    BY <1>2, <1>5 DEF NotYet
  <2>3. \A i \in 1..Len(stack) : i = 1
    BY <1>6
  <2> QED BY <1>2, <1>6, <2>1, <2>2, <2>3 DEF WalkOK, ListedInOrder
<1>9. MoveOK
  <2> SUFFICES ASSUME req.method = "MOVE"
               PROVE  MoveOK
    BY DEF MoveOK
  <2>1. before.tree = tree /\ before.entry = entry /\ ~Succeeded
    BY <1>2 DEF Succeeded
  <2>2. Top = c
    BY <1>6 DEF Top, Last
  <2>3. c.at \in MoveStages
    BY <1>5 DEF CallOK, IsCall
  <2>4. c.at = "move"
    BY <1>5, <2>3 DEF MoveStages
  <2> QED BY <1>2, <2>1, <2>2, <2>4 DEF MoveOK
<1> QED BY <1>3, <1>4, <1>7, <1>8, <1>9 DEF RequestInv

\* Every step keeps the invariant.
LEMMA StepKeepsRequest ==
  ASSUME RequestInv, [Next]_vars
  PROVE  RequestInv'
<1>1. CASE Serve
  BY <1>1, ServeKeeps
<1>2. CASE Others
  BY <1>2, OthersKeep
<1>3. CASE UNCHANGED vars
  <2>1. HistoryOK /\ StoreOK /\ StackOK /\ WalkOK /\ MoveOK
    BY DEF RequestInv
  <2>2. UNCHANGED <<tree, entry, nextID, req, stack, status, listed, document,
                    edits, before, steady>>
    BY <1>3 DEF vars, storeVars, replyVars, history
  <2>3. HistoryOK'
    BY <2>1, <2>2 DEF HistoryOK
  <2>4. StoreOK'
    BY <2>1, <2>2, StoreStays DEF storeVars
  <2>5. StackOK'
    BY <2>1, <2>2 DEF StackOK, CallOK
  <2>6. WalkOK'
    BY <2>1, <2>2 DEF WalkOK, ListedInOrder, NotYet, Within, Fresh
  <2>7. MoveOK'
    BY <2>1, <2>2 DEF MoveOK, Overlap, Cleared, MovedBefore, Kind, Succeeded, Top
  <2> QED BY <2>3, <2>4, <2>5, <2>6, <2>7 DEF RequestInv
<1> QED BY <1>1, <1>2, <1>3 DEF Next, Answered

-----------------------------------------------------------------------------
(* The theorems *)

\* The invariant holds all the time (TreeRequests).
THEOREM RequestInvariant == Spec => []RequestInv
<1>1. Init => RequestInv
  BY RequestAtFirst
<1>2. RequestInv /\ [Next]_vars => RequestInv'
  BY StepKeepsRequest
<1> QED BY <1>1, <1>2, PTL DEF Spec

\* The store has its root and one item for each path, whatever the request and
\* the other clients do, and copyFiles does not call itself beyond its limit.
THEOREM TypeCorrect == Spec => []TypeOK
<1>1. RequestInv => TypeOK
  BY DEF RequestInv, HistoryOK, StoreOK, StackOK, IsItem, TypeOK
<1> QED BY <1>1, RequestInvariant, PTL

\* A COPY changes nothing outside its destination, a MOVE nothing outside its
\* two paths and a PROPFIND nothing, with every call that fails (file.go).
THEOREM OthersFilesStay == Spec => OnlyItsPaths
<1> DEFINE Stay == edits' = edits =>
                     \A p \in DOMAIN tree \cup DOMAIN tree' :
                       Elsewhere(p) => Exists(p) /\ p \in DOMAIN tree' /\ tree'[p] = tree[p]
                                       /\ entry'[tree[p]] = entry[tree[p]]
<1>1. RequestInv /\ RequestInv' /\ [Next]_vars => [Stay]_vars
  <2> SUFFICES ASSUME RequestInv, RequestInv', Next, edits' = edits,
                      NEW p \in DOMAIN tree \cup DOMAIN tree', Elsewhere(p), ~(UNCHANGED vars)
               PROVE  Exists(p) /\ p \in DOMAIN tree' /\ tree'[p] = tree[p]
                      /\ entry'[tree[p]] = entry[tree[p]]
    OBVIOUS
  <2>1. Serve
    BY OthersKeep DEF Next, Answered
  <2>2. p \in Seq(Labels)
    BY DEF RequestInv, StoreOK
  <2>3. Untouched(p)
    BY <2>1, <2>2, ServeKeeps
  <2> QED BY <2>3 DEF Untouched, SameAt, Exists
<1> QED BY <1>1, RequestInvariant, PTL DEF Spec, OnlyItsPaths

\* A PROPFIND lists no file twice and a directory before what is in it, while
\* others rename, remove and make files between its calls (walkFS).
THEOREM ListingInOrder == Spec => []ListedInOrder
<1>1. RequestInv => ListedInOrder
  BY DEF RequestInv, WalkOK
<1> QED BY <1>1, RequestInvariant, PTL

\* A MOVE takes all of the source to the destination and leaves nothing else
\* there, or it fails and the source is where it was (moveFiles).
THEOREM MoveIsAllOrNothing == Spec => []MoveExact
BY MoveIsExact, RequestInvariant, PTL

-----------------------------------------------------------------------------
(* What a PROPFIND has listed when it ends *)

(* A response is owed for p: it and the directories from the request's path  *)
(* down to it have been there all the time, and none of them is in left.    *)
Owed(p, left) ==
  /\ p \in Seq(Labels) /\ AtOrAbove(req.src, p)
  /\ req.depth = Infinite \/ Len(p) <= Len(req.src) + req.depth
  /\ \A n \in Len(req.src)..Len(p) :
       /\ SubSeq(p, 1, n) \in steady \ left
       /\ n < Len(p) => Kind(before, SubSeq(p, 1, n))

(* The step c of walkFS has p still to list. *)
Covers(c, p) ==
  \/ c.at = "find"
  \/ /\ AtOrAbove(c.name, p)
     /\ c.depth = Infinite \/ Len(p) <= Len(c.name) + c.depth
     /\ c.at # "visit" => c.name # p
     /\ c.at = "members" => p[Len(c.name) + 1] \in c.todo

(* What the step c of walkFS found out is so of a path that stayed. *)
FrameOK(c) ==
  c.at # "find" =>
    /\ c.depth \in {0, 1, Infinite} /\ AtOrAbove(req.src, c.name)
    /\ c.at # "visit" => c.depth # 0
    /\ c.name \in steady => c.dir = Kind(before, c.name)
    /\ c.name \in steady /\ c.at = "list" =>
         c.handle.id = before.tree[c.name] /\ c.handle.dir = Kind(before, c.name)

(* A path that has kept its identifier is what it was; if its parent has too, *)
(* its item says so.                                                       *)
SteadyOK ==
  \A p \in steady :
    /\ p \in DOMAIN tree /\ tree[p] = before.tree[p]
    /\ entry[tree[p]].dir = Kind(before, p)
    /\ p # Root /\ Parent(p) \in steady =>
         entry[tree[p]].parent = before.tree[Parent(p)] /\ entry[tree[p]].name = Base(p)

WholeOK ==
  /\ req.method # "PROPFIND" => document = "none"
  /\ req.method = "PROPFIND" =>
       /\ SteadyOK
       /\ \A i \in 1..Len(stack) : FrameOK(stack[i])
       /\ status \in {"none", "Written"} =>
            \A p \in steady :
              Owed(p, skipped) =>
                p \in ToSet(listed) \/ \E i \in 1..Len(stack) : Covers(stack[i], p)

\* Positions of a sequence of length n, seen from its last.
LEMMA Positions ==
  ASSUME NEW n \in Nat \ {0}
  PROVE  /\ n \in 1..n /\ \A i \in 1..(n - 1) : i \in 1..n
         /\ \A i \in 1..n : i \in 1..(n - 1) \/ i = n
         /\ n # 1 => 1 \in 1..(n - 1)
OBVIOUS

\* Positions of a sequence of length n + 1, seen from the last but one.
LEMMA PositionsAfter ==
  ASSUME NEW n \in Nat \ {0}, NEW k, k = n + 1
  PROVE  /\ \A i \in 1..k : i \in 1..(n - 1) \/ i = n \/ i = n + 1
         /\ \A i \in 1..(n - 1) : i \in 1..n /\ i \in 1..k
         /\ n # 1 => 1 \in 1..(n - 1)
         /\ n \in 1..k /\ n + 1 \in 1..k
OBVIOUS

\* The beginning of a path is a path at or above it.
LEMMA PrefixOf ==
  ASSUME NEW S, NEW p \in Seq(S), NEW n \in 0..Len(p)
  PROVE  /\ SubSeq(p, 1, n) \in Seq(S) /\ Len(SubSeq(p, 1, n)) = n
         /\ AtOrAbove(SubSeq(p, 1, n), p)
<1>1. n \in Nat /\ n <= Len(p) /\ Len(p) \in Nat
  BY LenProperties
<1>2. \A i \in 1..n : p[i] \in S
  BY <1>1, ElementOfSeq
<1>3. /\ SubSeq(p, 1, n) \in Seq(S) /\ Len(SubSeq(p, 1, n)) = n
      /\ \A i \in 1..n : SubSeq(p, 1, n)[i] = p[i]
  BY <1>1, <1>2
<1> QED BY <1>1, <1>3 DEF AtOrAbove

\* What is at or above a path is its beginning.
LEMMA PrefixIs ==
  ASSUME NEW S, NEW p \in Seq(S), NEW c \in Seq(S), AtOrAbove(c, p)
  PROVE  /\ Len(c) \in 0..Len(p) /\ SubSeq(p, 1, Len(c)) = c
         /\ c # p => Len(c) < Len(p)
<1>1. Len(c) \in Nat /\ Len(p) \in Nat /\ Len(c) <= Len(p) /\ \A i \in 1..Len(c) : c[i] = p[i]
  BY LenProperties DEF AtOrAbove
<1>2. SubSeq(p, 1, Len(c)) = c
  BY <1>1
<1>3. Len(c) = Len(p) => c = p
  BY <1>1
<1> QED BY <1>1, <1>2, <1>3

\* From a path to one below it: the member on the way.
LEMMA MemberOnTheWay ==
  ASSUME NEW c \in Seq(Labels), NEW p \in Seq(Labels), AtOrAbove(c, p), c # p,
         NEW n, n = p[Len(c) + 1]
  PROVE  /\ n \in Labels /\ Append(c, n) \in Seq(Labels) /\ AtOrAbove(Append(c, n), p)
         /\ Len(Append(c, n)) = Len(c) + 1
         /\ Append(c, n) # Root /\ Parent(Append(c, n)) = c /\ Base(Append(c, n)) = n
<1>1. /\ Len(c) \in Nat /\ Len(p) \in Nat /\ Len(c) < Len(p)
      /\ \A i \in 1..Len(c) : c[i] = p[i]
  BY PrefixIs, LenProperties DEF AtOrAbove
<1>2. n \in Labels
  <2>1. Len(c) + 1 \in 1..Len(p)
    BY <1>1
  <2> QED BY <2>1, ElementOfSeq
<1> DEFINE q == Append(c, n)
<1>3. /\ q \in Seq(Labels) /\ Len(q) = Len(c) + 1 /\ q[Len(c) + 1] = n
      /\ \A i \in 1..Len(c) : q[i] = c[i]
  BY <1>2, AppendProperties
<1> HIDE DEF q
<1>4. AtOrAbove(q, p)
  BY <1>1, <1>3 DEF AtOrAbove
<1>5. q # Root
  BY <1>1, <1>3 DEF Root
<1>6. Parent(q) = c
  <2>1. /\ Parent(q) \in Seq(Labels) /\ Len(Parent(q)) = Len(c)
        /\ \A i \in 1..Len(c) : Parent(q)[i] = c[i]
    <3>1. /\ Parent(q) \in Seq(Labels) /\ Len(Parent(q)) = Len(q) - 1
          /\ \A i \in 1..(Len(q) - 1) : Parent(q)[i] = q[i]
      BY <1>3, <1>5, ParentAbove
    <3>2. Len(q) - 1 = Len(c)
      BY <1>1, <1>3
    <3> QED BY <1>3, <3>1, <3>2
  <2> QED BY <2>1
<1>7. Base(q) = n
  BY <1>3, <1>5 DEF Base
<1> QED BY <1>2, <1>3, <1>4, <1>5, <1>6, <1>7 DEF q

\* Of a path for which a response is owed, every directory from the request's
\* path on has stayed.
LEMMA OwedOnTheWay ==
  ASSUME HistoryOK, NEW left, NEW p, Owed(p, left), NEW c \in Seq(Labels),
         AtOrAbove(req.src, c), AtOrAbove(c, p)
  PROVE  c \in steady \ left /\ (c # p => Kind(before, c))
<1>1. req.src \in Seq(Labels) /\ p \in Seq(Labels)
  BY PathsOfRequest DEF Owed
<1>2. /\ Len(c) \in 0..Len(p) /\ SubSeq(p, 1, Len(c)) = c
      /\ c # p => Len(c) < Len(p)
  BY <1>1, PrefixIs
<1>3. Len(c) \in Len(req.src)..Len(p)
  <2>1. Len(req.src) \in Nat /\ Len(p) \in Nat
    BY <1>1, LenProperties
  <2> QED BY <1>2, <2>1 DEF AtOrAbove
<1> QED BY <1>2, <1>3 DEF Owed

\* The less is left out, the more is owed.
LEMMA OwedMore ==
  ASSUME NEW p, NEW left, NEW more, left \subseteq more, Owed(p, more)
  PROVE  Owed(p, left)
BY DEF Owed

(* A step of walkFS: its responses and what it leaves out are added to the    *)
(* others.                                                                 *)
WholeStep ==
  /\ HistoryOK /\ StackOK /\ WholeOK /\ req.method = "PROPFIND" /\ stack # << >>
  /\ req' = req /\ before' = before /\ steady' = steady /\ UNCHANGED storeVars
  /\ skipped \subseteq skipped' /\ ToSet(listed) \subseteq ToSet(listed')

\* What the invariant says before the step, of what is owed after it.
LEMMA StillOwed ==
  ASSUME WholeStep
  PROVE  /\ Len(stack) \in Nat \ {0} /\ Top = stack[Len(stack)] /\ status = "none"
         /\ IsNode(Top) /\ FrameOK(Top)
         /\ \A i \in 1..(Len(stack) - 1) : FrameOK(stack[i])
         /\ \A p \in steady : Owed(p, skipped') =>
              \/ p \in ToSet(listed') \/ Covers(Top, p)
              \/ \E i \in 1..(Len(stack) - 1) : Covers(stack[i], p)
<1>1. Len(stack) \in Nat \ {0} /\ Top = stack[Len(stack)] /\ status = "none"
  BY EmptySeq DEF WholeStep, StackOK, Top, Last
<1>2. IsNode(Top) /\ \A i \in 1..Len(stack) : FrameOK(stack[i])
  BY <1>1 DEF WholeStep, StackOK, CallOK, WholeOK
<1>3. ASSUME NEW p \in steady, Owed(p, skipped')
      PROVE  \/ p \in ToSet(listed') \/ Covers(Top, p)
             \/ \E i \in 1..(Len(stack) - 1) : Covers(stack[i], p)
  <2>1. Owed(p, skipped)
    BY <1>3, OwedMore DEF WholeStep
  <2>2. p \in ToSet(listed) \/ \E i \in 1..Len(stack) : Covers(stack[i], p)
    BY <1>1, <2>1 DEF WholeStep, WholeOK
  <2>3. \A i \in 1..Len(stack) : i \in 1..(Len(stack) - 1) \/ i = Len(stack)
    BY <1>1
  <2> QED BY <1>1, <2>2, <2>3 DEF WholeStep
<1> QED BY <1>1, <1>2, <1>3

\* What makes WholeOK true after the step.
LEMMA WholeAfter ==
  ASSUME WholeStep, \A i \in 1..Len(stack') : FrameOK(stack'[i]),
         status' \in {"none", "Written"} =>
           \A p \in steady : Owed(p, skipped') =>
             p \in ToSet(listed') \/ \E i \in 1..Len(stack') : Covers(stack'[i], p)
  PROVE  WholeOK'
<1>1. req' = req /\ before' = before /\ steady' = steady /\ req.method = "PROPFIND"
  BY DEF WholeStep
<1>2. SteadyOK'
  <2>1. tree' = tree /\ entry' = entry /\ SteadyOK
    BY DEF WholeStep, WholeOK, storeVars
  <2> QED BY <1>1, <2>1 DEF SteadyOK, Kind
<1>3. \A i \in 1..Len(stack') : FrameOK(stack[i])'
  BY <1>1 DEF FrameOK, Kind
<1>4. \A p : Owed(p, skipped)' => Owed(p, skipped')
  BY <1>1 DEF Owed, Kind
<1>5. \A i \in 1..Len(stack') : \A p : Covers(stack'[i], p) => Covers(stack[i], p)'
  BY DEF Covers
<1> QED BY <1>1, <1>2, <1>3, <1>4, <1>5 DEF WholeOK

\* The innermost walk goes on.
LEMMA WholeContinues ==
  ASSUME WholeStep, NEW c, FrameOK(c), Continue(c),
         \A p \in steady : Owed(p, skipped') /\ Covers(Top, p) =>
           p \in ToSet(listed') \/ Covers(c, p)
  PROVE  WholeOK'
<1>1. /\ Len(stack') = Len(stack) /\ stack'[Len(stack)] = c
      /\ \A i \in 1..(Len(stack) - 1) : stack'[i] = stack[i]
  BY Continues DEF WholeStep, StackOK
<1>2. /\ Len(stack) \in Nat \ {0}
      /\ \A i \in 1..(Len(stack) - 1) : FrameOK(stack[i])
      /\ \A p \in steady : Owed(p, skipped') =>
           \/ p \in ToSet(listed') \/ Covers(Top, p)
           \/ \E i \in 1..(Len(stack) - 1) : Covers(stack[i], p)
  BY StillOwed
<1>3. /\ \A i \in 1..Len(stack') : i \in 1..(Len(stack) - 1) \/ i = Len(stack)
      /\ \A i \in 1..(Len(stack) - 1) : i \in 1..Len(stack')
      /\ Len(stack) \in 1..Len(stack')
  BY <1>1, <1>2
<1>4. \A i \in 1..Len(stack') : FrameOK(stack'[i])
  BY <1>1, <1>2, <1>3
<1>5. ASSUME NEW p \in steady, Owed(p, skipped')
      PROVE  p \in ToSet(listed') \/ \E i \in 1..Len(stack') : Covers(stack'[i], p)
  BY <1>1, <1>2, <1>3, <1>5
<1> QED BY <1>4, <1>5, WholeAfter

\* The innermost walk returns.
LEMMA WholeReturns ==
  ASSUME WholeStep, NEW code, Return(code),
         \A p \in steady : Owed(p, skipped') /\ Covers(Top, p) => p \in ToSet(listed')
  PROVE  WholeOK'
<1>1. /\ Len(stack') = Len(stack) - 1
      /\ \A i \in 1..(Len(stack) - 1) : stack'[i] = stack[i]
  BY Returns DEF WholeStep, StackOK
<1>2. /\ Len(stack) \in Nat \ {0}
      /\ \A i \in 1..(Len(stack) - 1) : FrameOK(stack[i])
      /\ \A p \in steady : Owed(p, skipped') =>
           \/ p \in ToSet(listed') \/ Covers(Top, p)
           \/ \E i \in 1..(Len(stack) - 1) : Covers(stack[i], p)
  BY StillOwed
<1>3. \A i \in 1..Len(stack') : FrameOK(stack'[i])
  BY <1>1, <1>2
<1>4. ASSUME NEW p \in steady, Owed(p, skipped')
      PROVE  p \in ToSet(listed') \/ \E i \in 1..Len(stack') : Covers(stack'[i], p)
  BY <1>1, <1>2, <1>4
<1> QED BY <1>3, <1>4, WholeAfter

\* The innermost walk enters another.
LEMMA WholeEnters ==
  ASSUME WholeStep, NEW c, NEW d, FrameOK(c), FrameOK(d), Enter(c, d),
         \A p \in steady : Owed(p, skipped') /\ Covers(Top, p) => Covers(c, p) \/ Covers(d, p)
  PROVE  WholeOK'
<1>1. /\ Len(stack') = Len(stack) + 1
      /\ stack'[Len(stack)] = c /\ stack'[Len(stack) + 1] = d
      /\ \A i \in 1..(Len(stack) - 1) : stack'[i] = stack[i]
  BY Enters DEF WholeStep, StackOK
<1>2. /\ Len(stack) \in Nat \ {0}
      /\ \A i \in 1..(Len(stack) - 1) : FrameOK(stack[i])
      /\ \A p \in steady : Owed(p, skipped') =>
           \/ p \in ToSet(listed') \/ Covers(Top, p)
           \/ \E i \in 1..(Len(stack) - 1) : Covers(stack[i], p)
  BY StillOwed
<1>3. /\ \A i \in 1..Len(stack') :
           i \in 1..(Len(stack) - 1) \/ i = Len(stack) \/ i = Len(stack) + 1
      /\ \A i \in 1..(Len(stack) - 1) : i \in 1..Len(stack')
      /\ Len(stack) \in 1..Len(stack') /\ Len(stack) + 1 \in 1..Len(stack')
  BY <1>1, <1>2
<1>4. \A i \in 1..Len(stack') : FrameOK(stack'[i])
  BY <1>1, <1>2, <1>3
<1>5. ASSUME NEW p \in steady, Owed(p, skipped')
      PROVE  p \in ToSet(listed') \/ \E i \in 1..Len(stack') : Covers(stack'[i], p)
  <2>1. CASE Covers(c, p) \/ Covers(d, p)
    BY <1>1, <1>3, <2>1
  <2>2. CASE ~(Covers(c, p) \/ Covers(d, p))
    BY <1>1, <1>2, <1>3, <1>5, <2>2
  <2> QED BY <2>1, <2>2
<1> QED BY <1>4, <1>5, WholeAfter

\* The walk fails: the answer does not look whole.
LEMMA WholeFails ==
  ASSUME WholeStep, NEW code, code \notin {"none", "Written"}, Fail(code)
  PROVE  WholeOK'
<1>1. stack' = << >> /\ status' = code
  BY DEF Fail
<1>2. Len(stack') = 0
  BY <1>1
<1>3. \A i \in 1..Len(stack') : FrameOK(stack'[i])
  BY <1>2
<1> QED BY <1>1, <1>3, WholeAfter

\* The fields of a step of walkFS that goes on.
LEMMA NodeFields ==
  ASSUME NEW c, IsNode(c), NEW at, NEW x
  PROVE  /\ LET d == [c EXCEPT !.at = at]
            IN  d.at = at /\ d.name = c.name /\ d.dir = c.dir /\ d.depth = c.depth
         /\ LET d == [c EXCEPT !.at = at, !.handle = x]
            IN  d.at = at /\ d.name = c.name /\ d.dir = c.dir /\ d.depth = c.depth
                /\ d.handle = x
         /\ LET d == [c EXCEPT !.at = at, !.todo = x]
            IN  d.at = at /\ d.name = c.name /\ d.dir = c.dir /\ d.depth = c.depth
                /\ d.todo = x
         /\ LET d == [c EXCEPT !.todo = x]
            IN  d.at = c.at /\ d.name = c.name /\ d.dir = c.dir /\ d.depth = c.depth
                /\ d.todo = x
<1> DEFINE r(a, h, t) == [at |-> a, name |-> c.name, dir |-> c.dir, depth |-> c.depth,
                          handle |-> h, todo |-> t]
           e == [c EXCEPT !.at = at]
<1>1. c = r(c.at, c.handle, c.todo)
  BY DEF IsNode
<1>2. e = r(at, c.handle, c.todo)
  BY <1>1
<1>3. [c EXCEPT !.todo = x] = r(c.at, c.handle, x)
  BY <1>1
<1>4. /\ [c EXCEPT !.at = at, !.handle = x] = [e EXCEPT !.handle = x]
      /\ [c EXCEPT !.at = at, !.todo = x] = [e EXCEPT !.todo = x]
  OBVIOUS
<1> HIDE DEF e
<1>5. [e EXCEPT !.handle = x] = r(at, x, c.todo) /\ [e EXCEPT !.todo = x] = r(at, c.handle, x)
  BY <1>2
<1>6. [c EXCEPT !.at = at] = r(at, c.handle, c.todo)
  BY <1>2 DEF e
<1> QED BY <1>3, <1>4, <1>5, <1>6

\* The paths of a sequence and one more.
LEMMA SetOfAppend ==
  ASSUME NEW S, NEW l \in Seq(S), NEW p \in S
  PROVE  ToSet(l) \subseteq ToSet(Append(l, p)) /\ p \in ToSet(Append(l, p))
<1>1. /\ DOMAIN Append(l, p) = 1..(Len(l) + 1) /\ Append(l, p)[Len(l) + 1] = p
      /\ \A i \in 1..Len(l) : Append(l, p)[i] = l[i]
      /\ Len(l) \in Nat /\ DOMAIN l = 1..Len(l)
  BY AppendProperties, LenProperties
<1>2. \A i \in 1..Len(l) : i \in 1..(Len(l) + 1)
  BY <1>1
<1>3. Len(l) + 1 \in 1..(Len(l) + 1)
  BY <1>1
<1> QED BY <1>1, <1>2, <1>3 DEF ToSet

\* A step of walkFS begins.
LEMMA WholeFrom ==
  ASSUME HistoryOK, StackOK, WholeOK, NEW step \in WalkStages, At(step),
         UNCHANGED storeVars, UNCHANGED history,
         skipped \subseteq skipped', ToSet(listed) \subseteq ToSet(listed')
  PROVE  /\ WholeStep /\ Top.at = step /\ IsNode(Top) /\ FrameOK(Top) /\ SteadyOK
         /\ Top.name \in Seq(Labels) /\ req.src \in Seq(Labels)
<1>1. /\ stack # << >> /\ Top.at = step /\ req' = req /\ CallOK(Top)
      /\ req.method = "PROPFIND"
  BY TopTells
<1>2. WholeStep
  BY <1>1 DEF WholeStep, history
<1>3. IsNode(Top) /\ FrameOK(Top)
  BY <1>2, StillOwed
<1>4. SteadyOK
  BY <1>1 DEF WholeOK
<1> QED BY <1>1, <1>2, <1>3, <1>4, PathsOfRequest DEF IsNode

\* What Stat and OpenFile say of a path that stayed.
LEMMA SteadyKind ==
  ASSUME SteadyOK, NEW p \in steady
  PROVE  IsDir(p) = Kind(before, p) /\ Handle(p).id = before.tree[p]
         /\ Handle(p).dir = Kind(before, p)
BY DEF SteadyOK, IsDir, Handle

\* The file is found: it and all below it are to be listed.
LEMMA FindIsWhole ==
  ASSUME HistoryOK, StackOK, WholeOK, WalkFind, UNCHANGED history
  PROVE  WholeOK'
<1> DEFINE c == Node(req.src, IsDir(req.src), req.depth)
<1>1. /\ At("find") /\ UNCHANGED storeVars /\ UNCHANGED replyVars
      /\ Continue(c) \/ Fail("NotFound") \/ Fail("MethodNotAllowed")
  BY DEF WalkFind, Stat
<1>2. "find" \in WalkStages /\ skipped' = skipped /\ listed' = listed
  BY <1>1 DEF WalkStages, replyVars
<1>3. WholeStep /\ Top.at = "find" /\ SteadyOK /\ req.src \in Seq(Labels)
  BY <1>1, <1>2, WholeFrom
<1>4. req.depth \in {0, 1, Infinite}
  BY RequestsAssumption DEF HistoryOK
<1>5. c.at = "visit" /\ c.name = req.src /\ c.dir = IsDir(req.src) /\ c.depth = req.depth
  BY DEF Node
<1> HIDE DEF c
<1>6. AtOrAbove(req.src, req.src)
  BY <1>3, AtOrAboveReflexive
<1>7. FrameOK(c)
  BY <1>3, <1>4, <1>5, <1>6, SteadyKind DEF FrameOK
<1>8. \A p \in steady : Owed(p, skipped') => Covers(c, p)
  BY <1>5 DEF Owed, Covers
<1> QED BY <1>1, <1>3, <1>7, <1>8, WholeContinues, WholeFails

\* A file is visited: it is listed, or left out with what is below it.
LEMMA VisitIsWhole ==
  ASSUME HistoryOK, StackOK, WalkOK, WholeOK, WalkVisit, UNCHANGED history
  PROVE  WholeOK'
<1> DEFINE c == [Top EXCEPT !.at = "enter"]
<1>1. /\ At("visit") /\ UNCHANGED storeVars
      /\ \/ /\ listed' = Append(listed, Top.name) /\ skipped' = skipped
            /\ \/ Top.dir /\ Top.depth # 0 /\ Continue(c)
               \/ ~(Top.dir /\ Top.depth # 0) /\ Return("Written")
         \/ /\ listed' = listed /\ skipped' = skipped \cup {Top.name} /\ Return("Written")
         \/ /\ listed' = listed /\ skipped' = skipped /\ Fail("InternalServerError")
  <2>1. PICK result \in Results :
          /\ OpenFile(Top.name, result)
          /\ CASE result = "ok" ->
                    /\ listed' = Append(listed, Top.name)
                    /\ UNCHANGED skipped
                    /\ IF Top.dir /\ Top.depth # 0
                       THEN Continue(c) /\ document' = "open"
                       ELSE /\ Return("Written")
                            /\ document' = IF Len(stack) = 1 THEN "closed" ELSE "open"
               [] result = "path" ->
                    /\ Walked
                    /\ skipped' = skipped \cup {Top.name} /\ UNCHANGED listed
               [] OTHER -> Abort
    BY DEF WalkVisit
  <2> HIDE DEF c
  <2>2. At("visit") /\ UNCHANGED storeVars
    BY <2>1 DEF WalkVisit, OpenFile
  <2>3. CASE result = "ok"
    BY <2>1, <2>2, <2>3
  <2>4. CASE result = "path"
    BY <2>1, <2>2, <2>4 DEF Walked
  <2>5. CASE result # "ok" /\ result # "path"
    BY <2>1, <2>2, <2>5 DEF Abort
  <2> QED BY <2>3, <2>4, <2>5
<1>2. "visit" \in WalkStages
  BY DEF WalkStages
<1>3. listed \in Seq(Seq(Labels))
  BY DEF WalkOK
<1>4. Top.name \in Seq(Labels)
  <2>1. CallOK(Top) /\ req.method = "PROPFIND"
    BY <1>1, <1>2, TopTells
  <2> QED BY <2>1 DEF CallOK, IsNode
<1>5. skipped \subseteq skipped' /\ ToSet(listed) \subseteq ToSet(listed')
  BY <1>1, <1>3, <1>4, SetOfAppend
<1>6. WholeStep /\ Top.at = "visit" /\ IsNode(Top) /\ FrameOK(Top) /\ SteadyOK
  BY <1>1, <1>2, <1>5, WholeFrom
<1>7. c.at = "enter" /\ c.name = Top.name /\ c.dir = Top.dir /\ c.depth = Top.depth
  BY <1>6, NodeFields
<1> HIDE DEF c
<1>8. AtOrAbove(req.src, Top.name) /\ Top.depth \in {0, 1, Infinite}
      /\ (Top.name \in steady => Top.dir = Kind(before, Top.name))
  BY <1>6 DEF FrameOK
<1>9. ASSUME NEW p \in steady, Owed(p, skipped'), Covers(Top, p)
      PROVE  /\ p \in Seq(Labels) /\ AtOrAbove(Top.name, p)
             /\ Top.depth = Infinite \/ Len(p) <= Len(Top.name) + Top.depth
             /\ Top.name \in steady \ skipped'
             /\ p # Top.name => Top.dir
  <2>1. /\ p \in Seq(Labels) /\ AtOrAbove(Top.name, p)
        /\ Top.depth = Infinite \/ Len(p) <= Len(Top.name) + Top.depth
    BY <1>6, <1>9 DEF Owed, Covers
  <2>2. Top.name \in steady \ skipped' /\ (Top.name # p => Kind(before, Top.name))
    BY <1>4, <1>8, <1>9, <2>1, OwedOnTheWay
  <2> QED BY <1>8, <2>1, <2>2
<1>10. CASE listed' = Append(listed, Top.name) /\ Top.dir /\ Top.depth # 0 /\ Continue(c)
  <2>1. Top.name \in ToSet(listed')
    BY <1>3, <1>4, <1>10, SetOfAppend
  <2>2. FrameOK(c)
    BY <1>7, <1>8, <1>10 DEF FrameOK
  <2>3. ASSUME NEW p \in steady, Owed(p, skipped'), Covers(Top, p), p # Top.name
        PROVE  Covers(c, p)
    BY <1>7, <1>9, <2>3 DEF Covers
  <2> QED BY <1>6, <1>10, <2>1, <2>2, <2>3, WholeContinues
<1>11. CASE listed' = Append(listed, Top.name) /\ ~(Top.dir /\ Top.depth # 0) /\ Return("Written")
  <2>1. Top.name \in ToSet(listed')
    BY <1>3, <1>4, <1>11, SetOfAppend
  <2>2. ASSUME NEW p \in steady, Owed(p, skipped'), Covers(Top, p)
        PROVE  p = Top.name
    <3> SUFFICES ASSUME p # Top.name
                 PROVE  FALSE
      OBVIOUS
    <3>1. Top.depth = 0 /\ AtOrAbove(Top.name, p) /\ p \in Seq(Labels)
      BY <1>9, <1>11, <2>2
    <3>2. Len(p) <= Len(Top.name) + 0
      BY <1>9, <2>2, <3>1 DEF Infinite
    <3>3. Len(Top.name) < Len(p) /\ Len(Top.name) \in Nat /\ Len(p) \in Nat
      BY <1>4, <3>1, PrefixIs, LenProperties
    <3> QED BY <3>2, <3>3
  <2> QED BY <1>6, <1>11, <2>1, <2>2, WholeReturns
<1>12. CASE skipped' = skipped \cup {Top.name} /\ Return("Written")
  <2>1. \A p \in steady : ~(Owed(p, skipped') /\ Covers(Top, p))
    BY <1>9, <1>12
  <2> QED BY <1>6, <1>12, <2>1, WholeReturns
<1>13. CASE Fail("InternalServerError")
  BY <1>6, <1>13, WholeFails
<1> QED BY <1>1, <1>10, <1>11, <1>12, <1>13

\* A directory is opened to be read; where a file cannot be, none was listed
\* as a directory that stayed.
LEMMA EnterIsWhole ==
  ASSUME HistoryOK, StackOK, WholeOK, WalkEnter, UNCHANGED history
  PROVE  WholeOK'
<1> DEFINE c == [Top EXCEPT !.at = "list", !.handle = Handle(Top.name)]
<1>1. /\ At("enter") /\ UNCHANGED storeVars /\ listed' = listed /\ skipped' = skipped
      /\ \/ Continue(c)
         \/ Exists(Top.name) /\ ~IsDir(Top.name) /\ Return("Written")
         \/ Fail("InternalServerError")
  <2>1. PICK result \in Results :
          /\ OpenFile(Top.name, result)
          /\ CASE result = "ok" -> Continue(c) /\ UNCHANGED replyVars
               [] result = "path" /\ Len(stack) > 1 -> Return("Written") /\ UNCHANGED replyVars
               [] OTHER -> Abort
    BY DEF WalkEnter
  <2> HIDE DEF c
  <2>2. At("enter") /\ UNCHANGED storeVars
    BY <2>1 DEF WalkEnter, OpenFile
  <2>3. CASE result = "ok"
    BY <2>1, <2>2, <2>3 DEF replyVars
  <2>4. CASE result = "path" /\ Len(stack) > 1
    <3>1. Exists(Top.name) /\ ~IsDir(Top.name)
      BY <2>1, <2>4 DEF OpenFile
    <3> QED BY <2>1, <2>2, <2>4, <3>1 DEF replyVars
  <2>5. CASE result # "ok" /\ ~(result = "path" /\ Len(stack) > 1)
    BY <2>1, <2>2, <2>5 DEF Abort
  <2> QED BY <2>3, <2>4, <2>5
<1>2. "enter" \in WalkStages
  BY DEF WalkStages
<1>3. /\ WholeStep /\ Top.at = "enter" /\ IsNode(Top) /\ FrameOK(Top) /\ SteadyOK
      /\ Top.name \in Seq(Labels)
  BY <1>1, <1>2, WholeFrom
<1>4. /\ c.at = "list" /\ c.name = Top.name /\ c.dir = Top.dir /\ c.depth = Top.depth
      /\ c.handle = Handle(Top.name)
  BY <1>3, NodeFields
<1> HIDE DEF c
<1>5. /\ Top.depth \in {0, 1, Infinite} /\ Top.depth # 0 /\ AtOrAbove(req.src, Top.name)
      /\ Top.name \in steady => Top.dir = Kind(before, Top.name)
  BY <1>3 DEF FrameOK
<1>6. CASE Continue(c)
  <2>1. FrameOK(c)
    BY <1>3, <1>4, <1>5, SteadyKind DEF FrameOK
  <2>2. \A p : Covers(Top, p) => Covers(c, p)
    BY <1>3, <1>4 DEF Covers
  <2> QED BY <1>3, <1>6, <2>1, <2>2, WholeContinues
<1>7. CASE ~IsDir(Top.name) /\ Return("Written")
  <2>1. ASSUME NEW p \in steady, Owed(p, skipped'), Covers(Top, p)
        PROVE  FALSE
    <3>1. AtOrAbove(Top.name, p) /\ Top.name # p
      BY <1>3, <2>1 DEF Covers
    <3>2. Top.name \in steady /\ Kind(before, Top.name)
      BY <1>3, <1>5, <2>1, <3>1, OwedOnTheWay
    <3> QED BY <1>3, <1>7, <3>2, SteadyKind
  <2> QED BY <1>3, <1>7, <2>1, WholeReturns
<1>8. CASE Fail("InternalServerError")
  BY <1>3, <1>8, WholeFails
<1> QED BY <1>1, <1>6, <1>7, <1>8

\* A directory is read: the item of each member that stayed names it.
LEMMA ListIsWhole ==
  ASSUME HistoryOK, StoreOK, StackOK, WholeOK, WalkList, UNCHANGED history
  PROVE  WholeOK'
<1> DEFINE c == [Top EXCEPT !.at = "members", !.todo = Members(Top.handle)]
<1>1. /\ At("list") /\ UNCHANGED storeVars /\ listed' = listed /\ skipped' = skipped
      /\ Continue(c) \/ Fail("InternalServerError")
  BY DEF WalkList, Abort, replyVars
<1>2. "list" \in WalkStages
  BY DEF WalkStages
<1>3. /\ WholeStep /\ Top.at = "list" /\ IsNode(Top) /\ FrameOK(Top) /\ SteadyOK
      /\ Top.name \in Seq(Labels)
  BY <1>1, <1>2, WholeFrom
<1>4. /\ c.at = "members" /\ c.name = Top.name /\ c.dir = Top.dir /\ c.depth = Top.depth
      /\ c.todo = Members(Top.handle)
  BY <1>3, NodeFields
<1> HIDE DEF c
<1>5. /\ Top.depth \in {0, 1, Infinite} /\ Top.depth # 0 /\ AtOrAbove(req.src, Top.name)
      /\ Top.name \in steady => Top.dir = Kind(before, Top.name)
      /\ Top.name \in steady =>
           Top.handle.id = before.tree[Top.name] /\ Top.handle.dir = Kind(before, Top.name)
  BY <1>3 DEF FrameOK
<1>6. CASE Continue(c)
  <2>1. FrameOK(c)
    BY <1>4, <1>5 DEF FrameOK
  <2>2. ASSUME NEW p \in steady, Owed(p, skipped'), Covers(Top, p)
        PROVE  Covers(c, p)
    <3> DEFINE n == p[Len(Top.name) + 1]
               q == Append(Top.name, n)
    <3>1. /\ p \in Seq(Labels) /\ AtOrAbove(Top.name, p) /\ Top.name # p
          /\ Top.depth = Infinite \/ Len(p) <= Len(Top.name) + Top.depth
      BY <1>3, <2>2 DEF Owed, Covers
    <3>2. /\ q \in Seq(Labels) /\ AtOrAbove(q, p) /\ q # Root
          /\ Parent(q) = Top.name /\ Base(q) = n
          /\ Len(q) = Len(Top.name) + 1
      BY <1>3, <3>1, MemberOnTheWay
    <3>3. AtOrAbove(Top.name, q)
      BY <3>2, ParentAbove DEF Above
    <3>4. AtOrAbove(req.src, q)
      BY <1>3, <1>5, <3>2, <3>3, PathsOfRequest, AtOrAboveTransitive
    <3> HIDE DEF n, q
    <3>5. Top.name \in steady /\ Kind(before, Top.name) /\ q \in steady
      BY <1>3, <1>5, <2>2, <3>1, <3>2, <3>4, OwedOnTheWay
    <3>6. /\ q \in DOMAIN tree /\ entry[tree[q]].parent = before.tree[Top.name]
          /\ entry[tree[q]].name = n
      BY <1>3, <3>2, <3>5 DEF SteadyOK
    <3>7. tree[q] \in DOMAIN entry
      BY <3>6 DEF StoreOK
    <3>8. n \in Members(Top.handle)
      BY <1>5, <3>5, <3>6, <3>7 DEF Members
    <3> QED BY <1>4, <3>1, <3>8 DEF Covers, n
  <2> QED BY <1>3, <1>6, <2>1, <2>2, WholeContinues
<1>7. CASE Fail("InternalServerError")
  BY <1>3, <1>7, WholeFails
<1> QED BY <1>1, <1>6, <1>7

\* A member is gone to: the walk of it covers what is at or below it, the loop
\* the other members; a member that is gone fails the walk.
LEMMA MemberIsWhole ==
  ASSUME HistoryOK, StoreOK, StackOK, WholeOK, WalkMember, UNCHANGED history
  PROVE  WholeOK'
<1> DEFINE c(name) == [Top EXCEPT !.todo = Top.todo \ {name}]
           q(name) == Append(Top.name, name)
           d(name) == Node(q(name), IsDir(q(name)), DepthBelow(Top.depth))
<1>1. /\ At("members") /\ UNCHANGED storeVars /\ listed' = listed /\ skipped' = skipped
      /\ \/ Top.todo = {} /\ Return("Written")
         \/ \E name \in Top.todo : Enter(c(name), d(name))
         \/ Fail("InternalServerError")
  <2>1. CASE Top.todo = {} /\ Walked /\ UNCHANGED <<storeVars, listed, skipped>>
    BY <2>1 DEF WalkMember, Walked
  <2>2. CASE ~(Top.todo = {} /\ Walked /\ UNCHANGED <<storeVars, listed, skipped>>)
    <3>1. PICK name \in Top.todo, result \in Results :
            /\ Stat(q(name), result)
            /\ IF result = "ok" THEN Enter(c(name), d(name)) /\ UNCHANGED replyVars
                                ELSE Abort
      BY <2>2 DEF WalkMember
    <3> HIDE DEF c, d
    <3> QED BY <3>1 DEF WalkMember, Stat, Abort, replyVars
  <2> QED BY <2>1, <2>2
<1>2. "members" \in WalkStages
  BY DEF WalkStages
<1>3. /\ WholeStep /\ Top.at = "members" /\ IsNode(Top) /\ FrameOK(Top) /\ SteadyOK
      /\ Top.name \in Seq(Labels)
  BY <1>1, <1>2, WholeFrom
<1>4. /\ Top.depth \in {0, 1, Infinite} /\ Top.depth # 0 /\ AtOrAbove(req.src, Top.name)
      /\ Top.name \in steady => Top.dir = Kind(before, Top.name)
  BY <1>3 DEF FrameOK
<1>5. CASE Top.todo = {} /\ Return("Written")
  <2>1. \A p : ~Covers(Top, p)
    BY <1>3, <1>5 DEF Covers
  <2> QED BY <1>3, <1>5, <2>1, WholeReturns
<1>6. ASSUME NEW name \in Top.todo, Enter(c(name), d(name))
      PROVE  WholeOK'
  <2>1. /\ c(name).at = "members" /\ c(name).name = Top.name /\ c(name).dir = Top.dir
        /\ c(name).depth = Top.depth /\ c(name).todo = Top.todo \ {name}
    BY <1>3, NodeFields
  <2>2. /\ d(name).at = "visit" /\ d(name).name = q(name) /\ d(name).dir = IsDir(q(name))
        /\ d(name).depth = DepthBelow(Top.depth)
    BY DEF Node
  <2>3. name \in Labels /\ q(name) \in Seq(Labels)
    <3>1. name \in Labels
      BY <1>3 DEF IsNode
    <3> QED BY <1>3, <3>1, AppendProperties
  <2>4. AtOrAbove(Top.name, q(name)) /\ Len(q(name)) = Len(Top.name) + 1
    <3>1. Len(q(name)) = Len(Top.name) + 1 /\ \A i \in 1..Len(Top.name) : q(name)[i] = Top.name[i]
      BY <1>3, <2>3, AppendProperties
    <3> QED BY <1>3, <3>1, LenProperties DEF AtOrAbove
  <2>5. AtOrAbove(req.src, q(name))
    BY <1>3, <1>4, <2>3, <2>4, PathsOfRequest, AtOrAboveTransitive
  <2>6. /\ DepthBelow(Top.depth) \in {0, Infinite}
        /\ Top.depth = 1 => DepthBelow(Top.depth) = 0
        /\ Top.depth # 1 => DepthBelow(Top.depth) = Infinite
    BY <1>4 DEF DepthBelow
  <2> HIDE DEF c, d
  <2>7. FrameOK(c(name))
    BY <1>4, <2>1 DEF FrameOK
  <2>8. FrameOK(d(name))
    <3>1. q(name) \in steady => IsDir(q(name)) = Kind(before, q(name))
      BY <1>3, SteadyKind
    <3> QED BY <2>2, <2>5, <2>6, <3>1 DEF FrameOK
  <2>9. ASSUME NEW p \in steady, Owed(p, skipped'), Covers(Top, p)
        PROVE  Covers(c(name), p) \/ Covers(d(name), p)
    <3>1. /\ p \in Seq(Labels) /\ AtOrAbove(Top.name, p) /\ Top.name # p
          /\ Top.depth = Infinite \/ Len(p) <= Len(Top.name) + Top.depth
          /\ p[Len(Top.name) + 1] \in Top.todo
      BY <1>3, <2>9 DEF Owed, Covers
    <3>2. CASE p[Len(Top.name) + 1] # name
      BY <2>1, <3>1, <3>2 DEF Covers
    <3>3. CASE p[Len(Top.name) + 1] = name
      <4>1. AtOrAbove(q(name), p)
        BY <1>3, <3>1, <3>3, MemberOnTheWay
      <4>2. DepthBelow(Top.depth) = Infinite \/ Len(p) <= Len(q(name)) + DepthBelow(Top.depth)
        <5>1. CASE Top.depth = 1
          <6>1. Len(p) <= Len(Top.name) + 1
            BY <3>1, <5>1 DEF Infinite
          <6>2. Len(q(name)) + 0 = Len(Top.name) + 1
            BY <1>3, <2>4, LenProperties
          <6> QED BY <2>6, <5>1, <6>1, <6>2
        <5> QED BY <2>6, <5>1
      <4> QED BY <2>2, <4>1, <4>2 DEF Covers
    <3> QED BY <3>2, <3>3
  <2> QED BY <1>3, <1>6, <2>7, <2>8, <2>9, WholeEnters
<1>7. CASE Fail("InternalServerError")
  BY <1>3, <1>7, WholeFails
<1> QED BY <1>1, <1>5, <1>6, <1>7

\* A request of another client leaves the item of each path that keeps its
\* identifier: a Rename takes the path of the one it writes.
LEMMA OthersLeaveItems ==
  ASSUME RequestInv, Others, NEW x \in DOMAIN tree, x \in DOMAIN tree', tree'[x] = tree[x]
  PROVE  entry'[tree[x]] = entry[tree[x]]
<1>1. StoreOK /\ StoreOK'
  BY OthersKeep DEF RequestInv
<1>2. tree[x] \in DOMAIN entry /\ tree[x] # nextID
  BY <1>1 DEF StoreOK
<1>3. \A path, dir, body : Added(path, dir, body) => entry'[tree[x]] = entry[tree[x]]
  BY <1>2 DEF Added, Linked
<1>4. CASE \E p \in DOMAIN tree, s \in Segments : Mkdir(Append(p, s), "ok")
  BY <1>3, <1>4 DEF Mkdir, storeVars
<1>5. CASE \E p \in DOMAIN tree, s \in Segments, b \in Bodies :
             ~Exists(Append(p, s)) /\ Create(Append(p, s), b, "ok")
  BY <1>3, <1>5 DEF Create, Stored, storeVars
<1>6. CASE \E p \in DOMAIN tree : RemoveAll(p, "ok")
  <2>1. PICK p \in DOMAIN tree : RemoveAll(p, "ok")
    BY <1>6
  <2>2. tree' = Without(tree, p)
        /\ entry' = Restrict(entry, DOMAIN entry \ {tree[q] : q \in {r \in DOMAIN tree : AtOrAbove(p, r)}})
    BY <2>1 DEF RemoveAll
  <2>3. ~AtOrAbove(p, x)
    BY <2>2 DEF Without, Restrict
  <2>4. tree[x] \notin {tree[q] : q \in {r \in DOMAIN tree : AtOrAbove(p, r)}}
    BY <1>1, <2>3 DEF StoreOK, OneToOne
  <2> QED BY <1>2, <2>2, <2>4 DEF Restrict
<1>7. CASE \E old, p \in DOMAIN tree, s \in Segments :
             /\ ~Exists(Append(p, s)) /\ ~AtOrAbove(old, p)
             /\ Rename(old, Append(p, s), "ok")
  <2>1. PICK old \in DOMAIN tree, p \in DOMAIN tree, s \in Segments :
               ~Exists(Append(p, s)) /\ Rename(old, Append(p, s), "ok")
    BY <1>7
  <2> DEFINE new == Append(p, s)
  <2>2. old \in Seq(Labels) /\ p \in Seq(Labels) /\ s \in Labels
    BY <1>1 DEF StoreOK, Labels
  <2>3. new \in Seq(Labels)
    BY <2>2, AppendProperties
  <2> HIDE DEF new
  <2>4. new # old /\ Rename(old, new, "ok")
    BY <2>1 DEF new, Exists
  <2>5. /\ tree' = IF IsDir(old) THEN MovedTree(tree, old, new) ELSE MovedAlone(tree, old, new)
        /\ entry' = [entry EXCEPT ![tree[old]].parent = tree[Parent(new)],
                                  ![tree[old]].name = Base(new)]
    BY <2>4 DEF Rename
  <2>6. new \in DOMAIN tree' /\ tree'[new] = tree[old]
    <3>1. CASE IsDir(old)
      <4>1. AtOrAbove(old, old) /\ Rebase(old, old, new) = new
        BY <2>2, <2>3, AtOrAboveReflexive, RebaseOfPrefix
      <4> DEFINE t == MovedTree(tree, old, new)
      <4>2. DOMAIN tree \subseteq Seq(Labels) /\ OneToOne(tree)
        BY <1>1 DEF StoreOK
      <4>3. Rebase(old, old, new) \in DOMAIN t /\ t[Rebase(old, old, new)] = tree[old]
        BY <2>2, <2>3, <4>1, <4>2, MovedTreeKeepsFiles
      <4> HIDE DEF t
      <4>4. tree' = t
        BY <2>5, <3>1 DEF t
      <4> QED BY <4>1, <4>3, <4>4
    <3>2. CASE ~IsDir(old)
      BY <2>5, <3>2 DEF MovedAlone, Linked
    <3> QED BY <3>1, <3>2
  <2>7. x # old
    BY <1>1, <2>4, <2>6 DEF StoreOK, OneToOne
  <2>8. tree[x] # tree[old]
    BY <1>1, <2>7 DEF StoreOK, OneToOne
  <2>9. [entry EXCEPT ![tree[old]].parent = tree[Parent(new)]][tree[x]] = entry[tree[x]]
        /\ tree[x] \in DOMAIN [entry EXCEPT ![tree[old]].parent = tree[Parent(new)]]
    BY <1>2, <2>8
  <2>10. entry' = [[entry EXCEPT ![tree[old]].parent = tree[Parent(new)]]
                     EXCEPT ![tree[old]].name = Base(new)]
    BY <2>5
  <2> QED BY <2>8, <2>9, <2>10
<1> QED BY <1>4, <1>5, <1>6, <1>7 DEF Others

\* A request of another client: what it touches is not owed any more.
LEMMA OthersLeaveWhole ==
  ASSUME RequestInv, WholeOK, Others
  PROVE  WholeOK'
<1>1. /\ before' = before /\ req' = req /\ stack' = stack /\ status' = status
      /\ listed' = listed /\ document' = document /\ skipped' = skipped
      /\ steady' = {p \in steady \cap DOMAIN tree' : tree'[p] = before.tree[p]}
  BY DEF Others, replyVars
<1>2. steady' \subseteq steady
  BY <1>1
<1>3. CASE req.method # "PROPFIND"
  BY <1>1, <1>3 DEF WholeOK
<1>4. CASE req.method = "PROPFIND"
  <2>1. SteadyOK /\ \A i \in 1..Len(stack) : FrameOK(stack[i])
    BY <1>4 DEF WholeOK
  <2>2. ASSUME NEW p \in steady'
        PROVE  /\ p \in DOMAIN tree' /\ tree'[p] = before.tree[p] /\ p \in steady
               /\ tree'[p] = tree[p] /\ entry'[tree'[p]] = entry[tree[p]]
    <3>1. p \in steady /\ p \in DOMAIN tree' /\ tree'[p] = before.tree[p]
      BY <1>1, <2>2
    <3>2. p \in DOMAIN tree /\ tree[p] = before.tree[p]
      BY <2>1, <3>1 DEF SteadyOK
    <3> QED BY <3>1, <3>2, OthersLeaveItems
  <2>3. SteadyOK'
    <3>1. \A p \in steady' :
            /\ p \in DOMAIN tree' /\ tree'[p] = before.tree[p]
            /\ entry'[tree'[p]].dir = Kind(before, p)
            /\ p # Root /\ Parent(p) \in steady' =>
                 /\ entry'[tree'[p]].parent = before.tree[Parent(p)]
                 /\ entry'[tree'[p]].name = Base(p)
      BY <1>2, <2>1, <2>2 DEF SteadyOK
    <3> QED BY <1>1, <3>1 DEF SteadyOK, Kind
  <2>4. \A i \in 1..Len(stack') : FrameOK(stack[i])'
    BY <1>1, <1>2, <2>1 DEF FrameOK, Kind
  <2>5. \A p \in steady' : Owed(p, skipped)' => Owed(p, skipped)
    BY <1>1, <1>2 DEF Owed, Kind
  <2>6. \A p : \A i \in 1..Len(stack) : Covers(stack[i], p) => Covers(stack[i], p)'
    BY <1>1 DEF Covers
  <2> QED BY <1>1, <1>2, <1>4, <2>3, <2>4, <2>5, <2>6 DEF WholeOK
<1> QED BY <1>3, <1>4

\* Each step keeps what is said of the paths that stayed.
LEMMA StepKeepsWhole ==
  ASSUME RequestInv, WholeOK, [Next]_vars
  PROVE  WholeOK'
<1>1. HistoryOK /\ StoreOK /\ StackOK /\ WalkOK
  BY DEF RequestInv
<1>2. CASE (Copy \/ Move) /\ UNCHANGED replyVars /\ UNCHANGED history
  <2>1. req.method # "PROPFIND" /\ req' = req
    <3>1. Copy => req.method = "COPY" /\ req' = req
      BY <1>1, CopyKeeps
    <3>2. Move => req.method = "MOVE" /\ req' = req
      BY <1>1, MoveKeeps
    <3> QED BY <1>2, <3>1, <3>2
  <2> QED BY <1>2, <2>1 DEF WholeOK, replyVars
<1>3. CASE Walk /\ UNCHANGED history
  BY <1>1, <1>3, FindIsWhole, VisitIsWhole, EnterIsWhole, ListIsWhole, MemberIsWhole DEF Walk
<1>4. CASE Others
  BY <1>4, OthersLeaveWhole
<1>5. CASE UNCHANGED vars
  <2>1. UNCHANGED <<tree, entry, req, stack, status, listed, skipped, document, before, steady>>
    BY <1>5 DEF vars, storeVars, replyVars, history
  <2>2. SteadyOK => SteadyOK'
    BY <2>1 DEF SteadyOK, Kind
  <2>3. \A c : FrameOK(c) => FrameOK(c)'
    BY <2>1 DEF FrameOK, Kind
  <2>4. \A p : Owed(p, skipped)' => Owed(p, skipped)
    BY <2>1 DEF Owed, Kind
  <2>5. \A c, p : Covers(c, p) => Covers(c, p)'
    BY <2>1 DEF Covers
  <2> QED BY <2>1, <2>2, <2>3, <2>4, <2>5 DEF WholeOK
<1> QED BY <1>2, <1>3, <1>4, <1>5 DEF Next, Serve, Answered

\* When the request comes, all is still to list.
LEMMA WholeAtFirst ==
  ASSUME Init
  PROVE  WholeOK
<1>1. PICK t \in Trees : HoldsFiles(t)
  BY DEF Init
<1>2. /\ stack = <<FirstCall(req)>> /\ document = "none"
      /\ before = [tree |-> tree, entry |-> entry] /\ steady = DOMAIN tree
  BY DEF Init
<1>3. \A p \in DOMAIN tree :
        p # Root => entry[tree[p]].parent = tree[Parent(p)] /\ entry[tree[p]].name = Base(p)
  BY <1>1, StoreAtFirst
<1>4. before.tree = tree /\ before.entry = entry
  BY <1>2
<1>5. SteadyOK
  BY <1>2, <1>3, <1>4 DEF SteadyOK, Kind
<1>6. Len(stack) = 1 /\ stack[1] = FirstCall(req)
  BY <1>2
<1>7. ASSUME req.method = "PROPFIND"
      PROVE  FirstCall(req).at = "find"
  <2>1. FirstCall(req) = [Node(req.src, FALSE, 0) EXCEPT !.at = "find"]
    BY <1>7 DEF FirstCall
  <2> QED BY <2>1 DEF Node
<1>8. req.method = "PROPFIND" => FrameOK(stack[1]) /\ \A p : Covers(stack[1], p)
  BY <1>6, <1>7 DEF FrameOK, Covers
<1> QED BY <1>2, <1>5, <1>6, <1>8 DEF WholeOK

\* At the end nothing is still to list, and what is due was owed.
LEMMA WholeIsComplete ==
  ASSUME RequestInv, WholeOK
  PROVE  WholeMeansComplete
<1> SUFFICES ASSUME document = "closed", status = "Written", NEW p \in Due
             PROVE  p \in ToSet(listed)
  BY DEF WholeMeansComplete, TextBehindDocument
<1>1. HistoryOK /\ StoreOK /\ StackOK
  BY DEF RequestInv
<1>2. req.method = "PROPFIND" /\ SteadyOK
  BY DEF WholeOK
<1>3. Len(stack) = 0
  BY <1>1 DEF StackOK
<1>4. /\ p \in DOMAIN tree /\ AtOrAbove(req.src, p) /\ p \in Seq(Labels) /\ req.src \in Seq(Labels)
      /\ req.depth = Infinite \/ Len(p) <= Len(req.src) + req.depth
      /\ \A n \in Len(req.src)..(Len(p) - 1) :
           SubSeq(p, 1, n) \in DOMAIN tree /\ Kind(now, SubSeq(p, 1, n))
      /\ \A q \in DOMAIN tree : AtOrAbove(req.src, q) /\ AtOrAbove(q, p) => q \in steady \ skipped
  BY <1>1, PathsOfRequest DEF Due, Listable, now, StoreOK
<1>5. ASSUME NEW n \in Len(req.src)..Len(p)
      PROVE  /\ SubSeq(p, 1, n) \in steady \ skipped
             /\ n < Len(p) => Kind(before, SubSeq(p, 1, n))
  <2> DEFINE q == SubSeq(p, 1, n)
  <2>1. n \in 0..Len(p) /\ Len(p) \in Nat /\ Len(req.src) \in Nat /\ Len(req.src) <= n
    BY <1>4, LenProperties
  <2>2. q \in Seq(Labels) /\ Len(q) = n /\ AtOrAbove(q, p)
    BY <1>4, <2>1, PrefixOf
  <2>3. q \in DOMAIN tree /\ (n < Len(p) => Kind(now, q))
    <3>1. CASE n < Len(p)
      <4>1. n \in Len(req.src)..(Len(p) - 1)
        BY <2>1, <3>1
      <4> QED BY <1>4, <4>1
    <3>2. CASE n = Len(p)
      <4>1. q = p
        <5>1. Len(q) = Len(p) /\ \A i \in 1..Len(p) : q[i] = p[i]
          BY <2>1, <2>2, <3>2 DEF AtOrAbove
        <5> HIDE DEF q
        <5> QED BY <1>4, <2>2, <5>1
      <4>2. ~(n < Len(p))
        BY <2>1, <3>2
      <4>3. p \in DOMAIN tree
        BY <1>4
      <4> HIDE DEF q
      <4> QED BY <4>1, <4>2, <4>3
    <3> QED BY <2>1, <3>1, <3>2
  <2> HIDE DEF q
  <2>4. AtOrAbove(req.src, q)
    BY <1>4, <2>1, <2>2 DEF AtOrAbove
  <2>5. q \in steady \ skipped
    BY <1>4, <2>2, <2>3, <2>4
  <2>6. Kind(now, q) = Kind(before, q)
    BY <1>2, <2>5 DEF SteadyOK, Kind, now
  <2> QED BY <2>3, <2>5, <2>6 DEF q
<1>6. Owed(p, skipped)
  BY <1>4, <1>5 DEF Owed
<1>7. p \in steady
  <2>1. AtOrAbove(p, p)
    BY <1>4, AtOrAboveReflexive
  <2> QED BY <1>4, <2>1
<1> QED BY <1>2, <1>3, <1>6, <1>7 DEF WholeOK

\* A multistatus that is closed and has nothing written behind it has a response
\* for each file that was there all the time and was not left out on purpose,
\* whatever the calls of the store answer and the other clients do (walkFS).
THEOREM WholeAnswersAreComplete == Spec => []WholeMeansComplete
<1>1. Init => RequestInv /\ WholeOK
  BY RequestAtFirst, WholeAtFirst
<1>2. RequestInv /\ WholeOK /\ [Next]_vars => (RequestInv /\ WholeOK)'
  BY StepKeepsRequest, StepKeepsWhole
<1>3. RequestInv /\ WholeOK => WholeMeansComplete
  BY WholeIsComplete
<1> QED BY <1>1, <1>2, <1>3, PTL DEF Spec

-----------------------------------------------------------------------------
(* What a COPY has made when it succeeds *)

Copied == {p \in Listable(before, req.src) : req.depth = Infinite \/ p = req.src}

Target(p) == Rebase(p, req.src, req.dst)

(* The call c of copyFiles has a path of the source before it, or one that  *)
(* its item names and nothing is at.                                       *)
CopyFrame(c) ==
  /\ AtOrAbove(req.src, c.src) /\ c.dst = Target(c.src)
  /\ c.src \in DOMAIN before.tree => c.src \in Copied
  /\ c.at # "open" => /\ c.src \in DOMAIN before.tree
                      /\ c.handle.id = before.tree[c.src]
                      /\ c.handle.dir = Kind(before, c.src)
  /\ c.at \in {"readdir", "children"} => Kind(before, c.src) /\ req.depth = Infinite

(* The call d is made for a member that the loop of c has taken. *)
Inner(c, d) ==
  c.at = "children" /\ \E n \in Labels \ c.todo : AtOrAbove(Append(c.src, n), d.src)

(* The call c has p still to copy. *)
Left(c, p) ==
  /\ AtOrAbove(c.src, p)
  /\ c.at \in {"readdir", "children"} => p # c.src
  /\ c.at = "children" => p[Len(c.src) + 1] \in c.todo

(* Nothing is copied yet, nor the destination removed. *)
Untaken == Len(stack) = 1 /\ Top.at \in {"open", "stat", "remove"}

(* The item of a path that was there at first names it. *)
ItemsAtFirst ==
  \A p \in DOMAIN before.tree :
    /\ before.tree[p] \in DOMAIN before.entry
    /\ p # Root => /\ before.entry[before.tree[p]].parent = before.tree[Parent(p)]
                   /\ before.entry[before.tree[p]].name = Base(p)

(* The path x is as it was when the request came. *)
Intact(x) ==
  /\ SameAt(before.tree, tree, x)
  /\ x \in DOMAIN tree => entry[tree[x]] = before.entry[tree[x]]

New == req.dst \notin DOMAIN before.tree

LeftTo(c) == {p \in Copied : Left(c, p)}
LeftToOuter == UNION {LeftTo(stack[i]) : i \in 1..(Len(stack) - 1)}
LeftOver == UNION {LeftTo(stack[i]) : i \in 1..Len(stack)}

(* Of the destination, the map m and the items e have what is copied without *)
(* the paths in left, and nothing else.                                    *)
Made(m, e, left) ==
  /\ \A q \in DOMAIN m : AtOrAbove(req.dst, q) => \E p \in Copied : q = Target(p)
  /\ \A p \in Copied :
       IF p \in left THEN Target(p) \notin DOMAIN m
       ELSE Target(p) \in DOMAIN m /\ e[m[Target(p)]].dir = Kind(before, p)

HalfCopied ==
  /\ stack # << >> => stack[1].created = New
  /\ stack = << >> => status = IF New THEN "Created" ELSE "NoContent"
  /\ Made(tree, entry, LeftOver)

CopyGoing == req.method = "COPY" /\ edits = 0 /\ ~Overlap /\ (status = "none" \/ Succeeded)

CopyOK ==
  CopyGoing =>
    /\ ItemsAtFirst
    /\ \A x \in Seq(Labels) : OffDst(x) => Intact(x)
    /\ \A i \in 1..Len(stack) : CopyFrame(stack[i])
    /\ \A i, j \in 1..Len(stack) : i < j => Inner(stack[i], stack[j])
    /\ stack # << >> => stack[1].src = req.src
    /\ Untaken => /\ tree = before.tree
                  /\ Top.created = FALSE /\ (Top.at = "remove" => ~New)
    /\ ~Untaken => HalfCopied

\* A path of the source and its place in the copy.
LEMMA TargetOf ==
  ASSUME HistoryOK, NEW p \in Seq(Labels), AtOrAbove(req.src, p)
  PROVE  /\ Target(p) \in Seq(Labels) /\ AtOrAbove(req.dst, Target(p))
         /\ \A q \in Seq(Labels) : AtOrAbove(req.src, q) /\ Target(q) = Target(p) => q = p
<1>1. req.src \in Seq(Labels) /\ req.dst \in Seq(Labels)
  BY PathsOfRequest
<1>2. Target(p) \in Seq(Labels) /\ AtOrAbove(req.dst, Target(p))
  BY <1>1, RebaseBack DEF Target
<1>3. ASSUME NEW q \in Seq(Labels), AtOrAbove(req.src, q), Target(q) = Target(p)
      PROVE  q = p
  <2>1. /\ Rebase(Rebase(q, req.src, req.dst), req.dst, req.src) = q
        /\ Rebase(Rebase(p, req.src, req.dst), req.dst, req.src) = p
    BY <1>1, <1>3, RebaseBack
  <2> QED BY <1>3, <2>1 DEF Target
<1> QED BY <1>2, <1>3

\* No path of the source is one of the destination.
LEMMA SourceIsOff ==
  ASSUME HistoryOK, ~Overlap, NEW p \in Seq(Labels), AtOrAbove(req.src, p)
  PROVE  OffDst(p)
BY PathsOfRequest, AncestorsAreAChain DEF OffDst, Overlap

\* Paths with the same parent and the same last segment are the same.
LEMMA ParentAndBase ==
  ASSUME NEW p \in Seq(Labels), NEW q \in Seq(Labels), p # Root, q # Root,
         Parent(p) = Parent(q), Base(p) = Base(q)
  PROVE  p = q
<1>1. /\ Len(Parent(p)) = Len(p) - 1 /\ \A i \in 1..(Len(p) - 1) : Parent(p)[i] = p[i]
      /\ Len(Parent(q)) = Len(q) - 1 /\ \A i \in 1..(Len(q) - 1) : Parent(q)[i] = q[i]
  BY ParentAbove
<1> DEFINE n == Len(p)
<1>2. n \in Nat /\ Len(q) \in Nat /\ n # 0
  BY LenProperties, EmptySeq DEF Root
<1>3. Len(q) = n
  BY <1>1, <1>2
<1>4. \A i \in 1..(n - 1) : p[i] = q[i]
  BY <1>1, <1>3
<1>5. p[n] = q[n]
  BY <1>3 DEF Base
<1> HIDE DEF n
<1>6. \A i \in 1..n : p[i] = q[i]
  BY <1>2, <1>4, <1>5
<1> QED BY <1>3, <1>6, SeqEqual DEF n

\* The copy of a member is the member of the copy.
LEMMA TargetOfMember ==
  ASSUME HistoryOK, NEW p \in Seq(Labels), AtOrAbove(req.src, p), NEW n \in Labels
  PROVE  Target(Append(p, n)) = Append(Target(p), n)
<1> DEFINE q == Append(p, n)
           t == Append(Target(p), n)
<1>1. Target(p) \in Seq(Labels) /\ req.src \in Seq(Labels) /\ req.dst \in Seq(Labels)
  BY TargetOf, PathsOfRequest
<1>2. /\ q \in Seq(Labels) /\ Len(q) = Len(p) + 1 /\ q[Len(p) + 1] = n
      /\ \A i \in 1..Len(p) : q[i] = p[i]
      /\ t \in Seq(Labels) /\ Len(t) = Len(Target(p)) + 1 /\ t[Len(Target(p)) + 1] = n
      /\ \A i \in 1..Len(Target(p)) : t[i] = Target(p)[i]
  BY <1>1, AppendProperties
<1> HIDE DEF q, t
<1>3. AtOrAbove(p, q) /\ p # q /\ AtOrAbove(Target(p), t) /\ Target(p) # t
  <2>1. Len(p) \in Nat /\ Len(Target(p)) \in Nat
    BY <1>1, LenProperties
  <2> QED BY <1>2, <2>1 DEF AtOrAbove
<1>4. AtOrAbove(req.src, q) /\ req.src # q
  <2>1. AtOrAbove(req.src, q)
    BY <1>1, <1>2, <1>3, AtOrAboveTransitive
  <2> QED BY <1>1, <1>2, <1>3, <2>1, AtOrAboveAntisymmetric
<1>5. Above(req.src, q)
  BY <1>4 DEF Above
<1>6. Parent(q) = p /\ Base(q) = n
  BY <1>2, <1>3, <1>1, MemberOnTheWay DEF q
<1>7. /\ Target(q) # Root /\ Parent(Target(q)) = Target(p) /\ Base(Target(q)) = n
  <2>1. /\ Rebase(q, req.src, req.dst) # Root
        /\ Parent(Rebase(q, req.src, req.dst)) = Rebase(Parent(q), req.src, req.dst)
        /\ Base(Rebase(q, req.src, req.dst)) = Base(q)
    BY <1>1, <1>2, <1>5, RebaseBelow
  <2> QED BY <1>6, <2>1 DEF Target
<1>8. t # Root /\ Parent(t) = Target(p) /\ Base(t) = n
  <2> DEFINE b == Target(p)
  <2>1. b \in Seq(Labels)
    BY <1>1
  <2>2. t \in Seq(Labels) /\ AtOrAbove(b, t) /\ b # t /\ n = t[Len(b) + 1]
    BY <1>2, <1>3
  <2>3. t = Append(b, n)
    BY DEF t
  <2> HIDE DEF b
  <2>4. t # Root /\ Parent(t) = b /\ Base(t) = n
    BY <2>1, <2>2, <2>3, MemberOnTheWay
  <2> QED BY <2>4 DEF b
<1>9. Target(q) = t
  BY <1>2, <1>4, <1>7, <1>8, TargetOf, ParentAndBase
<1> QED BY <1>9 DEF q, t

\* What is copied is in the source, and came to through directories.
LEMMA CopiedIs ==
  ASSUME HistoryOK, NEW p \in Copied
  PROVE  /\ p \in Seq(Labels) /\ p \in DOMAIN before.tree /\ AtOrAbove(req.src, p)
         /\ req.depth # Infinite => p = req.src
         /\ \A c \in Seq(Labels) :
              AtOrAbove(req.src, c) /\ AtOrAbove(c, p) /\ c # p => Kind(before, c)
<1>1. p \in DOMAIN before.tree /\ AtOrAbove(req.src, p) /\ (req.depth # Infinite => p = req.src)
      /\ \A n \in Len(req.src)..(Len(p) - 1) : Kind(before, SubSeq(p, 1, n))
  BY DEF Copied, Listable
<1>2. p \in Seq(Labels) /\ req.src \in Seq(Labels)
  BY <1>1, PathsOfRequest DEF HistoryOK
<1>3. ASSUME NEW c \in Seq(Labels), AtOrAbove(req.src, c), AtOrAbove(c, p), c # p
      PROVE  Kind(before, c)
  <2>1. Len(c) \in 0..Len(p) /\ SubSeq(p, 1, Len(c)) = c /\ Len(c) < Len(p)
    BY <1>2, <1>3, PrefixIs
  <2>2. Len(c) \in Len(req.src)..(Len(p) - 1)
    <3>1. Len(req.src) \in Nat /\ Len(p) \in Nat /\ Len(c) \in Nat /\ Len(req.src) <= Len(c)
      BY <1>2, <1>3, LenProperties DEF AtOrAbove
    <3> QED BY <2>1, <3>1
  <2> QED BY <1>1, <2>1, <2>2
<1> QED BY <1>1, <1>2, <1>3

\* A member of a directory that is copied is copied.
LEMMA MemberIsCopied ==
  ASSUME HistoryOK, NEW p \in Copied, Kind(before, p), req.depth = Infinite,
         NEW n \in Labels, Append(p, n) \in DOMAIN before.tree
  PROVE  Append(p, n) \in Copied
<1> DEFINE q == Append(p, n)
<1>1. /\ p \in Seq(Labels) /\ AtOrAbove(req.src, p) /\ req.src \in Seq(Labels)
      /\ \A k \in Len(req.src)..(Len(p) - 1) :
           SubSeq(p, 1, k) \in DOMAIN before.tree /\ Kind(before, SubSeq(p, 1, k))
      /\ p \in DOMAIN before.tree
  BY CopiedIs, PathsOfRequest DEF Copied, Listable
<1>2. /\ q \in Seq(Labels) /\ Len(q) = Len(p) + 1 /\ \A i \in 1..Len(p) : q[i] = p[i]
  BY <1>1, AppendProperties
<1>3. AtOrAbove(req.src, q)
  <2>1. AtOrAbove(p, q)
    BY <1>1, <1>2, LenProperties DEF AtOrAbove
  <2> QED BY <1>1, <1>2, <2>1, AtOrAboveTransitive
<1> HIDE DEF q
<1>4. ASSUME NEW k \in Len(req.src)..(Len(q) - 1)
      PROVE  SubSeq(q, 1, k) \in DOMAIN before.tree /\ Kind(before, SubSeq(q, 1, k))
  <2>1. /\ Len(p) \in Nat /\ Len(req.src) \in Nat /\ Len(req.src) <= Len(p)
        /\ k \in 0..Len(p) /\ k \in Nat
    BY <1>1, <1>2, LenProperties DEF AtOrAbove
  <2>2. SubSeq(q, 1, k) = SubSeq(p, 1, k)
    <3> DEFINE u == SubSeq(q, 1, k)
               v == SubSeq(p, 1, k)
    <3>1. u \in Seq(Labels) /\ Len(u) = k /\ \A i \in 1..k : u[i] = q[i]
      BY <1>2, <2>1
    <3>2. v \in Seq(Labels) /\ Len(v) = k /\ \A i \in 1..k : v[i] = p[i]
      BY <1>1, <2>1
    <3> HIDE DEF u, v
    <3>3. \A i \in 1..k : u[i] = v[i]
      BY <1>2, <2>1, <3>1, <3>2
    <3>4. u = v
      BY <3>1, <3>2, <3>3, SeqEqual
    <3> QED BY <3>4 DEF u, v
  <2>3. CASE k = Len(p)
    <3>1. SubSeq(p, 1, k) = p
      BY <1>1, <2>3
    <3> QED BY <1>1, <2>2, <3>1
  <2>4. CASE k # Len(p)
    <3>1. k \in Len(req.src)..(Len(p) - 1)
      BY <2>1, <2>4
    <3> QED BY <1>1, <2>2, <3>1
  <2> QED BY <2>3, <2>4
<1> QED BY <1>3, <1>4 DEF Copied, Listable, q

\* What is below a path is at or below one of its members.
LEMMA BelowMember ==
  ASSUME NEW c \in Seq(Labels), NEW n \in Labels, NEW p \in Seq(Labels),
         AtOrAbove(Append(c, n), p)
  PROVE  AtOrAbove(c, p) /\ c # p /\ p[Len(c) + 1] = n
<1>1. /\ Append(c, n) \in Seq(Labels) /\ Len(Append(c, n)) = Len(c) + 1
      /\ Append(c, n)[Len(c) + 1] = n /\ \A i \in 1..Len(c) : Append(c, n)[i] = c[i]
  BY AppendProperties
<1>2. Len(c) \in Nat /\ Len(p) \in Nat
  BY LenProperties
<1> QED BY <1>1, <1>2 DEF AtOrAbove

(* A step of copyFiles, nobody else being about. *)
CopyStep ==
  /\ HistoryOK /\ StoreOK /\ StackOK /\ CopyOK /\ CopyGoing /\ stack # << >>
  /\ req' = req /\ UNCHANGED history
  /\ \A x \in Seq(Labels) : OffDst(x) => Untouched(x)

\* What the invariant says before the step.
LEMMA CopyStands ==
  ASSUME CopyStep
  PROVE  /\ Len(stack) \in Nat \ {0} /\ Top = stack[Len(stack)] /\ status = "none"
         /\ IsCall(Top, CopyStages) /\ Top.src \in Seq(Labels) /\ Top.dst \in Seq(Labels)
         /\ CopyFrame(Top) /\ OffDst(Top.src) /\ Intact(Top.src)
         /\ ItemsAtFirst /\ ~Overlap
         /\ \A i \in 1..(Len(stack) - 1) : CopyFrame(stack[i]) /\ Inner(stack[i], Top)
         /\ \A p \in LeftToOuter : ~AtOrAbove(Top.src, p)
         /\ LeftOver = LeftTo(Top) \cup LeftToOuter
         /\ Len(stack) = 1 => Top.src = req.src /\ LeftToOuter = {}
         /\ Len(stack) # 1 => stack[1].at = "children" /\ req.depth = Infinite
<1>1. Len(stack) \in Nat \ {0} /\ Top = stack[Len(stack)] /\ status = "none"
  BY EmptySeq DEF CopyStep, StackOK, Top, Last
<1>2. \A i \in 1..Len(stack) : IsCall(stack[i], CopyStages)
  BY DEF CopyStep, StackOK, CallOK, CopyGoing
<1>3. IsCall(Top, CopyStages) /\ Top.src \in Seq(Labels) /\ Top.dst \in Seq(Labels)
  BY <1>1, <1>2 DEF IsCall
<1>4. /\ ItemsAtFirst /\ ~Overlap
      /\ \A x \in Seq(Labels) : OffDst(x) => Intact(x)
      /\ \A i \in 1..Len(stack) : CopyFrame(stack[i])
      /\ \A i, j \in 1..Len(stack) : i < j => Inner(stack[i], stack[j])
      /\ stack[1].src = req.src
  BY DEF CopyStep, CopyOK, CopyGoing
<1>5. CopyFrame(Top) /\ \A i \in 1..(Len(stack) - 1) : CopyFrame(stack[i]) /\ Inner(stack[i], Top)
  BY <1>1, <1>4
<1>6. OffDst(Top.src) /\ Intact(Top.src)
  <2>1. AtOrAbove(req.src, Top.src)
    BY <1>5 DEF CopyFrame
  <2> QED BY <1>3, <1>4, <2>1, SourceIsOff DEF CopyStep
<1>7. ASSUME NEW p \in LeftToOuter, AtOrAbove(Top.src, p)
      PROVE  FALSE
  <2>1. PICK i \in 1..(Len(stack) - 1) : p \in LeftTo(stack[i])
    BY <1>7 DEF LeftToOuter
  <2> DEFINE c == stack[i]
  <2>2. p \in Seq(Labels) /\ Left(c, p)
    BY <2>1, CopiedIs DEF LeftTo, CopyStep
  <2>3. i \in 1..Len(stack)
    BY <1>1
  <2>4. c.src \in Seq(Labels)
    BY <1>2, <2>3 DEF IsCall
  <2>5. PICK n \in Labels \ c.todo : c.at = "children" /\ AtOrAbove(Append(c.src, n), Top.src)
    BY <1>5 DEF Inner
  <2> HIDE DEF c
  <2>6. Append(c.src, n) \in Seq(Labels)
    BY <2>4, AppendProperties
  <2>7. AtOrAbove(Append(c.src, n), p)
    BY <1>3, <1>7, <2>2, <2>5, <2>6, AtOrAboveTransitive
  <2>8. p[Len(c.src) + 1] = n
    BY <2>2, <2>4, <2>7, BelowMember
  <2> QED BY <2>2, <2>5, <2>8 DEF Left
<1>8. LeftOver = LeftTo(Top) \cup LeftToOuter
  <2>1. \A i \in 1..Len(stack) : i \in 1..(Len(stack) - 1) \/ i = Len(stack)
    BY <1>1
  <2>2. Len(stack) \in 1..Len(stack) /\ \A i \in 1..(Len(stack) - 1) : i \in 1..Len(stack)
    BY <1>1
  <2> QED BY <1>1, <2>1, <2>2 DEF LeftOver, LeftToOuter
<1>9. ASSUME Len(stack) = 1
      PROVE  Top.src = req.src /\ LeftToOuter = {}
  <2>1. 1..(Len(stack) - 1) = {}
    BY <1>9
  <2> QED BY <1>1, <1>4, <1>9, <2>1 DEF LeftToOuter
<1>10. ASSUME Len(stack) # 1
       PROVE  stack[1].at = "children" /\ req.depth = Infinite
  <2>1. 1 \in 1..(Len(stack) - 1)
    <3>1. Len(stack) \in Nat \ {0}
      BY <1>1
    <3> QED BY <1>10, <3>1, Positions
  <2> QED BY <1>5, <2>1 DEF Inner, CopyFrame
<1> QED BY <1>1, <1>3, <1>4, <1>5, <1>6, <1>7, <1>8, <1>9, <1>10

\* What makes CopyOK true after the step.
LEMMA CopyAfter ==
  ASSUME CopyStep,
         \A i \in 1..Len(stack') : CopyFrame(stack'[i]),
         \A i, j \in 1..Len(stack') : i < j => Inner(stack'[i], stack'[j]),
         stack' # << >> => stack'[1].src = req.src,
         NEW left, left = UNION {LeftTo(stack'[i]) : i \in 1..Len(stack')},
         Len(stack') = 1 /\ Top'.at \in {"open", "stat", "remove"} =>
           tree' = before.tree /\ Top'.created = FALSE /\ (Top'.at = "remove" => ~New),
         ~(Len(stack') = 1 /\ Top'.at \in {"open", "stat", "remove"}) =>
           /\ stack' # << >> => stack'[1].created = New
           /\ stack' = << >> => status' = IF New THEN "Created" ELSE "NoContent"
           /\ Made(tree', entry', left)
  PROVE  CopyOK'
<1>1. /\ req' = req /\ before' = before /\ req.method = "COPY" /\ ItemsAtFirst
      /\ \A x \in Seq(Labels) : OffDst(x) => Intact(x)
  BY DEF CopyStep, history, CopyGoing, CopyOK
<1>2. Copied' = Copied /\ New' = New /\ ItemsAtFirst'
  BY <1>1 DEF Copied, Listable, Kind, New, ItemsAtFirst
<1>3. ASSUME NEW x \in Seq(Labels), OffDst(x)'
      PROVE  Intact(x)'
  <2>1. OffDst(x)
    BY <1>1, <1>3 DEF OffDst
  <2>2. Intact(x) /\ Untouched(x)
    BY <1>1, <2>1 DEF CopyStep
  <2> QED BY <1>1, <2>2 DEF Intact, Untouched, SameAt
<1>4. \A i \in 1..Len(stack') : CopyFrame(stack[i])'
  BY <1>1, <1>2 DEF CopyFrame, Target, Kind
<1>5. \A i, j \in 1..Len(stack') : i < j => Inner(stack[i], stack[j])'
  BY DEF Inner
<1>6. LeftOver' = left
  <2>1. \A i \in 1..Len(stack') : LeftTo(stack[i])' = LeftTo(stack'[i])
    BY <1>2 DEF LeftTo, Left
  <2> QED BY <2>1 DEF LeftOver
<1>7. Made(tree', entry', left) => Made(tree, entry, LeftOver)'
  BY <1>1, <1>2, <1>6 DEF Made, Target, Kind
<1>8. Untaken' <=> Len(stack') = 1 /\ Top'.at \in {"open", "stat", "remove"}
  BY DEF Untaken
<1>9. ~Untaken' => HalfCopied'
  BY <1>2, <1>7, <1>8 DEF HalfCopied
<1> QED BY <1>1, <1>2, <1>3, <1>4, <1>5, <1>8, <1>9 DEF CopyOK

\* A call of copyFiles goes on.
LEMMA CopyContinues ==
  ASSUME CopyStep, NEW c, Continue(c), CopyFrame(c), c.src = Top.src,
         Len(stack) = 1 /\ c.at \in {"open", "stat", "remove"} =>
           tree' = before.tree /\ c.created = FALSE /\ (c.at = "remove" => ~New),
         ~(Len(stack) = 1 /\ c.at \in {"open", "stat", "remove"}) =>
           /\ Len(stack) = 1 => c.created = New
           /\ Made(tree', entry', LeftTo(c) \cup LeftToOuter)
  PROVE  CopyOK'
<1>1. /\ Len(stack') = Len(stack) /\ stack'[Len(stack)] = c /\ stack' # << >>
      /\ \A i \in 1..(Len(stack) - 1) : stack'[i] = stack[i]
      /\ Top' = c
  BY Continues, TopAfter DEF CopyStep, StackOK
<1>2. /\ Len(stack) \in Nat \ {0} /\ Top = stack[Len(stack)]
      /\ \A i \in 1..(Len(stack) - 1) : CopyFrame(stack[i]) /\ Inner(stack[i], Top)
      /\ Len(stack) = 1 => Top.src = req.src
  BY CopyStands
<1>3. /\ \A i \in 1..Len(stack') : i \in 1..(Len(stack) - 1) \/ i = Len(stack)
      /\ \A i, j \in 1..Len(stack') : i < j => i \in 1..(Len(stack) - 1)
      /\ \A i \in 1..(Len(stack) - 1) : i \in 1..Len(stack)
      /\ Len(stack) # 1 => 1 \in 1..(Len(stack) - 1)
  BY <1>1, <1>2
<1>4. \A i \in 1..Len(stack') : CopyFrame(stack'[i])
  BY <1>1, <1>2, <1>3
<1>5. ASSUME NEW i \in 1..Len(stack'), NEW j \in 1..Len(stack'), i < j
      PROVE  Inner(stack'[i], stack'[j])
  <2>1. stack'[i] = stack[i] /\ i \in 1..(Len(stack) - 1)
    BY <1>1, <1>3, <1>5
  <2>2. CASE j = Len(stack)
    BY <1>1, <1>2, <2>1, <2>2 DEF Inner
  <2>3. CASE j \in 1..(Len(stack) - 1)
    <3>1. stack'[j] = stack[j] /\ i \in 1..Len(stack) /\ j \in 1..Len(stack)
      BY <1>1, <1>3, <2>1, <2>3
    <3> QED BY <1>5, <2>1, <3>1 DEF CopyStep, CopyOK
  <2> QED BY <1>3, <2>2, <2>3
<1>6. stack'[1].src = req.src
  <2>1. CASE Len(stack) = 1
    BY <1>1, <1>2, <2>1
  <2>2. CASE Len(stack) # 1
    BY <1>1, <1>3, <2>2 DEF CopyStep, CopyOK
  <2> QED BY <2>1, <2>2
<1> DEFINE left == UNION {LeftTo(stack'[i]) : i \in 1..Len(stack')}
<1>7. left = LeftTo(c) \cup LeftToOuter
  <2>1. Len(stack) \in 1..Len(stack') /\ \A i \in 1..(Len(stack) - 1) : i \in 1..Len(stack')
    BY <1>1, <1>2
  <2> QED BY <1>1, <1>3, <2>1 DEF LeftToOuter
<1>8. ~(Len(stack) = 1 /\ c.at \in {"open", "stat", "remove"}) => stack'[1].created = New
  <2>1. CASE Len(stack) = 1
    BY <1>1, <2>1
  <2>2. CASE Len(stack) # 1
    <3>1. ~Untaken
      BY <2>2 DEF Untaken
    <3> QED BY <1>1, <1>3, <2>2, <3>1 DEF CopyStep, CopyOK, HalfCopied
  <2> QED BY <2>1, <2>2
<1> HIDE DEF left
<1> QED BY <1>1, <1>4, <1>5, <1>6, <1>7, <1>8, CopyAfter DEF left

\* A call of copyFiles returns, having nothing left to copy.
LEMMA CopyReturns ==
  ASSUME CopyStep, ~Untaken, Return(Success), Made(tree', entry', LeftToOuter)
  PROVE  CopyOK'
<1>1. /\ Len(stack') = Len(stack) - 1
      /\ stack' = << >> <=> Len(stack) = 1
      /\ \A i \in 1..(Len(stack) - 1) : stack'[i] = stack[i]
      /\ status' = IF Len(stack) = 1 THEN Success ELSE status
  BY Returns DEF CopyStep, StackOK
<1>2. /\ Len(stack) \in Nat \ {0} /\ Top = stack[Len(stack)]
      /\ \A i \in 1..(Len(stack) - 1) : CopyFrame(stack[i])
      /\ Len(stack) # 1 => stack[1].at = "children"
  BY CopyStands
<1>3. \A i \in 1..Len(stack') : i \in 1..(Len(stack) - 1) /\ i \in 1..Len(stack)
  BY <1>1, <1>2
<1>4. \A i \in 1..Len(stack') : CopyFrame(stack'[i])
  BY <1>1, <1>2, <1>3
<1>5. \A i, j \in 1..Len(stack') : i < j => Inner(stack'[i], stack'[j])
  BY <1>1, <1>3 DEF CopyStep, CopyOK
<1>6. stack[1].created = New
  BY DEF CopyStep, CopyOK, HalfCopied
<1>7. stack' # << >> => /\ stack'[1] = stack[1] /\ stack'[1].src = req.src
                        /\ stack'[1].created = New /\ stack'[1].at = "children"
  <2>1. Len(stack) # 1 => 1 \in 1..(Len(stack) - 1)
    <3>1. Len(stack) \in Nat \ {0}
      BY <1>2
    <3> QED BY <3>1, Positions
  <2> QED BY <1>1, <1>2, <1>6, <2>1 DEF CopyStep, CopyOK
<1>8. stack' = << >> => status' = IF New THEN "Created" ELSE "NoContent"
  BY <1>1, <1>2, <1>6 DEF Success
<1> DEFINE left == UNION {LeftTo(stack'[i]) : i \in 1..Len(stack')}
<1>9. left = LeftToOuter
  <2>1. \A i \in 1..(Len(stack) - 1) : i \in 1..Len(stack')
    BY <1>1, <1>2
  <2> QED BY <1>1, <1>3, <2>1 DEF LeftToOuter
<1> HIDE DEF left
<1>10. ~(Len(stack') = 1 /\ Top'.at \in {"open", "stat", "remove"})
  <2> SUFFICES ASSUME Len(stack') = 1
               PROVE  Top'.at = "children"
    OBVIOUS
  <2>1. stack' # << >>
    BY <1>1, <1>2
  <2>2. Top' = stack'[1]
    BY DEF Top, Last
  <2> QED BY <1>7, <2>1, <2>2
<1> QED BY <1>4, <1>5, <1>7, <1>8, <1>9, <1>10, CopyAfter DEF left

\* A call of copyFiles fails: no success is answered.
LEMMA CopyFails ==
  ASSUME NEW code, code \notin {"none", "Created", "NoContent"}, Fail(code)
  PROVE  CopyOK'
BY DEF Fail, CopyOK, CopyGoing, Succeeded

\* A step of copyFiles begins.
LEMMA CopyFrom ==
  ASSUME HistoryOK, StoreOK, StackOK, CopyOK, CopyGoing, Copy, UNCHANGED history
  PROVE  CopyStep
<1>1. Keeps(OffDst) /\ req' = req
  BY CopyKeeps
<1>2. stack # << >>
  BY DEF Copy, CopyOpen, CopyStat, CopyRemove, CopyMkdir, CopyCreate, CopyList, CopyMember, At
<1> QED BY <1>1, <1>2 DEF CopyStep, Keeps

\* The fields of a call of copyFiles that goes on.
LEMMA CallFields ==
  ASSUME NEW c, IsCall(c, CopyStages), NEW at, NEW x
  PROVE  /\ LET d == [c EXCEPT !.at = at]
            IN  d.at = at /\ d.src = c.src /\ d.dst = c.dst /\ d.handle = c.handle
                /\ d.created = c.created /\ d.todo = c.todo
         /\ LET d == [c EXCEPT !.at = at, !.handle = x]
            IN  d.at = at /\ d.src = c.src /\ d.dst = c.dst /\ d.handle = x
                /\ d.created = c.created /\ d.todo = c.todo
         /\ LET d == [c EXCEPT !.at = at, !.created = x]
            IN  d.at = at /\ d.src = c.src /\ d.dst = c.dst /\ d.handle = c.handle
                /\ d.created = x /\ d.todo = c.todo
         /\ LET d == [c EXCEPT !.at = at, !.todo = x]
            IN  d.at = at /\ d.src = c.src /\ d.dst = c.dst /\ d.handle = c.handle
                /\ d.created = c.created /\ d.todo = x
         /\ LET d == [c EXCEPT !.todo = x]
            IN  d.at = c.at /\ d.src = c.src /\ d.dst = c.dst /\ d.handle = c.handle
                /\ d.created = c.created /\ d.todo = x
<1> DEFINE r(a, h, k, t) == [at |-> a, src |-> c.src, dst |-> c.dst, handle |-> h,
                             created |-> k, todo |-> t]
           e == [c EXCEPT !.at = at]
<1>1. c = r(c.at, c.handle, c.created, c.todo)
  BY DEF IsCall
<1>2. e = r(at, c.handle, c.created, c.todo)
  BY <1>1
<1>3. [c EXCEPT !.todo = x] = r(c.at, c.handle, c.created, x)
  BY <1>1
<1>4. /\ [c EXCEPT !.at = at, !.handle = x] = [e EXCEPT !.handle = x]
      /\ [c EXCEPT !.at = at, !.created = x] = [e EXCEPT !.created = x]
      /\ [c EXCEPT !.at = at, !.todo = x] = [e EXCEPT !.todo = x]
  OBVIOUS
<1> HIDE DEF e
<1>5. /\ [e EXCEPT !.handle = x] = r(at, x, c.created, c.todo)
      /\ [e EXCEPT !.created = x] = r(at, c.handle, x, c.todo)
      /\ [e EXCEPT !.todo = x] = r(at, c.handle, c.created, x)
  BY <1>2
<1>6. [c EXCEPT !.at = at] = r(at, c.handle, c.created, c.todo)
  BY <1>2 DEF e
<1> QED BY <1>3, <1>4, <1>5, <1>6

\* copyFiles opens its source, which is as it was.
LEMMA OpenIsExact ==
  ASSUME CopyStep, CopyOpen
  PROVE  CopyOK'
<1> DEFINE c == [Top EXCEPT !.at = "stat", !.handle = Handle(Top.src)]
<1>1. /\ Top.at = "open" /\ UNCHANGED storeVars
      /\ \/ Exists(Top.src) /\ Continue(c)
         \/ Fail("NotFound") \/ Fail("InternalServerError")
  <2>1. PICK result \in Results :
          /\ OpenFile(Top.src, result)
          /\ CASE result = "ok" -> Continue(c)
               [] result = "notexist" -> Fail("NotFound")
               [] OTHER -> Fail("InternalServerError")
    BY DEF CopyOpen
  <2>2. Top.at = "open"
    BY DEF CopyOpen, At
  <2> HIDE DEF c
  <2> QED BY <2>1, <2>2 DEF OpenFile
<1>2. /\ Len(stack) \in Nat \ {0} /\ IsCall(Top, CopyStages) /\ CopyFrame(Top) /\ Intact(Top.src)
      /\ LeftOver = LeftTo(Top) \cup LeftToOuter
  BY CopyStands
<1>3. /\ c.at = "stat" /\ c.src = Top.src /\ c.dst = Top.dst /\ c.handle = Handle(Top.src)
      /\ c.created = Top.created
  BY <1>2, CallFields
<1> HIDE DEF c
<1>4. CASE Exists(Top.src) /\ Continue(c)
  <2>1. /\ Top.src \in DOMAIN before.tree /\ tree[Top.src] = before.tree[Top.src]
        /\ IsDir(Top.src) = Kind(before, Top.src)
    BY <1>2, <1>4 DEF Intact, SameAt, Exists, IsDir, Kind
  <2>2. CopyFrame(c)
    BY <1>2, <1>3, <2>1 DEF CopyFrame, Handle
  <2>3. LeftTo(c) = LeftTo(Top)
    BY <1>1, <1>3 DEF LeftTo, Left
  <2>4. tree' = tree /\ entry' = entry
    BY <1>1 DEF storeVars
  <2>5. CASE Len(stack) = 1
    <3>1. Untaken
      BY <1>1, <2>5 DEF Untaken
    <3>2. tree' = before.tree /\ c.created = FALSE
      BY <1>3, <2>4, <3>1 DEF CopyStep, CopyOK
    <3> QED BY <1>3, <1>4, <2>2, <2>5, <3>2, CopyContinues
  <2>6. CASE Len(stack) # 1
    <3>1. ~Untaken
      BY <2>6 DEF Untaken
    <3>2. Made(tree', entry', LeftTo(c) \cup LeftToOuter)
      BY <1>2, <2>3, <2>4, <3>1 DEF CopyStep, CopyOK, HalfCopied
    <3> QED BY <1>3, <1>4, <2>2, <2>6, <3>2, CopyContinues
  <2> QED BY <2>5, <2>6
<1>5. CASE Fail("NotFound") \/ Fail("InternalServerError")
  BY <1>5, CopyFails
<1> QED BY <1>1, <1>4, <1>5

\* Where nothing is at or below the destination, all is left to copy.
LEMMA NothingMade ==
  ASSUME HistoryOK, NEW m, \A q \in DOMAIN m : ~AtOrAbove(req.dst, q),
         NEW e, NEW c, c.src = req.src, c.at = "make", NEW more
  PROVE  Made(m, e, LeftTo(c) \cup more)
<1>1. ASSUME NEW p \in Copied
      PROVE  p \in LeftTo(c) /\ Target(p) \notin DOMAIN m
  <2>1. p \in Seq(Labels) /\ AtOrAbove(req.src, p)
    BY CopiedIs
  <2>2. AtOrAbove(req.dst, Target(p))
    BY <2>1, TargetOf
  <2> QED BY <2>1, <2>2 DEF LeftTo, Left
<1> QED BY <1>1 DEF Made

\* copyFiles looks at its destination: what is not there is new, and nothing is
\* there that the request did not find there.
LEMMA StatIsExact ==
  ASSUME CopyStep, CopyStat
  PROVE  CopyOK'
<1> DEFINE c == [Top EXCEPT !.at = "make", !.created = TRUE]
           d == [Top EXCEPT !.at = "remove"]
<1>1. /\ Top.at = "stat" /\ UNCHANGED storeVars
      /\ \/ ~Exists(Top.dst) /\ Continue(c)
         \/ Exists(Top.dst) /\ Continue(d)
         \/ Fail("PreconditionFailed") \/ Fail("Forbidden")
  <2>1. PICK result \in Results :
          /\ Stat(Top.dst, result)
          /\ CASE result = "notexist" -> Continue(c)
               [] result = "ok" /\ req.overwrite -> Continue(d)
               [] result = "ok" /\ ~req.overwrite -> Fail("PreconditionFailed")
               [] OTHER -> Fail("Forbidden")
    BY DEF CopyStat
  <2>2. Top.at = "stat"
    BY DEF CopyStat, At
  <2> HIDE DEF c, d
  <2> QED BY <2>1, <2>2 DEF Stat
<1>2. /\ Len(stack) \in Nat \ {0} /\ IsCall(Top, CopyStages) /\ CopyFrame(Top)
      /\ LeftOver = LeftTo(Top) \cup LeftToOuter
      /\ Len(stack) = 1 => Top.src = req.src
  BY CopyStands
<1>3. /\ c.at = "make" /\ c.src = Top.src /\ c.dst = Top.dst /\ c.handle = Top.handle
      /\ c.created = TRUE
      /\ d.at = "remove" /\ d.src = Top.src /\ d.dst = Top.dst /\ d.handle = Top.handle
      /\ d.created = Top.created
  BY <1>2, CallFields
<1> HIDE DEF c, d
<1>4. CopyFrame(c) /\ CopyFrame(d)
  BY <1>1, <1>2, <1>3 DEF CopyFrame
<1>5. LeftTo(c) = LeftTo(Top) /\ LeftTo(d) = LeftTo(Top)
  BY <1>1, <1>3 DEF LeftTo, Left
<1>6. tree' = tree /\ entry' = entry
  BY <1>1 DEF storeVars
<1>7. Len(stack) # 1 => Made(tree', entry', LeftTo(Top) \cup LeftToOuter)
  BY <1>2, <1>6 DEF CopyStep, CopyOK, HalfCopied, Untaken
<1>8. Len(stack) = 1 => Top.dst = req.dst /\ tree = before.tree /\ Top.created = FALSE
  <2> SUFFICES ASSUME Len(stack) = 1
               PROVE  Top.dst = req.dst /\ tree = before.tree /\ Top.created = FALSE
    OBVIOUS
  <2>1. Untaken
    BY <1>1 DEF Untaken
  <2>2. Rebase(req.src, req.src, req.dst) = req.dst
    BY PathsOfRequest, RebaseOfPrefix DEF CopyStep
  <2> QED BY <1>2, <2>1, <2>2 DEF CopyFrame, Target, CopyStep, CopyOK
<1>9. CASE ~Exists(Top.dst) /\ Continue(c)
  <2>1. CASE Len(stack) = 1
    <3>1. req.dst \notin DOMAIN before.tree /\ tree' = before.tree
      BY <1>6, <1>8, <1>9, <2>1 DEF Exists
    <3>2. Cleared = before.tree
      BY <3>1, NothingToClear DEF CopyStep
    <3>3. \A q \in DOMAIN tree' : ~AtOrAbove(req.dst, q)
      BY <3>1, <3>2 DEF Cleared, Without, Restrict
    <3>4. Made(tree', entry', LeftTo(c) \cup LeftToOuter)
      BY <1>2, <1>3, <2>1, <3>3, NothingMade DEF CopyStep
    <3> QED BY <1>3, <1>4, <1>9, <2>1, <3>1, <3>4, CopyContinues DEF New
  <2>2. CASE Len(stack) # 1
    BY <1>3, <1>4, <1>5, <1>7, <1>9, <2>2, CopyContinues
  <2> QED BY <2>1, <2>2
<1>10. CASE Exists(Top.dst) /\ Continue(d)
  <2>1. CASE Len(stack) = 1
    <3>1. tree' = before.tree /\ d.created = FALSE /\ ~New
      BY <1>3, <1>6, <1>8, <1>10, <2>1 DEF Exists, New
    <3> QED BY <1>3, <1>4, <1>10, <2>1, <3>1, CopyContinues
  <2>2. CASE Len(stack) # 1
    BY <1>3, <1>4, <1>5, <1>7, <1>10, <2>2, CopyContinues
  <2> QED BY <2>1, <2>2
<1>11. CASE Fail("PreconditionFailed") \/ Fail("Forbidden")
  BY <1>11, CopyFails
<1> QED BY <1>1, <1>9, <1>10, <1>11

\* copyFiles removes its destination, with all that is below it: for a member
\* there is nothing to remove.
LEMMA RemoveIsExact ==
  ASSUME CopyStep, CopyRemove
  PROVE  CopyOK'
<1> DEFINE c == [Top EXCEPT !.at = "make"]
<1>1. /\ Top.at = "remove"
      /\ \/ Exists(Top.dst) /\ tree' = Without(tree, Top.dst) /\ Continue(c)
         \/ ~Exists(Top.dst) /\ UNCHANGED storeVars /\ Continue(c)
         \/ Fail("Forbidden")
  <2>1. PICK result \in Results :
          /\ RemoveAll(Top.dst, result)
          /\ IF result \in {"ok", "notexist"} THEN Continue(c) ELSE Fail("Forbidden")
    BY DEF CopyRemove
  <2>2. Top.at = "remove"
    BY DEF CopyRemove, At
  <2> HIDE DEF c
  <2> QED BY <2>1, <2>2 DEF RemoveAll
<1>2. /\ Len(stack) \in Nat \ {0} /\ IsCall(Top, CopyStages) /\ CopyFrame(Top)
      /\ LeftOver = LeftTo(Top) \cup LeftToOuter /\ Top.src \in Seq(Labels)
      /\ Len(stack) = 1 => Top.src = req.src
  BY CopyStands
<1>3. /\ c.at = "make" /\ c.src = Top.src /\ c.dst = Top.dst /\ c.handle = Top.handle
      /\ c.created = Top.created
  BY <1>2, CallFields
<1> HIDE DEF c
<1>4. CopyFrame(c) /\ LeftTo(c) = LeftTo(Top)
  BY <1>1, <1>2, <1>3 DEF CopyFrame, LeftTo, Left
<1>5. ASSUME Len(stack) = 1
      PROVE  Top.dst = req.dst /\ tree = before.tree /\ Top.created = FALSE /\ ~New
  <2>1. Untaken
    BY <1>1, <1>5 DEF Untaken
  <2>2. Rebase(req.src, req.src, req.dst) = req.dst
    BY PathsOfRequest, RebaseOfPrefix DEF CopyStep
  <2> QED BY <1>1, <1>2, <1>5, <2>1, <2>2 DEF CopyFrame, Target, CopyStep, CopyOK
<1>6. ASSUME Len(stack) # 1
      PROVE  Made(tree, entry, LeftTo(Top) \cup LeftToOuter) /\ ~Exists(Top.dst)
  <2>1. Made(tree, entry, LeftTo(Top) \cup LeftToOuter)
    BY <1>2, <1>6 DEF CopyStep, CopyOK, HalfCopied, Untaken
  <2>2. Top.src \in LeftTo(Top) /\ Top.dst = Target(Top.src) /\ Top.src \in Copied
    BY <1>1, <1>2, AtOrAboveReflexive DEF CopyFrame, LeftTo, Left
  <2> QED BY <2>1, <2>2 DEF Made, Exists
<1>7. CASE Exists(Top.dst) /\ tree' = Without(tree, Top.dst) /\ Continue(c)
  <2>1. Len(stack) = 1
    BY <1>6, <1>7
  <2>2. \A q \in DOMAIN tree' : ~AtOrAbove(req.dst, q)
    BY <1>5, <1>7, <2>1 DEF Without, Restrict
  <2>3. Made(tree', entry', LeftTo(c) \cup LeftToOuter)
    BY <1>2, <1>3, <2>1, <2>2, NothingMade DEF CopyStep
  <2>4. c.created = New
    BY <1>2, <1>3, <1>5, <2>1 DEF IsCall, New
  <2> QED BY <1>3, <1>4, <1>7, <2>1, <2>3, <2>4, CopyContinues
<1>8. CASE ~Exists(Top.dst) /\ UNCHANGED storeVars /\ Continue(c)
  <2>1. Len(stack) # 1
    BY <1>5, <1>8 DEF Exists, New
  <2>2. Made(tree', entry', LeftTo(c) \cup LeftToOuter)
    BY <1>4, <1>6, <1>8, <2>1 DEF storeVars
  <2> QED BY <1>3, <1>4, <1>8, <2>1, <2>2, CopyContinues
<1>9. CASE Fail("Forbidden")
  BY <1>9, CopyFails
<1> QED BY <1>1, <1>7, <1>8, <1>9

\* What the invariant says of a call that is about to make its destination.
LEMMA MakeStands ==
  ASSUME CopyStep, Top.at = "make"
  PROVE  /\ ~Untaken /\ Made(tree, entry, LeftTo(Top) \cup LeftToOuter)
         /\ stack[1].created = New
         /\ Top.src \in Copied /\ Top.dst = Target(Top.src) /\ ~Exists(Top.dst)
         /\ Kind(before, Top.src) \in BOOLEAN /\ Top.handle.dir = Kind(before, Top.src)
         /\ Top.src \notin LeftToOuter /\ Top.src \in Seq(Labels) /\ Top.dst \in Seq(Labels)
         /\ AtOrAbove(req.src, Top.src)
<1>1. ~Untaken
  BY DEF Untaken
<1>2. /\ CopyFrame(Top) /\ Intact(Top.src) /\ LeftOver = LeftTo(Top) \cup LeftToOuter
      /\ Top.src \in Seq(Labels) /\ Top.dst \in Seq(Labels)
      /\ \A p \in LeftToOuter : ~AtOrAbove(Top.src, p)
  BY CopyStands
<1>3. Made(tree, entry, LeftTo(Top) \cup LeftToOuter) /\ stack[1].created = New
  BY <1>1, <1>2 DEF CopyStep, CopyOK, HalfCopied
<1>4. /\ AtOrAbove(Top.src, Top.src) /\ Top.src \in Copied /\ Top.dst = Target(Top.src)
      /\ Top.handle.dir = Kind(before, Top.src) /\ AtOrAbove(req.src, Top.src)
      /\ Top.src \in DOMAIN before.tree
  BY <1>2, AtOrAboveReflexive DEF CopyFrame
<1>5. Kind(before, Top.src) \in BOOLEAN
  <2>1. /\ Top.src \in DOMAIN tree /\ tree[Top.src] = before.tree[Top.src]
        /\ entry[tree[Top.src]] = before.entry[before.tree[Top.src]]
    BY <1>2, <1>4 DEF Intact, SameAt
  <2> QED BY <2>1 DEF CopyStep, StoreOK, IsItem, Kind
<1>6. Top.src \in LeftTo(Top)
  BY <1>4 DEF LeftTo, Left
<1>7. ~Exists(Top.dst)
  BY <1>3, <1>4, <1>6 DEF Made, Exists
<1> QED BY <1>1, <1>2, <1>3, <1>4, <1>5, <1>7

\* What is made is what was left of the copy, less one path.
LEMMA OneIsMade ==
  ASSUME CopyStep, Top.at = "make", NEW dir \in BOOLEAN, dir = Kind(before, Top.src), NEW body,
         Added(Top.dst, dir, body)
  PROVE  Made(tree', entry', (LeftTo(Top) \cup LeftToOuter) \ {Top.src})
<1> DEFINE old  == LeftTo(Top) \cup LeftToOuter
           left == old \ {Top.src}
           item == Item(tree[Parent(Top.dst)], Base(Top.dst), dir, body)
<1>1. /\ Made(tree, entry, old) /\ Top.src \in Copied /\ Top.dst = Target(Top.src)
      /\ ~Exists(Top.dst) /\ Top.src \in Seq(Labels) /\ AtOrAbove(req.src, Top.src)
  BY MakeStands
<1>2. tree' = [q \in DOMAIN tree \cup {Top.dst} |-> IF q = Top.dst THEN nextID ELSE tree[q]]
  BY DEF Added, Linked
<1>3. entry' = [i \in DOMAIN entry \cup {nextID} |-> IF i = nextID THEN item ELSE entry[i]]
  BY DEF Added, Linked
<1>4. item.dir = dir
  BY DEF Item
<1> HIDE DEF old, item
<1>5. \A q \in DOMAIN tree' : AtOrAbove(req.dst, q) => \E p \in Copied : q = Target(p)
  BY <1>1, <1>2 DEF Made
<1>6. ASSUME NEW p \in Copied
      PROVE  IF p \in left THEN Target(p) \notin DOMAIN tree'
             ELSE Target(p) \in DOMAIN tree' /\ entry'[tree'[Target(p)]].dir = Kind(before, p)
  <2>1. CASE p = Top.src
    BY <1>1, <1>2, <1>3, <1>4, <2>1
  <2>2. CASE p # Top.src
    <3>1. Target(p) # Top.dst
      BY <1>1, <2>2, CopiedIs, TargetOf DEF CopyStep
    <3>2. p \in left <=> p \in old
      BY <2>2
    <3>3. CASE p \in old
      BY <1>1, <1>2, <3>1, <3>2, <3>3 DEF Made
    <3>4. CASE p \notin old
      <4>1. Target(p) \in DOMAIN tree /\ entry[tree[Target(p)]].dir = Kind(before, p)
        BY <1>1, <3>4 DEF Made
      <4>2. tree[Target(p)] \in DOMAIN entry /\ tree[Target(p)] # nextID
        BY <4>1 DEF CopyStep, StoreOK
      <4> QED BY <1>2, <1>3, <3>1, <3>2, <3>4, <4>1, <4>2
    <3> QED BY <3>3, <3>4
  <2> QED BY <2>1, <2>2
<1> QED BY <1>5, <1>6 DEF Made, old

\* copyFiles makes a directory where a directory is.
LEMMA MkdirIsExact ==
  ASSUME CopyStep, CopyMkdir
  PROVE  CopyOK'
<1> DEFINE c == [Top EXCEPT !.at = "readdir"]
<1>1. /\ Top.at = "make" /\ Top.handle.dir
      /\ \/ Mkdir(Top.dst, "ok") /\ req.depth = Infinite /\ Continue(c)
         \/ Mkdir(Top.dst, "ok") /\ req.depth # Infinite /\ Return(Success)
         \/ Fail("Forbidden")
  <2>1. PICK result \in Results :
          /\ Mkdir(Top.dst, result)
          /\ CASE result = "ok" /\ req.depth = Infinite -> Continue(c)
               [] result = "ok" /\ req.depth # Infinite -> Return(Success)
               [] OTHER -> Fail("Forbidden")
    BY DEF CopyMkdir
  <2>2. Top.at = "make" /\ Top.handle.dir
    BY DEF CopyMkdir, At
  <2> HIDE DEF c
  <2> QED BY <2>1, <2>2
<1>2. /\ ~Untaken /\ stack[1].created = New /\ Top.src \in Copied
      /\ Kind(before, Top.src) = TRUE /\ Top.src \notin LeftToOuter
  BY <1>1, MakeStands
<1>3. /\ IsCall(Top, CopyStages) /\ CopyFrame(Top) /\ Top = stack[Len(stack)]
      /\ Len(stack) = 1 => Top.src = req.src /\ LeftToOuter = {}
      /\ Len(stack) # 1 => req.depth = Infinite
  BY CopyStands
<1>4. /\ c.at = "readdir" /\ c.src = Top.src /\ c.dst = Top.dst /\ c.handle = Top.handle
      /\ c.created = Top.created
  BY <1>3, CallFields
<1> HIDE DEF c
<1>5. ASSUME Mkdir(Top.dst, "ok")
      PROVE  Made(tree', entry', (LeftTo(Top) \cup LeftToOuter) \ {Top.src})
  <2>1. Added(Top.dst, TRUE, Empty)
    BY <1>5 DEF Mkdir
  <2> QED BY <1>1, <1>2, <2>1, OneIsMade
<1>6. CASE Mkdir(Top.dst, "ok") /\ req.depth = Infinite /\ Continue(c)
  <2>1. CopyFrame(c)
    BY <1>1, <1>2, <1>3, <1>4, <1>6 DEF CopyFrame
  <2>2. LeftTo(c) = LeftTo(Top) \ {Top.src}
    BY <1>1, <1>4 DEF LeftTo, Left
  <2>3. (LeftTo(Top) \cup LeftToOuter) \ {Top.src} = LeftTo(c) \cup LeftToOuter
    BY <1>2, <2>2
  <2>4. Made(tree', entry', LeftTo(c) \cup LeftToOuter)
    BY <1>5, <1>6, <2>3
  <2>5. Len(stack) = 1 => c.created = New
    BY <1>2, <1>3, <1>4
  <2> QED BY <1>4, <1>6, <2>1, <2>4, <2>5, CopyContinues
<1>7. CASE Mkdir(Top.dst, "ok") /\ req.depth # Infinite /\ Return(Success)
  <2>1. Len(stack) = 1 /\ Top.src = req.src /\ LeftToOuter = {}
    BY <1>3, <1>7
  <2>2. \A p \in LeftTo(Top) : p = Top.src
    BY <1>7, <2>1, CopiedIs DEF LeftTo, CopyStep
  <2>3. (LeftTo(Top) \cup LeftToOuter) \ {Top.src} = LeftToOuter
    BY <2>1, <2>2
  <2>4. Made(tree', entry', LeftToOuter)
    BY <1>5, <1>7, <2>3
  <2> QED BY <1>2, <1>7, <2>4, CopyReturns
<1>8. CASE Fail("Forbidden")
  BY <1>8, CopyFails
<1> QED BY <1>1, <1>6, <1>7, <1>8

\* copyFiles makes a file where a file is.
LEMMA CreateIsExact ==
  ASSUME CopyStep, CopyCreate
  PROVE  CopyOK'
<1>1. /\ Top.at = "make" /\ ~Top.handle.dir
      /\ \/ Create(Top.dst, Top.handle.rest, "ok") /\ Return(Success)
         \/ Fail("Conflict") \/ Fail("Forbidden")
  <2>1. PICK result \in Results :
          /\ Create(Top.dst, Top.handle.rest, result)
          /\ CASE result = "ok" -> Return(Success)
               [] result = "notexist" -> Fail("Conflict")
               [] OTHER -> Fail("Forbidden")
    BY DEF CopyCreate
  <2>2. Top.at = "make" /\ ~Top.handle.dir
    BY DEF CopyCreate, At
  <2> QED BY <2>1, <2>2
<1>2. /\ ~Untaken /\ ~Exists(Top.dst) /\ Kind(before, Top.src) = FALSE
      /\ Top.src \notin LeftToOuter /\ Top.src \in Seq(Labels) /\ AtOrAbove(req.src, Top.src)
  BY <1>1, MakeStands
<1>3. CASE Create(Top.dst, Top.handle.rest, "ok") /\ Return(Success)
  <2>1. Added(Top.dst, FALSE, Top.handle.rest)
    BY <1>2, <1>3 DEF Create, Stored
  <2>2. Made(tree', entry', (LeftTo(Top) \cup LeftToOuter) \ {Top.src})
    BY <1>1, <1>2, <2>1, OneIsMade
  <2>3. \A p \in LeftTo(Top) : p = Top.src
    <3>1. ASSUME NEW p \in LeftTo(Top), p # Top.src
          PROVE  FALSE
      <4>1. p \in Copied /\ AtOrAbove(Top.src, p)
        BY <3>1 DEF LeftTo, Left
      <4>2. Kind(before, Top.src)
        BY <1>2, <3>1, <4>1, CopiedIs DEF CopyStep
      <4> QED BY <1>2, <4>2
    <3> QED BY <3>1
  <2>4. (LeftTo(Top) \cup LeftToOuter) \ {Top.src} = LeftToOuter
    BY <1>2, <2>3
  <2>5. Made(tree', entry', LeftToOuter)
    BY <2>2, <2>4
  <2> QED BY <1>2, <1>3, <2>5, CopyReturns
<1>4. CASE Fail("Conflict") \/ Fail("Forbidden")
  BY <1>4, CopyFails
<1> QED BY <1>1, <1>3, <1>4

\* copyFiles lists its source: each member that is to be copied is there.
LEMMA ListIsExact ==
  ASSUME CopyStep, CopyList
  PROVE  CopyOK'
<1> DEFINE c == [Top EXCEPT !.at = "children", !.todo = Members(Top.handle)]
<1>1. /\ Top.at = "readdir" /\ UNCHANGED storeVars
      /\ Continue(c) \/ Fail("Forbidden")
  BY DEF CopyList, At
<1>2. /\ IsCall(Top, CopyStages) /\ CopyFrame(Top) /\ Top = stack[Len(stack)]
      /\ Top.src \in Seq(Labels) /\ LeftOver = LeftTo(Top) \cup LeftToOuter
      /\ ItemsAtFirst /\ ~Overlap
  BY CopyStands
<1>3. /\ c.at = "children" /\ c.src = Top.src /\ c.dst = Top.dst /\ c.handle = Top.handle
      /\ c.created = Top.created /\ c.todo = Members(Top.handle)
  BY <1>2, CallFields
<1> HIDE DEF c
<1>4. ~Untaken
  BY <1>1 DEF Untaken
<1>5. Made(tree', entry', LeftTo(Top) \cup LeftToOuter) /\ stack[1].created = New
  BY <1>1, <1>2, <1>4 DEF CopyStep, CopyOK, HalfCopied, storeVars
<1>6. ASSUME NEW p \in LeftTo(Top)
      PROVE  p[Len(Top.src) + 1] \in Members(Top.handle)
  <2> DEFINE n == p[Len(Top.src) + 1]
             q == Append(Top.src, n)
  <2>1. /\ p \in Seq(Labels) /\ p \in DOMAIN before.tree
        /\ AtOrAbove(Top.src, p) /\ Top.src # p
    BY <1>1, <1>6, CopiedIs DEF LeftTo, Left, CopyStep
  <2>2. /\ q \in Seq(Labels) /\ AtOrAbove(q, p) /\ q # Root
        /\ Parent(q) = Top.src /\ Base(q) = n
    BY <1>2, <2>1, MemberOnTheWay
  <2>3. AtOrAbove(Top.src, q)
    BY <2>2, ParentAbove DEF Above
  <2> HIDE DEF q
  <2>4. q \in DOMAIN before.tree
    <3>1. Len(q) \in 0..Len(p) /\ SubSeq(p, 1, Len(q)) = q
      BY <2>1, <2>2, PrefixIs
    <3> QED BY <2>1, <3>1 DEF CopyStep, HistoryOK
  <2>5. Intact(q)
    <3>1. AtOrAbove(req.src, Top.src) /\ req.src \in Seq(Labels)
      BY <1>2, PathsOfRequest DEF CopyFrame, CopyStep
    <3>2. AtOrAbove(req.src, q)
      BY <1>2, <2>2, <2>3, <3>1, AtOrAboveTransitive
    <3>3. OffDst(q)
      BY <1>2, <2>2, <3>2, SourceIsOff DEF CopyStep
    <3> QED BY <2>2, <3>3 DEF CopyStep, CopyOK
  <2>6. /\ q \in DOMAIN tree /\ tree[q] \in DOMAIN entry
        /\ entry[tree[q]].parent = before.tree[Top.src] /\ entry[tree[q]].name = n
    <3>1. /\ q \in DOMAIN tree /\ tree[q] = before.tree[q]
          /\ entry[tree[q]] = before.entry[before.tree[q]]
      BY <2>4, <2>5 DEF Intact, SameAt
    <3>2. /\ before.entry[before.tree[q]].parent = before.tree[Top.src]
          /\ before.entry[before.tree[q]].name = n
      BY <1>2, <2>2, <2>4 DEF ItemsAtFirst
    <3> QED BY <3>1, <3>2 DEF CopyStep, StoreOK
  <2>7. Top.handle.dir /\ Top.handle.id = before.tree[Top.src]
    BY <1>1, <1>2 DEF CopyFrame
  <2> QED BY <2>6, <2>7 DEF Members
<1>7. LeftTo(c) = LeftTo(Top)
  BY <1>1, <1>3, <1>6 DEF LeftTo, Left
<1>8. CASE Continue(c)
  <2>1. CopyFrame(c)
    BY <1>1, <1>2, <1>3 DEF CopyFrame
  <2>2. Len(stack) = 1 => c.created = New
    BY <1>2, <1>3, <1>5
  <2> QED BY <1>3, <1>5, <1>7, <1>8, <2>1, <2>2, CopyContinues
<1>9. CASE Fail("Forbidden")
  BY <1>9, CopyFails
<1> QED BY <1>1, <1>8, <1>9

\* copyFiles calls itself for a member: the new call has left what is at or
\* below the member, and the loop the other members.
LEMMA MemberIsExact ==
  ASSUME CopyStep, CopyMember
  PROVE  CopyOK'
<1> DEFINE c(name) == [Top EXCEPT !.todo = Top.todo \ {name}]
           d(name) == Call(Append(Top.src, name), Append(Top.dst, name))
<1>1. /\ Top.at = "children" /\ UNCHANGED storeVars
      /\ \/ Top.todo = {} /\ Return(Success)
         \/ \E name \in Top.todo : Enter(c(name), d(name))
         \/ Fail("InternalServerError")
  BY DEF CopyMember, At
<1>2. /\ Len(stack) \in Nat \ {0} /\ IsCall(Top, CopyStages) /\ CopyFrame(Top)
      /\ Top = stack[Len(stack)] /\ Top.src \in Seq(Labels) /\ Top.dst \in Seq(Labels)
      /\ LeftOver = LeftTo(Top) \cup LeftToOuter
      /\ \A i \in 1..(Len(stack) - 1) : CopyFrame(stack[i]) /\ Inner(stack[i], Top)
  BY CopyStands
<1>3. ~Untaken
  BY <1>1 DEF Untaken
<1>4. Made(tree', entry', LeftTo(Top) \cup LeftToOuter) /\ stack[1].created = New
  BY <1>1, <1>2, <1>3 DEF CopyStep, CopyOK, HalfCopied, storeVars
<1>5. CASE Top.todo = {} /\ Return(Success)
  <2>1. LeftTo(Top) = {}
    BY <1>1, <1>5 DEF LeftTo, Left
  <2>2. Made(tree', entry', LeftToOuter)
    BY <1>4, <2>1
  <2> QED BY <1>3, <1>5, <2>2, CopyReturns
<1>6. ASSUME NEW name \in Top.todo, Enter(c(name), d(name))
      PROVE  CopyOK'
  <2> DEFINE c1 == c(name)
             d1 == d(name)
             q  == Append(Top.src, name)
  <2>1. /\ c1.at = "children" /\ c1.src = Top.src /\ c1.dst = Top.dst
        /\ c1.handle = Top.handle /\ c1.created = Top.created /\ c1.todo = Top.todo \ {name}
    BY <1>1, <1>2, CallFields
  <2>2. d1.at = "open" /\ d1.src = q /\ d1.dst = Append(Top.dst, name)
    BY DEF Call
  <2> HIDE DEF c, d, c1, d1
  <2>3. name \in Labels
    BY <1>2 DEF IsCall
  <2>4. /\ q \in Seq(Labels) /\ AtOrAbove(Top.src, q)
        /\ req.src \in Seq(Labels) /\ AtOrAbove(req.src, Top.src)
    BY <1>2, <2>3, MemberBelow, PathsOfRequest DEF CopyFrame, CopyStep
  <2>5. CopyFrame(c1)
    BY <1>1, <1>2, <2>1 DEF CopyFrame
  <2>6. CopyFrame(d1)
    <3>1. AtOrAbove(req.src, q)
      BY <1>2, <2>4, AtOrAboveTransitive
    <3>2. Append(Top.dst, name) = Target(q)
      BY <1>2, <2>3, <2>4, TargetOfMember DEF CopyFrame, CopyStep
    <3>3. q \in DOMAIN before.tree => q \in Copied
      <4>1. Top.src \in Copied /\ Kind(before, Top.src) /\ req.depth = Infinite
        BY <1>1, <1>2 DEF CopyFrame
      <4> QED BY <2>3, <4>1, MemberIsCopied DEF CopyStep
    <3> QED BY <2>2, <3>1, <3>2, <3>3 DEF CopyFrame
  <2>7. LeftTo(c1) \cup LeftTo(d1) = LeftTo(Top)
    <3>1. ASSUME NEW p \in Copied
          PROVE  Left(Top, p) <=> Left(c1, p) \/ Left(d1, p)
      <4>1. p \in Seq(Labels)
        BY CopiedIs DEF CopyStep
      <4>2. Left(d1, p) <=> AtOrAbove(q, p)
        BY <2>2 DEF Left
      <4>3. AtOrAbove(q, p) <=>
              AtOrAbove(Top.src, p) /\ Top.src # p /\ p[Len(Top.src) + 1] = name
        BY <1>2, <2>3, <4>1, BelowMember, MemberOnTheWay
      <4>4. Left(Top, p) <=>
              AtOrAbove(Top.src, p) /\ p # Top.src /\ p[Len(Top.src) + 1] \in Top.todo
        BY <1>1 DEF Left
      <4>5. Left(c1, p) <=>
              /\ AtOrAbove(Top.src, p) /\ p # Top.src
              /\ p[Len(Top.src) + 1] \in Top.todo \ {name}
        BY <2>1 DEF Left
      <4> QED BY <4>2, <4>3, <4>4, <4>5
    <3> QED BY <3>1 DEF LeftTo
  <2>8. /\ Len(stack') = Len(stack) + 1
        /\ stack'[Len(stack)] = c1 /\ stack'[Len(stack) + 1] = d1
        /\ \A i \in 1..(Len(stack) - 1) : stack'[i] = stack[i]
    <3>1. Enter(c1, d1)
      BY <1>6 DEF c1, d1
    <3> QED BY <3>1, Enters DEF CopyStep, StackOK
  <2>9. /\ \A i \in 1..Len(stack') :
             i \in 1..(Len(stack) - 1) \/ i = Len(stack) \/ i = Len(stack) + 1
        /\ \A i \in 1..(Len(stack) - 1) : i \in 1..Len(stack)
        /\ Len(stack) # 1 => 1 \in 1..(Len(stack) - 1)
        /\ \A i \in 1..(Len(stack) - 1) : i \in 1..Len(stack')
        /\ Len(stack) \in 1..Len(stack') /\ Len(stack) + 1 \in 1..Len(stack')
    <3>1. Len(stack) \in Nat \ {0}
      BY <1>2
    <3>2. Len(stack') = Len(stack) + 1
      BY <2>8
    <3> QED BY <3>1, <3>2, PositionsAfter
  <2>10. \A i \in 1..Len(stack') : CopyFrame(stack'[i])
    BY <1>2, <2>5, <2>6, <2>8, <2>9
  <2>11. ASSUME NEW i \in 1..Len(stack'), NEW j \in 1..Len(stack'), i < j
         PROVE  Inner(stack'[i], stack'[j])
    <3>1. CASE i = Len(stack)
      <4>1. j = Len(stack) + 1
        BY <1>2, <2>9, <2>11, <3>1
      <4>2. AtOrAbove(q, q) /\ name \in Labels \ c1.todo
        BY <2>1, <2>3, <2>4, AtOrAboveReflexive
      <4> QED BY <2>1, <2>2, <2>8, <3>1, <4>1, <4>2 DEF Inner
    <3>2. CASE i \in 1..(Len(stack) - 1)
      <4>1. stack'[i] = stack[i] /\ i \in 1..Len(stack)
        BY <2>8, <2>9, <3>2
      <4>2. CASE j \in 1..(Len(stack) - 1)
        <5>1. stack'[j] = stack[j] /\ j \in 1..Len(stack)
          BY <2>8, <2>9, <4>2
        <5> QED BY <2>11, <4>1, <5>1 DEF CopyStep, CopyOK
      <4>3. CASE j = Len(stack)
        BY <1>2, <2>1, <2>8, <3>2, <4>1, <4>3 DEF Inner
      <4>4. CASE j = Len(stack) + 1
        <5> DEFINE b == stack[i]
        <5>1. PICK n \in Labels \ b.todo : b.at = "children" /\ AtOrAbove(Append(b.src, n), Top.src)
          BY <1>2, <3>2 DEF Inner
        <5>2. b.src \in Seq(Labels)
          BY <4>1 DEF CopyStep, CopyGoing, StackOK, CallOK, IsCall
        <5> HIDE DEF b
        <5>3. Append(b.src, n) \in Seq(Labels)
          BY <5>2, AppendProperties
        <5>4. AtOrAbove(Append(b.src, n), q)
          BY <1>2, <2>4, <5>1, <5>3, AtOrAboveTransitive
        <5>5. Inner(b, d1)
          BY <2>2, <5>1, <5>4 DEF Inner
        <5> QED BY <2>8, <4>1, <4>4, <5>5 DEF b
      <4> QED BY <2>9, <4>2, <4>3, <4>4
    <3>3. i # Len(stack) + 1
      BY <1>2, <2>8, <2>11
    <3> QED BY <2>9, <3>1, <3>2, <3>3
  <2>12. stack'[1].src = req.src /\ stack'[1].created = New
    <3>1. CASE Len(stack) = 1
      BY <1>2, <1>4, <2>1, <2>8, <3>1 DEF CopyStep, CopyOK
    <3>2. CASE Len(stack) # 1
      BY <1>4, <2>8, <2>9, <3>2 DEF CopyStep, CopyOK
    <3> QED BY <3>1, <3>2
  <2> DEFINE left == UNION {LeftTo(stack'[i]) : i \in 1..Len(stack')}
  <2>13. left = LeftTo(Top) \cup LeftToOuter
    <3>1. left = (LeftTo(c1) \cup LeftTo(d1)) \cup LeftToOuter
      BY <2>8, <2>9 DEF LeftToOuter
    <3> QED BY <2>7, <3>1
  <2>14. Len(stack') # 1 /\ stack' # << >>
    BY <1>2, <2>8
  <2> HIDE DEF left
  <2> QED BY <1>4, <2>10, <2>11, <2>12, <2>13, <2>14, CopyAfter DEF left
<1>7. CASE Fail("InternalServerError")
  BY <1>7, CopyFails
<1> QED BY <1>1, <1>5, <1>6, <1>7

\* Each step keeps what is said of a copy.
LEMMA StepKeepsCopy ==
  ASSUME RequestInv, CopyOK, [Next]_vars
  PROVE  CopyOK'
<1>1. HistoryOK /\ StoreOK /\ StackOK /\ WalkOK
  BY DEF RequestInv
<1>2. CASE Copy /\ UNCHANGED replyVars /\ UNCHANGED history
  <2>1. req' = req /\ edits' = edits
    BY <1>1, <1>2, CopyKeeps DEF history
  <2>2. status = "none"
    <3>1. stack # << >>
      BY <1>2 DEF Copy, CopyOpen, CopyStat, CopyRemove, CopyMkdir, CopyCreate, CopyList,
                  CopyMember, At
    <3> QED BY <1>1, <3>1 DEF StackOK
  <2>3. CASE CopyGoing
    <3>1. CopyStep
      BY <1>1, <1>2, <2>3, CopyFrom
    <3> QED BY <1>2, <3>1, OpenIsExact, StatIsExact, RemoveIsExact, MkdirIsExact, CreateIsExact,
               ListIsExact, MemberIsExact DEF Copy
  <2>4. CASE ~CopyGoing
    <3>1. ~CopyGoing'
      BY <2>1, <2>2, <2>4 DEF CopyGoing, Overlap
    <3> QED BY <3>1 DEF CopyOK
  <2> QED BY <2>3, <2>4
<1>3. CASE Move \/ Walk
  <2>1. req' = req /\ req.method # "COPY"
    BY <1>1, <1>3, MoveKeeps, WalkKeeps
  <2> QED BY <2>1 DEF CopyOK, CopyGoing
<1>4. CASE Others
  <2>1. edits' # 0
    BY <1>1, <1>4 DEF Others, HistoryOK
  <2> QED BY <2>1 DEF CopyOK, CopyGoing
<1>5. CASE UNCHANGED vars
  <2>1. UNCHANGED <<tree, entry, req, stack, status, edits, before>>
    BY <1>5 DEF vars, storeVars, history
  <2>2. /\ CopyGoing' = CopyGoing /\ New' = New /\ Copied' = Copied /\ Untaken' = Untaken
        /\ ItemsAtFirst' = ItemsAtFirst /\ Top' = Top
    BY <2>1 DEF CopyGoing, Overlap, Succeeded, New, Copied, Listable, Kind, Untaken, ItemsAtFirst, Top
  <2>3. \A x : OffDst(x)' = OffDst(x) /\ Intact(x)' = Intact(x)
    BY <2>1 DEF OffDst, Intact, SameAt
  <2>4. \A c, d : CopyFrame(c)' = CopyFrame(c) /\ Inner(c, d)' = Inner(c, d)
    BY <2>1, <2>2 DEF CopyFrame, Target, Kind, Inner
  <2>5. HalfCopied' = HalfCopied
    <3>1. \A c : LeftTo(c)' = LeftTo(c)
      BY <2>2 DEF LeftTo, Left
    <3>2. LeftOver' = LeftOver
      BY <2>1, <3>1 DEF LeftOver
    <3> QED BY <2>1, <2>2, <3>2 DEF HalfCopied, Made, Target, Kind
  <2> QED BY <2>1, <2>2, <2>3, <2>4, <2>5 DEF CopyOK
<1> QED BY <1>2, <1>3, <1>4, <1>5 DEF Next, Serve, Answered

\* When a COPY comes, nothing is taken yet.
LEMMA CopyAtFirst ==
  ASSUME Init
  PROVE  CopyOK
<1> SUFFICES ASSUME req.method = "COPY"
             PROVE  CopyOK
  BY DEF CopyOK, CopyGoing
<1>1. PICK t \in Trees : HoldsFiles(t)
  BY DEF Init
<1>2. /\ stack = <<FirstCall(req)>> /\ status = "none"
      /\ before = [tree |-> tree, entry |-> entry]
  BY DEF Init
<1>3. /\ StoreOK
      /\ \A p \in DOMAIN tree :
           p # Root => entry[tree[p]].parent = tree[Parent(p)] /\ entry[tree[p]].name = Base(p)
  BY <1>1, StoreAtFirst
<1>4. before.tree = tree /\ before.entry = entry
  BY <1>2
<1>5. HistoryOK
  BY RequestAtFirst DEF RequestInv
<1>6. ItemsAtFirst /\ \A x : Intact(x)
  BY <1>3, <1>4 DEF ItemsAtFirst, StoreOK, Intact, SameAt
<1> DEFINE c == Call(req.src, req.dst)
<1>7. stack = <<c>> /\ Len(stack) = 1 /\ stack[1] = c /\ Top = c
  BY <1>2 DEF FirstCall, Top, Last
<1>8. c.at = "open" /\ c.src = req.src /\ c.dst = req.dst /\ c.created = FALSE
  BY DEF Call
<1> HIDE DEF c
<1>9. req.src \in Seq(Labels) /\ req.dst \in Seq(Labels)
  BY <1>5, PathsOfRequest
<1>10. CopyFrame(c)
  <2>1. AtOrAbove(req.src, req.src) /\ Target(req.src) = req.dst
    BY <1>9, AtOrAboveReflexive, RebaseOfPrefix DEF Target
  <2>2. req.src \in DOMAIN before.tree => req.src \in Copied
    <3>1. Len(req.src) \in Nat
      BY <1>9, LenProperties
    <3>2. Len(req.src)..(Len(req.src) - 1) = {}
      BY <3>1
    <3> QED BY <2>1, <3>2 DEF Copied, Listable
  <2> QED BY <1>8, <2>1, <2>2 DEF CopyFrame
<1>11. Untaken
  BY <1>7, <1>8 DEF Untaken
<1>12. \A i \in 1..Len(stack) : i = 1
  BY <1>7
<1> QED BY <1>4, <1>6, <1>7, <1>8, <1>10, <1>11, <1>12 DEF CopyOK

\* When a COPY has succeeded, nothing is left to copy.
LEMMA CopyIsExact ==
  ASSUME RequestInv, CopyOK
  PROVE  CopyExact
<1> SUFFICES ASSUME req.method = "COPY", Succeeded, edits = 0, ~Overlap
             PROVE  CopyExact
  BY DEF CopyExact
<1>1. HistoryOK /\ StoreOK /\ StackOK
  BY DEF RequestInv
<1>2. CopyGoing
  BY DEF CopyGoing
<1>3. stack = << >> /\ Len(stack) = 0
  BY <1>1 DEF StackOK, Succeeded
<1>4. HalfCopied /\ \A x \in Seq(Labels) : OffDst(x) => Intact(x)
  BY <1>2, <1>3 DEF CopyOK, Untaken
<1>5. LeftOver = {}
  BY <1>3 DEF LeftOver
<1>6. /\ \A q \in DOMAIN tree : AtOrAbove(req.dst, q) => \E p \in Copied : q = Target(p)
      /\ \A p \in Copied :
           Target(p) \in DOMAIN tree /\ entry[tree[Target(p)]].dir = Kind(before, p)
      /\ status = IF New THEN "Created" ELSE "NoContent"
  BY <1>3, <1>4, <1>5 DEF HalfCopied, Made
<1> DEFINE kept == {p \in DOMAIN before.tree : ~AtOrAbove(req.dst, p)}
<1>7. \A p \in kept : /\ p \in DOMAIN tree /\ tree[p] = before.tree[p]
                      /\ entry[tree[p]] = before.entry[before.tree[p]]
  BY <1>1, <1>4 DEF HistoryOK, OffDst, Intact, SameAt
<1>8. \A q \in DOMAIN tree : ~AtOrAbove(req.dst, q) => q \in kept
  BY <1>1, <1>4 DEF StoreOK, OffDst, Intact, SameAt
<1>9. DOMAIN tree = kept \cup {Target(p) : p \in Copied}
  <2> HIDE DEF kept
  <2>1. \A q \in DOMAIN tree : q \in kept \cup {Target(p) : p \in Copied}
    BY <1>6, <1>8
  <2>2. \A q \in kept \cup {Target(p) : p \in Copied} : q \in DOMAIN tree
    BY <1>6, <1>7
  <2> QED BY <2>1, <2>2
<1>10. \A p \in Copied : Kind(now, Target(p)) = Kind(before, p)
  BY <1>6 DEF Kind, now
<1>11. (status = "Created") = (req.dst \notin DOMAIN before.tree)
  BY <1>6 DEF New
<1> QED BY <1>7, <1>9, <1>10, <1>11 DEF CopyExact, Copied, Target

\* A COPY that succeeds with nobody else about and no part of one path in the
\* other has made the destination what the source is, file for file and
\* directory for directory, has changed nothing else, and says rightly whether
\* there was something before (copyFiles).
THEOREM SuccessIsACopy == Spec => []CopyExact
<1>1. Init => RequestInv /\ CopyOK
  BY RequestAtFirst, CopyAtFirst
<1>2. RequestInv /\ CopyOK /\ [Next]_vars => (RequestInv /\ CopyOK)'
  BY StepKeepsRequest, StepKeepsCopy
<1>3. RequestInv /\ CopyOK => CopyExact
  BY CopyIsExact
<1> QED BY <1>1, <1>2, <1>3, PTL DEF Spec

=============================================================================
