-------------------------------- MODULE MemFS -------------------------------
(***************************************************************************)
(* memFS and memFile (webdav/file.go:140-610): nodes that know their       *)
(* members, and handles that know their node, a position and the members   *)
(* there were when the handle was made.  Each call holds the mutex of the  *)
(* tree, of the node or both from start to end, so each is one step; what  *)
(* interleaves are the calls.  Create panics (file.go:171) and is nobody's *)
(* action.                                                                 *)
(***************************************************************************)
EXTENDS Paths, Integers, FiniteSets, SequencesExt

CONSTANTS Names,       \* the paths of the calls
          Segments,    \* the names of members
          Bytes,       \* what a Write can write, sequences of bytes
          Flags,       \* the flags of OpenFile, as sets
          Handles,     \* handles the callers hold at a time
          MaxNodes,    \* bound on the nodes ever made
          MaxSize,     \* bound on positions and on the size of the one file that
                       \* is not empty
          MaxDepth     \* bound on the length of paths

ASSUME NamesAssumption == Names \subseteq Seq(Segments) /\ Root \in Names
ASSUME DepthAssumption == \A path \in Names : Len(path) <= MaxDepth
ASSUME BytesAssumption == Bytes \subseteq Seq(0..255)
ASSUME SizeAssumption == MaxSize \in Nat /\ MaxNodes \in Nat \ {0} /\ MaxDepth \in Nat

VARIABLES children,   \* per node: the nodes of its members; a file has none
          isDir,      \* per node: its mode
          data,       \* per node: the bytes of a file
          file,       \* per handle: what it holds
          outcome,    \* the error of the last call, or "ok"
          wrote,      \* per node: the bytes written to it since it was empty
          paths       \* the node of each path, to compare with OsTree

nodeVars == <<children, isDir, data>>
vars == <<nodeVars, file, outcome, wrote, paths>>

Top == 1               \* memFS.root
NotExist == -1
Invalid == -2
ErrorName(n) == IF n = NotExist THEN "notexist" ELSE "invalid"

Nodes == DOMAIN isDir
NoMembers == [s \in {} |-> Top]
Nothing == [i \in {} |-> 0]
Closed == [n |-> 0, pos |-> 0, names |-> << >>]

Init ==
  /\ children = <<NoMembers>> /\ isDir = <<TRUE>> /\ data = << << >> >>
  /\ file = [h \in Handles |-> Closed]
  /\ outcome = "ok"
  /\ wrote = <<Nothing>>
  /\ paths = [path \in {Root} |-> Top]

(* One round of walk: from a directory to the member of that name. *)
Step(n, s) ==
  IF n < 0 THEN n
  ELSE IF s \notin DOMAIN children[n] THEN NotExist
  ELSE IF ~isDir[children[n][s]] THEN Invalid
  ELSE children[n][s]

(* find: the node of the parent, or the error walk ended with.  The root has *)
(* no parent, and each call asks for it first.                             *)
Find(path) ==
  LET at[i \in 0..(Len(path) - 1)] == IF i = 0 THEN Top ELSE Step(at[i - 1], path[i])
  IN  at[Len(path) - 1]
Frag(path) == Last(path)

Done(result) == outcome' = result
Refused(result) == Done(result) /\ UNCHANGED <<nodeVars, file>>

(* The two edits of a map of members. *)
With(members, s, n) == [t \in DOMAIN members \cup {s} |-> IF t = s THEN n ELSE members[t]]
Less(members, s) == [t \in DOMAIN members \ {s} |-> members[t]]

(* A node appears as a member. *)
NewMember(dir, frag, directory) ==
  /\ Len(isDir) < MaxNodes
  /\ children' = Append([children EXCEPT ![dir] = With(@, frag, Len(isDir) + 1)], NoMembers)
  /\ isDir' = Append(isDir, directory)
  /\ data' = Append(data, << >>)

Mkdir(path) ==
  IF path = Root THEN Refused("invalid")
  ELSE LET dir == Find(path) IN
    \/ dir < 0 /\ Refused(ErrorName(dir))
    \/ dir > 0 /\ Frag(path) \in DOMAIN children[dir] /\ Refused("exist")
    \/ /\ dir > 0 /\ Frag(path) \notin DOMAIN children[dir]
       /\ NewMember(dir, Frag(path), TRUE) /\ Done("ok") /\ UNCHANGED file

(* The handle: the members are listed in the order of a map. *)
NewFile(h, n, members) ==
  \E names \in SetToSeqs(DOMAIN members) :
    file' = [file EXCEPT ![h] = [n |-> n, pos |-> 0, names |-> names]]

Truncated(n) == data' = [data EXCEPT ![n] = << >>] /\ UNCHANGED <<children, isDir>>

OpenFile(h, path, flag) ==
  IF path = Root
  THEN IF "write" \in flag THEN Refused("permission")
       ELSE NewFile(h, Top, children[Top]) /\ Done("ok") /\ UNCHANGED nodeVars
  ELSE LET dir == Find(path)
           frag == Frag(path)
           there == frag \in DOMAIN children[dir]
       IN
    \/ dir < 0 /\ Refused(ErrorName(dir))
    \/ dir > 0 /\ "append" \in flag /\ Refused("invalid")
    \/ dir > 0 /\ "append" \notin flag /\
       \/ there /\ {"create", "excl"} \subseteq flag /\ Refused("exist")
       \/ ~there /\ "create" \notin flag /\ Refused("notexist")
       \/ /\ ~there /\ "create" \in flag
          /\ NewMember(dir, frag, FALSE)
          /\ NewFile(h, Len(isDir) + 1, NoMembers) /\ Done("ok")
       \/ /\ there /\ ~({"create", "excl"} \subseteq flag)
          /\ IF {"write", "trunc"} \subseteq flag
             THEN Truncated(children[dir][frag]) ELSE UNCHANGED nodeVars
          /\ NewFile(h, children[dir][frag], children[children[dir][frag]]) /\ Done("ok")

RemoveAll(path) ==
  IF path = Root THEN Refused("invalid")
  ELSE LET dir == Find(path) IN
    \/ dir < 0 /\ Refused(ErrorName(dir))
    \/ /\ dir > 0
       /\ children' = [children EXCEPT ![dir] = Less(@, Frag(path))]
       /\ Done("ok") /\ UNCHANGED <<isDir, data, file>>

(* The two edits of Rename, in their order: both may be of one directory. *)
Relinked(oDir, oFrag, nDir, nFrag) ==
  LET node  == children[oDir][oFrag]
      taken == [children EXCEPT ![oDir] = Less(@, oFrag)]
  IN  [taken EXCEPT ![nDir] = With(@, nFrag, node)]

(* Mutant: the check of a move into itself compares the names alone. *)
RenameIntoItself(old, new) ==
  IF old = new THEN Refused("ok")
  ELSE IF old = Root \/ new = Root THEN Refused("invalid")
  ELSE LET oDir == Find(old)
           nDir == Find(new)
       IN  /\ oDir > 0 /\ nDir > 0 /\ Frag(old) \in DOMAIN children[oDir]
           /\ children' = Relinked(oDir, Frag(old), nDir, Frag(new))
           /\ Done("ok") /\ UNCHANGED <<isDir, data, file>>

Rename(old, new) ==
  IF old = new THEN Refused("ok")
  ELSE IF old # Root /\ Above(old, new) THEN Refused("invalid")
  ELSE IF old = Root THEN Refused("invalid")
  ELSE LET oDir == Find(old) IN
    \/ oDir < 0 /\ Refused(ErrorName(oDir))
    \/ oDir > 0 /\ new = Root /\ Refused("invalid")
    \/ oDir > 0 /\ new # Root /\
       LET nDir  == Find(new)
           there == Frag(old) \in DOMAIN children[oDir]
           moved == children[oDir][Frag(old)]
           taken == Frag(new) \in DOMAIN children[nDir]
           gone  == children[nDir][Frag(new)]
       IN
       \/ nDir < 0 /\ Refused(ErrorName(nDir))
       \/ nDir > 0 /\ ~there /\ Refused("notexist")
       \/ /\ nDir > 0 /\ there /\ isDir[moved] /\ taken
          /\ \/ ~isDir[gone] /\ Refused("notdir")
             \/ isDir[gone] /\ DOMAIN children[gone] # {} /\ Refused("notempty")
       \/ /\ nDir > 0 /\ there
          /\ isDir[moved] /\ taken => isDir[gone] /\ DOMAIN children[gone] = {}
          /\ \A q \in DOMAIN paths : AtOrAbove(old, q) => Len(Rebase(q, old, new)) <= MaxDepth
          /\ children' = Relinked(oDir, Frag(old), nDir, Frag(new))
          /\ Done("ok") /\ UNCHANGED <<isDir, data, file>>

Stat(path) ==
  IF path = Root THEN Refused("ok")
  ELSE LET dir == Find(path) IN
    \/ dir < 0 /\ Refused(ErrorName(dir))
    \/ dir > 0 /\ Refused(IF Frag(path) \in DOMAIN children[dir] THEN "ok" ELSE "notexist")

----------------------------------------------------------------------------
(* memFile: calls of a handle, whatever has become of its node's path. *)

Held(h) == file[h].n # 0
Node(h) == file[h].n
Moved(h, pos) == file' = [file EXCEPT ![h].pos = pos]
ByHandle(h) == Held(h) /\ Done("ok")

(* Read copies what there is from the position on, up to the buffer's size.  *)
Read(h, size) ==
  /\ ByHandle(h) /\ UNCHANGED nodeVars
  /\ ~isDir[Node(h)] /\ file[h].pos < Len(data[Node(h)])
  /\ Moved(h, Min({file[h].pos + size, Len(data[Node(h)])}))

(* Readdir: some of the names there were, or with count 0 all of them. *)
Readdir(h, count) ==
  /\ ByHandle(h) /\ UNCHANGED nodeVars
  /\ isDir[Node(h)] /\ file[h].pos < Len(file[h].names)
  /\ Moved(h, IF count > 0 THEN Min({file[h].pos + count, Len(file[h].names)})
                           ELSE Len(file[h].names))

(* From the start, the position or the end; it may lie behind the end. *)
Seek(h, from, offset) ==
  /\ ByHandle(h) /\ UNCHANGED nodeVars
  /\ LET pos == offset + (CASE from = "start" -> 0
                            [] from = "current" -> file[h].pos
                            [] from = "end" -> Len(data[Node(h)]))
     IN  pos >= 0 /\ pos <= MaxSize /\ Moved(h, pos)

Zeros(n) == [i \in 1..n |-> 0]

(* Mutant: bytes beyond the end are appended, without the hole. *)
WrittenNoHole(d, pos, bytes) ==
  SubSeq(d, 1, Min({pos, Len(d)})) \o bytes \o SubSeq(d, pos + Len(bytes) + 1, Len(d))

(* What Write leaves: a hole up to the position is filled with zeros first,  *)
(* even when there is nothing to write.                                    *)
Written(d, pos, bytes) ==
  LET filled == IF pos > Len(d) THEN d \o Zeros(pos - Len(d)) ELSE d
  IN  SubSeq(filled, 1, pos) \o bytes \o SubSeq(filled, pos + Len(bytes) + 1, Len(filled))

Write(h, bytes) ==
  /\ ByHandle(h) /\ UNCHANGED <<children, isDir>>
  /\ ~isDir[Node(h)] /\ file[h].pos + Len(bytes) <= MaxSize
  /\ \A n \in Nodes \ {Node(h)} : data[n] = << >>
  /\ data' = [data EXCEPT ![Node(h)] = Written(@, file[h].pos, bytes)]
  /\ Moved(h, file[h].pos + Len(bytes))

Close(h) == ByHandle(h) /\ file' = [file EXCEPT ![h] = Closed] /\ UNCHANGED nodeVars

----------------------------------------------------------------------------

(* The node a path leads to, walked from the top. *)
Lookup(path) ==
  IF path = Root THEN Top
  ELSE LET dir == Find(path)
       IN  IF dir > 0 /\ Frag(path) \in DOMAIN children[dir]
           THEN children[dir][Frag(path)]
           ELSE NotExist

AllPaths == BoundedSeq(Segments, MaxDepth)
PathsOf ==
  LET node == [p \in AllPaths |-> Lookup(p)]
  IN  [path \in {p \in AllPaths : node[p] > 0} |-> node[path]]

(* Calls that write nothing; a new node starts empty. *)
WroteNothing ==
  wrote' = [n \in DOMAIN isDir' |-> IF n \in Nodes THEN wrote[n] ELSE Nothing]

(* A call of the file system. *)
TreeCall ==
  \/ \E path \in Names : (Mkdir(path) \/ RemoveAll(path) \/ Stat(path)) /\ WroteNothing
  \/ \E old, new \in Names : Rename(old, new) /\ WroteNothing
  \/ \E h \in Handles, path \in Names, flag \in Flags :
       /\ ~Held(h) /\ OpenFile(h, path, flag)
       /\ IF {"write", "trunc"} \subseteq flag /\ outcome' = "ok" /\ Node(h)' \in Nodes
          THEN wrote' = [wrote EXCEPT ![Node(h)'] = Nothing] ELSE WroteNothing

(* A call of an open file. *)
FileCall ==
  \E h \in Handles :
    \/ \E size \in {1, MaxSize} : (Read(h, size) \/ Readdir(h, size)) /\ WroteNothing
    \/ (Readdir(h, 0) \/ Close(h)) /\ WroteNothing
    \/ \E from \in {"start", "current", "end"}, offset \in {-1, 0, MaxSize} :
         Seek(h, from, offset) /\ WroteNothing
    \/ \E bytes \in Bytes :
         /\ Write(h, bytes)
         /\ LET from == file[h].pos
                until == from + Len(bytes)
            IN  wrote' = [wrote EXCEPT ![Node(h)] =
                            [i \in DOMAIN @ \cup (from + 1..until) |->
                               IF i \in from + 1..until THEN bytes[i - from] ELSE @[i]]]

Next ==
  \/ TreeCall /\ IF children' = children THEN UNCHANGED paths ELSE paths' = PathsOf'
  \/ FileCall /\ UNCHANGED paths

Spec == Init /\ [][Next]_vars

----------------------------------------------------------------------------
(* Properties *)

(* A file holds, at each position, the byte last written there through any   *)
(* of its handles since it was last emptied, and zeros in the holes,        *)
(* whatever the handles' positions, and whether it still has a path or not. *)
HoldsWhatWasWritten ==
  \A n \in Nodes :
    /\ \A i \in DOMAIN wrote[n] : i <= Len(data[n])
    /\ \A i \in 1..Len(data[n]) :
         data[n][i] = IF i \in DOMAIN wrote[n] THEN wrote[n][i] ELSE 0

Os == INSTANCE OsTree WITH
        Names <- Names, Files <- 1..MaxNodes,
        tree <- paths,
        dirs <- {n \in Nodes : isDir[n]},
        outcome <- outcome

(* Nodes and their members are a tree of named files: every call has the     *)
(* effect and the error it has on a map from paths to files, so no Rename   *)
(* gives a file two paths, cuts a directory off or ties it to itself.       *)
ImplementsTree == Os!TreeSpec
=============================================================================
