---------------------------- MODULE AwsFSProofs ----------------------------
(***************************************************************************)
(* The properties of AwsFS and of AwsFSBoot, for any set of paths, callers, *)
(* processes and bounds.                                                   *)
(*                                                                         *)
(* IInv is the strengthening that is inductive.  What is stored is         *)
(* consistent; and what a call remembers between two requests is either    *)
(* what is stored still, or has a version that no write will let pass.     *)
(***************************************************************************)
EXTENDS AwsFSBoot, RenameLoop, PathMapProofs

-----------------------------------------------------------------------------
(* The map of paths *)

\* A map of paths that the entries E account for.
MapOK(m, E) ==
  /\ m \in PathMaps
  /\ Root \in DOMAIN m
  /\ \A q \in DOMAIN m : m[q] \in E
  /\ OneToOne(m)

\* The paths of the model are sequences of segments.
LEMMA NamesAreSequences == Names \subseteq Seq(Segments) /\ Root \in Names
BY NamesAssumption DEF Rooted

\* The members of PathMaps, one by one.
LEMMA PathMapFields ==
  ASSUME NEW m \in PathMaps
  PROVE  /\ DOMAIN m \subseteq Names
         /\ m \in [DOMAIN m -> IDs]
         /\ \A q \in DOMAIN m : m[q] \in IDs
BY DEF PathMaps

\* A map of some paths to identifiers is a member of PathMaps.
LEMMA PathMapFrom ==
  ASSUME NEW D \in SUBSET Names, NEW m \in [D -> IDs]
  PROVE  m \in PathMaps
BY DEF PathMaps

\* Only the root is at or above the root.
LEMMA NothingAboveRoot ==
  ASSUME NEW q \in Names, AtOrAbove(q, Root)
  PROVE  q = Root
BY NamesAreSequences DEF AtOrAbove, Root

\* AddEntry's edit, with an identifier that no entry has.
LEMMA LinkedKeepsMapOK ==
  ASSUME NEW m, NEW E, MapOK(m, E), NEW path \in Names, NEW id \in IDs, id \notin E
  PROVE  MapOK(Linked(m, path, id), E \cup {id})
<1> DEFINE l == Linked(m, path, id)
<1>1. DOMAIN m \subseteq Names /\ \A q \in DOMAIN m : m[q] \in IDs
  BY PathMapFields DEF MapOK
<1>2. l \in [DOMAIN m \cup {path} -> IDs]
  BY <1>1 DEF Linked
<1>3. l \in PathMaps
  <2> HIDE DEF l
  <2> QED BY <1>1, <1>2, PathMapFrom
<1>4. /\ DOMAIN l = DOMAIN m \cup {path}
      /\ l[path] = id
      /\ \A q \in DOMAIN m : q # path => l[q] = m[q]
  BY DEF Linked
<1>5. OneToOne(l)
  BY LinkedOneToOne DEF MapOK
<1> HIDE DEF l
<1>6. MapOK(l, E \cup {id})
  BY <1>3, <1>4, <1>5 DEF MapOK
<1> QED BY <1>6 DEF l

\* RemoveAll's edit, with the entries that go.
LEMMA WithoutKeepsMapOK ==
  ASSUME NEW m, NEW E, MapOK(m, E), NEW path \in Names, path # Root
  PROVE  MapOK(Without(m, path), E \ IDsAtOrBelow(m, path))
<1> DEFINE w == Without(m, path)
           D == {q \in DOMAIN m : ~AtOrAbove(path, q)}
<1>1. DOMAIN m \subseteq Names /\ m \in [DOMAIN m -> IDs]
  BY PathMapFields DEF MapOK
<1>2. w = [q \in D |-> m[q]]
  BY DEF Without, Restrict
<1>3. w \in [D -> IDs] /\ D \in SUBSET Names
  BY <1>1, <1>2
<1>4. DOMAIN w = D /\ \A q \in D : w[q] = m[q]
  BY <1>2
<1> HIDE DEF w
<1>5. w \in PathMaps
  BY <1>3, PathMapFrom
<1>6. Root \in D
  BY NothingAboveRoot DEF MapOK
<1>7. ASSUME NEW q \in D
      PROVE  w[q] \in E \ IDsAtOrBelow(m, path)
  <2>1. w[q] = m[q] /\ m[q] \in E
    BY <1>4 DEF MapOK
  <2>2. m[q] \notin IDsAtOrBelow(m, path)
    BY DEF IDsAtOrBelow, MapOK, OneToOne
  <2> QED BY <2>1, <2>2
<1>8. OneToOne(w)
  BY <1>4 DEF MapOK, OneToOne
<1>9. MapOK(w, E \ IDsAtOrBelow(m, path))
  BY <1>4, <1>5, <1>6, <1>7, <1>8 DEF MapOK
<1> QED BY <1>9 DEF w

\* Rename's edit, of a file or of a directory.
LEMMA MovedKeepsMapOK ==
  ASSUME NEW m, NEW E, MapOK(m, E), NEW pair \in Renames, NEW type,
         pair[1] # Root, pair[1] \in DOMAIN m
  PROVE  MapOK(Moved(m, pair[1], pair[2], type), E)
<1> DEFINE old == pair[1]
           new == pair[2]
<1>1. /\ old \in Names /\ new \in Names /\ old # new
      /\ old \in Seq(Segments) /\ new \in Seq(Segments)
      /\ \A q \in Names : AtOrAbove(old, q) => Rebase(q, old, new) \in Names
  <2>1. old \in Names /\ new \in Names
    BY RenamesAssumption
  <2>2. ~AtOrAbove(old, new)
    BY RenamesAssumption
  <2>3. AtOrAbove(old, old)
    BY <2>1, NamesAreSequences, AtOrAboveReflexive
  <2> QED BY <2>1, <2>2, <2>3, RenamesAssumption, NamesAreSequences
<1> HIDE DEF old, new
<1>2. /\ DOMAIN m \subseteq Names /\ DOMAIN m \subseteq Seq(Segments)
      /\ m \in [DOMAIN m -> IDs] /\ OneToOne(m)
      /\ Root \in DOMAIN m /\ \A q \in DOMAIN m : m[q] \in E
      /\ old \in DOMAIN m /\ old # Root
  BY PathMapFields, NamesAreSequences DEF MapOK, old
<1>3. ASSUME type = "dir"
      PROVE  MapOK(Moved(m, old, new, type), E)
  <2> DEFINE t == MovedTree(m, old, new)
  <2>1. /\ t = [x \in DOMAIN t |-> t[x]]
        /\ \A x \in DOMAIN m : ~AtOrAbove(old, x) => x \in DOMAIN t
        /\ \A x \in DOMAIN t :
             \/ x \in DOMAIN m /\ ~AtOrAbove(old, x) /\ t[x] = m[x]
             \/ \E q \in DOMAIN m :
                  AtOrAbove(old, q) /\ x = Rebase(q, old, new) /\ t[x] = m[q]
    BY <1>1, <1>2, MovedTreeOrigins
  <2>2. OneToOne(t)
    BY <1>1, <1>2, MovedTreeKeepsFiles
  <2> HIDE DEF t
  <2>3. ASSUME NEW x \in DOMAIN t
        PROVE  x \in Names /\ t[x] \in IDs /\ t[x] \in E
    <3>1. CASE x \in DOMAIN m /\ t[x] = m[x]
      BY <3>1, <1>2
    <3>2. CASE \E q \in DOMAIN m : AtOrAbove(old, q) /\ x = Rebase(q, old, new) /\ t[x] = m[q]
      <4>1. PICK q \in DOMAIN m : AtOrAbove(old, q) /\ x = Rebase(q, old, new) /\ t[x] = m[q]
        BY <3>2
      <4> QED BY <4>1, <1>1, <1>2
    <3> QED BY <3>1, <3>2, <2>1
  <2>4. t \in [DOMAIN t -> IDs] /\ DOMAIN t \in SUBSET Names
    BY <2>1, <2>3
  <2>5. t \in PathMaps
    BY <2>4, PathMapFrom
  <2>6. Root \in DOMAIN t
    BY <2>1, <1>1, <1>2, NothingAboveRoot
  <2>7. MapOK(t, E)
    BY <2>2, <2>3, <2>5, <2>6 DEF MapOK
  <2> QED BY <1>3, <2>7 DEF Moved, t
<1>4. ASSUME type # "dir"
      PROVE  MapOK(Moved(m, old, new, type), E)
  <2> DEFINE t == MovedAlone(m, old, new)
  <2>1. /\ DOMAIN t = (DOMAIN m \ {old}) \cup {new}
        /\ t[new] = m[old]
        /\ \A q \in DOMAIN m \ {old, new} : t[q] = m[q]
        /\ OneToOne(t)
    <3>1. old \in DOMAIN m /\ old # new /\ OneToOne(m)
      BY <1>1, <1>2
    <3>2. /\ DOMAIN t = (DOMAIN m \ {old}) \cup {new}
          /\ t[new] = m[old]
          /\ \A q \in DOMAIN m \ {old, new} : t[q] = m[q]
      BY <3>1 DEF MovedAlone, Linked, Restrict
    <3> HIDE DEF t
    <3>3. OneToOne(t)
      BY <3>1, <3>2 DEF OneToOne
    <3> QED BY <3>2, <3>3
  <2>2. t = [x \in DOMAIN t |-> t[x]]
    BY DEF MovedAlone, Linked
  <2> HIDE DEF t
  <2>3. \A x \in DOMAIN t : x \in Names /\ t[x] \in IDs /\ t[x] \in E
    BY <2>1, <1>1, <1>2
  <2>4. t \in [DOMAIN t -> IDs] /\ DOMAIN t \in SUBSET Names
    BY <2>2, <2>3
  <2>5. t \in PathMaps
    BY <2>4, PathMapFrom
  <2>6. MapOK(t, E)
    BY <2>1, <2>3, <2>5, <1>2 DEF MapOK
  <2> QED BY <1>4, <2>6 DEF Moved, t
<1> QED BY <1>3, <1>4 DEF old, new

-----------------------------------------------------------------------------
(* The inductive invariant, over explicit stores, so that a lemma can      *)
(* speak of two of them: r the reference, e the entries, b the bodies,     *)
(* n the last identifier.                                                  *)

\* What is stored: types, paths, and bodies that are there before their entries.
StoreOK(r, e, b, n) ==
  /\ r \in Reference
  /\ MapOK(r.entries, DOMAIN e)
  /\ n \in IDs
  /\ DOMAIN e \subseteq 1..n
  /\ \A id \in DOMAIN e : e[id] \in Entry /\ e[id].id = id
  /\ DOMAIN b \subseteq 1..n
  /\ \A id \in DOMAIN b : b[id] \in Sizes
  /\ \A id \in DOMAIN e : e[id].type = "file" => id \in DOMAIN b

\* The identifier that a call has made and not yet stored.
NewIDs(s) ==
  IF s.at \in {"add", "addWrite"} THEN {s.entry.id}
  ELSE IF s.at = "put" /\ ~s.known THEN {s.id} ELSE {}

\* The identifier of the entry that a call has read.
ReadIDs(s) ==
  IF s.at \in {"body", "opened", "update", "renameWrite"} THEN {s.entry.id} ELSE {}

\* A reference or an entry that was read is the one stored, or is older.
RefRead(f, r) == f = r \/ f.version < r.version
EntryRead(x, e) ==
  x.id \in DOMAIN e => x = e[x.id] \/ x.version < e[x.id].version

\* An entry about to be written is the one stored with one field edited, or is
\* older.
EntryEdited(x, e) ==
  x.id \in DOMAIN e =>
    \/ x.version < e[x.id].version
    \/ /\ x.version = e[x.id].version
       /\ x.size = e[x.id].size \/ x.deadProps = e[x.id].deadProps

\* What a call remembers.
CallOK(s, r, e, b, n) ==
  /\ s \in Call
  /\ NewIDs(s) \subseteq (1..n) \ DOMAIN e
  /\ ReadIDs(s) \subseteq 1..n
  /\ s.at \in {"addWrite", "delete", "rename", "renameWrite"} => RefRead(s.ref, r)
  /\ s.at \in {"body", "opened", "renameWrite"} => EntryRead(s.entry, e)
  /\ s.at = "update" => EntryEdited(s.entry, e)
  /\ s.at = "put" => s.id <= n /\ (~s.known => s.path # Root)
  /\ s.at \in {"add", "addWrite"} =>
       /\ s.path # Root /\ s.entry.name = Base(s.path)
       /\ s.entry.type = "file" => s.entry.id \in DOMAIN b
  /\ s.at = "delete" => s.path # Root /\ s.path \in DOMAIN s.ref.entries
  /\ s.at \in {"rename", "renameWrite"} =>
       /\ s.pair[1] # Root /\ s.pair[2] # Root
       /\ s.pair[1] \in DOMAIN s.ref.entries
       /\ Parent(s.pair[2]) \in DOMAIN s.ref.entries
  /\ s.at = "renameWrite" => s.entry.id = s.ref.entries[s.pair[1]]

\* No call has made an identifier that another call has made or read.
Apart(s, t) == NewIDs(s) \cap (NewIDs(t) \cup ReadIDs(t)) = {}

\* mux is held by the caller that is between AddEntry's read and write.
MuxOK ==
  /\ mux \in [Instances -> Callers \cup {Nobody}]
  /\ \A c \in Callers : mux[InstanceOf[c]] = c <=> call[c].at = "addWrite"

IInv ==
  /\ StoreOK(reference, entry, bucket, lastID)
  /\ call \in [Callers -> Call]
  /\ \A c \in Callers : CallOK(call[c], reference, entry, bucket, lastID)
  /\ \A c, d \in Callers : c # d => Apart(call[c], call[d])
  /\ MuxOK

-----------------------------------------------------------------------------
(* What a step of one call does to the others *)

\* The fields of a call, by where it is.
LEMMA CallFields ==
  ASSUME NEW s \in Call
  PROVE  /\ s.at \in {"idle", "put", "resize", "open", "body", "opened", "update", "add",
                      "addWrite", "delete", "rename", "renameWrite"}
         /\ s.at = "put" => /\ s.path \in Names /\ s.id \in IDs /\ s.size \in Sizes
                            /\ s.known \in BOOLEAN /\ s.parent \in IDs \cup {NoID}
         /\ s.at = "resize" => s.id \in IDs /\ s.size \in Sizes
         /\ s.at = "open" => s.id \in IDs
         /\ s.at \in {"body", "opened", "update", "add", "addWrite", "renameWrite"} =>
              s.entry \in Entry
         /\ s.at \in {"add", "addWrite", "delete"} => s.path \in Names
         /\ s.at \in {"addWrite", "delete", "rename", "renameWrite"} => s.ref \in Reference
         /\ s.at \in {"rename", "renameWrite"} => s.pair \in Renames
BY DEF Call

\* The fields of an entry.
LEMMA EntryFields ==
  ASSUME NEW x \in Entry
  PROVE  /\ x = [id |-> x.id, parent |-> x.parent, name |-> x.name, type |-> x.type,
                 size |-> x.size, deadProps |-> x.deadProps, version |-> x.version]
         /\ x.id \in IDs /\ x.parent \in IDs \cup {NoID} /\ x.name \in Bases
         /\ x.type \in {"dir", "file"} /\ x.size \in Sizes
         /\ x.deadProps \in SUBSET PropNames /\ x.version \in Nat
BY DEF Entry

\* The fields of the reference.
LEMMA ReferenceFields ==
  ASSUME NEW r \in Reference
  PROVE  /\ r = [entries |-> r.entries, version |-> r.version]
         /\ r.entries \in PathMaps /\ r.version \in Nat
BY DEF Reference

\* The store r2, e2, b2, n2 is one that a step of another call leaves.
Later(s, r, e, b, n, r2, e2, b2, n2) ==
  /\ r2 = r \/ r.version < r2.version
  /\ \A id \in DOMAIN e2 :
       IF id \in DOMAIN e THEN e2[id] = e[id] \/ e[id].version < e2[id].version
       ELSE id \notin NewIDs(s) \cup ReadIDs(s)
  /\ DOMAIN b \subseteq DOMAIN b2
  /\ n <= n2

\* What a call remembers stays right when others step: versions only grow, and
\* nobody else stores the identifier it made.
LEMMA CallOKLater ==
  ASSUME NEW s, NEW r, NEW e, NEW b, NEW n, NEW r2, NEW e2, NEW b2, NEW n2,
         StoreOK(r, e, b, n), StoreOK(r2, e2, b2, n2), CallOK(s, r, e, b, n),
         Later(s, r, e, b, n, r2, e2, b2, n2)
  PROVE  CallOK(s, r2, e2, b2, n2)
<1>1. s \in Call /\ n \in Nat /\ n2 \in Nat /\ n <= n2
  BY DEF CallOK, StoreOK, IDs, Later
<1>2. NewIDs(s) \subseteq (1..n2) \ DOMAIN e2
  BY <1>1 DEF CallOK, Later
<1>3. ReadIDs(s) \subseteq 1..n2
  BY <1>1 DEF CallOK
<1>4. ASSUME s.at \in {"addWrite", "delete", "rename", "renameWrite"}
      PROVE  RefRead(s.ref, r2)
  <2>1. s.ref \in Reference /\ RefRead(s.ref, r)
    BY <1>4, <1>1, CallFields DEF CallOK
  <2>2. r \in Reference /\ r2 \in Reference
    BY DEF StoreOK
  <2>3. s.ref.version \in Nat /\ r.version \in Nat /\ r2.version \in Nat
    BY <2>1, <2>2, ReferenceFields
  <2> QED BY <2>1, <2>3 DEF RefRead, Later
<1>5. ASSUME s.at \in {"body", "opened", "update", "renameWrite"},
             s.entry.id \in DOMAIN e2
      PROVE  /\ s.entry.id \in DOMAIN e
             /\ s.entry.version \in Nat
             /\ e[s.entry.id].version \in Nat /\ e2[s.entry.id].version \in Nat
             /\ \/ e2[s.entry.id] = e[s.entry.id]
                \/ e[s.entry.id].version < e2[s.entry.id].version
  <2>1. s.entry.id \in ReadIDs(s)
    BY <1>5 DEF ReadIDs
  <2>2. s.entry.id \in DOMAIN e
    BY <1>5, <2>1 DEF Later
  <2>3. s.entry \in Entry /\ e[s.entry.id] \in Entry /\ e2[s.entry.id] \in Entry
    BY <1>5, <1>1, <2>2, CallFields DEF StoreOK
  <2> QED BY <1>5, <2>2, <2>3, EntryFields DEF Later
<1>6. ASSUME s.at \in {"body", "opened", "renameWrite"}
      PROVE  EntryRead(s.entry, e2)
  BY <1>5, <1>6 DEF EntryRead, CallOK
<1>7. ASSUME s.at = "update"
      PROVE  EntryEdited(s.entry, e2)
  BY <1>5, <1>7 DEF EntryEdited, CallOK
<1>8. s.at = "put" => s.id <= n2 /\ (~s.known => s.path # Root)
  <2>1. s.at = "put" => s.id \in Nat
    BY <1>1, CallFields DEF IDs
  <2> QED BY <1>1, <2>1 DEF CallOK
<1>9. s.at \in {"add", "addWrite"} =>
        /\ s.path # Root /\ s.entry.name = Base(s.path)
        /\ s.entry.type = "file" => s.entry.id \in DOMAIN b2
  BY DEF CallOK, Later
<1>10. /\ s.at = "delete" => s.path # Root /\ s.path \in DOMAIN s.ref.entries
       /\ s.at \in {"rename", "renameWrite"} =>
            /\ s.pair[1] # Root /\ s.pair[2] # Root
            /\ s.pair[1] \in DOMAIN s.ref.entries
            /\ Parent(s.pair[2]) \in DOMAIN s.ref.entries
       /\ s.at = "renameWrite" => s.entry.id = s.ref.entries[s.pair[1]]
  BY DEF CallOK
<1> QED BY <1>1, <1>2, <1>3, <1>4, <1>6, <1>7, <1>8, <1>9, <1>10 DEF CallOK

\* A step of caller c to stage s keeps the invariant when it leaves a store that
\* is right, later for the other calls, and makes no identifier that they know.
LEMMA StepKeepsIInv ==
  ASSUME IInv, NEW c \in Callers, NEW s,
         call' = [call EXCEPT ![c] = s],
         StoreOK(reference', entry', bucket', lastID'),
         CallOK(s, reference', entry', bucket', lastID'),
         \A d \in Callers \ {c} :
           /\ Later(call[d], reference, entry, bucket, lastID,
                    reference', entry', bucket', lastID')
           /\ Apart(s, call[d]) /\ Apart(call[d], s),
         MuxOK'
  PROVE  IInv'
<1>1. /\ call \in [Callers -> Call]
      /\ call'[c] = s
      /\ \A d \in Callers \ {c} : call'[d] = call[d]
  BY DEF IInv
<1>2. call' \in [Callers -> Call]
  BY <1>1 DEF IInv, CallOK
<1>3. ASSUME NEW d \in Callers
      PROVE  CallOK(call'[d], reference', entry', bucket', lastID')
  <2>1. CASE d = c
    BY <2>1, <1>1
  <2>2. CASE d # c
    <3>1. CallOK(call[d], reference, entry, bucket, lastID)
      BY DEF IInv
    <3>2. Later(call[d], reference, entry, bucket, lastID,
                reference', entry', bucket', lastID')
      BY <2>2
    <3>3. StoreOK(reference, entry, bucket, lastID)
      BY DEF IInv
    <3>4. CallOK(call[d], reference', entry', bucket', lastID')
      BY <3>1, <3>2, <3>3, CallOKLater
    <3> QED BY <3>4, <2>2, <1>1
  <2> QED BY <2>1, <2>2
<1>4. ASSUME NEW d \in Callers, NEW f \in Callers, d # f
      PROVE  Apart(call'[d], call'[f])
  <2>1. CASE d = c
    BY <2>1, <1>1, <1>4
  <2>2. CASE f = c
    BY <2>2, <1>1, <1>4
  <2>3. CASE d # c /\ f # c
    BY <2>3, <1>1, <1>4 DEF IInv
  <2> QED BY <2>1, <2>2, <2>3
<1> QED BY <1>2, <1>3, <1>4 DEF IInv

\* A step that reads, or makes an identifier, and stores nothing.
LEMMA QuietStep ==
  ASSUME IInv, NEW c \in Callers, NEW s,
         call' = [call EXCEPT ![c] = s], UNCHANGED Stored,
         lastID' \in IDs, lastID <= lastID',
         CallOK(s, reference, entry, bucket, lastID'),
         NewIDs(s) \subseteq NewIDs(call[c]) \cup {id \in IDs : lastID < id},
         ReadIDs(s) \subseteq ReadIDs(call[c]) \cup DOMAIN entry,
         MuxOK'
  PROVE  IInv'
<1>1. reference' = reference /\ entry' = entry /\ bucket' = bucket
  BY DEF Stored
<1>2. StoreOK(reference, entry, bucket, lastID) /\ lastID \in Nat /\ lastID' \in Nat
  BY DEF IInv, StoreOK, IDs
<1>3. StoreOK(reference', entry', bucket', lastID')
  BY <1>1, <1>2 DEF StoreOK
<1>4. ASSUME NEW d \in Callers \ {c}
      PROVE  Apart(s, call[d]) /\ Apart(call[d], s)
  <2>1. CallOK(call[d], reference, entry, bucket, lastID)
    BY DEF IInv
  <2>2. /\ NewIDs(call[d]) \subseteq (1..lastID) \ DOMAIN entry
        /\ ReadIDs(call[d]) \subseteq 1..lastID
    BY <2>1 DEF CallOK
  <2>3. Apart(call[c], call[d]) /\ Apart(call[d], call[c])
    BY DEF IInv
  <2>4. {id \in IDs : lastID < id} \cap (1..lastID) = {}
    BY <1>2
  <2>5. Apart(s, call[d])
    BY <2>2, <2>3, <2>4 DEF Apart
  <2>6. Apart(call[d], s)
    BY <2>2, <2>3, <2>4 DEF Apart
  <2> QED BY <2>5, <2>6
<1>5. \A d \in Callers \ {c} :
        Later(call[d], reference, entry, bucket, lastID, reference', entry', bucket', lastID')
  BY <1>1 DEF Later
<1>6. CallOK(s, reference', entry', bucket', lastID')
  BY <1>1
<1> QED BY <1>3, <1>4, <1>5, <1>6, StepKeepsIInv

\* A step that stores something and returns.
LEMMA WriteStep ==
  ASSUME IInv, NEW c \in Callers, Return(c),
         StoreOK(reference', entry', bucket', lastID'),
         \A d \in Callers \ {c} :
           Later(call[d], reference, entry, bucket, lastID,
                 reference', entry', bucket', lastID'),
         MuxOK'
  PROVE  IInv'
<1> DEFINE s == [at |-> "idle"]
<1>1. call' = [call EXCEPT ![c] = s]
  BY DEF Return, Goto
<1>2. NewIDs(s) = {} /\ ReadIDs(s) = {}
  BY DEF NewIDs, ReadIDs
<1>3. CallOK(s, reference', entry', bucket', lastID')
  BY <1>2 DEF CallOK, Call
<1>4. \A d \in Callers \ {c} : Apart(s, call[d]) /\ Apart(call[d], s)
  <2> SUFFICES ASSUME NEW d \in Callers \ {c}
               PROVE  Apart(s, call[d]) /\ Apart(call[d], s)
    OBVIOUS
  <2>1. NewIDs(call[d]) \cap ReadIDs(s) = {} /\ NewIDs(call[d]) \cap NewIDs(s) = {}
    BY <1>2
  <2> QED BY <1>2, <2>1 DEF Apart
<1> HIDE DEF s
<1> QED BY <1>1, <1>3, <1>4, StepKeepsIInv

\* A call that returns without storing anything.
LEMMA QuietReturn ==
  ASSUME IInv, NEW c \in Callers, Return(c), UNCHANGED <<Stored, lastID>>, MuxOK'
  PROVE  IInv'
<1>1. reference' = reference /\ entry' = entry /\ bucket' = bucket /\ lastID' = lastID
  BY DEF Stored
<1>2. lastID \in Nat /\ StoreOK(reference', entry', bucket', lastID')
  BY <1>1 DEF IInv, StoreOK, IDs
<1>3. \A d \in Callers \ {c} :
        Later(call[d], reference, entry, bucket, lastID, reference', entry', bucket', lastID')
  BY <1>1, <1>2 DEF Later
<1> QED BY <1>2, <1>3, WriteStep

-----------------------------------------------------------------------------
(* mux *)

\* A step that neither takes nor gives back mux.
LEMMA MuxLeft ==
  ASSUME IInv, NEW c \in Callers, NEW s, call' = [call EXCEPT ![c] = s],
         call[c].at # "addWrite", s.at # "addWrite", UNCHANGED mux
  PROVE  MuxOK'
<1>1. call'[c] = s /\ \A d \in Callers \ {c} : call'[d] = call[d]
  BY DEF IInv
<1>2. mux' \in [Instances -> Callers \cup {Nobody}]
  BY DEF IInv, MuxOK
<1>3. ASSUME NEW d \in Callers
      PROVE  mux'[InstanceOf[d]] = d <=> call'[d].at = "addWrite"
  BY <1>1 DEF IInv, MuxOK
<1> QED BY <1>2, <1>3 DEF MuxOK

\* The deferred Unlock.
LEMMA MuxGivenBack ==
  ASSUME IInv, NEW c \in Callers, Return(c), mux' = Unlocked(c)
  PROVE  MuxOK'
<1>1. call'[c].at # "addWrite" /\ \A d \in Callers \ {c} : call'[d] = call[d]
  BY DEF IInv, Return, Goto
<1>2. InstanceOf[c] \in Instances /\ \A d \in Callers : InstanceOf[d] \in Instances /\ d # Nobody
  BY CallersAssumption, NobodyAssumption DEF Nobody
<1>3. /\ mux \in [Instances -> Callers \cup {Nobody}]
      /\ \A d \in Callers : mux[InstanceOf[d]] = d <=> call[d].at = "addWrite"
  BY DEF IInv, MuxOK
<1>4. /\ mux' \in [Instances -> Callers \cup {Nobody}]
      /\ \A i \in Instances \ {InstanceOf[c]} : mux'[i] = mux[i]
      /\ mux'[InstanceOf[c]] = IF mux[InstanceOf[c]] = c THEN Nobody ELSE mux[InstanceOf[c]]
  BY <1>2, <1>3 DEF Unlocked
<1>5. ASSUME NEW d \in Callers
      PROVE  mux'[InstanceOf[d]] = d <=> call'[d].at = "addWrite"
  <2>1. CASE d = c
    BY <2>1, <1>1, <1>2, <1>3, <1>4
  <2>2. CASE d # c
    BY <2>2, <1>1, <1>2, <1>3, <1>4
  <2> QED BY <2>1, <2>2
<1> QED BY <1>4, <1>5 DEF MuxOK

\* AddEntry takes a mux that nobody holds.
LEMMA MuxTaken ==
  ASSUME IInv, NEW c \in Callers, NEW s, call' = [call EXCEPT ![c] = s],
         s.at = "addWrite", mux[InstanceOf[c]] = Nobody,
         mux' = [mux EXCEPT ![InstanceOf[c]] = c]
  PROVE  MuxOK'
<1>1. call'[c].at = "addWrite" /\ \A d \in Callers \ {c} : call'[d] = call[d]
  BY DEF IInv
<1>2. InstanceOf[c] \in Instances /\ \A d \in Callers : InstanceOf[d] \in Instances /\ d # Nobody
  BY CallersAssumption, NobodyAssumption DEF Nobody
<1>3. /\ mux \in [Instances -> Callers \cup {Nobody}]
      /\ \A d \in Callers : mux[InstanceOf[d]] = d <=> call[d].at = "addWrite"
  BY DEF IInv, MuxOK
<1>4. /\ mux' \in [Instances -> Callers \cup {Nobody}]
      /\ \A i \in Instances \ {InstanceOf[c]} : mux'[i] = mux[i]
      /\ mux'[InstanceOf[c]] = c
  BY <1>2, <1>3
<1>5. ASSUME NEW d \in Callers
      PROVE  mux'[InstanceOf[d]] = d <=> call'[d].at = "addWrite"
  <2>1. CASE d = c
    BY <2>1, <1>1, <1>4
  <2>2. CASE d # c
    BY <2>2, <1>1, <1>2, <1>3, <1>4
  <2> QED BY <2>1, <2>2
<1> QED BY <1>4, <1>5 DEF MuxOK

-----------------------------------------------------------------------------
(* Init and the actions *)

\* The last segment of a path is one of the names an entry can have.
LEMMA BaseType ==
  ASSUME NEW path \in Names
  PROVE  Base(path) \in Bases
<1>1. path \in Seq(Segments)
  BY NamesAreSequences
<1>2. CASE path = Root
  BY <1>2 DEF Base, Bases
<1>3. CASE path # Root
  <2>1. Len(path) \in 1..Len(path)
    BY <1>1, <1>3 DEF Root
  <2> QED BY <1>1, <1>3, <2>1 DEF Base, Bases
<1> QED BY <1>2, <1>3

\* A new entry has its type.
LEMMA NewEntryType ==
  ASSUME NEW id \in IDs, NEW parent \in IDs \cup {NoID}, NEW path \in Names,
         NEW type \in {"dir", "file"}, NEW size \in Sizes
  PROVE  /\ NewEntry(id, parent, path, type, size) \in Entry
         /\ NewEntry(id, parent, path, type, size).id = id
         /\ NewEntry(id, parent, path, type, size).type = type
         /\ NewEntry(id, parent, path, type, size).name = Base(path)
BY BaseType DEF NewEntry, Entry

\* IInv holds of the state that Init of the metadata store leaves.
LEMMA InitIInv == Init => IInv
<1> SUFFICES ASSUME Init PROVE IInv
  OBVIOUS
<1>1. 1 \in IDs /\ 0 \in Sizes /\ Root \in Names
  BY BoundsAssumption, SizesAssumption, NamesAreSequences DEF IDs
<1>2. /\ DOMAIN entry = {1} /\ entry[1] = NewEntry(1, NoID, Root, "dir", 0)
      /\ bucket = << >> /\ lastID = 1
  BY DEF Init
<1>3. /\ entry[1] \in Entry /\ entry[1].id = 1 /\ entry[1].type = "dir"
  BY <1>1, <1>2, NewEntryType
<1>4. reference = [entries |-> [q \in {Root} |-> 1], version |-> 1]
  BY DEF Init
<1>5. MapOK(reference.entries, DOMAIN entry) /\ reference \in Reference
  <2> DEFINE m == [q \in {Root} |-> 1]
  <2>1. m \in [{Root} -> IDs] /\ {Root} \in SUBSET Names
    BY <1>1
  <2>2. DOMAIN m = {Root} /\ m[Root] = 1
    OBVIOUS
  <2> HIDE DEF m
  <2>3. m \in PathMaps
    BY <2>1, PathMapFrom
  <2>4. MapOK(m, DOMAIN entry)
    BY <1>2, <2>2, <2>3 DEF MapOK, OneToOne
  <2>5. reference = [entries |-> m, version |-> 1]
    BY <1>4 DEF m
  <2> QED BY <2>3, <2>4, <2>5 DEF Reference
<1>6. DOMAIN bucket = {}
  BY <1>2
<1>7. StoreOK(reference, entry, bucket, lastID)
  BY <1>1, <1>2, <1>3, <1>5, <1>6 DEF StoreOK
<1>8. ASSUME NEW c \in Callers
      PROVE  /\ CallOK(call[c], reference, entry, bucket, lastID)
             /\ NewIDs(call[c]) = {} /\ ReadIDs(call[c]) = {}
  <2>1. call[c] = [at |-> "idle"]
    BY DEF Init
  <2> QED BY <2>1 DEF CallOK, Call, NewIDs, ReadIDs
<1>9. call \in [Callers -> Call]
  <2>1. [at |-> "idle"] \in Call
    BY DEF Call
  <2> QED BY <2>1 DEF Init
<1>10. MuxOK
  BY CallersAssumption, NobodyAssumption DEF Init, MuxOK, Nobody
<1> QED BY <1>7, <1>8, <1>9, <1>10 DEF IInv, Apart

\* What IInv says of the store and of one call.
LEMMA IInvFields ==
  ASSUME IInv, NEW c \in Callers
  PROVE  /\ StoreOK(reference, entry, bucket, lastID)
         /\ reference \in Reference /\ reference.version \in Nat
         /\ reference.entries \in PathMaps
         /\ \A q \in DOMAIN reference.entries :
              reference.entries[q] \in IDs /\ reference.entries[q] \in DOMAIN entry
         /\ Root \in DOMAIN reference.entries
         /\ lastID \in IDs /\ lastID \in Nat
         /\ CallOK(call[c], reference, entry, bucket, lastID)
         /\ call[c] \in Call
         /\ MuxOK
BY ReferenceFields, PathMapFields DEF IInv, StoreOK, CallOK, MapOK, IDs

\* Mkdir makes an identifier that nothing has.
LEMMA MkdirKeepsIInv ==
  ASSUME IInv, NEW c \in Callers, NEW path \in Names, Mkdir(c, path)
  PROVE  IInv'
<1> DEFINE new == NewEntry(lastID + 1, reference.entries[Parent(path)], path, "dir", 0)
           s   == [at |-> "add", path |-> path, entry |-> new]
<1>1. /\ call[c].at = "idle" /\ path # Root
      /\ Parent(path) \in DOMAIN reference.entries
      /\ lastID < MaxIDs /\ lastID' = lastID + 1
      /\ call' = [call EXCEPT ![c] = s]
      /\ UNCHANGED Stored /\ UNCHANGED mux
  BY DEF Mkdir, Goto
<1>2. lastID \in Nat /\ lastID + 1 \in IDs /\ lastID + 1 \notin DOMAIN entry
  BY <1>1, IInvFields, BoundsAssumption DEF IDs, StoreOK
<1>3. new \in Entry /\ new.id = lastID + 1 /\ new.type = "dir" /\ new.name = Base(path)
  BY <1>1, <1>2, IInvFields, NewEntryType, SizesAssumption
<1> HIDE DEF new
<1>4. NewIDs(s) = {lastID + 1} /\ ReadIDs(s) = {} /\ s.at = "add"
  BY <1>3 DEF NewIDs, ReadIDs
<1>5. CallOK(s, reference, entry, bucket, lastID + 1)
  BY <1>1, <1>2, <1>3, <1>4 DEF CallOK, Call
<1> HIDE DEF s
<1>6. MuxOK'
  BY <1>1, <1>4, MuxLeft
<1>7. /\ lastID' \in IDs /\ lastID <= lastID'
      /\ CallOK(s, reference, entry, bucket, lastID')
      /\ NewIDs(s) \subseteq NewIDs(call[c]) \cup {id \in IDs : lastID < id}
      /\ ReadIDs(s) \subseteq ReadIDs(call[c]) \cup DOMAIN entry
  BY <1>1, <1>2, <1>4, <1>5
<1> QED BY <1>1, <1>7, <1>6, QuietStep

\* AddEntry takes mux and reads the reference.
LEMMA AddReadKeepsIInv ==
  ASSUME IInv, NEW c \in Callers, AddRead(c)
  PROVE  IInv'
<1> DEFINE s == [at |-> "addWrite", path |-> call[c].path, entry |-> call[c].entry,
                 ref |-> reference]
<1>1. /\ call[c].at = "add" /\ mux[InstanceOf[c]] = Nobody
      /\ mux' = [mux EXCEPT ![InstanceOf[c]] = c]
      /\ call' = [call EXCEPT ![c] = s]
      /\ UNCHANGED Stored /\ lastID' = lastID
  BY DEF AddRead, Goto
<1>2. /\ call[c].path \in Names /\ call[c].entry \in Entry
      /\ CallOK(call[c], reference, entry, bucket, lastID)
      /\ reference \in Reference /\ lastID \in IDs /\ lastID \in Nat
  BY <1>1, IInvFields, CallFields
<1>3. NewIDs(s) = NewIDs(call[c]) /\ ReadIDs(s) = {} /\ s.at = "addWrite"
  BY <1>1 DEF NewIDs, ReadIDs
<1>4. CallOK(s, reference, entry, bucket, lastID)
  BY <1>1, <1>2, <1>3 DEF CallOK, Call, RefRead
<1> HIDE DEF s
<1>5. MuxOK'
  BY <1>1, <1>3, MuxTaken
<1>6. /\ lastID' \in IDs /\ lastID <= lastID'
      /\ CallOK(s, reference, entry, bucket, lastID')
      /\ NewIDs(s) \subseteq NewIDs(call[c]) \cup {id \in IDs : lastID < id}
      /\ ReadIDs(s) \subseteq ReadIDs(call[c]) \cup DOMAIN entry
  BY <1>1, <1>2, <1>3, <1>4
<1> QED BY <1>1, <1>6, <1>5, QuietStep

\* AddEntry's read fails; mux is given back.
LEMMA AddReadFailsKeepsIInv ==
  ASSUME IInv, NEW c \in Callers, AddReadFails(c)
  PROVE  IInv'
<1> DEFINE s == [at |-> "idle"]
<1>1. /\ call[c].at # "addWrite" /\ Return(c)
      /\ UNCHANGED <<Stored, lastID>> /\ UNCHANGED mux
  BY DEF AddReadFails
<1>2. call' = [call EXCEPT ![c] = s] /\ s.at # "addWrite"
  BY <1>1 DEF Return, Goto
<1> HIDE DEF s
<1>3. MuxOK'
  BY <1>1, <1>2, MuxLeft
<1> QED BY <1>1, <1>3, QuietReturn

\* A request fails; the deferred Unlock runs.
LEMMA FailKeepsIInv ==
  ASSUME IInv, NEW c \in Callers, Fail(c)
  PROVE  IInv'
BY MuxGivenBack, QuietReturn DEF Fail

\* Create finds the identifier of its path, or makes one.
LEMMA CreateKeepsIInv ==
  ASSUME IInv, NEW c \in Callers, NEW path \in Names, NEW size \in Sizes,
         Create(c, path, size)
  PROVE  IInv'
<1>1. call[c].at = "idle" /\ UNCHANGED Stored /\ UNCHANGED mux
  BY DEF Create
<1>2. CASE path \in DOMAIN reference.entries
  <2> DEFINE id == reference.entries[path]
             s  == [at |-> "put", path |-> path, size |-> size, known |-> TRUE,
                    id |-> id, parent |-> NoID]
  <2>1. call' = [call EXCEPT ![c] = s] /\ lastID' = lastID
    BY <1>2 DEF Create, Goto
  <2>2. /\ id \in IDs /\ id \in DOMAIN entry /\ id <= lastID
        /\ lastID \in IDs /\ lastID \in Nat
    BY <1>2, IInvFields DEF StoreOK
  <2> HIDE DEF id
  <2>3. NewIDs(s) = {} /\ ReadIDs(s) = {} /\ s.at = "put"
    BY DEF NewIDs, ReadIDs
  <2>4. CallOK(s, reference, entry, bucket, lastID)
    BY <2>2, <2>3 DEF CallOK, Call
  <2> HIDE DEF s
  <2>5. MuxOK'
    BY <1>1, <2>1, <2>3, MuxLeft
  <2>6. /\ lastID' \in IDs /\ lastID <= lastID'
        /\ CallOK(s, reference, entry, bucket, lastID')
        /\ NewIDs(s) \subseteq NewIDs(call[c]) \cup {i \in IDs : lastID < i}
        /\ ReadIDs(s) \subseteq ReadIDs(call[c]) \cup DOMAIN entry
    BY <2>1, <2>2, <2>3, <2>4
  <2> QED BY <1>1, <2>1, <2>5, <2>6, QuietStep
<1>3. CASE path \notin DOMAIN reference.entries
  <2> DEFINE parent == IF Parent(path) \in DOMAIN reference.entries
                       THEN reference.entries[Parent(path)] ELSE NoID
             s      == [at |-> "put", path |-> path, size |-> size, known |-> FALSE,
                        id |-> lastID + 1, parent |-> parent]
  <2>1. call' = [call EXCEPT ![c] = s] /\ lastID' = lastID + 1 /\ lastID < MaxIDs
    <3>1. (path \in DOMAIN reference.entries) = FALSE
      BY <1>3
    <3>2. lastID' = lastID + 1 /\ lastID < MaxIDs
      BY <1>3 DEF Create
    <3>3. call' = [call EXCEPT ![c] = s]
      BY <3>1 DEF Create, Goto
    <3> QED BY <3>2, <3>3
  <2>2. /\ lastID \in Nat /\ lastID + 1 \in IDs /\ lastID + 1 \notin DOMAIN entry
        /\ parent \in IDs \cup {NoID} /\ path # Root
    BY <1>3, <2>1, IInvFields, BoundsAssumption DEF IDs, StoreOK
  <2> HIDE DEF parent
  <2>3. NewIDs(s) = {lastID + 1} /\ ReadIDs(s) = {} /\ s.at = "put"
    BY DEF NewIDs, ReadIDs
  <2>4. CallOK(s, reference, entry, bucket, lastID + 1)
    <3>1. s \in Call
      BY <2>2 DEF Call
    <3>2. s.id = lastID + 1 /\ s.path = path
      OBVIOUS
    <3> HIDE DEF s
    <3>3. NewIDs(s) \subseteq (1..(lastID + 1)) \ DOMAIN entry
      BY <2>2, <2>3
    <3> QED BY <2>2, <2>3, <3>1, <3>2, <3>3 DEF CallOK
  <2> HIDE DEF s
  <2>5. MuxOK'
    BY <1>1, <2>1, <2>3, MuxLeft
  <2>6. /\ lastID' \in IDs /\ lastID <= lastID'
        /\ CallOK(s, reference, entry, bucket, lastID')
        /\ NewIDs(s) \subseteq NewIDs(call[c]) \cup {i \in IDs : lastID < i}
        /\ ReadIDs(s) \subseteq ReadIDs(call[c]) \cup DOMAIN entry
    BY <2>1, <2>2, <2>3, <2>4
  <2> QED BY <1>1, <2>1, <2>5, <2>6, QuietStep
<1> QED BY <1>2, <1>3

\* A request that returns what is stored, and a call that goes on or gives up.
LEMMA ReadStep ==
  ASSUME IInv, NEW c \in Callers, NEW s,
         call' = [call EXCEPT ![c] = s], UNCHANGED <<Stored, lastID, mux>>,
         call[c].at # "addWrite", s.at # "addWrite",
         CallOK(s, reference, entry, bucket, lastID),
         NewIDs(s) = {}, ReadIDs(s) \subseteq ReadIDs(call[c]) \cup DOMAIN entry
  PROVE  IInv'
<1>1. MuxOK'
  BY MuxLeft
<1>2. /\ lastID' = lastID /\ lastID \in IDs /\ lastID \in Nat /\ UNCHANGED Stored
  BY IInvFields
<1>3. /\ lastID' \in IDs /\ lastID <= lastID'
      /\ CallOK(s, reference, entry, bucket, lastID')
      /\ NewIDs(s) \subseteq NewIDs(call[c]) \cup {id \in IDs : lastID < id}
  BY <1>2
<1> QED BY <1>1, <1>2, <1>3, QuietStep

\* RemoveAll remembers the reference it read.
LEMMA RemoveAllKeepsIInv ==
  ASSUME IInv, NEW c \in Callers, NEW path \in Names, RemoveAll(c, path)
  PROVE  IInv'
<1> DEFINE s == [at |-> "delete", path |-> path, ref |-> reference]
<1>1. /\ call[c].at = "idle" /\ path # Root /\ path \in DOMAIN reference.entries
      /\ call' = [call EXCEPT ![c] = s]
      /\ UNCHANGED <<Stored, lastID, mux>>
  BY DEF RemoveAll, Goto
<1>2. reference \in Reference /\ lastID \in IDs /\ lastID \in Nat
  BY IInvFields
<1>3. NewIDs(s) = {} /\ ReadIDs(s) = {} /\ s.at = "delete"
  BY DEF NewIDs, ReadIDs
<1>4. CallOK(s, reference, entry, bucket, lastID)
  BY <1>1, <1>2, <1>3 DEF CallOK, Call, RefRead
<1> HIDE DEF s
<1> QED BY <1>1, <1>3, <1>4, ReadStep

\* Rename remembers the reference it read.
LEMMA RenameKeepsIInv ==
  ASSUME IInv, NEW c \in Callers, NEW pair \in Renames, Rename(c, pair[1], pair[2])
  PROVE  IInv'
<1> DEFINE s == [at |-> "rename", pair |-> pair, ref |-> reference]
<1>0. pair = <<pair[1], pair[2]>>
  BY RenamesAssumption
<1>1. /\ call[c].at = "idle" /\ pair[1] # Root /\ pair[2] # Root
      /\ pair[1] \in DOMAIN reference.entries
      /\ Parent(pair[2]) \in DOMAIN reference.entries
      /\ call' = [call EXCEPT ![c] = s]
      /\ UNCHANGED <<Stored, lastID, mux>>
  BY <1>0 DEF Rename, Goto
<1>2. reference \in Reference /\ lastID \in IDs /\ lastID \in Nat
  BY IInvFields
<1>3. NewIDs(s) = {} /\ ReadIDs(s) = {} /\ s.at = "rename"
  BY DEF NewIDs, ReadIDs
<1>4. CallOK(s, reference, entry, bucket, lastID)
  BY <1>1, <1>2, <1>3 DEF CallOK, Call, RefRead
<1> HIDE DEF s
<1> QED BY <1>1, <1>3, <1>4, ReadStep

\* OpenFile remembers the identifier of its path.
LEMMA OpenFileKeepsIInv ==
  ASSUME IInv, NEW c \in Callers, NEW path \in Names, OpenFile(c, path)
  PROVE  IInv'
<1> DEFINE s == [at |-> "open", id |-> reference.entries[path]]
<1>1. /\ call[c].at = "idle" /\ path \in DOMAIN reference.entries
      /\ call' = [call EXCEPT ![c] = s]
      /\ UNCHANGED <<Stored, lastID, mux>>
  BY DEF OpenFile, Goto
<1>2. reference.entries[path] \in IDs /\ lastID \in IDs /\ lastID \in Nat
  BY <1>1, IInvFields
<1>3. NewIDs(s) = {} /\ ReadIDs(s) = {} /\ s.at = "open"
  BY DEF NewIDs, ReadIDs
<1>4. CallOK(s, reference, entry, bucket, lastID)
  BY <1>1, <1>2, <1>3 DEF CallOK, Call
<1> HIDE DEF s
<1> QED BY <1>1, <1>3, <1>4, ReadStep

\* A call that gives up, in a stage where it does not hold mux.
LEMMA GiveUpKeepsIInv ==
  ASSUME IInv, NEW c \in Callers, call[c].at # "addWrite", Return(c),
         UNCHANGED <<Stored, lastID, mux>>
  PROVE  IInv'
<1> DEFINE s == [at |-> "idle"]
<1>1. call' = [call EXCEPT ![c] = s] /\ s.at # "addWrite"
  BY DEF Return, Goto
<1> HIDE DEF s
<1>2. MuxOK'
  BY <1>1, MuxLeft
<1> QED BY <1>2, QuietReturn

\* Close ends the call.
LEMMA CloseKeepsIInv ==
  ASSUME IInv, NEW c \in Callers, Close(c)
  PROVE  IInv'
BY GiveUpKeepsIInv DEF Close

\* Create reads the entry whose size it will write.
LEMMA ResizeReadKeepsIInv ==
  ASSUME IInv, NEW c \in Callers, ResizeRead(c)
  PROVE  IInv'
<1>1. call[c].at = "resize" /\ UNCHANGED <<Stored, lastID, mux>>
  BY DEF ResizeRead
<1>2. call[c].id \in IDs /\ call[c].size \in Sizes
  BY <1>1, IInvFields, CallFields
<1>3. CASE call[c].id \notin DOMAIN entry
  BY <1>1, <1>3, GiveUpKeepsIInv DEF ResizeRead
<1>4. CASE call[c].id \in DOMAIN entry
  <2> DEFINE old == entry[call[c].id]
             x   == [old EXCEPT !.size = call[c].size]
             s   == [at |-> "update", entry |-> x]
  <2>1. call' = [call EXCEPT ![c] = s]
    BY <1>4 DEF ResizeRead, Goto
  <2>2. /\ old \in Entry /\ old.id = call[c].id
        /\ lastID \in Nat /\ call[c].id \in 1..lastID
    BY <1>4, IInvFields DEF StoreOK
  <2> HIDE DEF old
  <2>3. /\ x \in Entry /\ x.id = call[c].id
        /\ x.version = old.version /\ x.deadProps = old.deadProps
    BY <1>2, <2>2 DEF Entry
  <2>4. EntryEdited(x, entry)
    BY <2>3 DEF EntryEdited, old
  <2> HIDE DEF x
  <2>5. NewIDs(s) = {} /\ ReadIDs(s) = {call[c].id} /\ s.at = "update"
    BY <2>3 DEF NewIDs, ReadIDs
  <2>6. CallOK(s, reference, entry, bucket, lastID)
    BY <2>2, <2>3, <2>4, <2>5 DEF CallOK, Call
  <2> HIDE DEF s
  <2>7. ReadIDs(s) \subseteq ReadIDs(call[c]) \cup DOMAIN entry
    BY <1>4, <2>5
  <2> QED BY <1>1, <2>1, <2>5, <2>6, <2>7, ReadStep
<1> QED BY <1>3, <1>4

\* OpenFile reads the entry.
LEMMA OpenReadKeepsIInv ==
  ASSUME IInv, NEW c \in Callers, OpenRead(c)
  PROVE  IInv'
<1>1. call[c].at = "open" /\ UNCHANGED <<Stored, lastID, mux>>
  BY DEF OpenRead
<1>2. CASE call[c].id \notin DOMAIN entry
  BY <1>1, <1>2, GiveUpKeepsIInv DEF OpenRead
<1>3. CASE call[c].id \in DOMAIN entry
  <2> DEFINE x  == entry[call[c].id]
             at == IF x.type = "dir" THEN "opened" ELSE "body"
             s  == [at |-> at, entry |-> x]
  <2>1. call' = [call EXCEPT ![c] = s]
    BY <1>3 DEF OpenRead, Goto
  <2>2. /\ x \in Entry /\ x.id = call[c].id
        /\ lastID \in Nat /\ call[c].id \in 1..lastID
    BY <1>3, IInvFields DEF StoreOK
  <2>3. EntryRead(x, entry)
    BY <2>2 DEF EntryRead
  <2>4. at \in {"opened", "body"}
    OBVIOUS
  <2> HIDE DEF x, at
  <2>5. NewIDs(s) = {} /\ ReadIDs(s) = {call[c].id} /\ s.at = at /\ at # "addWrite"
    BY <2>2, <2>4 DEF NewIDs, ReadIDs
  <2>6. CallOK(s, reference, entry, bucket, lastID)
    BY <2>2, <2>3, <2>4, <2>5 DEF CallOK, Call
  <2> HIDE DEF s
  <2>7. ReadIDs(s) \subseteq ReadIDs(call[c]) \cup DOMAIN entry
    BY <1>3, <2>5
  <2> QED BY <1>1, <2>1, <2>5, <2>6, <2>7, ReadStep
<1> QED BY <1>2, <1>3

\* OpenFile reads the body.
LEMMA GetObjectKeepsIInv ==
  ASSUME IInv, NEW c \in Callers, GetObject(c)
  PROVE  IInv'
<1>1. call[c].at = "body" /\ UNCHANGED <<Stored, lastID, mux>>
  BY DEF GetObject
<1>2. CASE call[c].entry.id \notin DOMAIN bucket
  BY <1>1, <1>2, GiveUpKeepsIInv DEF GetObject
<1>3. CASE call[c].entry.id \in DOMAIN bucket
  <2> DEFINE s == [at |-> "opened", entry |-> call[c].entry]
  <2>1. call' = [call EXCEPT ![c] = s]
    BY <1>3 DEF GetObject, Goto
  <2>2. /\ CallOK(call[c], reference, entry, bucket, lastID)
        /\ call[c].entry \in Entry
    BY <1>1, IInvFields, CallFields
  <2>3. NewIDs(s) = {} /\ ReadIDs(s) = ReadIDs(call[c]) /\ s.at = "opened"
    BY <1>1 DEF NewIDs, ReadIDs
  <2>4. CallOK(s, reference, entry, bucket, lastID)
    BY <1>1, <2>2, <2>3 DEF CallOK, Call
  <2> HIDE DEF s
  <2> QED BY <1>1, <2>1, <2>3, <2>4, ReadStep
<1> QED BY <1>2, <1>3

\* Patch edits the dead properties of the entry that OpenFile read.
LEMMA PatchKeepsIInv ==
  ASSUME IInv, NEW c \in Callers, NEW name \in PropNames, Patch(c, name)
  PROVE  IInv'
<1> DEFINE old == call[c].entry
<1>1. call[c].at = "opened" /\ UNCHANGED <<Stored, lastID, mux>>
  BY DEF Patch
<1>2. /\ CallOK(call[c], reference, entry, bucket, lastID)
      /\ old \in Entry /\ old.deadProps \in SUBSET PropNames
  BY <1>1, IInvFields, CallFields, EntryFields
<1>3. PICK props \in {old.deadProps \cup {name}, old.deadProps \ {name}} :
        call' = [call EXCEPT ![c] = [at    |-> "update",
                                     entry |-> [old EXCEPT !.deadProps = props]]]
  BY DEF Patch, Goto
<1>4. props \in SUBSET PropNames
  BY <1>2
<1> DEFINE x == [old EXCEPT !.deadProps = props]
           s == [at |-> "update", entry |-> x]
<1>5. EntryRead(old, entry)
  BY <1>1, <1>2 DEF CallOK
<1> HIDE DEF old
<1>6. /\ x \in Entry /\ x.id = old.id
      /\ x.version = old.version /\ x.size = old.size
  BY <1>2, <1>4 DEF Entry
<1>7. EntryEdited(x, entry)
  BY <1>5, <1>6 DEF EntryEdited, EntryRead
<1> HIDE DEF x
<1>8. /\ NewIDs(s) = {} /\ s.at = "update"
      /\ ReadIDs(s) = ReadIDs(call[c])
  BY <1>1, <1>6 DEF NewIDs, ReadIDs, old
<1>9. CallOK(s, reference, entry, bucket, lastID)
  BY <1>2, <1>6, <1>7, <1>8 DEF CallOK, Call
<1>10. call' = [call EXCEPT ![c] = s]
  BY <1>3 DEF x, old
<1> HIDE DEF s
<1> QED BY <1>1, <1>8, <1>9, <1>10, ReadStep

\* Rename reads the entry that its reference names.
LEMMA RenameReadKeepsIInv ==
  ASSUME IInv, NEW c \in Callers, RenameRead(c)
  PROVE  IInv'
<1> DEFINE id == call[c].ref.entries[call[c].pair[1]]
<1>1. call[c].at = "rename" /\ UNCHANGED <<Stored, lastID, mux>>
  BY DEF RenameRead
<1>2. CASE id \notin DOMAIN entry
  BY <1>1, <1>2, GiveUpKeepsIInv DEF RenameRead
<1>3. CASE id \in DOMAIN entry
  <2> DEFINE x == entry[id]
             s == [at |-> "renameWrite", pair |-> call[c].pair, ref |-> call[c].ref,
                   entry |-> x]
  <2>1. call' = [call EXCEPT ![c] = s]
    BY <1>3 DEF RenameRead, Goto
  <2>2. /\ x \in Entry /\ x.id = id /\ lastID \in Nat /\ id \in 1..lastID
    BY <1>3, IInvFields DEF StoreOK
  <2>3. EntryRead(x, entry)
    BY <2>2 DEF EntryRead
  <2>4. /\ CallOK(call[c], reference, entry, bucket, lastID)
        /\ call[c].pair \in Renames /\ call[c].ref \in Reference
        /\ id = call[c].ref.entries[call[c].pair[1]]
    BY <1>1, IInvFields, CallFields
  <2> HIDE DEF x, id
  <2>5. NewIDs(s) = {} /\ ReadIDs(s) = {id} /\ s.at = "renameWrite"
    BY <2>2 DEF NewIDs, ReadIDs
  <2>6. CallOK(s, reference, entry, bucket, lastID)
    BY <1>1, <2>2, <2>3, <2>4, <2>5 DEF CallOK, Call
  <2> HIDE DEF s
  <2>7. ReadIDs(s) \subseteq ReadIDs(call[c]) \cup DOMAIN entry
    BY <1>3, <2>5
  <2> QED BY <1>1, <2>1, <2>5, <2>6, <2>7, ReadStep
<1> QED BY <1>2, <1>3

\* The reference that a call read, when its version is still the one stored.
LEMMA ReferenceUnchanged ==
  ASSUME IInv, NEW c \in Callers,
         call[c].at \in {"addWrite", "delete", "rename", "renameWrite"},
         CurrentReference(call[c].ref)
  PROVE  call[c].ref = reference
<1>1. RefRead(call[c].ref, reference)
  BY IInvFields DEF CallOK
<1>2. call[c].ref.version = reference.version /\ reference.version \in Nat
  BY IInvFields DEF CurrentReference
<1> QED BY <1>1, <1>2 DEF RefRead

\* The write of the reference, and what it is for the calls that read it before.
LEMMA ReferenceWritten ==
  ASSUME IInv, NEW m \in PathMaps, WriteReference(m)
  PROVE  /\ reference' \in Reference
         /\ reference'.entries = m
         /\ reference.version < reference'.version
<1>1. reference.version \in Nat
  BY ReferenceFields DEF IInv, StoreOK
<1> QED BY <1>1 DEF WriteReference, Reference

\* A stored entry gets new fields and the next version.
LEMMA EntryWritten ==
  ASSUME NEW r, NEW e, NEW b, NEW n, StoreOK(r, e, b, n),
         NEW id \in DOMAIN e, NEW y \in Entry,
         y.id = id, y.type = e[id].type, e[id].version < y.version
  PROVE  LET e2 == [e EXCEPT ![id] = y]
         IN  /\ StoreOK(r, e2, b, n)
             /\ DOMAIN e2 = DOMAIN e
             /\ \A i \in DOMAIN e2 : e2[i] = e[i] \/ e[i].version < e2[i].version
<1> DEFINE e2 == [e EXCEPT ![id] = y]
<1>1. DOMAIN e2 = DOMAIN e /\ e2[id] = y /\ \A i \in DOMAIN e \ {id} : e2[i] = e[i]
  OBVIOUS
<1> HIDE DEF e2
<1>2. StoreOK(r, e2, b, n)
  BY <1>1 DEF StoreOK
<1>3. \A i \in DOMAIN e2 : e2[i] = e[i] \/ e[i].version < e2[i].version
  BY <1>1
<1> QED BY <1>1, <1>2, <1>3 DEF e2

\* What UpdateEntry writes is an entry, and the next one.
LEMMA UpdatedType ==
  ASSUME NEW old \in Entry, NEW x \in Entry
  PROVE  /\ Updated(old, x) \in Entry
         /\ Updated(old, x).id = old.id /\ Updated(old, x).type = old.type
         /\ Updated(old, x).parent = old.parent /\ Updated(old, x).name = old.name
         /\ Updated(old, x).size = x.size /\ Updated(old, x).deadProps = x.deadProps
         /\ old.version < Updated(old, x).version
<1> DEFINE size      == x.size
           deadProps == x.deadProps
           version   == old.version + 1
<1>1. size \in Sizes /\ deadProps \in SUBSET PropNames /\ version \in Nat /\ old.version < version
  BY EntryFields
<1>2. Updated(old, x) =
        [old EXCEPT !.size = size, !.deadProps = deadProps, !.version = version]
  BY DEF Updated
<1> HIDE DEF size, deadProps, version
<1>3. Updated(old, x) \in Entry
  BY <1>1, <1>2 DEF Entry
<1>4. /\ Updated(old, x).id = old.id /\ Updated(old, x).type = old.type
      /\ Updated(old, x).parent = old.parent /\ Updated(old, x).name = old.name
      /\ Updated(old, x).size = size /\ Updated(old, x).deadProps = deadProps
      /\ Updated(old, x).version = version
  BY <1>2 DEF Entry
<1> QED BY <1>1, <1>3, <1>4 DEF size, deadProps, version

\* So is what UpdateEntryName writes.
LEMMA PlacedType ==
  ASSUME NEW old \in Entry, NEW new \in Names, NEW parent \in IDs
  PROVE  /\ Placed(old, new, parent) \in Entry
         /\ Placed(old, new, parent).id = old.id /\ Placed(old, new, parent).type = old.type
         /\ Placed(old, new, parent).size = old.size
         /\ Placed(old, new, parent).deadProps = old.deadProps
         /\ old.version < Placed(old, new, parent).version
<1> DEFINE name    == Base(new)
           version == old.version + 1
<1>1. name \in Bases /\ version \in Nat /\ old.version < version
  BY EntryFields, BaseType
<1>2. Placed(old, new, parent) =
        [old EXCEPT !.name = name, !.parent = parent, !.version = version]
  BY DEF Placed
<1> HIDE DEF name, version
<1>3. Placed(old, new, parent) \in Entry
  BY <1>1, <1>2 DEF Entry
<1>4. /\ Placed(old, new, parent).id = old.id /\ Placed(old, new, parent).type = old.type
      /\ Placed(old, new, parent).size = old.size
      /\ Placed(old, new, parent).deadProps = old.deadProps
      /\ Placed(old, new, parent).version = version
  BY <1>2 DEF Entry
<1> QED BY <1>1, <1>3, <1>4

\* UpdateEntry writes an entry that still has the version that was read.
LEMMA UpdateWriteKeepsIInv ==
  ASSUME IInv, NEW c \in Callers, UpdateWrite(c)
  PROVE  IInv'
<1> DEFINE x  == call[c].entry
           id == x.id
           y  == Updated(entry[id], x)
<1>1. /\ call[c].at = "update" /\ CurrentEntry(x)
      /\ entry' = [entry EXCEPT ![id] = y] /\ Return(c)
      /\ UNCHANGED <<reference, bucket, lastID, mux>>
  BY DEF UpdateWrite
<1>2. id \in DOMAIN entry
  BY <1>1 DEF CurrentEntry
<1>3. /\ x \in Entry /\ StoreOK(reference, entry, bucket, lastID)
      /\ entry[id] \in Entry /\ entry[id].id = id
  BY <1>1, <1>2, IInvFields, CallFields DEF StoreOK
<1> HIDE DEF id
<1>4. /\ y \in Entry /\ y.id = id /\ y.type = entry[id].type
      /\ entry[id].version < y.version
  BY <1>3, UpdatedType
<1> HIDE DEF y
<1>5. /\ StoreOK(reference, entry', bucket, lastID)
      /\ DOMAIN entry' = DOMAIN entry
      /\ \A i \in DOMAIN entry' : entry'[i] = entry[i] \/ entry[i].version < entry'[i].version
  BY <1>1, <1>2, <1>3, <1>4, EntryWritten
<1>6. StoreOK(reference', entry', bucket', lastID')
  BY <1>1, <1>5
<1>7. \A d \in Callers \ {c} :
        Later(call[d], reference, entry, bucket, lastID, reference', entry', bucket', lastID')
  BY <1>1, <1>5, IInvFields DEF Later
<1>8. MuxOK'
  <2> DEFINE s == [at |-> "idle"]
  <2>1. call' = [call EXCEPT ![c] = s] /\ s.at # "addWrite"
    BY <1>1 DEF Return, Goto
  <2> HIDE DEF s
  <2> QED BY <1>1, <2>1, MuxLeft
<1> QED BY <1>1, <1>6, <1>7, <1>8, WriteStep

\* DeleteEntries removes the paths and entries of a subtree.
LEMMA DeleteWriteKeepsIInv ==
  ASSUME IInv, NEW c \in Callers, DeleteWrite(c)
  PROVE  IInv'
<1> DEFINE path == call[c].path
           m    == reference.entries
           gone == IDsAtOrBelow(m, path)
<1>1. /\ call[c].at = "delete" /\ CurrentReference(call[c].ref)
      /\ Return(c) /\ UNCHANGED <<bucket, lastID, mux>>
  BY DEF DeleteWrite
<1>2. call[c].ref = reference
  BY <1>1, ReferenceUnchanged
<1>3. /\ path \in Names /\ path # Root
      /\ StoreOK(reference, entry, bucket, lastID) /\ lastID \in Nat
      /\ MapOK(m, DOMAIN entry)
  BY <1>1, IInvFields, CallFields DEF CallOK, StoreOK
<1>4. /\ WriteReference(Without(m, path))
      /\ entry' = Restrict(entry, DOMAIN entry \ gone)
  BY <1>2 DEF DeleteWrite
<1>5. DOMAIN entry' = DOMAIN entry \ gone /\ \A id \in DOMAIN entry' : entry'[id] = entry[id]
  BY <1>4 DEF Restrict
<1> HIDE DEF path, m
<1>6. MapOK(Without(m, path), DOMAIN entry \ gone)
  BY <1>3, WithoutKeepsMapOK
<1>7. /\ reference' \in Reference
      /\ reference'.entries = Without(m, path)
      /\ reference.version < reference'.version
  BY <1>4, <1>6, ReferenceWritten DEF MapOK
<1> HIDE DEF gone
<1>8. StoreOK(reference', entry', bucket', lastID')
  BY <1>1, <1>3, <1>5, <1>6, <1>7 DEF StoreOK
<1>9. \A d \in Callers \ {c} :
        Later(call[d], reference, entry, bucket, lastID, reference', entry', bucket', lastID')
  BY <1>1, <1>3, <1>5, <1>7 DEF Later
<1>10. MuxOK'
  <2> DEFINE s == [at |-> "idle"]
  <2>1. call' = [call EXCEPT ![c] = s] /\ s.at # "addWrite"
    BY <1>1 DEF Return, Goto
  <2> HIDE DEF s
  <2> QED BY <1>1, <2>1, MuxLeft
<1> QED BY <1>1, <1>8, <1>9, <1>10, WriteStep

\* UpdateEntryName moves paths and places the entry.
LEMMA RenameWriteKeepsIInv ==
  ASSUME IInv, NEW c \in Callers, RenameWrite(c)
  PROVE  IInv'
<1> DEFINE pair == call[c].pair
           m    == reference.entries
           x    == call[c].entry
           y    == Placed(entry[x.id], pair[2], m[Parent(pair[2])])
<1>1. /\ call[c].at = "renameWrite" /\ CurrentReference(call[c].ref) /\ CurrentEntry(x)
      /\ Return(c) /\ UNCHANGED <<bucket, lastID, mux>>
  BY DEF RenameWrite
<1>2. call[c].ref = reference
  BY <1>1, ReferenceUnchanged
<1>3. /\ WriteReference(Moved(m, pair[1], pair[2], x.type))
      /\ entry' = [entry EXCEPT ![x.id] = y]
  BY <1>2 DEF RenameWrite
<1>4. /\ pair \in Renames /\ pair[1] # Root /\ pair[1] \in DOMAIN m
      /\ Parent(pair[2]) \in DOMAIN m /\ pair[2] \in Names
      /\ StoreOK(reference, entry, bucket, lastID) /\ lastID \in Nat
      /\ MapOK(m, DOMAIN entry)
  <2>1. call[c].pair \in Renames
    BY <1>1, IInvFields, CallFields
  <2>2. CallOK(call[c], reference, entry, bucket, lastID)
    BY IInvFields
  <2>3. /\ pair[1] # Root /\ pair[1] \in DOMAIN m /\ Parent(pair[2]) \in DOMAIN m
    BY <1>1, <1>2, <2>2 DEF CallOK
  <2>4. pair[2] \in Names
    BY <2>1, RenamesAssumption
  <2> QED BY <2>1, <2>3, <2>4, IInvFields DEF StoreOK
<1>5. x.id \in DOMAIN entry /\ entry[x.id] \in Entry /\ entry[x.id].id = x.id
  BY <1>1, <1>4 DEF CurrentEntry, StoreOK
<1>6. m[Parent(pair[2])] \in IDs
  BY <1>4, IInvFields
<1> DEFINE id     == x.id
           parent == m[Parent(pair[2])]
<1> HIDE DEF pair, m, x, parent
<1>7. /\ y \in Entry /\ y.id = id /\ y.type = entry[id].type
      /\ entry[id].version < y.version
  BY <1>4, <1>5, <1>6, PlacedType DEF parent
<1> HIDE DEF y, id
<1>8. /\ StoreOK(reference, entry', bucket, lastID)
      /\ DOMAIN entry' = DOMAIN entry
      /\ \A i \in DOMAIN entry' : entry'[i] = entry[i] \/ entry[i].version < entry'[i].version
  BY <1>3, <1>4, <1>5, <1>7, EntryWritten DEF id
<1>9. MapOK(Moved(m, pair[1], pair[2], x.type), DOMAIN entry)
  BY <1>4, MovedKeepsMapOK
<1>10. /\ reference' \in Reference
       /\ reference'.entries = Moved(m, pair[1], pair[2], x.type)
       /\ reference.version < reference'.version
  BY <1>3, <1>9, ReferenceWritten DEF MapOK
<1>11. StoreOK(reference', entry', bucket', lastID')
  BY <1>1, <1>8, <1>9, <1>10 DEF StoreOK
<1>12. \A d \in Callers \ {c} :
        Later(call[d], reference, entry, bucket, lastID, reference', entry', bucket', lastID')
  BY <1>1, <1>4, <1>8, <1>10 DEF Later
<1>13. MuxOK'
  <2> DEFINE s == [at |-> "idle"]
  <2>1. call' = [call EXCEPT ![c] = s] /\ s.at # "addWrite"
    BY <1>1 DEF Return, Goto
  <2> HIDE DEF s
  <2> QED BY <1>1, <2>1, MuxLeft
<1> QED BY <1>1, <1>11, <1>12, <1>13, WriteStep

\* AddEntry stores the new entry and its path, and gives mux back.
LEMMA AddWriteKeepsIInv ==
  ASSUME IInv, NEW c \in Callers, AddWrite(c)
  PROVE  IInv'
<1> DEFINE path == call[c].path
           x    == call[c].entry
           id   == x.id
           m    == reference.entries
<1>1. /\ call[c].at = "addWrite" /\ CurrentReference(call[c].ref)
      /\ Return(c) /\ UNCHANGED <<bucket, lastID>> /\ mux' = Unlocked(c)
      /\ entry' = Linked(entry, id, x)
  BY DEF AddWrite
<1>2. call[c].ref = reference
  BY <1>1, ReferenceUnchanged
<1>3. WriteReference(Linked(m, path, id))
  BY <1>2 DEF AddWrite
<1>4. /\ path \in Names /\ x \in Entry
      /\ CallOK(call[c], reference, entry, bucket, lastID)
  BY <1>1, IInvFields, CallFields
<1>5. id \in NewIDs(call[c])
  BY <1>1 DEF NewIDs
<1>6. /\ id \in IDs /\ id \in 1..lastID /\ id \notin DOMAIN entry
      /\ x.type = "file" => id \in DOMAIN bucket
  BY <1>1, <1>4, <1>5, EntryFields DEF CallOK
<1>7. /\ StoreOK(reference, entry, bucket, lastID) /\ lastID \in Nat
      /\ MapOK(m, DOMAIN entry)
  BY IInvFields DEF StoreOK
<1>8. ASSUME NEW d \in Callers \ {c}
      PROVE  id \notin NewIDs(call[d]) \cup ReadIDs(call[d])
  BY <1>5 DEF IInv, Apart
<1>9. /\ DOMAIN entry' = DOMAIN entry \cup {id} /\ entry'[id] = x
      /\ \A i \in DOMAIN entry : entry'[i] = entry[i]
  BY <1>1, <1>6 DEF Linked
<1>10. x.id = id
  OBVIOUS
<1> HIDE DEF path, x, id, m
<1>11. MapOK(Linked(m, path, id), DOMAIN entry \cup {id})
  BY <1>4, <1>6, <1>7, LinkedKeepsMapOK
<1>12. /\ reference' \in Reference
       /\ reference'.entries = Linked(m, path, id)
       /\ reference.version < reference'.version
  BY <1>3, <1>11, ReferenceWritten DEF MapOK
<1>13. StoreOK(reference', entry', bucket', lastID')
  <2>1. MapOK(reference'.entries, DOMAIN entry')
    BY <1>9, <1>11, <1>12
  <2>2. \A i \in DOMAIN entry' :
          /\ entry'[i] \in Entry /\ entry'[i].id = i
          /\ entry'[i].type = "file" => i \in DOMAIN bucket
    BY <1>4, <1>6, <1>7, <1>9, <1>10 DEF StoreOK
  <2>3. DOMAIN entry' \subseteq 1..lastID
    BY <1>6, <1>7, <1>9 DEF StoreOK
  <2> QED BY <1>1, <1>7, <1>12, <2>1, <2>2, <2>3 DEF StoreOK
<1>14. \A d \in Callers \ {c} :
        Later(call[d], reference, entry, bucket, lastID, reference', entry', bucket', lastID')
  BY <1>1, <1>7, <1>8, <1>9, <1>12 DEF Later
<1>15. MuxOK'
  BY <1>1, MuxGivenBack
<1> QED BY <1>1, <1>13, <1>14, <1>15, WriteStep

\* The body is stored before the entry is.
LEMMA PutObjectKeepsIInv ==
  ASSUME IInv, NEW c \in Callers, PutObject(c)
  PROVE  IInv'
<1> DEFINE id == call[c].id
           b2 == Linked(bucket, id, call[c].size)
<1>1. /\ call[c].at = "put" /\ bucket' = b2
      /\ UNCHANGED <<reference, entry, lastID, mux>>
      /\ AfterPut(c) \/ Return(c)
  BY DEF PutObject
<1>2. /\ call[c].path \in Names /\ id \in IDs /\ call[c].size \in Sizes
      /\ call[c].known \in BOOLEAN /\ call[c].parent \in IDs \cup {NoID}
      /\ CallOK(call[c], reference, entry, bucket, lastID)
      /\ StoreOK(reference, entry, bucket, lastID) /\ lastID \in Nat
  BY <1>1, IInvFields, CallFields
<1>3. id <= lastID /\ id \in 1..lastID /\ (~call[c].known => call[c].path # Root)
  BY <1>1, <1>2 DEF CallOK, IDs
<1>4. DOMAIN b2 = DOMAIN bucket \cup {id} /\ \A i \in DOMAIN b2 : b2[i] \in Sizes
  BY <1>2 DEF Linked, StoreOK
<1> HIDE DEF b2
<1>5. StoreOK(reference', entry', bucket', lastID')
  BY <1>1, <1>2, <1>3, <1>4 DEF StoreOK
<1>6. \A d \in Callers \ {c} :
        Later(call[d], reference, entry, bucket, lastID, reference', entry', bucket', lastID')
  BY <1>1, <1>2, <1>4 DEF Later
<1>7. ASSUME NEW s, call' = [call EXCEPT ![c] = s], s.at # "addWrite",
             CallOK(s, reference, entry, b2, lastID),
             NewIDs(s) \subseteq NewIDs(call[c]), ReadIDs(s) = {}
      PROVE  IInv'
  <2>1. ASSUME NEW d \in Callers \ {c}
        PROVE  Apart(s, call[d]) /\ Apart(call[d], s)
    <3>1. Apart(call[c], call[d]) /\ Apart(call[d], call[c])
      BY DEF IInv
    <3> QED BY <1>7, <3>1 DEF Apart
  <2>2. CallOK(s, reference', entry', bucket', lastID')
    BY <1>1, <1>7
  <2>3. MuxOK'
    BY <1>1, <1>7, MuxLeft
  <2> QED BY <1>5, <1>6, <1>7, <2>1, <2>2, <2>3, StepKeepsIInv
<1>8. CASE Return(c)
  <2> DEFINE s == [at |-> "idle"]
  <2>1. call' = [call EXCEPT ![c] = s]
    BY <1>8 DEF Return, Goto
  <2>2. NewIDs(s) = {} /\ ReadIDs(s) = {} /\ s.at # "addWrite"
    BY DEF NewIDs, ReadIDs
  <2>3. CallOK(s, reference, entry, b2, lastID)
    BY <2>2 DEF CallOK, Call
  <2> HIDE DEF s
  <2> QED BY <1>7, <2>1, <2>2, <2>3
<1>9. CASE AfterPut(c)
  <2>1. CASE call[c].known
    <3> DEFINE s == [at |-> "resize", id |-> id, size |-> call[c].size]
    <3>1. call' = [call EXCEPT ![c] = s]
      BY <1>9, <2>1 DEF AfterPut, Goto
    <3>2. NewIDs(s) = {} /\ ReadIDs(s) = {} /\ s.at # "addWrite"
      BY DEF NewIDs, ReadIDs
    <3>3. CallOK(s, reference, entry, b2, lastID)
      BY <1>2, <3>2 DEF CallOK, Call
    <3> HIDE DEF s
    <3> QED BY <1>7, <3>1, <3>2, <3>3
  <2>2. CASE ~call[c].known /\ call[c].parent = NoID
    BY <1>8, <1>9, <2>2 DEF AfterPut
  <2>3. CASE ~call[c].known /\ call[c].parent # NoID
    <3> DEFINE new == NewEntry(id, call[c].parent, call[c].path, "file", call[c].size)
               s   == [at |-> "add", path |-> call[c].path, entry |-> new]
    <3>1. call' = [call EXCEPT ![c] = s]
      BY <1>9, <2>3 DEF AfterPut, Goto
    <3>2. /\ new \in Entry /\ new.id = id /\ new.type = "file"
          /\ new.name = Base(call[c].path)
      <4> DEFINE path   == call[c].path
                 parent == call[c].parent
                 size   == call[c].size
      <4>1. /\ path \in Names /\ parent \in IDs \cup {NoID} /\ size \in Sizes
            /\ id \in IDs /\ "file" \in {"dir", "file"}
        BY <1>2
      <4> HIDE DEF id, path, parent, size
      <4>2. /\ NewEntry(id, parent, path, "file", size) \in Entry
            /\ NewEntry(id, parent, path, "file", size).id = id
            /\ NewEntry(id, parent, path, "file", size).type = "file"
            /\ NewEntry(id, parent, path, "file", size).name = Base(path)
        BY <4>1, NewEntryType
      <4> QED BY <4>2 DEF path, parent, size
    <3>3. NewIDs(call[c]) = {id} /\ id \notin DOMAIN entry
      BY <1>1, <1>2, <2>3 DEF NewIDs, CallOK
    <3> HIDE DEF new, id
    <3>4. NewIDs(s) = {id} /\ ReadIDs(s) = {} /\ s.at = "add"
      BY <3>2 DEF NewIDs, ReadIDs
    <3>5. CallOK(s, reference, entry, b2, lastID)
      <4>1. s \in Call
        BY <1>2, <3>2 DEF Call
      <4>2. s.path # Root /\ s.entry.id = id /\ s.entry.name = Base(s.path)
        BY <1>3, <2>3, <3>2
      <4> HIDE DEF s
      <4> QED BY <1>3, <1>4, <3>3, <3>4, <4>1, <4>2 DEF CallOK
    <3> HIDE DEF s
    <3> QED BY <1>7, <3>1, <3>3, <3>4, <3>5
  <2> QED BY <2>1, <2>2, <2>3
<1> QED BY <1>1, <1>8, <1>9

\* IInv is inductive: every step of every call keeps it.
LEMMA NextIInv == IInv /\ [Next]_vars => IInv'
<1> SUFFICES ASSUME IInv, [Next]_vars PROVE IInv'
  OBVIOUS
<1>1. CASE UNCHANGED vars
  <2>1. /\ reference' = reference /\ entry' = entry /\ bucket' = bucket
        /\ lastID' = lastID /\ mux' = mux /\ call' = call
    BY <1>1 DEF vars
  <2>2. MuxOK'
    BY <2>1 DEF IInv, MuxOK
  <2> QED BY <2>1, <2>2 DEF IInv
<1>2. ASSUME NEW c \in Callers, Begin(c)
      PROVE  IInv'
  <2>1. CASE \E path \in Names : Mkdir(c, path)
    BY <2>1, MkdirKeepsIInv
  <2>2. CASE \E path \in Names, size \in Sizes : Create(c, path, size)
    BY <2>2, CreateKeepsIInv
  <2>3. CASE \E path \in Names : RemoveAll(c, path)
    BY <2>3, RemoveAllKeepsIInv
  <2>4. CASE \E path \in Names : OpenFile(c, path)
    BY <2>4, OpenFileKeepsIInv
  <2>5. CASE \E pair \in Renames : Rename(c, pair[1], pair[2])
    BY <2>5, RenameKeepsIInv
  <2> QED BY <1>2, <2>1, <2>2, <2>3, <2>4, <2>5 DEF Begin
<1>3. ASSUME NEW c \in Callers, AddBegin(c)
      PROVE  IInv'
  BY <1>3, AddReadKeepsIInv, AddReadFailsKeepsIInv DEF AddBegin
<1>4. ASSUME NEW c \in Callers, Proceed(c)
      PROVE  IInv'
  <2>1. CASE AddWrite(c)
    BY <2>1, AddWriteKeepsIInv
  <2>2. CASE PutObject(c)
    BY <2>2, PutObjectKeepsIInv
  <2>3. CASE ResizeRead(c)
    BY <2>3, ResizeReadKeepsIInv
  <2>4. CASE UpdateWrite(c)
    BY <2>4, UpdateWriteKeepsIInv
  <2>5. CASE DeleteWrite(c)
    BY <2>5, DeleteWriteKeepsIInv
  <2>6. CASE RenameRead(c)
    BY <2>6, RenameReadKeepsIInv
  <2>7. CASE RenameWrite(c)
    BY <2>7, RenameWriteKeepsIInv
  <2>8. CASE OpenRead(c)
    BY <2>8, OpenReadKeepsIInv
  <2>9. CASE GetObject(c)
    BY <2>9, GetObjectKeepsIInv
  <2>10. CASE Close(c)
    BY <2>10, CloseKeepsIInv
  <2>11. CASE \E name \in PropNames : Patch(c, name)
    BY <2>11, PatchKeepsIInv
  <2>12. CASE Fail(c)
    BY <2>12, FailKeepsIInv
  <2> QED BY <1>4, <2>1, <2>2, <2>3, <2>4, <2>5, <2>6, <2>7, <2>8, <2>9, <2>10, <2>11, <2>12
         DEF Proceed
<1> QED BY <1>1, <1>2, <1>3, <1>4 DEF Next

\* IInv holds in every reachable state.
LEMMA AlwaysIInv == Spec => []IInv
BY InitIInv, NextIInv, PTL DEF Spec

-----------------------------------------------------------------------------
(* The theorems *)

\* Every item, body and call has its type, and mux is held exactly between
\* AddEntry's read and its write.
THEOREM TypeCorrect == Spec => []TypeOK
<1>1. IInv => TypeOK
  BY DEF IInv, StoreOK, MuxOK, TypeOK
<1> QED BY <1>1, AlwaysIInv, PTL

\* Every path leads to an entry of its own, for any calls, failures and
\* interleavings (awsfs/metadata.go:211-234, 301-334, 366-383).
THEOREM PathsAlwaysLeadToEntries == Spec => []PathsLeadToEntries
<1>1. IInv => PathsLeadToEntries
  BY DEF IInv, StoreOK, MapOK, OneToOne, PathsLeadToEntries
<1> QED BY <1>1, AlwaysIInv, PTL

\* The body of a file is there before its path (awsfs/create.go:31-72).
THEOREM FilesAlwaysHaveBodies == Spec => []FilesHaveBodies
<1>1. IInv => FilesHaveBodies
  BY DEF IInv, StoreOK, FilesHaveBodies
<1> QED BY <1>1, AlwaysIInv, PTL

\* mux keeps the AddEntry calls of one process apart (awsfs/metadata.go:182-186).
THEOREM AddsAlwaysTakeTurns == Spec => AddsTakeTurns
<1>1. IInv => \A c, d \in Callers :
        c # d /\ InstanceOf[c] = InstanceOf[d] /\ AddWrite(c) => call[d].at # "addWrite"
  BY DEF IInv, MuxOK, AddWrite
<1> QED BY <1>1, AlwaysIInv, PTL DEF AddsTakeTurns

\* The four writes are all that changes the reference and the entries.
LEMMA OnlyWrites ==
  ASSUME Next
  PROVE  \/ \E c \in Callers : AddWrite(c) \/ UpdateWrite(c) \/ DeleteWrite(c) \/ RenameWrite(c)
         \/ UNCHANGED <<reference, entry>>
<1>1. ASSUME NEW c \in Callers, Begin(c)
      PROVE  UNCHANGED <<reference, entry>>
  BY <1>1 DEF Begin, Mkdir, Create, RemoveAll, OpenFile, Rename, Stored
<1>2. ASSUME NEW c \in Callers, AddBegin(c)
      PROVE  UNCHANGED <<reference, entry>>
  BY <1>2 DEF AddBegin, AddRead, AddReadFails, Stored
<1>3. ASSUME NEW c \in Callers, Proceed(c),
             ~(AddWrite(c) \/ UpdateWrite(c) \/ DeleteWrite(c) \/ RenameWrite(c))
      PROVE  UNCHANGED <<reference, entry>>
  BY <1>3 DEF Proceed, PutObject, ResizeRead, RenameRead, OpenRead, GetObject, Close, Patch,
              Fail, Stored
<1> QED BY <1>1, <1>2, <1>3 DEF Next

\* Size, dead properties and place of an entry are never changed by one step:
\* an update that an older read would have undone is refused by the version of
\* the entry (awsfs/metadata.go:242-275).
LEMMA StepLosesNoUpdate ==
  IInv /\ Next => \A id \in DOMAIN entry \cap DOMAIN entry' : OneUpdate(entry[id], entry'[id])
<1> DEFINE Kept == \A id \in DOMAIN entry \cap DOMAIN entry' : OneUpdate(entry[id], entry'[id])
<1>1. \A f : OneUpdate(f, f)
  BY DEF OneUpdate
<1>2. ASSUME IInv, NEW c \in Callers, AddWrite(c)
      PROVE  Kept
  <2>1. call[c].at = "addWrite" /\ entry' = Linked(entry, call[c].entry.id, call[c].entry)
    BY <1>2 DEF AddWrite
  <2>2. call[c].entry.id \notin DOMAIN entry
    BY <1>2, <2>1, IInvFields DEF CallOK, NewIDs
  <2>3. \A id \in DOMAIN entry : entry'[id] = entry[id]
    BY <2>1, <2>2 DEF Linked
  <2> QED BY <1>1, <2>3
<1>3. ASSUME IInv, NEW c \in Callers, UpdateWrite(c)
      PROVE  Kept
  <2> DEFINE x   == call[c].entry
             old == entry[x.id]
  <2>1. /\ call[c].at = "update" /\ x.id \in DOMAIN entry /\ x.version = old.version
        /\ entry' = [entry EXCEPT ![x.id] = Updated(old, x)]
    BY <1>3 DEF UpdateWrite, CurrentEntry
  <2>2. x \in Entry /\ old \in Entry /\ EntryEdited(x, entry)
    BY <1>3, <2>1, IInvFields, CallFields DEF CallOK, StoreOK
  <2>3. x.size = old.size \/ x.deadProps = old.deadProps
    BY <2>1, <2>2, EntryFields DEF EntryEdited
  <2> HIDE DEF x, old
  <2>4. OneUpdate(old, Updated(old, x))
    BY <2>2, <2>3, UpdatedType DEF OneUpdate
  <2>5. \A id \in DOMAIN entry : entry'[id] = IF id = x.id THEN Updated(old, x) ELSE entry[id]
    BY <2>1
  <2> QED BY <1>1, <2>4, <2>5 DEF old
<1>4. ASSUME IInv, NEW c \in Callers, DeleteWrite(c)
      PROVE  Kept
  <2>1. \A id \in DOMAIN entry' : entry'[id] = entry[id]
    BY <1>4 DEF DeleteWrite, Restrict
  <2> QED BY <1>1, <2>1
<1>5. ASSUME IInv, NEW c \in Callers, RenameWrite(c)
      PROVE  Kept
  <2> DEFINE x      == call[c].entry
             old    == entry[x.id]
             pair   == call[c].pair
             parent == reference.entries[Parent(pair[2])]
  <2>1. /\ call[c].at = "renameWrite" /\ CurrentReference(call[c].ref) /\ x.id \in DOMAIN entry
    BY <1>5 DEF RenameWrite, CurrentEntry
  <2>2. call[c].ref = reference
    BY <1>5, <2>1, ReferenceUnchanged
  <2>3. entry' = [entry EXCEPT ![x.id] = Placed(old, pair[2], parent)]
    BY <1>5, <2>2 DEF RenameWrite
  <2>4. old \in Entry /\ pair[2] \in Names /\ parent \in IDs
    <3>1. old \in Entry
      BY <1>5, <2>1, IInvFields DEF StoreOK
    <3>2. pair \in Renames /\ Parent(pair[2]) \in DOMAIN reference.entries
      BY <1>5, <2>1, <2>2, IInvFields, CallFields DEF CallOK
    <3>3. pair[2] \in Names
      BY <3>2, RenamesAssumption
    <3> QED BY <1>5, <3>1, <3>2, <3>3, IInvFields
  <2> HIDE DEF x, old, pair, parent
  <2>5. OneUpdate(old, Placed(old, pair[2], parent))
    BY <2>4, PlacedType DEF OneUpdate
  <2>6. \A id \in DOMAIN entry :
          entry'[id] = IF id = x.id THEN Placed(old, pair[2], parent) ELSE entry[id]
    BY <2>3
  <2> QED BY <1>1, <2>5, <2>6 DEF old
<1>6. ASSUME UNCHANGED <<reference, entry>>
      PROVE  Kept
  BY <1>1, <1>6
<1> QED BY <1>2, <1>3, <1>4, <1>5, <1>6, OnlyWrites

\* No interleaving of calls loses an update of an entry.
THEOREM UpdatesAreNeverLost == Spec => NoLostUpdate
<1> DEFINE Kept == \A id \in DOMAIN entry \cap DOMAIN entry' : OneUpdate(entry[id], entry'[id])
<1>1. IInv /\ [Next]_vars => [Kept]_vars
  BY StepLosesNoUpdate
<1> QED BY <1>1, AlwaysIInv, PTL DEF Spec, NoLostUpdate

\* The operators on paths and maps that Namespace sees are those of AwsFS.
LEMMA SameOperators ==
  /\ Atomic!Root = Root
  /\ \A p : Atomic!Parent(p) = Parent(p)
  /\ \A p, q : Atomic!AtOrAbove(p, q) = AtOrAbove(p, q)
  /\ \A k, p, id : Atomic!Linked(k, p, id) = Linked(k, p, id)
  /\ \A k, p : Atomic!Without(k, p) = Without(k, p)
  /\ \A k, old, new : Atomic!MovedAlone(k, old, new) = MovedAlone(k, old, new)
  /\ \A k, old, new : Atomic!MovedTree(k, old, new) = MovedTree(k, old, new)
<1>1. /\ Atomic!Root = Root
      /\ \A p : Atomic!Parent(p) = Parent(p)
      /\ \A p, q : Atomic!AtOrAbove(p, q) = AtOrAbove(p, q)
      /\ \A k, p, id : Atomic!Linked(k, p, id) = Linked(k, p, id)
  BY Zenon DEF Atomic!Root, Root, Atomic!Parent, Parent, Atomic!AtOrAbove, AtOrAbove,
               Atomic!Linked, Linked
<1>2. \A k, p : Atomic!Without(k, p) = Without(k, p)
  BY Zenon DEF Atomic!Without, Without, Atomic!Restrict, Restrict, Atomic!AtOrAbove, AtOrAbove
<1>3. \A k, old, new : Atomic!MovedAlone(k, old, new) = MovedAlone(k, old, new)
  BY Zenon DEF Atomic!MovedAlone, MovedAlone, Atomic!Restrict, Restrict, Atomic!Linked, Linked
<1>4. \A k, old, new : Atomic!MovedTree(k, old, new) = MovedTree(k, old, new)
  BY Zenon DEF Atomic!MovedTree, MovedTree, Atomic!AtOrAbove, AtOrAbove, Atomic!Rebase, Rebase
<1> QED BY <1>1, <1>2, <1>3, <1>4

\* The whole file system implements the atomic map of paths of Namespace: each
\* write of the reference links one free identifier, drops one path with all
\* under it, or moves one path, of the map as it is at that moment.
THEOREM ImplementsNamespace == Spec => EditsAreAtomic
<1> DEFINE m == reference.entries
<1>1. Init => Atomic!TreeInit
  <2>1. 1 \in IDs
    BY BoundsAssumption DEF IDs
  <2> QED BY <2>1, SameOperators DEF Init, Atomic!TreeInit
<1>2. ASSUME IInv, NEW c \in Callers, AddWrite(c)
      PROVE  Atomic!Link
  <2> DEFINE path == call[c].path
             id   == call[c].entry.id
  <2>1. call[c].at = "addWrite" /\ CurrentReference(call[c].ref)
    BY <1>2 DEF AddWrite
  <2>2. call[c].ref = reference
    BY <1>2, <2>1, ReferenceUnchanged
  <2>3. m' = Linked(m, path, id)
    BY <1>2, <2>2 DEF AddWrite, WriteReference
  <2>4. /\ path \in Names \ {Root} /\ call[c].entry \in Entry
        /\ id \notin DOMAIN entry
    BY <1>2, <2>1, IInvFields, CallFields DEF CallOK, NewIDs
  <2>5. id \in IDs
    BY <2>4, EntryFields
  <2>6. \A q \in DOMAIN m : m[q] # id
    BY <1>2, <2>4, IInvFields
  <2> HIDE DEF path, id
  <2> QED BY <2>3, <2>4, <2>5, <2>6, SameOperators DEF Atomic!Link
<1>3. ASSUME IInv, NEW c \in Callers, DeleteWrite(c)
      PROVE  Atomic!Drop
  <2>1. call[c].at = "delete" /\ CurrentReference(call[c].ref)
    BY <1>3 DEF DeleteWrite
  <2>2. call[c].ref = reference
    BY <1>3, <2>1, ReferenceUnchanged
  <2>3. m' = Without(m, call[c].path)
    BY <1>3, <2>2 DEF DeleteWrite, WriteReference
  <2>4. call[c].path \in DOMAIN m \ {Root}
    BY <1>3, <2>1, <2>2, IInvFields DEF CallOK
  <2> QED BY <2>3, <2>4, SameOperators DEF Atomic!Drop
<1>4. ASSUME IInv, NEW c \in Callers, RenameWrite(c)
      PROVE  Atomic!Move
  <2> DEFINE old == call[c].pair[1]
             new == call[c].pair[2]
  <2>1. call[c].at = "renameWrite" /\ CurrentReference(call[c].ref)
    BY <1>4 DEF RenameWrite
  <2>2. call[c].ref = reference
    BY <1>4, <2>1, ReferenceUnchanged
  <2>3. m' = Moved(m, old, new, call[c].entry.type)
    BY <1>4, <2>2 DEF RenameWrite, WriteReference
  <2>4. m' \in {MovedAlone(m, old, new), MovedTree(m, old, new)}
    BY <2>3 DEF Moved
  <2>5. /\ old \in DOMAIN m \ {Root} /\ new # Root /\ Parent(new) \in DOMAIN m
    BY <1>4, <2>1, <2>2, IInvFields DEF CallOK
  <2>6. new \in Names /\ ~AtOrAbove(old, new)
    <3>1. call[c].pair \in Renames
      BY <1>4, <2>1, IInvFields, CallFields
    <3> QED BY <3>1, RenamesAssumption
  <2> HIDE DEF old, new
  <2> QED BY <2>4, <2>5, <2>6, SameOperators DEF Atomic!Move
<1>5. ASSUME NEW c \in Callers, UpdateWrite(c)
      PROVE  UNCHANGED m
  BY <1>5 DEF UpdateWrite
<1>6. IInv /\ [Next]_vars => [Atomic!TreeNext]_m
  <2> SUFFICES ASSUME IInv, Next PROVE [Atomic!TreeNext]_m
    BY DEF vars
  <2> QED BY <1>2, <1>3, <1>4, <1>5, OnlyWrites DEF Atomic!TreeNext
<1> QED BY <1>1, <1>6, AlwaysIInv, PTL DEF Spec, EditsAreAtomic, Atomic!TreeSpec

-----------------------------------------------------------------------------
(* The paths and the entries tell the same tree as long as none of the steps *)
(* that the code leaves unguarded happens.  One lemma per edit of the map   *)
(* of paths says what the edit needs to keep the tree; the theorem shows    *)
(* that each write has what its edit needs.                                *)

\* The map m and the entries e tell the same tree.
TreeIn(m, e) ==
  \A q \in DOMAIN m \ {Root} :
    /\ Parent(q) \in DOMAIN m
    /\ e[m[q]].parent = m[Parent(q)]
    /\ e[m[q]].name = Base(q)

\* The parent of a path of the model is above it.
LEMMA ParentIsAbove ==
  ASSUME NEW q \in Names, q # Root
  PROVE  Above(Parent(q), q) /\ Parent(q) # q /\ Parent(q) \in Names
BY NamesAreSequences, ParentAbove, NamesAssumption DEF Above, Rooted

\* An entry added under a parent that is still there, where nothing is below.
LEMMA LinkedKeepsTree ==
  ASSUME NEW m, NEW e, NEW e2, MapOK(m, DOMAIN e), TreeIn(m, e),
         NEW path \in Names, path # Root, NEW id, id \notin DOMAIN e,
         \A q \in DOMAIN m : ~Above(path, q),
         Parent(path) \in DOMAIN m,
         e2[id].parent = m[Parent(path)], e2[id].name = Base(path),
         \A i \in DOMAIN e : e2[i] = e[i]
  PROVE  TreeIn(Linked(m, path, id), e2)
<1> DEFINE l == Linked(m, path, id)
<1>1. DOMAIN m \subseteq Names /\ \A q \in DOMAIN m : m[q] \in DOMAIN e
  BY PathMapFields DEF MapOK
<1>2. /\ DOMAIN l = DOMAIN m \cup {path} /\ l[path] = id
      /\ \A q \in DOMAIN m : q # path => l[q] = m[q]
  BY DEF Linked
<1> HIDE DEF l
<1>3. ASSUME NEW q \in DOMAIN l \ {Root}
      PROVE  /\ Parent(q) \in DOMAIN l
             /\ e2[l[q]].parent = l[Parent(q)]
             /\ e2[l[q]].name = Base(q)
  <2>1. CASE q = path
    <3>1. Parent(path) # path
      BY ParentIsAbove
    <3> QED BY <2>1, <3>1, <1>2
  <2>2. CASE q # path
    <3>1. q \in DOMAIN m \ {Root} /\ q \in Names
      BY <2>2, <1>1, <1>2
    <3>2. Parent(q) # path
      BY <3>1, ParentIsAbove
    <3>3. /\ Parent(q) \in DOMAIN m
          /\ e[m[q]].parent = m[Parent(q)] /\ e[m[q]].name = Base(q)
      BY <3>1 DEF TreeIn
    <3>4. l[q] = m[q] /\ l[Parent(q)] = m[Parent(q)] /\ e2[m[q]] = e[m[q]]
      BY <2>2, <3>1, <3>2, <3>3, <1>1, <1>2
    <3> QED BY <3>3, <3>4, <1>2
  <2> QED BY <2>1, <2>2
<1> QED BY <1>3 DEF TreeIn, l

\* A path removed with all that is below it.
LEMMA WithoutKeepsTree ==
  ASSUME NEW m, NEW e, NEW e2, MapOK(m, DOMAIN e), TreeIn(m, e), NEW path \in Names,
         \A q \in DOMAIN m : m[q] \notin IDsAtOrBelow(m, path) => e2[m[q]] = e[m[q]]
  PROVE  TreeIn(Without(m, path), e2)
<1> DEFINE w == Without(m, path)
<1>1. DOMAIN m \subseteq Names /\ OneToOne(m)
  BY PathMapFields DEF MapOK
<1>2. /\ DOMAIN w = {q \in DOMAIN m : ~AtOrAbove(path, q)}
      /\ \A q \in DOMAIN w : w[q] = m[q]
  BY DEF Without, Restrict
<1> HIDE DEF w
<1>3. ASSUME NEW q \in DOMAIN w \ {Root}
      PROVE  /\ Parent(q) \in DOMAIN w
             /\ e2[w[q]].parent = w[Parent(q)]
             /\ e2[w[q]].name = Base(q)
  <2>1. q \in DOMAIN m \ {Root} /\ q \in Names /\ ~AtOrAbove(path, q)
    BY <1>1, <1>2
  <2>2. /\ Parent(q) \in DOMAIN m
        /\ e[m[q]].parent = m[Parent(q)] /\ e[m[q]].name = Base(q)
    BY <2>1 DEF TreeIn
  <2>3. ~AtOrAbove(path, Parent(q))
    <3>1. /\ path \in Seq(Segments) /\ q \in Seq(Segments) /\ Parent(q) \in Seq(Segments)
          /\ AtOrAbove(Parent(q), q)
      BY <2>1, NamesAreSequences, ParentIsAbove DEF Above
    <3> QED BY <2>1, <3>1, AtOrAboveTransitive
  <2>4. m[q] \notin IDsAtOrBelow(m, path)
    BY <2>1, <1>1 DEF IDsAtOrBelow, OneToOne
  <2> QED BY <2>1, <2>2, <2>3, <2>4, <1>2
<1> QED BY <1>3 DEF TreeIn, w

\* What the lemmas on Rename's edits share: the entry that moves gets the new
\* parent and name, nothing is below the new path.
RenameOK(m, e, e2, old, new) ==
  /\ MapOK(m, DOMAIN e) /\ TreeIn(m, e)
  /\ old \in DOMAIN m /\ old # Root
  /\ new \in Names /\ new # Root /\ ~AtOrAbove(old, new)
  /\ Parent(new) \in DOMAIN m
  /\ \A q \in DOMAIN m : ~Above(new, q)
  /\ e2[m[old]].parent = m[Parent(new)] /\ e2[m[old]].name = Base(new)
  /\ \A i \in DOMAIN e \ {m[old]} : e2[i] = e[i]

\* The facts that the two lemmas below take from it.
LEMMA RenameFacts ==
  ASSUME NEW m, NEW e, NEW e2, NEW old, NEW new, RenameOK(m, e, e2, old, new)
  PROVE  /\ DOMAIN m \subseteq Names /\ DOMAIN m \subseteq Seq(Segments)
         /\ old \in Seq(Segments) /\ new \in Seq(Segments) /\ old # new
         /\ OneToOne(m) /\ \A q \in DOMAIN m : m[q] \in DOMAIN e
         /\ Parent(new) # new /\ ~AtOrAbove(old, Parent(new))
         /\ AtOrAbove(old, old) /\ AtOrAbove(new, new)
         /\ \A q \in DOMAIN m \ {Root} :
              /\ Parent(q) \in DOMAIN m /\ Parent(q) # new /\ Above(Parent(q), q)
              /\ e[m[q]].parent = m[Parent(q)] /\ e[m[q]].name = Base(q)
         /\ \A q \in DOMAIN m \ {old} : e2[m[q]] = e[m[q]]
<1>1. /\ MapOK(m, DOMAIN e) /\ TreeIn(m, e) /\ old \in DOMAIN m /\ new \in Names
      /\ new # Root /\ ~AtOrAbove(old, new)
      /\ \A q \in DOMAIN m : ~Above(new, q)
      /\ \A i \in DOMAIN e \ {m[old]} : e2[i] = e[i]
  BY DEF RenameOK
<1>2. /\ DOMAIN m \subseteq Names /\ DOMAIN m \subseteq Seq(Segments)
      /\ OneToOne(m) /\ \A q \in DOMAIN m : m[q] \in DOMAIN e
  BY <1>1, PathMapFields, NamesAreSequences DEF MapOK
<1>3. old \in Seq(Segments) /\ new \in Seq(Segments)
  BY <1>1, <1>2, NamesAreSequences
<1>4. AtOrAbove(old, old) /\ AtOrAbove(new, new) /\ old # new
  BY <1>1, <1>3, AtOrAboveReflexive
<1>5. Parent(new) # new /\ ~AtOrAbove(old, Parent(new))
  <2>1. /\ Parent(new) # new /\ Parent(new) \in Seq(Segments) /\ AtOrAbove(Parent(new), new)
    BY <1>1, <1>3, ParentAbove DEF Above
  <2> QED BY <1>1, <1>3, <2>1, AtOrAboveTransitive
<1>6. ASSUME NEW q \in DOMAIN m \ {Root}
      PROVE  /\ Parent(q) \in DOMAIN m /\ Parent(q) # new /\ Above(Parent(q), q)
             /\ e[m[q]].parent = m[Parent(q)] /\ e[m[q]].name = Base(q)
  <2>1. Above(Parent(q), q)
    BY <1>2, ParentIsAbove
  <2> QED BY <1>1, <2>1 DEF TreeIn
<1>7. \A q \in DOMAIN m \ {old} : e2[m[q]] = e[m[q]]
  BY <1>1, <1>2 DEF OneToOne
<1> QED BY <1>2, <1>3, <1>4, <1>5, <1>6, <1>7

\* A file moved; nothing is below its old path either.
LEMMA MovedAloneKeepsTree ==
  ASSUME NEW m, NEW e, NEW e2, NEW old, NEW new, RenameOK(m, e, e2, old, new),
         \A q \in DOMAIN m : ~Above(old, q)
  PROVE  TreeIn(MovedAlone(m, old, new), e2)
<1> DEFINE t == MovedAlone(m, old, new)
<1>0. /\ old \in DOMAIN m /\ old # Root /\ new # Root /\ Parent(new) \in DOMAIN m
      /\ e2[m[old]].parent = m[Parent(new)] /\ e2[m[old]].name = Base(new)
  BY DEF RenameOK
<1>1. /\ old # new /\ Parent(new) # new /\ Parent(new) # old
      /\ \A q \in DOMAIN m \ {Root} :
           /\ Parent(q) \in DOMAIN m /\ Parent(q) # new /\ Parent(q) # old
           /\ e[m[q]].parent = m[Parent(q)] /\ e[m[q]].name = Base(q)
      /\ \A q \in DOMAIN m \ {old} : e2[m[q]] = e[m[q]]
  BY RenameFacts
<1>2. /\ DOMAIN t = (DOMAIN m \ {old}) \cup {new}
      /\ t[new] = m[old]
      /\ \A q \in DOMAIN m \ {old, new} : t[q] = m[q]
  BY <1>0, <1>1 DEF MovedAlone, Linked, Restrict
<1> HIDE DEF t
<1>3. ASSUME NEW q \in DOMAIN t \ {Root}
      PROVE  /\ Parent(q) \in DOMAIN t
             /\ e2[t[q]].parent = t[Parent(q)]
             /\ e2[t[q]].name = Base(q)
  <2>1. CASE q = new
    BY <2>1, <1>0, <1>1, <1>2
  <2>2. CASE q # new
    <3>1. q \in DOMAIN m \ {Root} /\ q \in DOMAIN m \ {old, new}
      BY <2>2, <1>2
    <3>2. Parent(q) \in DOMAIN m \ {old, new}
      BY <3>1, <1>1
    <3> QED BY <3>1, <3>2, <1>1, <1>2
  <2> QED BY <2>1, <2>2
<1> QED BY <1>3 DEF TreeIn, t

\* A directory moved with all that is below it.
LEMMA MovedTreeKeepsTree ==
  ASSUME NEW m, NEW e, NEW e2, NEW old, NEW new, RenameOK(m, e, e2, old, new)
  PROVE  TreeIn(MovedTree(m, old, new), e2)
<1> DEFINE t == MovedTree(m, old, new)
           Re(q) == Rebase(q, old, new)
<1>0. /\ old \in DOMAIN m /\ old # Root /\ new # Root /\ Parent(new) \in DOMAIN m
      /\ e2[m[old]].parent = m[Parent(new)] /\ e2[m[old]].name = Base(new)
      /\ \A q \in DOMAIN m : ~Above(new, q)
  BY DEF RenameOK
<1>1. /\ DOMAIN m \subseteq Seq(Segments)
      /\ old \in Seq(Segments) /\ new \in Seq(Segments) /\ old # new
      /\ OneToOne(m)
      /\ Parent(new) # new /\ ~AtOrAbove(old, Parent(new))
      /\ AtOrAbove(old, old) /\ AtOrAbove(new, new)
      /\ \A q \in DOMAIN m \ {Root} :
           /\ Parent(q) \in DOMAIN m /\ Parent(q) # new /\ Above(Parent(q), q)
           /\ e[m[q]].parent = m[Parent(q)] /\ e[m[q]].name = Base(q)
      /\ \A q \in DOMAIN m \ {old} : e2[m[q]] = e[m[q]]
  BY RenameFacts
<1>2. /\ \A q \in DOMAIN m : AtOrAbove(old, q) => Re(q) \in DOMAIN t /\ t[Re(q)] = m[q]
      /\ \A q \in DOMAIN m : ~AtOrAbove(old, q) /\ ~AtOrAbove(new, q) =>
           q \in DOMAIN t /\ t[q] = m[q]
  BY <1>1, MovedTreeKeepsFiles
<1>3. \A x \in DOMAIN t :
        \/ x \in DOMAIN m /\ ~AtOrAbove(old, x) /\ t[x] = m[x]
        \/ \E q \in DOMAIN m : AtOrAbove(old, q) /\ x = Re(q) /\ t[x] = m[q]
  BY <1>1, MovedTreeOrigins
<1>4. Re(old) = new /\ t[new] = m[old] /\ new \in DOMAIN t
  <2>1. Rebase(old, old, new) = new
    BY <1>1, RebaseOfPrefix
  <2> QED BY <1>0, <1>1, <1>2, <2>1
<1> HIDE DEF t
<1>5. ASSUME NEW q \in DOMAIN m, AtOrAbove(old, q)
      PROVE  /\ Parent(Re(q)) \in DOMAIN t
             /\ e2[m[q]].parent = t[Parent(Re(q))]
             /\ e2[m[q]].name = Base(Re(q))
  <2>1. CASE q = old
    <3>1. ~AtOrAbove(new, Parent(new))
      <4>1. Above(Parent(new), new) /\ Parent(new) \in Seq(Segments)
        BY <1>0, <1>1, ParentAbove
      <4> QED BY <1>1, <4>1, AtOrAboveAntisymmetric DEF Above
    <3>2. Parent(new) \in DOMAIN t /\ t[Parent(new)] = m[Parent(new)]
      BY <1>0, <1>1, <1>2, <3>1
    <3> QED BY <2>1, <3>2, <1>0, <1>4
  <2>2. CASE q # old
    <3>1. Above(old, q) /\ q \in Seq(Segments)
      BY <1>1, <1>5, <2>2 DEF Above
    <3>2. /\ Parent(Re(q)) = Re(Parent(q)) /\ Base(Re(q)) = Base(q)
          /\ q # Root /\ AtOrAbove(old, Parent(q))
      BY <1>1, <3>1, RebaseBelow, AboveParent
    <3>3. /\ Parent(q) \in DOMAIN m /\ e[m[q]].parent = m[Parent(q)]
          /\ e[m[q]].name = Base(q) /\ e2[m[q]] = e[m[q]]
      BY <1>1, <2>2, <3>2
    <3> HIDE DEF Re
    <3> QED BY <1>2, <3>2, <3>3
  <2> QED BY <2>1, <2>2
<1>6. ASSUME NEW x \in DOMAIN t \ {Root}
      PROVE  /\ Parent(x) \in DOMAIN t
             /\ e2[t[x]].parent = t[Parent(x)]
             /\ e2[t[x]].name = Base(x)
  <2>1. CASE \E q \in DOMAIN m : AtOrAbove(old, q) /\ x = Re(q) /\ t[x] = m[q]
    BY <2>1, <1>5
  <2>2. CASE x = new
    BY <2>2, <1>0, <1>1, <1>4, <1>5
  <2>3. CASE x # new /\ x \in DOMAIN m /\ ~AtOrAbove(old, x) /\ t[x] = m[x]
    <3>0. ~AtOrAbove(new, x)
      BY <2>3, <1>0 DEF Above
    <3>1. /\ Parent(x) \in DOMAIN m /\ Above(Parent(x), x)
          /\ e[m[x]].parent = m[Parent(x)] /\ e[m[x]].name = Base(x)
          /\ e2[m[x]] = e[m[x]]
      BY <2>3, <1>1
    <3>2. ~AtOrAbove(old, Parent(x)) /\ ~AtOrAbove(new, Parent(x))
      <4>1. x \in Seq(Segments) /\ Parent(x) \in Seq(Segments) /\ AtOrAbove(Parent(x), x)
        BY <2>3, <1>1, <3>1 DEF Above
      <4> QED BY <2>3, <3>0, <1>1, <4>1, AtOrAboveTransitive
    <3>3. Parent(x) \in DOMAIN t /\ t[Parent(x)] = m[Parent(x)]
      BY <1>2, <3>1, <3>2
    <3> QED BY <2>3, <3>1, <3>3
  <2> QED BY <2>1, <2>2, <2>3, <1>3
<1> QED BY <1>6 DEF TreeIn, t

-----------------------------------------------------------------------------
\* A step that changes the tree of paths keeps it in agreement with the entries,
\* unless it adds an entry under a parent or at a path that changed since the call
\* looked, or renames onto a directory that is not empty, or renames a file that
\* has paths below it (awsfs/metadata.go:181-389, awsfs/rename.go:40-63).
LEMMA StepKeepsTree == IInv /\ [Next]_vars => [TreeStays]_vars
<1> DEFINE m == reference.entries
<1>1. Tree <=> TreeIn(m, entry)
  BY DEF Tree, TreeIn
<1>2. Tree' <=> TreeIn(m', entry')
  BY DEF Tree, TreeIn
<1>3. ASSUME IInv, Tree, NEW c \in Callers, AddWrite(c), ~UnguardedStep(c)
      PROVE  Tree'
  <2> DEFINE path == call[c].path
             x    == call[c].entry
             id   == x.id
  <2>1. /\ call[c].at = "addWrite" /\ CurrentReference(call[c].ref)
        /\ entry' = Linked(entry, id, x)
    BY <1>3 DEF AddWrite
  <2>2. call[c].ref = reference
    BY <1>3, <2>1, ReferenceUnchanged
  <2>3. m' = Linked(m, path, id)
    BY <1>3, <2>2 DEF AddWrite, WriteReference
  <2>4. /\ path \in Names /\ path # Root /\ id \notin DOMAIN entry /\ x.name = Base(path)
        /\ MapOK(m, DOMAIN entry)
    BY <1>3, <2>1, IInvFields, CallFields DEF CallOK, NewIDs, StoreOK
  <2>5. /\ \A q \in DOMAIN m : ~Above(path, q)
        /\ Parent(path) \in DOMAIN m /\ m[Parent(path)] = x.parent
    BY <1>3 DEF UnguardedStep, HasChildren
  <2>6. entry'[id] = x /\ \A i \in DOMAIN entry : entry'[i] = entry[i]
    BY <2>1, <2>4 DEF Linked
  <2>7. TreeIn(m, entry)
    BY <1>1, <1>3
  <2> HIDE DEF m, path, id
  <2>8. TreeIn(Linked(m, path, id), entry')
    <3>1. entry'[id].parent = m[Parent(path)] /\ entry'[id].name = Base(path)
      BY <2>4, <2>5, <2>6
    <3> DEFINE e2 == entry'
    <3> HIDE DEF e2
    <3>2. /\ e2[id].parent = m[Parent(path)] /\ e2[id].name = Base(path)
          /\ \A i \in DOMAIN entry : e2[i] = entry[i]
      BY <2>6, <3>1 DEF e2
    <3>3. TreeIn(Linked(m, path, id), e2)
      BY <2>4, <2>5, <2>7, <3>2, LinkedKeepsTree
    <3> QED BY <3>3 DEF e2
  <2> QED BY <1>2, <2>3, <2>8
<1>4. ASSUME IInv, Tree, NEW c \in Callers, DeleteWrite(c)
      PROVE  Tree'
  <2> DEFINE path == call[c].path
             gone == IDsAtOrBelow(m, path)
  <2>1. call[c].at = "delete" /\ CurrentReference(call[c].ref)
    BY <1>4 DEF DeleteWrite
  <2>2. call[c].ref = reference
    BY <1>4, <2>1, ReferenceUnchanged
  <2>3. m' = Without(m, path) /\ entry' = Restrict(entry, DOMAIN entry \ gone)
    BY <1>4, <2>2 DEF DeleteWrite, WriteReference
  <2>4. path \in Names /\ MapOK(m, DOMAIN entry) /\ TreeIn(m, entry)
    BY <1>1, <1>4, <2>1, IInvFields, CallFields DEF StoreOK
  <2>5. \A q \in DOMAIN m : m[q] \notin gone => entry'[m[q]] = entry[m[q]]
    BY <2>3, <2>4 DEF Restrict, MapOK
  <2> HIDE DEF m, path
  <2>6. TreeIn(Without(m, path), entry')
    <3> DEFINE e2 == entry'
    <3> HIDE DEF e2
    <3>1. \A q \in DOMAIN m : m[q] \notin IDsAtOrBelow(m, path) => e2[m[q]] = entry[m[q]]
      BY <2>5 DEF e2
    <3>2. TreeIn(Without(m, path), e2)
      BY <2>4, <3>1, WithoutKeepsTree
    <3> QED BY <3>2 DEF e2
  <2> QED BY <1>2, <2>3, <2>6
<1>5. ASSUME IInv, Tree, NEW c \in Callers, RenameWrite(c), ~UnguardedStep(c)
      PROVE  Tree'
  <2> DEFINE old == call[c].pair[1]
             new == call[c].pair[2]
             x   == call[c].entry
             y   == Placed(entry[x.id], new, m[Parent(new)])
  <2>1. /\ call[c].at = "renameWrite" /\ CurrentReference(call[c].ref)
        /\ x.id \in DOMAIN entry
    BY <1>5 DEF RenameWrite, CurrentEntry
  <2>2. call[c].ref = reference
    BY <1>5, <2>1, ReferenceUnchanged
  <2>3. /\ m' = Moved(m, old, new, x.type)
        /\ entry' = [entry EXCEPT ![x.id] = y]
    BY <1>5, <2>2 DEF RenameWrite, WriteReference
  <2>4. call[c].pair \in Renames
    BY <1>5, <2>1, IInvFields, CallFields
  <2>5. /\ x.id = m[old] /\ old \in DOMAIN m /\ old # Root
        /\ new # Root /\ Parent(new) \in DOMAIN m
    BY <1>5, <2>1, <2>2, IInvFields DEF CallOK
  <2>6. new \in Names /\ ~AtOrAbove(old, new)
    BY <2>4, RenamesAssumption
  <2>7. /\ \A q \in DOMAIN m : ~Above(new, q)
        /\ x.type = "file" => \A q \in DOMAIN m : ~Above(old, q)
    BY <1>5 DEF UnguardedStep, HasChildren
  <2>8. y.parent = m[Parent(new)] /\ y.name = Base(new)
    <3>1. entry[x.id] \in Entry
      BY <1>5, <2>1, IInvFields DEF StoreOK
    <3> DEFINE f == entry[x.id]
               g == m[Parent(new)]
    <3> HIDE DEF f, g
    <3>2. Placed(f, new, g).parent = g /\ Placed(f, new, g).name = Base(new)
      BY <3>1 DEF Placed, Entry, f
    <3> QED BY <3>2 DEF f, g
  <2>9. x.type \in {"dir", "file"}
    BY <1>5, <2>1, IInvFields, CallFields, EntryFields
  <2>10. MapOK(m, DOMAIN entry) /\ TreeIn(m, entry)
    BY <1>1, <1>5, IInvFields DEF StoreOK
  <2> HIDE DEF y
  <2>11. entry'[m[old]] = y /\ \A i \in DOMAIN entry \ {m[old]} : entry'[i] = entry[i]
    BY <2>1, <2>3, <2>5
  <2> HIDE DEF m, old, new, x
  <2> DEFINE e2 == entry'
  <2> HIDE DEF e2
  <2>12. RenameOK(m, entry, e2, old, new)
    BY <2>5, <2>6, <2>7, <2>8, <2>10, <2>11 DEF RenameOK, e2
  <2>13. TreeIn(Moved(m, old, new, x.type), e2)
    <3>1. CASE x.type = "dir"
      BY <3>1, <2>12, MovedTreeKeepsTree DEF Moved
    <3>2. CASE x.type = "file"
      BY <3>2, <2>7, <2>12, MovedAloneKeepsTree DEF Moved
    <3> QED BY <3>1, <3>2, <2>9
  <2> QED BY <1>2, <2>3, <2>13 DEF e2
<1>6. ASSUME IInv, Tree, NEW c \in Callers, UpdateWrite(c)
      PROVE  Tree'
  <2> DEFINE x == call[c].entry
             y == Updated(entry[x.id], x)
  <2>1. /\ call[c].at = "update" /\ x.id \in DOMAIN entry /\ reference' = reference
        /\ entry' = [entry EXCEPT ![x.id] = y]
    BY <1>6 DEF UpdateWrite, CurrentEntry
  <2>2. x \in Entry /\ entry[x.id] \in Entry /\ MapOK(m, DOMAIN entry)
    BY <1>6, <2>1, IInvFields, CallFields DEF StoreOK
  <2>3. y.parent = entry[x.id].parent /\ y.name = entry[x.id].name
    BY <2>2, UpdatedType
  <2> HIDE DEF x, y
  <2>4. \A i \in DOMAIN entry : entry'[i].parent = entry[i].parent /\ entry'[i].name = entry[i].name
    BY <2>1, <2>3
  <2>5. \A q \in DOMAIN m : m[q] \in DOMAIN entry
    BY <2>2 DEF MapOK
  <2>6. TreeIn(m, entry)
    BY <1>1, <1>6
  <2>7. TreeIn(m, entry')
    BY <2>4, <2>5, <2>6, <1>6, IInvFields DEF TreeIn
  <2> QED BY <1>2, <2>1, <2>7
<1>7. ASSUME Tree, UNCHANGED <<reference, entry>>
      PROVE  Tree'
  BY <1>7 DEF Tree
<1>8. IInv /\ [Next]_vars => [TreeStays]_vars
  <2> SUFFICES ASSUME IInv, Next, Tree, \A c \in Callers : ~UnguardedStep(c)
               PROVE  Tree'
    BY DEF TreeStays
  <2>1. CASE UNCHANGED <<reference, entry>>
    BY <2>1, <1>7
  <2>2. ASSUME NEW c \in Callers,
               AddWrite(c) \/ UpdateWrite(c) \/ DeleteWrite(c) \/ RenameWrite(c)
        PROVE  Tree'
    <3>1. ~UnguardedStep(c)
      OBVIOUS
    <3>2. CASE AddWrite(c)
      BY <3>1, <3>2, <1>3
    <3>3. CASE UpdateWrite(c)
      BY <3>3, <1>6
    <3>4. CASE DeleteWrite(c)
      BY <3>4, <1>4
    <3>5. CASE RenameWrite(c)
      BY <3>1, <3>5, <1>5
    <3> QED BY <2>2, <3>2, <3>3, <3>4, <3>5
  <2> QED BY <2>1, <2>2, OnlyWrites
<1> QED BY <1>8

\* No step but those that the code leaves unguarded can make the paths and the
\* entries disagree about the tree.
THEOREM TreeAlwaysKept == Spec => TreeKept
BY StepKeepsTree, AlwaysIInv, PTL DEF Spec, TreeKept

-----------------------------------------------------------------------------
(* Starts and crashes: what AwsFS keeps while its processes start, stop and  *)
(* start again, as long as no two of them start on empty tables at the same *)
(* time, which nothing in the code prevents.                               *)

(* The tables before any process has started. *)
Empty ==
  /\ reference = [entries |-> << >>, version |-> 0]
  /\ entry = << >> /\ bucket = << >> /\ lastID = 0
  /\ mux = [i \in Instances |-> Nobody]
  /\ call = [c \in Callers |-> [at |-> "idle"]]

(* Until the reference is there one process at most runs, in Init of the   *)
(* metadata store; from then on none runs Init to its end, and all that    *)
(* AwsFS keeps is kept.                                                    *)
BootInv ==
  /\ process \in [Instances -> {"down", "init", "up"}]
  /\ \/ /\ Empty
        /\ \A i \in Instances : process[i] # "up"
        /\ \A i, j \in Instances : process[i] # "down" /\ process[j] # "down" => i = j
     \/ /\ IInv /\ reference.version # 0
        /\ \A i \in Instances : process[i] # "init"

-----------------------------------------------------------------------------
\* A step of a call is one of AwsFS, in a process that runs.
LEMMA CallsStep ==
  ASSUME NEW c \in Callers, Begin(c) \/ AddBegin(c) \/ Proceed(c)
  PROVE  Next
BY DEF Next

\* The version of the reference is never taken back by a call.
LEMMA CallsGrowVersion ==
  ASSUME IInv, Next
  PROVE  reference'.version >= reference.version
<1>1. reference.version \in Nat
  BY ReferenceFields DEF IInv, StoreOK
<1>2. CASE \E c \in Callers : AddWrite(c) \/ DeleteWrite(c) \/ RenameWrite(c)
  <2>1. reference'.version = reference.version + 1
    BY <1>2 DEF AddWrite, DeleteWrite, RenameWrite, WriteReference
  <2> QED BY <1>1, <2>1
<1>3. CASE UNCHANGED reference
  BY <1>1, <1>3
<1>4. \A c \in Callers : UpdateWrite(c) => UNCHANGED reference
  BY DEF UpdateWrite
<1> QED BY <1>2, <1>3, <1>4, OnlyWrites

\* Init of the metadata store on empty tables leaves the store that AwsFS
\* starts with.
LEMMA InitWriteStarts ==
  ASSUME BootInv, NEW i \in Instances, InitWrite(i)
  PROVE  Empty /\ Init'
<1>1. Empty
  BY DEF BootInv, InitWrite
<1>2. /\ reference' = [entries |-> [q \in {Root} |-> 1], version |-> 1]
      /\ entry' = Linked(<< >>, 1, NewEntry(1, NoID, Root, "dir", 0))
      /\ lastID' = 1 /\ bucket' = << >>
      /\ mux' = [j \in Instances |-> Nobody]
      /\ call' = [c \in Callers |-> [at |-> "idle"]]
  BY <1>1 DEF InitWrite, Empty
<1>3. entry' = [id \in {1} |-> NewEntry(1, NoID, Root, "dir", 0)]
  BY <1>2 DEF Linked
<1> QED BY <1>1, <1>2, <1>3 DEF Init

\* A process that stops leaves what is stored, and the calls of the others.
LEMMA CrashKeepsIInv ==
  ASSUME IInv, NEW i \in Instances, Crash(i)
  PROVE  IInv'
<1>1. /\ reference' = reference /\ entry' = entry /\ bucket' = bucket /\ lastID' = lastID
      /\ mux' = [mux EXCEPT ![i] = Nobody]
      /\ call' = [c \in Callers |-> IF InstanceOf[c] = i THEN [at |-> "idle"] ELSE call[c]]
  BY DEF Crash, Stored
<1> DEFINE idle == [at |-> "idle"]
<1>2. idle \in Call /\ NewIDs(idle) = {} /\ ReadIDs(idle) = {} /\ idle.at = "idle"
  BY DEF Call, NewIDs, ReadIDs
<1>3. CallOK(idle, reference, entry, bucket, lastID)
  BY <1>2 DEF CallOK
<1> HIDE DEF idle
<1>4. ASSUME NEW c \in Callers
      PROVE  /\ call'[c] \in Call
             /\ CallOK(call'[c], reference, entry, bucket, lastID)
             /\ call'[c] = idle \/ call'[c] = call[c]
  BY <1>1, <1>2, <1>3 DEF IInv, idle
<1>5. call' \in [Callers -> Call]
  BY <1>1, <1>4
<1>6. ASSUME NEW c \in Callers, NEW d \in Callers, c # d
      PROVE  Apart(call'[c], call'[d])
  BY <1>2, <1>4, <1>6 DEF IInv, Apart
<1>7. MuxOK'
  <2>1. mux' \in [Instances -> Callers \cup {Nobody}]
    BY <1>1 DEF IInv, MuxOK
  <2>2. ASSUME NEW c \in Callers
        PROVE  mux'[InstanceOf[c]] = c <=> call'[c].at = "addWrite"
    <3>1. InstanceOf[c] \in Instances /\ c # Nobody
      BY CallersAssumption, NobodyAssumption DEF Nobody
    <3>2. CASE InstanceOf[c] = i
      BY <1>1, <1>2, <3>1, <3>2 DEF IInv, MuxOK, idle
    <3>3. CASE InstanceOf[c] # i
      BY <1>1, <3>1, <3>3 DEF IInv, MuxOK
    <3> QED BY <3>2, <3>3
  <2> QED BY <2>1, <2>2 DEF MuxOK
<1>8. StoreOK(reference', entry', bucket', lastID')
  BY <1>1 DEF IInv
<1>9. \A c \in Callers : CallOK(call'[c], reference', entry', bucket', lastID')
  BY <1>1, <1>4
<1> QED BY <1>5, <1>6, <1>7, <1>8, <1>9 DEF IInv

\* What a step of the processes is: a call's, of a store that is there; a crash;
\* the end of Init, on empty tables; or one that leaves the store alone.
LEMMA BootSteps ==
  ASSUME BootInv, BootNext
  PROVE  \/ IInv /\ reference.version # 0 /\ Next /\ UNCHANGED process
         \/ \E i \in Instances : InitWrite(i) /\ Empty
         \/ \E i \in Instances : InitRead(i) \/ Crash(i)
<1>1. ASSUME NEW c \in Callers, process[InstanceOf[c]] = "up",
             Begin(c) \/ AddBegin(c) \/ Proceed(c)
      PROVE  IInv /\ reference.version # 0 /\ Next
  <2>1. InstanceOf[c] \in Instances
    BY CallersAssumption
  <2> QED BY <1>1, <2>1, CallsStep DEF BootInv
<1>2. \A i \in Instances : InitWrite(i) => Empty
  BY InitWriteStarts
<1> QED BY <1>1, <1>2 DEF BootNext

\* BootInv is inductive, when no two processes start on empty tables together.
LEMMA BootInvKept ==
  ASSUME ~StartTogether, BootInv, [BootNext]_bootVars, (Init => IInv)'
  PROVE  BootInv'
<1>1. CASE UNCHANGED bootVars
  <2>1. UNCHANGED <<reference, entry, bucket, lastID, mux, call, process>>
    BY <1>1 DEF bootVars, vars
  <2>2. Empty => Empty'
    BY <2>1 DEF Empty
  <2>3. IInv => IInv'
    BY <2>1, NextIInv DEF vars
  <2> QED BY <2>1, <2>2, <2>3 DEF BootInv
<1>2. CASE IInv /\ reference.version # 0 /\ Next /\ UNCHANGED process
  <2>1. IInv'
    BY <1>2, NextIInv
  <2>2. reference.version \in Nat /\ reference'.version \in Nat
    BY <1>2, <2>1, ReferenceFields DEF IInv, StoreOK
  <2>3. reference'.version # 0
    BY <1>2, <2>2, CallsGrowVersion
  <2>4. \A i \in Instances : process[i] # "init"
    BY <1>2 DEF BootInv, Empty
  <2> QED BY <1>2, <2>1, <2>3, <2>4 DEF BootInv
<1>3. ASSUME NEW i \in Instances, InitWrite(i), Empty
      PROVE  BootInv'
  <2>1. Init' /\ IInv' /\ reference'.version = 1
    <3>1. Init'
      BY <1>3, InitWriteStarts
    <3> QED BY <3>1 DEF Init
  <2>2. process[i] = "init" /\ process' = [process EXCEPT ![i] = "up"]
    BY <1>3 DEF InitWrite
  <2>3. reference.version = 0
    BY <1>3 DEF Empty
  <2>4. \A j \in Instances : process[j] # "down" => j = i
    BY <2>2, <2>3 DEF BootInv
  <2>5. /\ process' \in [Instances -> {"down", "init", "up"}]
        /\ \A j \in Instances : process'[j] # "init"
    BY <2>2, <2>4 DEF BootInv
  <2> QED BY <2>1, <2>5 DEF BootInv
<1>4. ASSUME NEW i \in Instances, InitRead(i)
      PROVE  BootInv'
  <2>1. /\ process[i] = "down" /\ Alone(i) /\ UNCHANGED vars
        /\ process' = [process EXCEPT ![i] = IF reference.version = 0 THEN "init" ELSE "up"]
    BY <1>4 DEF InitRead
  <2>2. process' \in [Instances -> {"down", "init", "up"}]
    BY <2>1 DEF BootInv
  <2>3. CASE Empty
    <3>1. reference.version = 0 /\ \A j \in Instances : process[j] = "down"
      BY <2>1, <2>3 DEF Empty, Alone
    <3>2. Empty'
      BY <2>1, <2>3 DEF Empty, vars
    <3> QED BY <2>1, <2>2, <3>1, <3>2 DEF BootInv
  <2>4. CASE ~Empty
    <3>1. IInv /\ reference.version # 0 /\ \A j \in Instances : process[j] # "init"
      BY <2>4 DEF BootInv
    <3>2. IInv' /\ reference' = reference
      BY <2>1, <3>1, NextIInv DEF vars
    <3> QED BY <2>1, <2>2, <3>1, <3>2 DEF BootInv
  <2> QED BY <2>3, <2>4
<1>5. ASSUME NEW i \in Instances, Crash(i)
      PROVE  BootInv'
  <2>1. /\ process' = [process EXCEPT ![i] = "down"] /\ reference' = reference
        /\ process' \in [Instances -> {"down", "init", "up"}]
    BY <1>5 DEF Crash, Stored, BootInv
  <2>2. CASE Empty
    <3>1. Empty'
      BY <1>5, <2>2 DEF Crash, Stored, Empty
    <3>2. /\ \A j \in Instances : process[j] # "up"
          /\ \A j, k \in Instances : process[j] # "down" /\ process[k] # "down" => j = k
      BY <2>2 DEF BootInv, Empty
    <3> QED BY <2>1, <3>1, <3>2 DEF BootInv
  <2>3. CASE ~Empty
    <3>1. IInv /\ reference.version # 0 /\ \A j \in Instances : process[j] # "init"
      BY <2>3 DEF BootInv
    <3>2. IInv'
      BY <1>5, <3>1, CrashKeepsIInv
    <3> QED BY <2>1, <3>1, <3>2 DEF BootInv
  <2> QED BY <2>2, <2>3
<1> QED BY <1>1, <1>2, <1>3, <1>4, <1>5, BootSteps

\* BootInv holds whenever no two processes start on empty tables together.
LEMMA AlwaysBootInv ==
  ASSUME ~StartTogether
  PROVE  BootSpec => []BootInv
<1>1. BootInit => BootInv
  BY DEF BootInit, BootInv, Empty
<1>2. (Init => IInv)'
  BY InitIInv, PTL
<1>3. BootInv /\ [BootNext]_bootVars => BootInv'
  BY <1>2, BootInvKept
<1> QED BY <1>1, <1>3, PTL DEF BootSpec

-----------------------------------------------------------------------------
\* The version of the reference never goes back, whatever processes stop in the
\* middle of Init or of a call and start again (README.md:49).
THEOREM VersionAlwaysGrows ==
  ASSUME ~StartTogether
  PROVE  BootSpec => VersionGrows
<1>1. BootInv /\ [BootNext]_bootVars => [reference'.version >= reference.version]_bootVars
  <2> SUFFICES ASSUME BootInv, BootNext PROVE reference'.version >= reference.version
    OBVIOUS
  <2>1. reference.version \in Nat
    BY ReferenceFields DEF BootInv, Empty, IInv, StoreOK
  <2>2. CASE IInv /\ Next
    BY <2>2, CallsGrowVersion
  <2>3. ASSUME NEW i \in Instances, InitWrite(i), Empty
        PROVE  reference'.version >= reference.version
    BY <2>3 DEF InitWrite, Empty
  <2>4. CASE \E i \in Instances : InitRead(i) \/ Crash(i)
    BY <2>1, <2>4 DEF InitRead, Crash, Stored, vars
  <2> QED BY <2>2, <2>3, <2>4, BootSteps
<1> QED BY <1>1, AlwaysBootInv, PTL DEF BootSpec, VersionGrows

\* Whatever processes crash in the middle of their calls, no update of an entry
\* undoes another.
THEOREM UpdatesSurviveCrashes ==
  ASSUME ~StartTogether
  PROVE  BootSpec => NoLostUpdate
<1> DEFINE Kept == \A id \in DOMAIN entry \cap DOMAIN entry' : OneUpdate(entry[id], entry'[id])
<1>1. BootInv /\ [BootNext]_bootVars => [Kept]_vars
  <2> SUFFICES ASSUME BootInv, [BootNext]_bootVars PROVE [Kept]_vars
    OBVIOUS
  <2>1. CASE UNCHANGED bootVars
    BY <2>1 DEF bootVars
  <2>2. CASE IInv /\ Next
    BY <2>2, StepLosesNoUpdate
  <2>3. CASE Empty
    <3>1. DOMAIN entry = {}
      BY <2>3 DEF Empty
    <3> QED BY <3>1
  <2>4. CASE \E i \in Instances : InitRead(i) \/ Crash(i)
    <3>1. entry' = entry
      BY <2>4 DEF InitRead, Crash, Stored, vars
    <3> QED BY <3>1 DEF OneUpdate
  <2> QED BY <2>1, <2>2, <2>3, <2>4, BootSteps
<1> QED BY <1>1, AlwaysBootInv, PTL DEF BootSpec, NoLostUpdate

\* Once the reference is there, each path leads to an entry of its own and each
\* file with a path has its body, whatever processes crash and when.
THEOREM StoreSurvivesCrashes ==
  ASSUME ~StartTogether
  PROVE  BootSpec => [](reference.version # 0 => TypeOK /\ PathsLeadToEntries /\ FilesHaveBodies)
<1>1. BootInv => (reference.version # 0 => TypeOK /\ PathsLeadToEntries /\ FilesHaveBodies)
  <2> SUFFICES ASSUME BootInv, reference.version # 0
               PROVE  TypeOK /\ PathsLeadToEntries /\ FilesHaveBodies
    OBVIOUS
  <2>1. IInv
    BY DEF BootInv, Empty
  <2> QED BY <2>1 DEF IInv, StoreOK, MuxOK, TypeOK, MapOK, OneToOne, PathsLeadToEntries,
                      FilesHaveBodies
<1> QED BY <1>1, AlwaysBootInv, PTL

\* Crashes and starts leave the paths and the entries in agreement about the tree.
THEOREM TreeSurvivesCrashes ==
  ASSUME ~StartTogether
  PROVE  BootSpec => TreeKept
<1>1. BootInv /\ [BootNext]_bootVars => [TreeStays]_vars
  <2> SUFFICES ASSUME BootInv, [BootNext]_bootVars PROVE [TreeStays]_vars
    OBVIOUS
  <2>1. CASE UNCHANGED bootVars
    BY <2>1 DEF bootVars
  <2>2. CASE IInv /\ Next
    BY <2>2, StepKeepsTree
  <2>3. CASE \E i \in Instances : InitWrite(i) /\ Empty
    <3>1. Init'
      BY <2>3, InitWriteStarts
    <3>2. DOMAIN reference'.entries = {Root}
      BY <3>1 DEF Init
    <3> QED BY <3>2 DEF TreeStays, Tree
  <2>4. CASE \E i \in Instances : InitRead(i) \/ Crash(i)
    <3>1. entry' = entry /\ reference' = reference
      BY <2>4 DEF InitRead, Crash, Stored, vars
    <3> QED BY <3>1 DEF TreeStays, Tree
  <2> QED BY <2>1, <2>2, <2>3, <2>4, BootSteps
<1> QED BY <1>1, AlwaysBootInv, PTL DEF BootSpec, TreeKept

-----------------------------------------------------------------------------
(* The loop of Rename *)

(* What moves: the old path and all that was under it. *)
LoopSource == {q \in DOMAIN mapBefore : AtOrAbove(oldPath, q)}

LoopKept == {q \in DOMAIN mapBefore : ~AtOrAbove(oldPath, q)}

(* The new paths of all that is not left to visit. *)
LoopMoved == {Rebase(q, oldPath, newPath) : q \in LoopSource \ toVisit}

(* The map halfway: what is kept and what is left to visit have their      *)
(* values, unless something has moved onto them.                           *)
LoopHalfway ==
  [q \in LoopKept \cup toVisit \cup LoopMoved |->
     IF q \in LoopMoved THEN mapBefore[Rebase(q, newPath, oldPath)] ELSE mapBefore[q]]

LoopArguments ==
  /\ DOMAIN mapBefore \subseteq Seq(Segments)
  /\ oldPath \in DOMAIN mapBefore
  /\ newPath \in Seq(Segments)

(* The inductive invariant. *)
LoopInv ==
  /\ LoopArguments
  /\ MovesAway(DOMAIN mapBefore, oldPath, newPath) =>
       /\ toVisit \subseteq {q \in DOMAIN mapBefore : Above(oldPath, q)}
       /\ mapNow = LoopHalfway

\* How the loop starts, and what one round does.
LEMMA LoopInit ==
  ASSUME LoopStart
  PROVE  /\ DOMAIN mapBefore \subseteq Names /\ oldPath \in DOMAIN mapBefore
         /\ newPath \in Names /\ oldPath # newPath
         /\ mapNow = MovedAlone(mapBefore, oldPath, newPath)
         /\ toVisit = {k \in DOMAIN mapNow : Above(oldPath, k)}
BY DEF LoopStart, Trees, Under

\* What a visit does, in the operators of the map.
LEMMA LoopVisit ==
  ASSUME NEW k, Visit(k)
  PROVE  LET moved == Rebase(k, oldPath, newPath)
         IN  /\ UNCHANGED <<mapBefore, oldPath, newPath>>
             /\ mapNow' = Linked(Restrict(mapNow, DOMAIN mapNow \ {k}), moved, mapNow[k])
             /\ ~Above(oldPath, moved) => toVisit' = toVisit \ {k}
BY DEF Visit

\* The loop starts with the map in which the old path alone has moved.
LEMMA InitLoopInv == LoopStart => LoopInv
<1> SUFFICES ASSUME LoopStart PROVE LoopInv
  OBVIOUS
<1>1. LoopArguments
  BY NamesAssumption, LoopInit DEF LoopArguments
<1>2. ASSUME MovesAway(DOMAIN mapBefore, oldPath, newPath)
      PROVE  /\ toVisit = {q \in DOMAIN mapBefore : Above(oldPath, q)}
             /\ mapNow = LoopHalfway
  <2>1. Rebase(oldPath, oldPath, newPath) = newPath /\ Rebase(newPath, newPath, oldPath) = oldPath
    BY <1>1, RebaseOfPrefix DEF LoopArguments
  <2>2. AtOrAbove(oldPath, oldPath)
    BY <1>1, AtOrAboveReflexive DEF LoopArguments
  <2>3. ~Above(oldPath, newPath)
    BY <1>1, <1>2, <2>1, <2>2 DEF MovesAway, LoopArguments
  <2>4. /\ oldPath # newPath /\ mapNow = MovedAlone(mapBefore, oldPath, newPath)
        /\ toVisit = {k \in DOMAIN mapNow : Above(oldPath, k)}
    BY LoopInit
  <2>5. mapNow = [q \in (DOMAIN mapBefore \ {oldPath}) \cup {newPath} |->
                      IF q = newPath THEN mapBefore[oldPath] ELSE mapBefore[q]]
    BY <2>4 DEF MovedAlone, Linked, Restrict
  <2>6. toVisit = {q \in DOMAIN mapBefore : Above(oldPath, q)}
    BY <2>3, <2>4, <2>5 DEF Above
  <2>7. LoopSource \ toVisit = {oldPath}
    BY <1>1, <2>2, <2>6 DEF LoopSource, Above, LoopArguments
  <2>8. LoopMoved = {newPath}
    BY <2>7, <2>1 DEF LoopMoved
  <2>9. LoopKept \cup toVisit = DOMAIN mapBefore \ {oldPath}
    BY <2>2, <2>6 DEF LoopKept, Above
  <2> QED BY <2>1, <2>5, <2>6, <2>8, <2>9 DEF LoopHalfway
<1> QED BY <1>1, <1>2 DEF LoopInv

\* A round takes one key from those left to visit and adds its new path.
LEMMA VisitLoopInv ==
  ASSUME LoopInv, NEW k \in toVisit, Visit(k)
  PROVE  LoopInv'
<1> DEFINE moved == Rebase(k, oldPath, newPath)
<1>1. UNCHANGED <<mapBefore, oldPath, newPath>>
  BY LoopVisit
<1>2. LoopArguments'
  BY <1>1 DEF LoopInv, LoopArguments
<1>3. ASSUME MovesAway(DOMAIN mapBefore, oldPath, newPath)
      PROVE  /\ toVisit' \subseteq {q \in DOMAIN mapBefore : Above(oldPath, q)}
             /\ mapNow' = LoopHalfway'
  <2>1. /\ LoopArguments /\ mapNow = LoopHalfway
        /\ toVisit \subseteq {q \in DOMAIN mapBefore : Above(oldPath, q)}
    BY <1>3 DEF LoopInv
  <2>2. k \in DOMAIN mapBefore /\ Above(oldPath, k) /\ AtOrAbove(oldPath, k) /\ k \in LoopSource
    BY <2>1 DEF Above, LoopSource
  <2>3. ~Above(oldPath, moved)
    BY <1>3, <2>2 DEF MovesAway
  <2>4. toVisit' = toVisit \ {k}
    BY <2>3, LoopVisit
  <2>5. Rebase(moved, newPath, oldPath) = k
    BY <2>1, <2>2, RebaseBack DEF LoopArguments
  <2>6. ASSUME NEW x \in LoopMoved
        PROVE  ~Above(oldPath, x)
    BY <1>3 DEF LoopMoved, LoopSource, MovesAway
  <2>7. k \notin LoopMoved /\ k \notin LoopKept
    BY <2>2, <2>6 DEF LoopKept
  <2>8. mapNow[k] = mapBefore[k]
    BY <2>1, <2>7 DEF LoopHalfway
  <2>9. LoopSource' = LoopSource /\ LoopKept' = LoopKept
    BY <1>1 DEF LoopSource, LoopKept
  <2>10. LoopSource \ toVisit' = (LoopSource \ toVisit) \cup {k}
    BY <2>2, <2>4
  <2>11. LoopMoved' = LoopMoved \cup {moved}
    <3>1. LoopMoved' = {Rebase(q, oldPath, newPath) : q \in LoopSource \ toVisit'}
      BY <1>1, <2>9 DEF LoopMoved
    <3> QED BY <3>1, <2>10 DEF LoopMoved
  <2>12. mapNow' = Linked(Restrict(mapNow, DOMAIN mapNow \ {k}), moved, mapBefore[k])
    BY <2>8, LoopVisit
  <2>13. DOMAIN mapNow = LoopKept \cup toVisit \cup LoopMoved
    BY <2>1 DEF LoopHalfway
  <2> DEFINE rest == Restrict(mapNow, DOMAIN mapNow \ {k})
  <2>14. DOMAIN rest = LoopKept \cup toVisit' \cup LoopMoved
    BY <2>4, <2>7, <2>13 DEF Restrict
  <2>15. \A x \in DOMAIN rest :
            rest[x] = IF x \in LoopMoved THEN mapBefore[Rebase(x, newPath, oldPath)] ELSE mapBefore[x]
    BY <2>1, <2>14, <2>4 DEF Restrict, LoopHalfway
  <2> HIDE DEF rest, moved
  <2>16. mapNow' = [x \in (LoopKept \cup toVisit' \cup LoopMoved) \cup {moved} |->
                       IF x = moved THEN mapBefore[k] ELSE rest[x]]
    BY <2>12, <2>14 DEF rest, Linked
  <2>17. mapNow' = [x \in LoopKept \cup toVisit' \cup LoopMoved' |->
                       IF x \in LoopMoved' THEN mapBefore[Rebase(x, newPath, oldPath)] ELSE mapBefore[x]]
    BY <2>5, <2>11, <2>14, <2>15, <2>16
  <2>18. LoopHalfway' = [x \in LoopKept \cup toVisit' \cup LoopMoved' |->
                       IF x \in LoopMoved' THEN mapBefore[Rebase(x, newPath, oldPath)] ELSE mapBefore[x]]
    BY <1>1, <2>9 DEF LoopHalfway
  <2> QED BY <2>1, <2>4, <2>17, <2>18
<1> QED BY <1>1, <1>2, <1>3 DEF LoopInv

\* Every step keeps the invariant.
LEMMA NextLoopInv == LoopInv /\ [LoopNext]_loopVars => LoopInv'
<1> SUFFICES ASSUME LoopInv, [LoopNext]_loopVars PROVE LoopInv'
  OBVIOUS
<1>1. ASSUME NEW k \in toVisit, Visit(k) PROVE LoopInv'
  BY <1>1, VisitLoopInv
<1>2. CASE UNCHANGED loopVars
  BY <1>2 DEF loopVars, LoopInv, LoopArguments, LoopHalfway, LoopKept, LoopMoved, LoopSource
<1> QED BY <1>1, <1>2 DEF LoopNext

\* The range over the map (awsfs/rename.go:44-50) computes MovedTree, which is
\* what AwsFS writes in one step, whatever keys the map has and in whatever
\* order they come, as long as nothing moves to below the old path.
THEOREM LoopComputesMovedTree == LoopSpec => []LoopIsMovedTree
<1>1. LoopInv => LoopIsMovedTree
  <2> SUFFICES ASSUME LoopInv, Done, MovesAway(DOMAIN mapBefore, oldPath, newPath)
               PROVE  mapNow = MovedTree(mapBefore, oldPath, newPath)
    BY DEF LoopIsMovedTree
  <2>1. toVisit = {} /\ mapNow = LoopHalfway
    BY DEF LoopInv, Done
  <2> QED BY <2>1 DEF LoopHalfway, LoopKept, LoopMoved, LoopSource, MovedTree
<1> QED BY <1>1, InitLoopInv, NextLoopInv, PTL DEF LoopSpec
=============================================================================
