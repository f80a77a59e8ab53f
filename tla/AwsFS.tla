------------------------------- MODULE AwsFS -------------------------------
(***************************************************************************)
(* The file system of awsfs/: the paths of all files in one DynamoDB item, *)
(* one DynamoDB item per file or directory, the bodies of files in S3.     *)
(*                                                                         *)
(* A call of a FileSystem method runs as a sequence of requests to the two *)
(* services.  Each request is an action; what the method computes between  *)
(* two requests belongs to the one before.  Calls run at the same time, in *)
(* one process of the server or in several, and no lock is assumed between *)
(* them but `mux`: WebDAV locks are kept by each process for itself.       *)
(*                                                                         *)
(* A call that its first read of the reference refuses (os.ErrExist,       *)
(* os.ErrNotExist, os.ErrInvalid), or whose first read fails, changes      *)
(* nothing, and neither does Stat: they are not actions.  What a call      *)
(* returns is left out; a write that was applied may be reported as failed.*)
(***************************************************************************)
EXTENDS PathNames, Integers

CONSTANTS Renames,     \* the pairs <<old, new>> Rename is called with
          Sizes,       \* the bodies a file can have, told by their sizes
          PropNames,   \* the dead properties Patch sets and removes
          Callers,     \* what can run one call at a time
          Instances,   \* the processes of the server
          InstanceOf,  \* the process each caller runs in
          Methods,     \* the methods they call
          MaxIDs,      \* bound on the identifiers made
          MaxVersion,  \* bound on the version of the reference
          MaxUpdates   \* bound on the version of an entry

ASSUME RenamesAssumption ==
  /\ Renames \subseteq Names \X Names
  /\ \A pair \in Renames :
       /\ ~AtOrAbove(pair[1], pair[2])
       /\ MovesAway(Names, pair[1], pair[2])   \* see RenameLoop
       /\ \A q \in Names : AtOrAbove(pair[1], q) => Rebase(q, pair[1], pair[2]) \in Names
ASSUME SizesAssumption == Sizes \subseteq Nat /\ 0 \in Sizes
ASSUME CallersAssumption == InstanceOf \in [Callers -> Instances]
ASSUME NobodyAssumption == "nobody" \notin Callers
ASSUME BoundsAssumption == MaxIDs \in Nat \ {0} /\ MaxVersion \in Nat /\ MaxUpdates \in Nat

VARIABLES reference,  \* the item "root" of the reference table
          entry,      \* the entry table, by id
          bucket,     \* the bodies in S3, by id
          lastID,     \* identifiers are 1, 2, ...: the last one made
          mux,        \* the mutex of each process: its holder
          call        \* where the call of each caller is

vars == <<reference, entry, bucket, lastID, mux, call>>

Nobody == "nobody"
NoID   == 0   \* the parent_id "root" of the root, and a parent not found

IDs   == 1..MaxIDs
Bases == Segments \cup {"/"}

Entry == [id : IDs, parent : IDs \cup {NoID}, name : Bases, type : {"dir", "file"},
          size : Sizes, deadProps : SUBSET PropNames, version : Nat]

PathMaps  == UNION {[D -> IDs] : D \in SUBSET Names}
Reference == [entries : PathMaps, version : Nat]

NewEntry(id, parent, path, type, size) ==
  [id |-> id, parent |-> parent, name |-> Base(path), type |-> type, size |-> size,
   deadProps |-> {}, version |-> 1]

-----------------------------------------------------------------------------
(* Where a call can be: between two requests, with what it remembers *)

Call ==
  [at : {"idle"}]
  \cup [at : {"put"}, path : Names, id : IDs, size : Sizes, known : BOOLEAN,
        parent : IDs \cup {NoID}]
  \cup [at : {"resize"}, id : IDs, size : Sizes]
  \cup [at : {"open"}, id : IDs]
  \cup [at : {"body", "opened", "update"}, entry : Entry]
  \cup [at : {"add"}, path : Names, entry : Entry]
  \cup [at : {"addWrite"}, path : Names, entry : Entry, ref : Reference]
  \cup [at : {"delete"}, path : Names, ref : Reference]
  \cup [at : {"rename"}, pair : Renames, ref : Reference]
  \cup [at : {"renameWrite"}, pair : Renames, ref : Reference, entry : Entry]

Goto(c, stage) == call' = [call EXCEPT ![c] = stage]
Return(c) == Goto(c, [at |-> "idle"])

Stored == <<reference, entry, bucket>>

(* Mutant: a write does not depend on the version that was read. *)
AnyReference(ref) == TRUE
AnyEntry(e) == e.id \in DOMAIN entry

(* The conditions of the writes: nobody wrote the item since it was read. *)
CurrentReference(ref) == ref.version = reference.version
CurrentEntry(e) == e.id \in DOMAIN entry /\ e.version = entry[e.id].version

WriteReference(entries) ==
  /\ reference.version < MaxVersion
  /\ reference' = [entries |-> entries, version |-> reference.version + 1]

(* What UpdateEntry and UpdateEntryName write of an entry. *)
Updated(old, e) ==
  [old EXCEPT !.size = e.size, !.deadProps = e.deadProps, !.version = @ + 1]

(* Mutant: the entry keeps its parent. *)
OnlyNamed(old, new, parent) == [old EXCEPT !.name = Base(new), !.version = @ + 1]

Placed(old, new, parent) ==
  [old EXCEPT !.name = Base(new), !.parent = parent, !.version = @ + 1]

-----------------------------------------------------------------------------
(* Mkdir and AddEntry *)

Mkdir(c, path) ==
  /\ call[c].at = "idle"
  /\ path # Root /\ path \notin DOMAIN reference.entries
  /\ Parent(path) \in DOMAIN reference.entries
  /\ lastID < MaxIDs
  /\ lastID' = lastID + 1
  /\ Goto(c, [at |-> "add", path |-> path,
              entry |-> NewEntry(lastID + 1, reference.entries[Parent(path)], path, "dir", 0)])
  /\ UNCHANGED <<Stored, mux>>

(* Mutant: mux is not taken. *)
AddReadUnlocked(c) ==
  /\ call[c].at = "add"
  /\ Goto(c, [at |-> "addWrite", path |-> call[c].path, entry |-> call[c].entry,
              ref |-> reference])
  /\ UNCHANGED <<Stored, lastID, mux>>

(* AddEntry takes mux and reads the reference anew; when that fails it     *)
(* gives mux back.                                                         *)
AddReadFails(c) ==
  /\ call[c].at = "add"
  /\ mux[InstanceOf[c]] = Nobody
  /\ Return(c)
  /\ UNCHANGED <<Stored, lastID, mux>>

AddRead(c) ==
  /\ call[c].at = "add"
  /\ mux[InstanceOf[c]] = Nobody
  /\ mux' = [mux EXCEPT ![InstanceOf[c]] = c]
  /\ Goto(c, [at |-> "addWrite", path |-> call[c].path, entry |-> call[c].entry,
              ref |-> reference])
  /\ UNCHANGED <<Stored, lastID>>

(* The deferred mux.Unlock. *)
Unlocked(c) == [mux EXCEPT ![InstanceOf[c]] = IF @ = c THEN Nobody ELSE @]

(* One transaction puts the entry and, when nobody wrote the reference     *)
(* since it was read, the path.                                            *)
AddWrite(c) ==
  /\ call[c].at = "addWrite"
  /\ CurrentReference(call[c].ref)
  /\ WriteReference(Linked(call[c].ref.entries, call[c].path, call[c].entry.id))
  /\ entry' = Linked(entry, call[c].entry.id, call[c].entry)
  /\ mux' = Unlocked(c)
  /\ Return(c)
  /\ UNCHANGED <<bucket, lastID>>

-----------------------------------------------------------------------------
(* Create *)

(* The first read of the reference says which id the body goes to. *)
Create(c, path, size) ==
  /\ call[c].at = "idle"
  /\ LET known  == path \in DOMAIN reference.entries
         parent == IF Parent(path) \in DOMAIN reference.entries
                   THEN reference.entries[Parent(path)] ELSE NoID
     IN  /\ known \/ lastID < MaxIDs
         /\ lastID' = IF known THEN lastID ELSE lastID + 1
         /\ Goto(c, [at |-> "put", path |-> path, size |-> size, known |-> known,
                     id |-> IF known THEN reference.entries[path] ELSE lastID + 1,
                     parent |-> IF known THEN NoID ELSE parent])
  /\ UNCHANGED <<Stored, mux>>

(* After the body: an existing entry gets its size, a new one is added if  *)
(* its parent was there when the call began.                               *)
AfterPut(c) ==
  LET new == NewEntry(call[c].id, call[c].parent, call[c].path, "file", call[c].size)
  IN  IF call[c].known THEN Goto(c, [at |-> "resize", id |-> call[c].id, size |-> call[c].size])
      ELSE IF call[c].parent = NoID THEN Return(c)
      ELSE Goto(c, [at |-> "add", path |-> call[c].path, entry |-> new])

(* Mutant: an upload that failed goes unnoticed. *)
PutObjectUnchecked(c) ==
  /\ call[c].at = "put"
  /\ bucket' \in {bucket, Linked(bucket, call[c].id, call[c].size)}
  /\ AfterPut(c)
  /\ UNCHANGED <<reference, entry, lastID, mux>>

PutObject(c) ==
  /\ call[c].at = "put"
  /\ bucket' = Linked(bucket, call[c].id, call[c].size)
  /\ AfterPut(c) \/ Return(c)
  /\ UNCHANGED <<reference, entry, lastID, mux>>

ResizeRead(c) ==
  /\ call[c].at = "resize"
  /\ IF call[c].id \in DOMAIN entry
     THEN Goto(c, [at |-> "update",
                   entry |-> [entry[call[c].id] EXCEPT !.size = call[c].size]])
     ELSE Return(c)
  /\ UNCHANGED <<Stored, lastID, mux>>

(* UpdateEntry, for Create and for Patch: size and dead properties are     *)
(* written together, when nobody wrote the entry since it was read.        *)
UpdateWrite(c) ==
  /\ call[c].at = "update"
  /\ CurrentEntry(call[c].entry)
  /\ call[c].entry.version < MaxUpdates
  /\ entry' = [entry EXCEPT ![call[c].entry.id] = Updated(@, call[c].entry)]
  /\ Return(c)
  /\ UNCHANGED <<reference, bucket, lastID, mux>>

-----------------------------------------------------------------------------
(* RemoveAll *)

RemoveAll(c, path) ==
  /\ call[c].at = "idle"
  /\ path # Root /\ path \in DOMAIN reference.entries
  /\ Goto(c, [at |-> "delete", path |-> path, ref |-> reference])
  /\ UNCHANGED <<Stored, lastID, mux>>

(* The ids of a path and of all that is under it. *)
IDsAtOrBelow(m, path) == {m[q] : q \in {r \in DOMAIN m : AtOrAbove(path, r)}}

(* DeleteEntries: one transaction; the bodies stay in S3. *)
DeleteWrite(c) ==
  /\ call[c].at = "delete"
  /\ CurrentReference(call[c].ref)
  /\ WriteReference(Without(call[c].ref.entries, call[c].path))
  /\ entry' = Restrict(entry, DOMAIN entry \ IDsAtOrBelow(call[c].ref.entries, call[c].path))
  /\ Return(c)
  /\ UNCHANGED <<bucket, lastID, mux>>

-----------------------------------------------------------------------------
(* Rename *)

Rename(c, old, new) ==
  /\ call[c].at = "idle"
  /\ old # Root /\ new # Root
  /\ old \in DOMAIN reference.entries
  /\ Parent(new) \in DOMAIN reference.entries
  /\ Goto(c, [at |-> "rename", pair |-> <<old, new>>, ref |-> reference])
  /\ UNCHANGED <<Stored, lastID, mux>>

RenameRead(c) ==
  /\ call[c].at = "rename"
  /\ LET id == call[c].ref.entries[call[c].pair[1]]
     IN  IF id \in DOMAIN entry
         THEN Goto(c, [at |-> "renameWrite", pair |-> call[c].pair, ref |-> call[c].ref,
                       entry |-> entry[id]])
         ELSE Return(c)
  /\ UNCHANGED <<Stored, lastID, mux>>

Moved(m, old, new, type) ==
  IF type = "dir" THEN MovedTree(m, old, new) ELSE MovedAlone(m, old, new)

(* UpdateEntryName: one transaction writes the reference and the entry,    *)
(* when nobody wrote either since they were read.                          *)
RenameWrite(c) ==
  LET old == call[c].pair[1]
      new == call[c].pair[2]
      ref == call[c].ref
      e   == call[c].entry
  IN  /\ call[c].at = "renameWrite"
      /\ CurrentReference(ref) /\ CurrentEntry(e)
      /\ e.version < MaxUpdates
      /\ WriteReference(Moved(ref.entries, old, new, e.type))
      /\ entry' = [entry EXCEPT ![e.id] = Placed(@, new, ref.entries[Parent(new)])]
      /\ Return(c)
      /\ UNCHANGED <<bucket, lastID, mux>>

-----------------------------------------------------------------------------
(* OpenFile and Patch *)

OpenFile(c, path) ==
  /\ call[c].at = "idle"
  /\ path \in DOMAIN reference.entries
  /\ Goto(c, [at |-> "open", id |-> reference.entries[path]])
  /\ UNCHANGED <<Stored, lastID, mux>>

OpenRead(c) ==
  /\ call[c].at = "open"
  /\ IF call[c].id \notin DOMAIN entry THEN Return(c)
     ELSE Goto(c, [at    |-> IF entry[call[c].id].type = "dir" THEN "opened" ELSE "body",
                   entry |-> entry[call[c].id]])
  /\ UNCHANGED <<Stored, lastID, mux>>

(* The body is copied to a file of the process. *)
GetObject(c) ==
  /\ call[c].at = "body"
  /\ IF call[c].entry.id \in DOMAIN bucket
     THEN Goto(c, [at |-> "opened", entry |-> call[c].entry])
     ELSE Return(c)
  /\ UNCHANGED <<Stored, lastID, mux>>

(* A property is set or removed in the entry that OpenFile read. *)
Patch(c, name) ==
  /\ call[c].at = "opened"
  /\ \E props \in {call[c].entry.deadProps \cup {name}, call[c].entry.deadProps \ {name}} :
       Goto(c, [at |-> "update", entry |-> [call[c].entry EXCEPT !.deadProps = props]])
  /\ UNCHANGED <<Stored, lastID, mux>>

Close(c) ==
  /\ call[c].at = "opened"
  /\ Return(c)
  /\ UNCHANGED <<Stored, lastID, mux>>

-----------------------------------------------------------------------------
(* Mutant: an AddEntry that fails keeps mux. *)
FailKeepsMux(c) ==
  /\ call[c].at \notin {"idle", "add"}
  /\ Return(c)
  /\ UNCHANGED <<Stored, lastID, mux>>

(* A later request fails, or a conditional write is refused: the call      *)
(* returns its error.                                                      *)
Fail(c) ==
  /\ call[c].at \notin {"idle", "add"}
  /\ Return(c)
  /\ mux' = Unlocked(c)
  /\ UNCHANGED <<Stored, lastID>>

(* Init of the metadata store has run. *)
Init ==
  /\ reference = [entries |-> [q \in {Root} |-> 1], version |-> 1]
  /\ entry = [id \in {1} |-> NewEntry(1, NoID, Root, "dir", 0)]
  /\ bucket = << >>
  /\ lastID = 1
  /\ mux = [i \in Instances |-> Nobody]
  /\ call = [c \in Callers |-> [at |-> "idle"]]

Begin(c) ==
  \/ \E path \in Names :
       \/ "Mkdir" \in Methods /\ Mkdir(c, path)
       \/ "Create" \in Methods /\ \E size \in Sizes : Create(c, path, size)
       \/ "RemoveAll" \in Methods /\ RemoveAll(c, path)
       \/ "OpenFile" \in Methods /\ OpenFile(c, path)
  \/ \E pair \in Renames : Rename(c, pair[1], pair[2])

AddBegin(c) == AddRead(c) \/ AddReadFails(c)

(* The next request of a call that waits for nothing but its answer. *)
Proceed(c) ==
  \/ AddWrite(c)
  \/ PutObject(c) \/ ResizeRead(c) \/ UpdateWrite(c)
  \/ DeleteWrite(c)
  \/ RenameRead(c) \/ RenameWrite(c)
  \/ OpenRead(c) \/ GetObject(c) \/ Close(c)
  \/ \E name \in PropNames : Patch(c, name)
  \/ Fail(c)

Next == \E c \in Callers : Begin(c) \/ AddBegin(c) \/ Proceed(c)

Spec == Init /\ [][Next]_vars

(* Each request to DynamoDB and S3 ends, with its answer or with an error, *)
(* and a goroutine that can run does; sync.Mutex hands itself to a waiter  *)
(* that has waited long, so whoever wants it gets it in the end.           *)
FairSpec == Spec /\ \A c \in Callers : WF_vars(Proceed(c)) /\ SF_vars(AddBegin(c))

-----------------------------------------------------------------------------
(* Properties *)

\* Every item, body and call has its type; mux is held by the callers that are
\* between AddEntry's read and write, and an identifier is never made twice.
TypeOK ==
  /\ reference \in Reference
  /\ DOMAIN entry \subseteq 1..lastID
  /\ \A id \in DOMAIN entry : entry[id] \in Entry /\ entry[id].id = id
  /\ DOMAIN bucket \subseteq 1..lastID /\ \A id \in DOMAIN bucket : bucket[id] \in Sizes
  /\ lastID \in IDs
  /\ \A c \in Callers : call[c] \in Call
  /\ mux \in [Instances -> Callers \cup {Nobody}]
  /\ \A c \in Callers : mux[InstanceOf[c]] = c <=> call[c].at = "addWrite"

\* No path leads to a missing entry, and no two paths to the same one, in
\* whatever order the transactions of concurrent calls commit, fail, or commit
\* and seem to fail (awsfs/metadata.go:211-234, 301-334, 366-383).
PathsLeadToEntries ==
  /\ Root \in DOMAIN reference.entries
  /\ \A q \in DOMAIN reference.entries : reference.entries[q] \in DOMAIN entry
  /\ \A q, r \in DOMAIN reference.entries : reference.entries[q] = reference.entries[r] => q = r

\* A file that has a path has a body in S3: the body is put before the entry
\* (awsfs/create.go:31-72), and the body of an entry is never taken away.
FilesHaveBodies ==
  \A q \in DOMAIN reference.entries :
    LET id == reference.entries[q]
    IN  id \in DOMAIN entry /\ entry[id].type = "file" => id \in DOMAIN bucket

(* The paths and the entries tell the same tree: PROPFIND finds the names  *)
(* of a directory by parent_id and then stats them by path.                *)
Tree ==
  \A q \in DOMAIN reference.entries \ {Root} :
    LET e == entry[reference.entries[q]]
    IN  /\ Parent(q) \in DOMAIN reference.entries
        /\ e.parent = reference.entries[Parent(q)]
        /\ e.name = Base(q)

HasChildren(path) == \E q \in DOMAIN reference.entries : Above(path, q)

(* The steps the code does not guard: an entry is added under a parent, or *)
(* at a path, that changed since the call looked; a rename lands on a      *)
(* directory that is not empty, or moves a file that has paths under it.   *)
UnguardedStep(c) ==
  \/ /\ AddWrite(c)
     /\ \/ HasChildren(call[c].path)
        \/ Parent(call[c].path) \notin DOMAIN reference.entries
        \/ reference.entries[Parent(call[c].path)] # call[c].entry.parent
  \/ /\ RenameWrite(c)
     /\ \/ HasChildren(call[c].pair[2])
        \/ call[c].entry.type = "file" /\ HasChildren(call[c].pair[1])

\* Only those steps can make the paths and the entries disagree about the tree:
\* every other interleaving of calls keeps it, in particular each removal and
\* each rename that the versions let through (awsfs/metadata.go:277-389).
TreeStays == Tree /\ (\A c \in Callers : ~UnguardedStep(c)) => Tree'

TreeKept == [][TreeStays]_vars

\* No update of an entry undoes another: a step changes the size of an entry,
\* or its dead properties, or its place, and leaves the rest as it was, though
\* UpdateEntry writes back size and properties together from an entry
\* that the call may have read long before (awsfs/metadata.go:242-275).
OneUpdate(e, f) ==
  LET sized   == f.size # e.size
      patched == f.deadProps # e.deadProps
      placed  == f.parent # e.parent \/ f.name # e.name
  IN  /\ ~(sized /\ patched) /\ ~(sized /\ placed) /\ ~(patched /\ placed)
      /\ f.type = e.type

NoLostUpdate ==
  [][\A id \in DOMAIN entry \cap DOMAIN entry' : OneUpdate(entry[id], entry'[id])]_vars

\* mux does what it is for (awsfs/metadata.go:182-186): an AddEntry never makes
\* the write of another AddEntry of its process fail.
AddsTakeTurns ==
  [][\A c, d \in Callers :
       c # d /\ InstanceOf[c] = InstanceOf[d] /\ AddWrite(c) => call[d].at # "addWrite"]_vars

\* Every call returns, whichever of its requests fail: mux is always given back.
CallsReturn == \A c \in Callers : call[c].at # "idle" ~> call[c].at = "idle"

Atomic == INSTANCE Namespace WITH tree <- reference.entries

\* Each write of the reference is one whole edit of the map of paths as it is at
\* that moment, so that no call undoes what another did to other paths
\* (README.md:49, "Version number for optimistic lock").
EditsAreAtomic == Atomic!TreeSpec
=============================================================================
