------------------------------ MODULE FileStore -----------------------------
(***************************************************************************)
(* The calls of a FileSystem as the traversals of webdav/file.go see them, *)
(* with the outcomes awsfs gives them: each call reads or edits the map of *)
(* paths and the items of the entries table in one step and reports an     *)
(* error, or none.  AwsFS is the module of what happens inside a call.     *)
(*                                                                         *)
(* An action Call(arguments, result) is the call with that result; the     *)
(* caller takes any result the store allows.  "failed" is a request to     *)
(* AWS that fails, "path" an error of type *os.PathError.                  *)
(***************************************************************************)
EXTENDS PathMap, FiniteSets

CONSTANTS Bodies,   \* the contents of files, sequences of bytes
          Trees     \* the files at the start: functions from paths to contents,
                    \* Directory for a directory

Directory == "directory"
Empty == << >>
NoParent == 0   \* the parent of the root's item is no identifier

VARIABLES tree,    \* Reference.Entries: the identifier of each path
          entry,   \* the items by identifier, with the content of the object
          nextID   \* identifiers are uuids: none is made twice

storeVars == <<tree, entry, nextID>>

Item(parent, name, dir, body) == [parent |-> parent, name |-> name, dir |-> dir, body |-> body]

(* The store that holds the files of t. *)
HoldsFiles(t) ==
  LET ids == CHOOSE f \in [DOMAIN t -> 1..Cardinality(DOMAIN t)] :
               \A p, q \in DOMAIN t : p # q => f[p] # f[q]
      At(i) == CHOOSE p \in DOMAIN t : ids[p] = i
  IN  /\ tree = ids
      /\ entry = [i \in 1..Cardinality(DOMAIN t) |->
                    LET p == At(i)
                    IN  Item(IF p = Root THEN NoParent ELSE ids[Parent(p)], Base(p),
                             t[p] = Directory, IF t[p] = Directory THEN Empty ELSE t[p])]
      /\ nextID = Cardinality(DOMAIN t) + 1

Exists(path) == path \in DOMAIN tree
IsDir(path) == entry[tree[path]].dir

(* AddEntry: the path and its item appear together. *)
Added(path, dir, body) ==
  /\ tree' = Linked(tree, path, nextID)
  /\ entry' = Linked(entry, nextID, Item(tree[Parent(path)], Base(path), dir, body))
  /\ nextID' = nextID + 1

(* awsfs/mkdir.go: whether the parent is a directory is not asked. *)
Mkdir(path, result) ==
  \/ /\ result = "ok" /\ ~Exists(path) /\ Exists(Parent(path))
     /\ Added(path, TRUE, Empty)
  \/ /\ \/ result = "exist" /\ Exists(path)
        \/ result = "notexist" /\ ~Exists(path) /\ ~Exists(Parent(path))
        \/ result = "failed"
     /\ UNCHANGED storeVars

(* The object of a path that exists takes another content. *)
Stored(path, body) ==
  /\ Exists(path)
  /\ entry' = [entry EXCEPT ![tree[path]].body = body]
  /\ UNCHANGED <<tree, nextID>>

(* awsfs/create.go: the object is put before the item is written, so that a *)
(* call that fails may have replaced the content.                           *)
Create(path, body, result) ==
  \/ result \in {"ok", "failed"} /\ Stored(path, body)
  \/ /\ result = "ok" /\ ~Exists(path) /\ Exists(Parent(path))
     /\ Added(path, FALSE, body)
  \/ /\ \/ result = "notexist" /\ ~Exists(path) /\ ~Exists(Parent(path))
        \/ result = "failed"
     /\ UNCHANGED storeVars

(* awsfs/remove.go: the path and all under it, with their items. *)
RemoveAll(path, result) ==
  \/ /\ result = "ok" /\ path # Root /\ Exists(path)
     /\ LET gone == {tree[q] : q \in {r \in DOMAIN tree : AtOrAbove(path, r)}}
        IN  /\ tree' = Without(tree, path)
            /\ entry' = Restrict(entry, DOMAIN entry \ gone)
     /\ UNCHANGED nextID
  \/ /\ \/ result = "invalid" /\ path = Root
        \/ result = "notexist" /\ ~Exists(path)
        \/ result = "failed" /\ path # Root
     /\ UNCHANGED storeVars

(* awsfs/rename.go: what the new path had keeps its item. *)
Rename(old, new, result) ==
  \/ /\ result = "ok" /\ Root \notin {old, new} /\ Exists(old) /\ Exists(Parent(new))
     /\ tree' = IF IsDir(old) THEN MovedTree(tree, old, new) ELSE MovedAlone(tree, old, new)
     /\ entry' = [entry EXCEPT ![tree[old]].parent = tree[Parent(new)],
                               ![tree[old]].name = Base(new)]
     /\ UNCHANGED nextID
  \/ /\ \/ result = "invalid" /\ Root \in {old, new}
        \/ /\ result = "notexist" /\ Root \notin {old, new}
           /\ ~Exists(old) \/ ~Exists(Parent(new))
        \/ result = "failed" /\ Root \notin {old, new}
     /\ UNCHANGED storeVars

(* awsfs/stat.go *)
Stat(path, result) ==
  /\ \/ result = "ok" /\ Exists(path)
     \/ result = "notexist" /\ ~Exists(path)
     \/ result = "failed"
  /\ UNCHANGED storeVars

(* awsfs/open.go; a file is copied to a temporary file, and making that one  *)
(* is what can fail with a *os.PathError.                                   *)
OpenFile(path, result) ==
  /\ \/ result = "ok" /\ Exists(path)
     \/ result = "notexist" /\ ~Exists(path)
     \/ result = "path" /\ Exists(path) /\ ~IsDir(path)
     \/ result = "failed"
  /\ UNCHANGED storeVars

(* What is left to read of a temporary file: io.Copy has written all of the  *)
(* object to it, and the offset is behind what was written.                *)
TempFile(body) == SubSeq(body, Len(body) + 1, Len(body))

(* The handle OpenFile returns: the item as it was read, and the reader. *)
Handle(path) ==
  [id |-> tree[path], dir |-> IsDir(path),
   rest |-> IF IsDir(path) THEN Empty ELSE TempFile(entry[tree[path]].body)]

(* Readdir of a handle: the names of the items that have it for their        *)
(* parent, read now.  A file has no members to list.                       *)
Members(handle) ==
  {entry[i].name : i \in {j \in DOMAIN entry : handle.dir /\ entry[j].parent = handle.id}}

Results == {"ok", "exist", "notexist", "invalid", "path", "failed"}
=============================================================================
