# webdav-serverless in TLA+

A verification project for [webdav-serverless](../src/README.md): a WebDAV
server whose files live in S3, whose metadata lives in DynamoDB and whose locks
live in the memory of the process.  The modules here model the program's own
logic, TLC checks them on small instances, and TLAPS proves what matters most
for every instance: the lock system, the metadata store through crashes and
starts, the handlers' locks, COPY, MOVE and PROPFIND call by call, properties with
the way of their values through XML, and the in-memory file system.

`PROJECT.json` lists the components, runs, mutants, findings, hazards and
theorems, and maps each definition to the lines it stands for.

## The system

| Part | Source | State | Operations |
|---|---|---|---|
| Lock system | `webdav/lock.go` | `byName`, `byToken`, `byExpiry`, `gen` under one mutex | `Confirm` and the release function it returns, `Create`, `Refresh`, `Unlock`; each first collects the locks that are due |
| Handlers that write | `webdav/webdav.go`, `moveFiles` of `webdav/file.go` | what a request remembers between calls: lock tokens, release functions, statuses | one method per HTTP method; `confirmLocks` before every write, its release deferred |
| COPY, MOVE, PROPFIND | `copyFiles`, `moveFiles`, `walkFS` of `webdav/file.go`, `multistatusWriter` of `webdav/xml.go` | a stack of calls, one per directory entered; what has been sent of the answer | each is a long sequence of file-system calls |
| File system | `awsfs/*.go` | the *reference* item (every path of every file in one DynamoDB map, with a version), one *entry* item per file or directory (with a version), S3 objects by entry id, the process-wide mutex `mux` | `Mkdir`, `Create`, `RemoveAll`, `Rename`, `Stat`, `OpenFile`, and of the opened file `Readdir`, `Patch`, `DeadProps`, `Close` |
| Start | `main.go`, `MetadataStore.Init` | empty or existing tables | creates the root if there is no reference, makes an empty lock system, serves |
| Header parsers | `webdav/if.go`, `parseTimeout`, `parseDepth`, `readLockInfo` | none | If, Timeout, Depth, the body of LOCK |
| Properties | `webdav/prop.go`, `webdav/xml.go` | the dead properties of a resource | PROPFIND and PROPPATCH bodies, live and dead properties, propstats |
| XML fork | `webdav/internal/xml` | the decoder's stack of elements and name spaces, the encoder's stack of tags and two maps of prefixes | `Token`, `EncodeToken`; `UnmarshalXML` of a property's value pipes one into the other |
| Other file systems | `webdav/file.go` (`Dir`, `memFS`) | a tree of nodes in memory, handles | used by tests and by the litmus server, not by `main` |

How they interact: a handler is a goroutine.  It calls the lock system
(synchronous, a mutex inside), then the file system (each call several requests
to DynamoDB and S3, one after the other), then the release function.  Handlers
of one process share the lock system and `mux`.  Handlers of different processes
share only DynamoDB and S3: nothing but the version conditions of the writes
keeps them apart.  PROPFIND takes no lock, and COPY none on its source.

What is hard about it:

- **interleaving**: every file-system call reads, computes and writes in
  different requests, and other calls, of this or another process, run between;
  a COPY or PROPFIND is many such calls on a tree that changes meanwhile;
- **partial failure**: each request can fail, or be applied and seem to fail; a
  body is in S3 before its entry is in DynamoDB; a MOVE removes before it
  renames; a LOCK locks before it creates; a PROPFIND has sent its status line
  before it knows whether it can finish;
- **time**: a call takes its `now` before it waits for the mutex, locks fall due
  while they are held;
- **restarts**: locks vanish, tokens are counted from the clock, `Init` races
  with a process that already serves;
- **duplicated structure**: the lock system keeps the same locks in four places,
  the metadata store keeps the tree in two (paths; names and parent ids), the
  encoder keeps prefixes and name spaces in two maps, `memFS` keeps handles that
  outlive paths;
- **stacks of undo**: the decoder and the encoder take back at each end tag what
  the start tag set, and a property's value is cut out of the middle of a document.

What makes each part correct: locks exclude each other, are held by one request
at a time and go only when they may; handlers touch only what they have locked
and leave no lock behind; a path leads to an entry and a file's entry to a body,
edits of the map are whole and undo nothing; a restart finds a usable store; a
COPY or MOVE that says it succeeded did the whole of it, and one that failed
touched nothing else; a listing is complete or visibly broken off; a PROPPATCH
follows all its instructions or none; a property's value keeps its names.

## The modules

| Module | What it is |
|---|---|
| `Paths` | names as sequences of segments: ancestors, parents, prefix replacement (`slashClean` makes every name one) |
| `LockTable` | **abstract**: what a `LockSystem` promises, a table of exclusive locks with tokens never given out twice |
| `MemLS` | `memLS`, one action per method; refines `LockTable` (`KeepsPromise`) |
| `PathMap` | the edits of the map of paths: add, remove a subtree, move a file, move a subtree; when a move leads away from the old path |
| `PathNames` | the paths that `AwsFS` and `RenameLoop` speak of, any set of sequences of segments that holds the parent of each |
| `Namespace` | **abstract**: a map of paths that changes by whole edits |
| `AwsFS` | the metadata and physical stores, one action per request; its reference refines `Namespace` (`EditsAreAtomic`) |
| `AwsFSBoot` | `AwsFS` with processes that start on empty tables, crash and restart |
| `RenameLoop` | the loop of `Rename` over the Go map it edits |
| `WebDAV` | the handlers that write, over the lock table and an atomic file system |
| `FileStore` | the calls of awsfs, each whole, with its outcomes: what the walks are made of |
| `Traversal` | the stack of calls and the answer of a request that walks a tree |
| `CopyMove`, `Propfind` | the steps of `copyFiles` and `moveFiles`; of `walkFS`, `walkFn` and the multistatus writer |
| `TreeRequests` | composes them: one COPY, MOVE or PROPFIND, with another client's request between its calls |
| `IfHeader` | the header parsers as functions |
| `Properties` | PROPFIND and PROPPATCH of one resource, from the elements of the body to the propstats |
| `XmlDecoder`, `XmlEncoder` | decoder and printer as operators over their state |
| `PropValue` | composes them: `xmlValue.UnmarshalXML`, and the decoder that reads what it wrote |
| `OsTree` | **abstract**: the tree of named files a `FileSystem` shows, with the errors of its calls |
| `MemFS` | `memFS` and `memFile`; refines `OsTree` (`ImplementsTree`) |
| `PathMapProofs` | proofs about names and about the edits of the map; induction along a sequence |
| `MemLSProofs` | proofs about `MemLS` |
| `AwsFSProofs` | proofs about `AwsFS`, about it with starts and crashes (`AwsFSBoot`), and about the loop of `Rename` (`RenameLoop`) |
| `WebDAVProofs` | proofs about the handlers and their locks |
| `TreeRequestsProofs` | proofs about COPY, MOVE and PROPFIND: what they touch, and what their answers mean |
| `PropertiesProofs` | proofs about PROPFIND and PROPPATCH of one resource |
| `PropValueProofs` | proofs about the decoder and the encoder that a value goes through |
| `MemFSProofs` | proofs about `memFS`: the bytes of its files, and that it implements `OsTree` |
| `MC*` | instances for TLC |

### Lock system: `MemLS`

Every method runs under `memLS.mu`, so each is one action, with the collection of
the due locks that starts it (`CollectExpired`) inside.  The structure is one
record and `remove`, `create`, `hold`, `unhold` are operators from a record to
the next.  `byName` keeps nodes with a token and a reference count; what a node
knows of its lock (root, depth, duration, expiry, held) is in `byToken`, since
the code reads those fields only of nodes that carry a token.  The binary heap is
a set: only which locks are due is ever asked of it.  `now` is any time up to the
clock: requests take it before they get the mutex.  `releases` holds the release
functions that `Confirm` returned and nobody has called yet.

### File system: `AwsFS`

`reference`, `entry` and `bucket` are the items and objects; `mux` has a holder
per process; `call[c]` says between which two requests the call of `c` is and
what it remembers.  Each action is one request and the computation up to the next
one.  Conditional writes compare versions (`CurrentReference`, `CurrentEntry`);
a transaction changes both tables at once.  `Fail` is a request that fails, a
condition that is not met, or a write that was applied and reported as failed (it
may follow the write in the model because what a call returns is left out).  No
WebDAV lock is assumed to keep two calls apart: two processes have two lock
systems.  A UUID is the next number of `lastID`.

Left out: calls that their first read refuses and `Stat` (they change nothing),
`Readdir`, the content of bodies but their size, modify times, the temporary file
of `OpenFile`, the limits of DynamoDB's requests, a write that arrives after its
call has given up.  `Patch` changes one property at a time: `UpdateEntry` writes
all of them together anyhow.  `RenamesAssumption` excludes a rename into the own subtree,
and one of a deep tree onto a directory above it by which a path comes to lie under
the old path again (`MovesAway`): there the loop may visit the paths it adds, and
what it ends with depends on the order (`RenameLoop`).

### Rename's loop: `RenameLoop`

A range over a Go map visits in any order, does not visit what was deleted, and
may or may not visit what was added.  `Visit` is one round of it.  Its result is
compared with `MovedTree`, the operator `AwsFS` uses in one step, for every rename
that `MovesAway`: it does unless the new path is under the old one, or above it with
paths below that repeat the way down.

### Start: `AwsFSBoot`

`InitRead` and `InitWrite` are the two requests of `Init`; `Crash` forgets the
calls of a process and its `mux`, and a later start finds what was stored.
`StartTogether` says whether two processes may start on empty tables at once;
the run excludes it, because then the version can go back (see below).

### Handlers: `WebDAV`

A stage per call of the handler.  `confirmLocks` without an If header is
`LockSrc`, `LockDst`, `UndoSrc` (temporary zero-depth locks); with one it is
`Confirm` for the first list, then for the next when that one is refused; the
deferred release is `ReleaseDst` and `Release`; `Leave` is every return of a
handler that holds locks.  The lock system is the table that `LockTable`
describes, which `MemLS` is proved to implement: `Lockable` is its condition for a
new lock, not the walk over nodes.  `Lapse` stands for the collection of a due
lock, and for a restart, after which no lock is left.  The file system is atomic
here, and each call may fail, or be done and seem to have failed; what a handler
answers is kept for LOCK alone, whose client learns a token or not.  Client tokens
are a small set that is used again once nothing remembers a token.

### Requests over a tree: `FileStore`, `CopyMove`, `Propfind`, `TreeRequests`

`FileStore` has one action per call of awsfs with its result as a parameter, so
that the caller takes any result the store allows; `"failed"` is a request to AWS
that fails, `"path"` a `*os.PathError`, which PROPFIND treats as a file to leave
out.  A handle keeps the item it was opened by: `Stat` and `Readdir` of it ask for
what is there now.  The calls of `copyFiles` and `walkFS` under way are a stack of
records, because the code recurses; each step is one call of the file system and
what is done with its result.  `Others` is a request of another client, served
whole at any place between two calls.  `before` and `steady` are history: the store
when the request came, and the paths that have kept their identifier since.

### Headers: `IfHeader`

Functions from sequences of characters; there is no state to interleave.
`MCIfHeader` compares `parseIfHeader` with the grammar of RFC 4918 told of each
token by itself, `lex` with what the text of its tokens adds up to, and
`parseTimeout` with the way back in `writeLockInfo`, in assumptions TLC evaluates
in both `webdav` runs.

### Properties: `Properties`

Elements of the two bodies are chosen one at a time, so a request is any body the
bounds allow, malformed ones included.  `propnames` and `props` open the file each
for themselves, and other requests run between.  A PROPPATCH holds a lock, so it is
alone with those of its kind.  What a live property says is left out, which
resources have it is not.  The loops over names and instructions are functions defined
step by step, so that what they compute can be proved for every length.

### Values of properties: `XmlDecoder`, `XmlEncoder`, `PropValue`

A raw token is what `rawToken` finds: characters, entities, encodings and the
syntax within one tag are left out, name spaces and nesting are not.  The client's
document is chosen one raw token at a time; each goes through the request's
decoder, the value's encoder and the decoder that reads the result, in one step,
so `passed` always holds a token as it was sent and as it was read again.
`BasePrefix` stands for the part of `createNSPrefix` that makes a prefix of a URL, of
which `BasePrefixAssumption` says the two things that matter: it is never empty
(`_` takes its place) and never `xml` (`_` goes before it).

### In-memory file system: `MemFS`

Each call holds the mutex of the tree, of a node or of both from start to end, so
each is one step.  Handles keep their node when its path is removed, replaced or
moved.  `wrote` and `paths` are history: what was written to each node, and which
node each path leads to, by which `OsTree` is refined.

## The runs

| Run | Checks | Shows | Bounds |
|---|---|---|---|
| `memls` | `NodesExact`, `ExpiryExact`, `CanCreateExact`, `HoldersExact`, `ExclusiveAccess`, `NoEarlyLoss`, `KeepsPromise` | locks of both depths on `/`, `/a`, `/a/b` that lapse, are refreshed, unlocked and held past their time, with calls out of time order | 3 tokens; clock 1..2; durations -1, 0, 1; the theorems below hold without the bounds |
| `awsfs_race` | `PathsLeadToEntries`, `FilesHaveBodies`, `TreeKept`, `EditsAreAtomic` | two processes make, put, rename and remove on `/`, `/a`, `/a/b`, `/b`, `/b/b` | 3 ids, reference version up to 5, entry version up to 2; the theorems below hold without the bounds |
| `awsfs_entry` | `VersionGrows`, `NoLostUpdate` | two processes put, patch and remove one file, from empty tables on, while either stops between any two requests and starts again | 2 ids, versions up to 3, 2 sizes, 1 property; the first process starts alone; the theorems below hold without the bounds |
| `awsfs_mux` | `AddsTakeTurns`, `CallsReturn` | two calls of one process and its `mux`, with an OpenFile and its Close among them | 3 ids, versions up to 3 and 2 |
| `rename_order` | `LoopIsMovedTree` | every rooted set of twelve paths up to depth 4, every rename, every order | paths made by the loop up to length 4; the theorem below holds without the bounds |
| `webdav_locks` | `TypeOK`, `NamedAreLocked`, `OneWriter`, `NoLockLeftBehind`, `LockUndoneOnError`, `OthersLocksRespected` | two requests, two client tokens, `/`, `/a`, `/a/b`, with and without a collection `/a` at the start; DELETE, MOVE, LOCK, UNLOCK, refresh; DELETE also with an If header of two lists | the theorems below hold without the bounds; symmetry over requests and over tokens (all properties are safety properties, and nothing orders either set) |
| `webdav_live` | `TemporaryLocksGo` | two requests, MOVE, PUT, MKCOL, PROPPATCH without If headers, `/`, `/a`, `/b` | no client locks (the run is about the others), no symmetry |
| `tree_requests` | `TypeOK`, `CopyExact`, `MoveExact`, `WholeMeansComplete`, `ListedInOrder`, `OnlyItsPaths`, `RequestEnds` | one COPY, MOVE or PROPFIND over three trees of depth 2 and 3, one with a file below a file, every depth and Overwrite, a COPY into itself and onto the directory above, any call failing, another client's request anywhere | the theorems below hold without the bounds on trees, requests and edits; 1 request of another client; the 1000 nested calls of `copyFiles` are 3, which a COPY into itself reaches |
| `properties` | `DeadNeverLive`, `EachNameInOne`, `PatchesAreAtomic` | every body of PROPFIND and PROPPATCH on a resource that goes, comes and changes its kind | 2 dead names, a live one of files, a hidden one; 2 values; 2 names or instructions in a body, 1 in an include |
| `propvalue` | `NsExact`, `PrefixesOneToOne`, `ReadAsWritten`, `NamesKept`, `ValueTakesItsElement` | every document in the bounds, read alone or inside a multistatus | 4 open elements, 2 xmlns attributes in them, 1 number given to a prefix; a prefix that is the one the encoder would make, one nobody declared, `DAV:`; the theorems below hold without the bounds, for `NamesKept` of tags that declare no prefix twice nor `xml` anew |
| `memfs` | `HoldsWhatWasWritten`, `ImplementsTree` | every call on `/`, `/a`, `/b`, `/a/a`, and one handle that outlives its path | 4 nodes, paths up to length 2, size and position up to 2, one file that is not empty; the theorems below hold without the bounds on names, handles and bytes, and for every value of the others |
| `copy_body` | `CopyKeepsBodies` | the finding below | no other client |

Where there is concurrency there are two actors at a time: each hazard of the list
needs two at most (a reader that comes back with what it read and a writer in
between), and the third of some scenarios is `Lapse`, `Fail`, `Tick`, `Crash` or
the clients' `Unlock`.

A bound on ids, versions, tokens, time, nodes or edits only stops the action that
would pass it (the guards name it); each is large enough for a thing to be made,
changed by one actor under the other's feet, removed and made again.  The mutants in
`PROJECT.json` show it: for each property a plausible slip in the code (a dropped
condition, a missing release, a swapped comparison) that TLC finds within the
same bounds.

The properties are described where they are stated.  Some deserve a word:

- `TreeKept` says more than it assumes: the code does *not* keep the tree of
  paths and the tree of parent ids the same in every interleaving.
  `UnguardedStep` names exactly the writes that break it, an add under
  or over something that changed since it was checked and a rename onto a
  directory with members or of a file with paths below it, and the property is
  that nothing else does.
- `OthersLocksRespected` is the handlers' claim with its one exception written
  out: nothing under a lock whose token was not shown changes, but members of a
  collection that is removed or moved.
- `EditsAreAtomic` is a refinement: the map under any number of concurrent calls
  moves as the map of `Namespace`, on which each edit happens at once.
- `WholeMeansComplete` is what a client of PROPFIND relies on.  The answer is sent
  while the tree is walked, so an error cannot be reported in its status: the
  property is that the document then does not look finished.  When the walk fails
  the writer closes the element nevertheless, and the only sign is the text of
  the error behind it (`TextBehindDocument`).
- `CopyExact` and `MoveExact` speak of a request nobody disturbs, `OnlyItsPaths` of
  every request: COPY takes no lock on its source, so what it copies while another
  client edits it is anybody's guess, what it may touch is not.  What is copied is
  what `Listable` says, the paths one comes to by listing directories: awsfs lets a
  file have members, and neither COPY nor PROPFIND ever sees them.
- `NamesKept` has its exception written out too: an element in no name space takes
  that of the property's element when a PROPFIND puts it inside one, because the
  encoder never writes `xmlns=""`.
- `DeadNeverLive` protects all of `liveProps`, those that are hidden because the
  code has no function for them included.

**Fairness.**  `AwsFS` assumes that a request that was sent ends, with an answer
or an error (weak fairness of `Proceed`; the client library has timeouts), and
that a goroutine that waits for `mux` gets it if it is free again and again
(strong fairness of `AddBegin`): Go's `sync.Mutex` hands itself over to a waiter
that has waited for more than a millisecond.  `WebDAV` assumes that each call of
the lock system and the file system returns (weak fairness of `Step`), which is
what `CallsReturn` shows of the file system, and `TreeRequests` that the handler's
goroutine goes on (weak fairness of `Serve`).  No client is assumed to do anything.

**Deadlock** is checked in every run.  A request that is answered, and a document
that was refused, go on doing nothing by actions of their own.

## Where code and documents disagree

The run `copy_body` checks one sentence of a comment, and TLC shows a run of the
model that breaks it: "copyFiles copies files and/or directories from src to dst"
(`webdav/file.go:670`).  `OpenFile` of awsfs downloads the object to a temporary
file and hands that out with its offset at the end (`awsfs/open.go:93`);
`copyFiles` gives it to `Create` as the reader of the new body without a `Seek`
(`webdav/file.go:737`), so the copy of a file is empty, and the answer is 201 or 204.
`CopyExact` therefore says nothing of bodies.

The following was read in the code while modelling.  The model is faithful to it,
the hazards name it, and no property claims the opposite:

- `handlePropfind` hands `allprop` the names of `prop`, of which there are none then
  (`webdav.go:538`), where `prop.go:249-250` announces those of `include`;
- awsfs does not refuse a rename into the path's own subtree (`awsfs/rename.go:40`);
  `webdav/file.go:363`: "We can't rename oldName to be a sub-directory of itself";
- nor does its loop end the same way each time when a directory moves onto one above
  it and has a path below that repeats the way down (`/a/a` with `/a/a/a/b` onto
  `/a`): the path that was moved lies under the old path again, and Go may visit it
  once more (`awsfs/rename.go:44-50`).  A MOVE alone comes to no such rename: it
  removes the destination first, and the source with it;
- tokens are counted from the second of the start (`lock.go:119`): a process that
  made more locks than it lived seconds is followed by one that gives out the same
  tokens; `lock.go:66`: "The token returned identifies the created lock";
- LOCK takes any error of `Stat` for absence and empties the file
  (`webdav.go:446`); the line above it says "Create the resource if it didn't
  previously exist";
- two processes that start on empty tables: the slower one's `Init` puts a new
  reference over one that is in use (`awsfs/metadata.go:59`), although the version
  is the "version number for optimistic lock" (`README.md:49`).  With
  `StartTogether = TRUE`, `VersionGrows` fails;
- `AddEntry` adds a path to a later read of the map than the one its parent was
  checked in (`awsfs/metadata.go:192`), so a path can be without a parent:
  `UnguardedStep` of `TreeKept`;
- the size of an entry and the body in S3 disagree after a PUT over a file whose
  update of the entry fails, or after two PUTs by different processes whose
  updates come in another order than their bodies (`awsfs/create.go:31-46`);
- `Create` does not look at the type of the parent, so a file can have a file for
  parent (`awsfs/create.go:55-59`), and `Mkdir` does not either; such members are in
  the map and in no listing, and a COPY of the file leaves them behind;
- a lock without a timeout is written as `Second-0` (`xml.go:89`), since the
  infinite duration is -1 ns and -1 ns in whole seconds is 0: the assumption
  `TimeoutExact` of `MCIfHeader` says so;
- a refresh of a held lock is answered with 500 (`webdav.go:407`), where
  `lock.go:70-71` announces 423;
- members of a collection are not protected by locks of their own when another
  client removes or moves the collection (`webdav.go:84-89`): the exception that
  `OthersLocksRespected` names;
- an element of a value that is in no name space is in the property's when PROPFIND
  answers with it: the exception that `NamesKept` names;
- where a tag declares `xml` anew, the decoder reads `xml` as before
  (`internal/xml/xml.go:338-339`), but the encoder takes the declaration as a hint
  (`internal/xml/marshal.go:349-395`) and writes `xml` for the other URL, so that names
  come back in the wrong name space.  A tag that declares a prefix twice is taken
  too, and written with both.  Neither is well-formed XML with name spaces, and
  `NamesKept` is said of tags without (`XmlIsXml`, `TagsDeclareOnce`);
- `copyProps` (`file.go`) is called by nobody, so that a copy has no dead
  properties, and `memFS.Create` panics (`file.go:171`).

## What is proved

### The lock system

`MemLSProofs` proves, for every rooted set of names, every set of durations and If
headers, every start time and every bound:

- `NodesAreExact`, `ExpiryIsExact`, `CanCreateIsExact`, `HoldersAreExact`,
  `AccessIsExclusive`: the invariants of the `memls` run;
- `TypeCorrect`, and `LocksAreExclusive` and `HeldLocksDoStay`, which the run
  checks as parts of `KeepsPromise`: the table `LockTable` has both;
- `NoLockIsLostEarly`: its action property;
- `MemLSKeepsPromise`: `MemLS` implements `LockTable`.

**Assumptions.**  Those of `MemLS.tla`: names are sequences over `Segments` and
hold their parents, durations are integers, If headers are sequences of numbers,
times are naturals.  TLC evaluates them in each run.

**The argument.**  None of the invariants is inductive alone.  A removal keeps the
reference counts right only if the counts were right for the locks (`NodesExact`)
and the token on a node is that of the lock rooted there; a new lock is exclusive
only because the nodes are exact, since `canCreate` looks at nodes and not at
locks; the nodes carry at most one token only because the locks are exclusive; a
held lock is not collected only because the heap holds no held lock
(`ExpiryExact`); and that the release function finds its locks needs that nothing
removes a held one.  So the inductive invariant is

    IInv == StateOK(memLS) /\ holders exact /\ types of the rest

where `StateOK` is the conjunction of types, exact nodes, exact heap and exclusive
locks of a structure.  It is a predicate of the record rather than of the
variables, because a method passes through structures that no state shows: after
`CollectExpired`, before the rest.  Each of `Remove`, `Insert`, `Hold`, `Unhold`
and `Reset` is shown to keep `StateOK` (one lemma each, `...KeepsStateOK`), each
method is a composition of them (one lemma each, `...IsGood`), and `StepIsGood`
puts them together.  `CanCreateDecides` is the heart: with exact nodes, the walk to
the root finds an obstacle exactly if some lock overlaps the new one.  It rests on
`AncestorsAreAChain` of `PathMapProofs`.  The refinement then takes each step to a
step of `LockTable` in which the collected locks are dropped first, with `IInv`
for the condition that only locks that nobody holds are dropped.

### The file system

`AwsFSProofs` proves, for every set of paths, callers,
processes, sizes, properties and every bound:

- `TypeCorrect`, and `PathsAlwaysLeadToEntries`, `FilesAlwaysHaveBodies`: the
  invariants of `awsfs_race`;
- `AddsAlwaysTakeTurns`, `UpdatesAreNeverLost`, `TreeAlwaysKept`: their action
  properties;
- `ImplementsNamespace`: `AwsFS` implements `Namespace`.

**Assumptions.**  Those of `PathNames.tla` and `AwsFS.tla`: paths are sequences over `Segments` and
hold their parents, renames stay among the paths and neither go into their own
subtree nor bring a path back under the old one (where the loop of the code does not
end as `MovedTree` does, see above), an empty body is a body, each caller runs in a
process.  TLC evaluates them in each run.

**The argument.**  The properties speak of what is stored; why they hold lies in
what the calls remember.  A write that carries a whole map of paths, read long ago,
does no harm because it goes through only if the version is still the one that was
read.  So the inductive invariant `IInv` says of each call, stage by stage:

- a reference that was read *is* the one stored, or has a lower version
  (`RefRead`); the same for an entry (`EntryRead`), and for an entry with one field
  edited (`EntryEdited`);
- an identifier that was made and not yet stored belongs to no entry, and to no
  other call, be it made or read there (`Apart`): an entry that is gone never comes
  back under its identifier, so versions of one identifier only grow;
- the body of a file that is about to be added is there; the paths of a pending
  removal or rename are in the reference it carries.

`Later` says what a step does to what the other calls remember: versions grow,
bodies stay, no identifier of theirs is stored.  `CallOKLater` shows once that this
is all they need; `QuietStep`, `ReadStep` and `WriteStep` reduce each action to
its own stage, and the four writes to the store they leave.  What the writes do to
the map is in one lemma per edit (`LinkedKeepsMapOK`, `WithoutKeepsMapOK`,
`MovedKeepsMapOK`, the last on `MovedTreeKeepsFiles`: replacing a prefix can be
undone, so no two paths meet).  `TreeAlwaysKept` adds, per edit, that parents and
names of entries follow the paths (`LinkedKeepsTree`, `WithoutKeepsTree`,
`MovedAloneKeepsTree`, `MovedTreeKeepsTree`); each asks for exactly what
`UnguardedStep` says the code does not check.

`AwsFSProofs` also proves `LoopComputesMovedTree` of `RenameLoop`: for every set of
paths and every order of the visits, the loop ends with `MovedTree`, the edit that
`AwsFS` makes in one step.  Its invariant says that half way through the map holds,
of the paths under the old one, those still to visit where they were and the others
where they belong; it needs `MovesAway`, without which TLC finds two orders that
end differently.

### Starts and crashes

`AwsFSProofs` proves of `BootSpec` of `AwsFSBoot`, where any process stops between any two
requests and starts again:

- `VersionAlwaysGrows`, `UpdatesSurviveCrashes`: the properties of `awsfs_entry`;
- `StoreSurvivesCrashes`, `TreeSurvivesCrashes`: what `awsfs_race` checks without
  crashes (`PathsLeadToEntries`, `FilesHaveBodies`, `TreeKept`) holds with them, from
  the moment there is a reference.

**The argument.**  `BootInv` has two phases.  Until the reference is there nothing is,
and one process at most runs, in `Init`.  From then on `IInv` holds and no process
runs `Init` to its end.  A crash forgets calls, and every part of `IInv` speaks of the
calls there are, so it stays; a restart that finds a reference writes nothing.

**Hypothesis.**  `~StartTogether`: the first start on empty tables is alone.  The code
does not see to it; with two first starts at once the slower one puts a new
reference over one in use, and `VersionGrows` is false (see above).  All later starts
and crashes, together or not, are covered.

### The handlers

`WebDAVProofs` proves, for every set of requests, names, tokens and methods the
module has, all that the run `webdav_locks` checks: `TypeCorrect`, `NamedLocked`,
`OneWriterAtATime`, `NothingLeftBehind`, `LockIsUndone` and `OthersAreRespected`.

**Assumptions.**  Those of `WebDAV.tla`: names are sequences that hold their parents,
the trees at the start are among them, an empty body is a body, no client token is a
temporary one.

**The argument.**  That a resource stays locked while a handler works on it depends on
what all the other handlers, `Lapse` and the clients may remove.  `LocksOK` says, stage
by stage:

- the temporary locks of a request exist exactly from the stage that made them to the
  one that removes them (`TemporaryOK`);
- between `Confirm` and the release the locks it held are there, are held, and cover
  what the request names (`HoldsOwn`); each held lock is held for one request and one
  only (`HeldByOne`), so nobody else's release lets it go;
- nobody shows the token of a LOCK that has not been answered (`Unannounced`), so its
  undo removes its own lock, and no client unlocks it first;
- no resource is under two locks (`Exclusive`), from which `OneWriter` follows.

### Requests over a tree

`TreeRequestsProofs` proves, for every tree, request, limit of
nested calls and number of other clients' requests, every safety property of the run
`tree_requests`: `TypeCorrect`, `OthersFilesStay`, `ListingInOrder`,
`MoveIsAllOrNothing`, `WholeAnswersAreComplete` and `SuccessIsACopy`.

**Assumptions.**  Those of `TreeRequests.tla`: each tree at the start is finite and
every path in it was made under its parent, a request has one of the three methods and
a depth the parser returns.  Nothing is assumed of the other clients or of the results of
calls.

**The argument.**  `RequestInv` relates the stack of calls to the tree: a call of COPY
writes at or below the destination, a call inside another one is for a member which
the outer loop has taken, so no path is come to twice; for a MOVE it says what the store
is at each of its three calls.  The two properties of answers need to know what is
still to come, and their invariants count it:

- `WholeOK`: as long as nothing has failed, each path that a response is owed for
  (`Owed`: it and the way to it have been there all the time) is listed, or is *covered*
  by a call on the stack (`Covers`), which will come to it.  At the end the stack is
  empty, so everything owed is listed.  It rests on `SteadyOK`: a path that kept its
  identifier has the item it had, so its directory's listing names it.
- `CopyOK`: what is to be copied (`Copied`) is made at its place, or is *left to*
  a call on the stack (`LeftTo`), and not both (`Made`); outside the destination
  everything is intact.  Calls nest (`Inner`), so what one call makes is left to no other.

The proof of `CopyExact` found two mistakes in an earlier form of the property, both
about a file with paths below it, which awsfs allows: what is copied is what listings
come to, not all that is below the source.  `WholeMeansComplete` counts in the same way.

### Properties

`PropertiesProofs` proves, for every set of names and values and bodies of every length,
all that the run `properties` checks: `NoDeadHidesALive`, `NamesAreToldOnce` and
`AllPatchesOrNone`.

**Assumptions.**  Those of `Properties.tla`: the names of dead, shown and hidden live
properties are apart, and there are finitely many live ones (`liveProps` is a table).

**The argument.**  `PropInv` says which names dead properties can have, of which elements
a body that is being read is made, and that a PROPFIND which looks up names of
`propnames` was asked for none.  What remains are the loops: over the names (`Only`, of
which `OnlyIs` says what it keeps and `TimesOnly` how often), over the instructions of an
element and the elements of a body (`Instructed`, `Followed`, `Applied`: after an
instruction its name has what it says until the next one about that name,
`FollowedSays` and `AppliedSays`), and over the lists of names (`FlattenedHolds`).  Each is a
recursive function over the places of a sequence; `PathMapProofs` has what they
need: `UpTo` is induction up to a number, over a *set* in place of a formula, and
`Recursion` says that a function defined step by step exists, with the steps as a
function.  Both come from the least element of a set of numbers (`WFMin` of
`WellFoundedInduction`), so they ask for no operator as a parameter.

### Values of properties

`PropValueProofs` proves, for every set of tags, every document made of them and every
number of open elements, the five properties of the run `propvalue`:
`MapsAreInverse` (`PrefixesOneToOne`), `NameSpacesFollowTags` (`NsExact`),
`ValuesTakeTheirElement` (`ValueTakesItsElement`), `WrittenIsRead`
(`ReadAsWritten`, with `NamesAreTakenBack` for its last part) and `NamesAreKept`
(`NamesKept`, with `NamesAreReadAsSent` for its first part).

**Assumptions.**  Those of `PropValue.tla`: a tag has a prefix, a local name, a list of
xmlns attributes and one of others (`RawsAssumption`); the prefix that is made of a
URL is neither empty nor `xml` (`BasePrefixAssumption`).  The first four theorems
assume nothing of what tags say: a tag may declare one prefix twice, `xml` anew,
or a prefix for no name space.  The last has hypotheses of its own:

- `XmlIsXml`: a tag that declares `xml` gives it its own URL.  Without it names do
  get lost, as *Where code and documents disagree* says;
- `TagsDeclareOnce`, for `DeclaredOnce` alone: no tag that is sent declares a prefix
  twice.  Names are read as they were sent without it as well;
- `EveryNumberTells`: for each base the prefixes `base_1`, `base_2`, ... differ from one
  another and are neither empty nor `xml`.  It is a fact about strings, which the prover
  cannot take apart; TLC evaluates it for the numbers up to 20.

**The argument.**  Encoder and decoder each have a stack of what to take back, so what
holds now depends on what will hold when the stack has been taken down.
`EncoderInvariant` says it with a history: `Traced` asks for name spaces `h[i]` under
each entry of the stack, such that taking back the `i`-th leads from `h[i]` to
`h[i - 1]`, and that the maps of each are the inverse of each other (`Good`).
That the entry takes back all that its definition did (`FreshIsUndone`) needs
both maps: a prefix that is defined anew takes its old URL's entry with it, and only
since the maps were inverse is that entry the one to restore.

`DecoderInvariant` says the same of the decoder with `Layers`: `c[i]` counts the
elements among the lowest `i` frames and `g[i]` are the translations at that height;
wherever no translation lies on top they are exactly (`Exact`) what the first
`c[i]` open tags declare.  The frame that `pushEOF` pushes goes in between the element
and what lies below it, so that it changes no layer (`FrameInsert`), and while a
value is read it lies under its element and nowhere else (`ValueOpen`).  Each call
of `Token` opens an element, closes the innermost one, passes or fails
(`TokenSteps`).  The loops are functions of the place in a tag or in a stack, as in
`PropertiesProofs`.

`ValueInvariant` ties the three together, the encoder, the decoder that reads what it
wrote and the one that gave it the tokens.  For each open element of the value there
is a snapshot of what they had when it started, and `Level` says of two neighbours
that each of the three can go back from the upper one to the lower: the encoder has one
mark between them (`Atop`), both decoders one start frame and above it translations only
(`Rises`).  An end tag is then one level down for all three at once (`LevelDown`): the
request's decoder closes the innermost element, so the name it returns is the one on
top of the encoder's tags (`FallsOnce`), `popPrefix` stops at that element's mark
(`PopTakesBack`), and the reader, which has the translations it had after the start tag
because they are those of the open tags (`ExactOnce`), makes of the prefix the
name it has on its stack.  Below the first element there is nothing to go down
to: the request's decoder has the property's own start frame there, and the loop of
`UnmarshalXML` ends at its end tag.

`NamesInvariant` adds to the snapshots what encoder and reader have in common.
`Agree` says that each prefix the encoder counts on stands for the same name
space in the reader, and that the default does too, but that where the encoder has
none the reader may have that of the answer around it (`base`).  It is not an
equality: the reader may have prefixes that the encoder knows nothing of.  `Clear`
adds that the encoder's prefixes are finitely many, so that some number is free
(`SomeIsFree`), and that `xml` is not among them but for its own URL.  `Named` has both
at each level, with the names of the open elements readable there.

A start tag disturbs this in three places: what the client declared, what each
attribute's name needs, what the element's name needs.  `Opening` is what all three
keep: only the prefixes defined since the tag's mark (`Owned`) differ from before.
So `Added`, one definition more, is enough to say what each did (`DeclarationsOpen`,
`ImpliedOpens`, `CreateOpens`), and two things follow.  A prefix is defined once in a tag
(`Once`), because the client's are distinct and a made-up one is never one that is in
force (`FreeGrows`).  And a name that was given a prefix early in the tag keeps it
(`KnownStays`), since what comes later takes free prefixes only.  The reader meets
the declarations of the tag as written; each prefix that is not declared stands as
it stood, in both (`AgreesAfter`).  That makes the names of the tag those that were
sent (`TagIsRead`), and an end tag finds the level of its start tag as it was
left (`NamesDown`).

### The in-memory file system

`MemFSProofs` proves, for every set of names, handles, flags and bytes, both properties
of the run `memfs`:

- `FilesHoldWhatWasWritten`: a file holds the bytes last written at each position
  through any handle, and zeros in the holes;
- `NodesAreATree`: `MemFS` implements `OsTree`, with its errors.

**Assumptions.**  Those of `MemFS.tla`: the names of the calls are sequences of segments
no longer than `MaxDepth`, the root is one of them, what is written is a sequence of
bytes.  `MaxNodes`, `MaxSize` and `MaxDepth` are any numbers: a call that would exceed
them is no step of the model; the code has no such limits, but each of its finite
behaviours keeps within some.

**The argument.**  `FileInv` says of the bytes what `HoldsWhatWasWritten` does, and of
the nodes that members are nodes that were made and that files have none
(`NodesOK`).  It rests on `WrittenBytes`: `Write` may start behind the end, across it or
before it.  The refinement maps `tree` to `paths`, which the model computes by walking from
the root to every path (`PathsOf`), so a proof has to say what the walk finds when
the nodes have changed.  `Shows` says it without the walk: the root is the first
node, and a path is in the map exactly if its parent is and the parent's node has a
member of its name, whose node it is.  Two lemmas tie the two together: `ShowsOne` (a
set of members leaves no choice for such a map) and `FindTells` (`find` returns the
parent's node in it, or the error `OsTree` gives), both by `UpTo` along the path.  Then
each edit of the members is one of the map: `GrownShows`, `OneLessShows` and
`OneMovedShows` show that the edited map is shown by the edited members, so it is
what `paths` becomes (`PathsAreShown`).  The case of `OneMovedShows` that matters is a path
under the new name: it is there exactly if its way back under the old name was.  It
needs that no node has two paths (`OneToOne`), or else the edit of one directory
would show at a second place, and that the new path is not under the old one, the
check that the mutant of the run leaves out.

### Only model-checked

- The functions of `IfHeader`, compared with their second definitions by TLC over
  bounded inputs: recursion over the characters.
- `CallsReturn`, `TemporaryLocksGo`, `RequestEnds`: liveness, out of the prover's reach.
- What the theorems assume away: two first starts at once (`StartTogether`), and renames
  that do not `MovesAway`.

## What is not modelled

- GET, HEAD, POST, OPTIONS: they read and answer.
- `Dir`, which passes each call on to the os package; what the live properties say
  (`findContentType`, `findETag` and others); modify times.
- Resource tags and entity tags in `confirmLocks` (the parser has both): a tag
  replaces the path that is confirmed (`webdav.go:140`), and entity tags are
  not looked at by `memLS`.
- The lexer of the XML fork, and `read.go`, `marshal.go` and `typeinfo.go` as far as
  they work by reflection on Go types: they keep no state from one token to the
  next.  HTTP, flags, authentication, logging: wiring.
- Limits of DynamoDB and S3 (100 operations in a transaction, 400 KB in an item,
  one page of a query), the staleness of the index that `Readdir` reads, a request
  that is applied after its call has timed out.
- The layout of the heap `byExpiry`: `MemLS` asks it only for what is due.

## The plan

1. *Done*: lock system with its promise, file system with its interleavings,
   both with proofs; start and restart; handlers over locks, with several If lists.
2. *Done*: COPY, MOVE and PROPFIND as sequences of calls; header parsers;
   properties; values through the decoder and the encoder; the in-memory file system.
3. *Done*: proofs about the handlers, starts and crashes, Rename's loop, the
   requests over a tree, with the corrections to the properties that they asked for,
   properties, and the in-memory file system.
4. *Done*: proofs about the values of properties: stacks, tokens and names.
5. Resource tags in `confirmLocks`; the heap with its indices, refining the set of
   `MemLS`.
