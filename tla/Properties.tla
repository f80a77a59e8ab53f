----------------------------- MODULE Properties -----------------------------
(***************************************************************************)
(* PROPFIND and PROPPATCH of one resource, from the elements of their      *)
(* bodies (readPropfind and readProppatch, webdav/xml.go) to the propstats *)
(* of their answers (webdav/prop.go), while other requests remove and make *)
(* the resource.  A PROPPATCH holds a lock on the resource (webdav.go:576) *)
(* from before it looks at it, so that it is alone with those of its kind  *)
(* and with what would remove the resource; a PROPFIND holds none.         *)
(***************************************************************************)
EXTENDS Naturals, FiniteSets, SequencesExt

CONSTANTS DeadNames,    \* names of properties the clients make up
          FileLive,     \* live properties of files only, such as getcontentlength
          AnyLive,      \* live properties of files and directories
          HiddenLive,   \* names of liveProps without a findFn, such as creationdate
          Values,       \* values of properties; one of them is NoValue
          MaxInclude,   \* bound on the names of an include element
          MaxNames      \* bound on the other names of a request

ASSUME NamesAssumption ==
  /\ DeadNames \cap (FileLive \cup AnyLive \cup HiddenLive) = {}
  /\ (FileLive \cup AnyLive) \cap HiddenLive = {}
ASSUME LiveAssumption == IsFiniteSet(FileLive \cup AnyLive \cup HiddenLive)
ASSUME BoundAssumption == MaxInclude \in Nat /\ MaxNames \in Nat

liveProps == FileLive \cup AnyLive \cup HiddenLive
AllNames == DeadNames \cup liveProps
NoValue == ""

VARIABLES kind,    \* the resource: "none", "file" or "dir"
          dead,    \* its dead properties: values by name
          find,    \* the PROPFIND
          patch    \* the PROPPATCH

vars == <<kind, dead, find, patch>>

NoBody == [allprop |-> FALSE, propname |-> FALSE, prop |-> << >>, include |-> << >>]
NoFind == [at |-> "idle", pf |-> NoBody, names |-> << >>, reply |-> << >>]
NoPatch == [at |-> "idle", patches |-> << >>, reply |-> << >>]
NoProps == [n \in {} |-> NoValue]

Init ==
  /\ kind \in {"file", "dir"} /\ dead = NoProps
  /\ find = NoFind /\ patch = NoPatch

NameSeqs == SeqOf(AllNames, MaxNames)

(* What of s is in T, in its order: how the loops of this file fill a slice. *)
Only(s, T) ==
  LET only[i \in 0..Len(s)] ==
        IF i = 0 THEN << >>
        ELSE IF s[i] \in T THEN Append(only[i - 1], s[i]) ELSE only[i - 1]
  IN  only[Len(s)]

----------------------------------------------------------------------------
(* PROPFIND *)

BadRequest == [NoFind EXCEPT !.at = "400"]

(* The resource is asked for before the body is read. *)
StartFind ==
  /\ find.at = "idle"
  /\ find' = [NoFind EXCEPT !.at = IF kind = "none" THEN "404" ELSE "body"]
  /\ UNCHANGED <<kind, dead, patch>>

(* propfindProps.UnmarshalXML: the names are added to those of an earlier    *)
(* element of that name; there has to be one by then.                      *)
Names(field, more) ==
  LET names == find.pf[field] \o more
  IN  IF names = << >> THEN BadRequest ELSE [find EXCEPT !.pf[field] = names]

(* The next child of the propfind element, with a refused one among them: a   *)
(* property that has a value.                                              *)
FindChild ==
  /\ find.at = "body"
  /\ find' \in
       {[find EXCEPT !.pf.allprop = TRUE], [find EXCEPT !.pf.propname = TRUE], BadRequest}
         \cup {Names("prop", more) :
                 more \in {m \in NameSeqs : Len(find.pf.prop) + Len(m) <= MaxNames}}
         \cup {Names("include", more) :
                 more \in {m \in NameSeqs : Len(find.pf.include) + Len(m) <= MaxInclude}}
  /\ UNCHANGED <<kind, dead, patch>>

(* The four checks of readPropfind. *)
WellFormed(pf) ==
  /\ pf.allprop \/ pf.include = << >>
  /\ ~(pf.allprop /\ (pf.prop # << >> \/ pf.propname))
  /\ ~(pf.prop # << >> /\ pf.propname)
  /\ pf.propname \/ pf.allprop \/ pf.prop # << >>

(* The end of the body; an empty one asks for allprop. *)
FindBody ==
  /\ find.at = "body"
  /\ find' \in
       {IF ~WellFormed(find.pf) THEN BadRequest
        ELSE [find EXCEPT !.at = IF find.pf.prop # << >> THEN "named" ELSE "names",
                          !.names = find.pf.prop]}
         \cup (IF find.pf = NoBody
               THEN {[find EXCEPT !.at = "names", !.pf.allprop = TRUE]} ELSE {})
  /\ UNCHANGED <<kind, dead, patch>>

(* The live properties of a resource of that kind with a findFn. *)
Shown(k) == IF k = "dir" THEN AnyLive ELSE AnyLive \cup FileLive

Propstat(status, props) == [status |-> status, props |-> props]

(* makePropstats: those that name a property, or one that names none. *)
MakePropstats(x, y) ==
  LET Some(z) == IF z.props # << >> THEN <<z>> ELSE << >>
      some    == Some(x) \o Some(y)
  IN  IF some = << >> THEN <<Propstat("OK", << >>)>> ELSE some

FindFails == [NoFind EXCEPT !.at = "500"]

(* propnames: opens the file for its kind and its dead properties.  allprop   *)
(* adds the names it is handed that are not there; handlePropfind hands it   *)
(* those of prop, of which there are none, and not those of include.        *)
FindNames ==
  /\ find.at = "names"
  /\ LET names == SetToSeq(Shown(kind) \cup DOMAIN dead)
         more  == Only(find.pf.prop, AllNames \ ToSet(names))
     IN  \/ /\ kind # "none" /\ find.pf.propname
            /\ find' = [find EXCEPT !.at = "207", !.reply = <<Propstat("OK", names)>>]
         \/ /\ kind # "none" /\ ~find.pf.propname
            /\ find' = [find EXCEPT !.at = "props", !.names = names \o more]
         \/ find' = FindFails
  /\ UNCHANGED <<kind, dead, patch>>

(* Mutant: a dead property is looked for once the live ones are. *)
FindPropsTwice ==
  /\ find.at \in {"named", "props"}
  /\ LET known == Shown(kind)
     IN  \/ /\ kind # "none"
            /\ find' = [find EXCEPT !.at = "207",
                         !.reply = MakePropstats(
                           Propstat("OK", Only(find.names, known \cup DOMAIN dead)),
                           Propstat("NotFound", Only(find.names, AllNames \ known)))]
         \/ find' = FindFails
  /\ UNCHANGED <<kind, dead, patch>>

(* props: opens the file, again for allprop, and looks each name up. *)
FindProps ==
  /\ find.at \in {"named", "props"}
  /\ LET known == DOMAIN dead \cup Shown(kind)
     IN  \/ /\ kind # "none"
            /\ find' = [find EXCEPT !.at = "207",
                         !.reply = MakePropstats(
                           Propstat("OK", Only(find.names, known)),
                           Propstat("NotFound", Only(find.names, AllNames \ known)))]
         \/ find' = FindFails
  /\ UNCHANGED <<kind, dead, patch>>

----------------------------------------------------------------------------
(* PROPPATCH *)

(* The resource is asked for before the body is read. *)
StartPatch ==
  /\ patch.at = "idle"
  /\ patch' = [NoPatch EXCEPT !.at = IF kind = "none" THEN "404" ELSE "found"]
  /\ UNCHANGED <<kind, dead, find>>

PropNames(props) == [i \in DOMAIN props |-> props[i].name]

(* The names of all instructions, in the order of the document. *)
Named(patches) == FlattenSeq([i \in DOMAIN patches |-> PropNames(patches[i].props)])

(* The next set or remove element, which need not have a prop element.  A    *)
(* remove with a value is refused, as is an element of another name or with *)
(* an empty prop element.                                                  *)
PatchChild ==
  /\ patch.at \in {"found", "body"}
  /\ \/ \E remove \in BOOLEAN, props \in SeqOf([name : AllNames, value : Values], MaxNames) :
          /\ Len(patch.patches) < MaxNames
          /\ Len(Named(patch.patches)) + Len(props) <= MaxNames
          /\ remove => \A i \in DOMAIN props : props[i].value = NoValue
          /\ patch' = [patch EXCEPT !.at = "body",
                         !.patches = Append(@, [remove |-> remove, props |-> props])]
     \/ patch' = [NoPatch EXCEPT !.at = "400"]
  /\ UNCHANGED <<kind, dead, find>>

PatchBody ==
  /\ patch.at \in {"found", "body"}
  /\ patch' = [patch EXCEPT !.at = "patch"]
  /\ UNCHANGED <<kind, dead, find>>

(* One instruction. *)
Instructed(d, remove, p) ==
  IF remove THEN [n \in DOMAIN d \ {p.name} |-> d[n]]
  ELSE [n \in DOMAIN d \cup {p.name} |-> IF n = p.name THEN p.value ELSE d[n]]

(* The instructions of one element, in the order of the document. *)
Followed(d, element) ==
  LET after[j \in 0..Len(element.props)] ==
        IF j = 0 THEN d ELSE Instructed(after[j - 1], element.remove, element.props[j])
  IN  after[Len(element.props)]

(* DeadPropsHolder.Patch: the elements in the order of the document. *)
Applied(d, patches) ==
  LET after[i \in 0..Len(patches)] == IF i = 0 THEN d ELSE Followed(after[i - 1], patches[i])
  IN  after[Len(patches)]

(* Mutant: only the live properties that are shown are protected. *)
ProtectedShown(n) == n \in AnyLive \cup FileLive

Protected(n) == n \in liveProps

(* One of the instructions is about a protected property. *)
Conflict(patches) ==
  \E i \in DOMAIN patches : \E j \in DOMAIN patches[i].props : Protected(patches[i].props[j].name)

(* The names of the instructions that are protected, or not. *)
Told(patches, protected) == Only(Named(patches), {n \in AllNames : Protected(n) = protected})

(* Mutant: the properties that are not protected are set all the same. *)
PatchApplyRest ==
  /\ patch.at = "patch"
  /\ LET asked == patch.patches
         Allowed(p) == [p EXCEPT !.props = SelectSeq(@, LAMBDA q : ~Protected(q.name))]
     IN  /\ dead' = Applied(dead, [i \in DOMAIN asked |-> Allowed(asked[i])])
         /\ patch' = [patch EXCEPT !.at = "207",
              !.reply = IF Conflict(asked)
                        THEN MakePropstats(Propstat("Forbidden", Told(asked, TRUE)),
                                           Propstat("FailedDependency", Told(asked, FALSE)))
                        ELSE <<Propstat("OK", Named(asked))>>]
  /\ UNCHANGED <<kind, find>>

(* patch: one protected name among the instructions, and none is followed;   *)
(* the holder follows all of them and stores the result, or fails.         *)
PatchApply ==
  /\ patch.at = "patch"
  /\ LET asked == patch.patches
     IN  \/ /\ Conflict(asked)
            /\ patch' = [patch EXCEPT !.at = "207",
                  !.reply = MakePropstats(Propstat("Forbidden", Told(asked, TRUE)),
                                          Propstat("FailedDependency", Told(asked, FALSE)))]
            /\ UNCHANGED dead
         \/ /\ ~Conflict(asked)
            /\ patch' = [patch EXCEPT !.at = "207", !.reply = <<Propstat("OK", Named(asked))>>]
            /\ dead' = Applied(dead, asked)
         \/ /\ ~Conflict(asked)
            /\ patch' = [NoPatch EXCEPT !.at = "500"]
            /\ UNCHANGED dead
  /\ UNCHANGED <<kind, find>>

----------------------------------------------------------------------------
(* Other requests, whole; each holds a lock on the resource. *)
Others ==
  /\ patch.at = "idle"
  /\ \/ kind # "none" /\ kind' = "none" /\ dead' = NoProps
     \/ kind = "none" /\ kind' \in {"file", "dir"} /\ UNCHANGED dead
  /\ UNCHANGED <<find, patch>>

Answered(r) == r.at \in {"207", "400", "404", "500"}

(* An answered request goes before anything else happens.                  *)
FindDone == Answered(find) /\ find' = NoFind /\ UNCHANGED <<kind, dead, patch>>
PatchDone == Answered(patch) /\ patch' = NoPatch /\ UNCHANGED <<kind, dead, find>>

(* Between the look for the resource and the opening of the file a PROPFIND  *)
(* touches nothing that is shared, and so does a PROPPATCH before it patches *)
(* the file: nobody runs in between.  A resource that goes in that time is   *)
(* one that cannot be opened.                                              *)
Busy(r) == Answered(r) \/ r.at \in {"body", "names", "named", "patch"}

Next ==
  \/ FindDone \/ PatchDone
  \/ ~Answered(find) /\ ~Busy(patch)
       /\ (StartFind \/ FindChild \/ FindBody \/ FindNames \/ FindProps)
  \/ ~Answered(patch) /\ ~Busy(find)
       /\ (StartPatch \/ PatchChild \/ PatchBody \/ PatchApply)
  \/ ~Busy(find) /\ Others

Spec == Init /\ [][Next]_vars

----------------------------------------------------------------------------
(* Properties *)

(* A live property is computed from the resource and is never what a client  *)
(* made of it, the hidden ones included: a dead property of that name would *)
(* hide the live one, for props looks at the dead ones first.              *)
DeadNeverLive == DOMAIN dead \cap liveProps = {}

(* "Each Propstat has a unique status and each property name will only be    *)
(* part of one Propstat element" (prop.go:167-168), all names of a prop      *)
(* element are in one, and there is always one to write, whatever happens   *)
(* to the resource between propnames and props.                            *)
EachNameInOne ==
  LET stats == find.reply
      In(i) == ToSet(stats[i].props)
  IN  find.at = "207" =>
        /\ stats # << >>
        /\ \A i, j \in DOMAIN stats :
             i # j => stats[i].status # stats[j].status /\ In(i) \cap In(j) = {}
        /\ ToSet(find.pf.prop) \subseteq UNION {In(i) : i \in DOMAIN stats}

(* What the dead properties are at one name. *)
Alike(f, g, n) == (n \in DOMAIN f <=> n \in DOMAIN g) /\ (n \in DOMAIN f => f[n] = g[n])
Says(f, remove, p) ==
  IF remove THEN p.name \notin DOMAIN f ELSE p.name \in DOMAIN f /\ f[p.name] = p.value

(* No instruction after that one is about its name. *)
LastWord(patches, i, j) ==
  \A k \in DOMAIN patches : \A l \in DOMAIN patches[k].props :
    patches[k].props[l].name = patches[i].props[j].name => k < i \/ (k = i /\ l <= j)

Times(n, s) == Cardinality({i \in DOMAIN s : s[i] = n})

(* "Patching is atomic; either all or no patches succeed ... the Propstats   *)
(* collectively contain one Property for each proposed patch Property"      *)
(* (prop.go:90-95): after 200 each name has what the last instruction about *)
(* it says and the others what they had; otherwise nothing changes.        *)
PatchAnswer ==
  LET asked == patch.patches
      reply == patch'.reply
      told  == FlattenSeq([i \in DOMAIN reply |-> reply[i].props])
      names == UNION {ToSet(PropNames(asked[i].props)) : i \in DOMAIN asked}
  IN  /\ \A n \in AllNames : Times(n, told) = Times(n, Named(asked))
      /\ IF \A i \in DOMAIN reply : reply[i].status = "OK"
         THEN /\ \A n \in (AllNames \cup DOMAIN dead') \ names : Alike(dead', dead, n)
              /\ \A i \in DOMAIN asked : \A j \in DOMAIN asked[i].props :
                   LastWord(asked, i, j) => Says(dead', asked[i].remove, asked[i].props[j])
         ELSE /\ dead' = dead
              /\ \A i \in DOMAIN reply : reply[i].status # "OK"

PatchesAreAtomic == [][patch'.at = "207" /\ patch.at = "patch" => PatchAnswer]_vars
=============================================================================
