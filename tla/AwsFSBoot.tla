----------------------------- MODULE AwsFSBoot -----------------------------
(***************************************************************************)
(* Processes of the server that start on empty tables, stop and start      *)
(* again: main runs MetadataStore.Init before it serves (main.go:109), and *)
(* Init looks for the reference, then puts it and the root's entry with no *)
(* condition: nothing in the code keeps two processes from doing so at the *)
(* same time, or one from doing so while another one has begun to serve.   *)
(***************************************************************************)
EXTENDS AwsFS

CONSTANT StartTogether   \* whether two processes may start on empty tables

ASSUME StartAssumption == StartTogether \in BOOLEAN

VARIABLE process   \* "down", between Init's read and its write, or "up"

bootVars == <<vars, process>>

(* The table is empty: version 0 stands for no item. *)
BootInit ==
  /\ reference = [entries |-> << >>, version |-> 0]
  /\ entry = << >>
  /\ bucket = << >>
  /\ lastID = 0
  /\ mux = [i \in Instances |-> Nobody]
  /\ call = [c \in Callers |-> [at |-> "idle"]]
  /\ process = [i \in Instances |-> "down"]

Alone(i) ==
  StartTogether \/ reference.version # 0 \/ \A j \in Instances : process[j] = "down"

(* Mutant: Init does not look whether there is a reference. *)
InitReadNothing(i) ==
  /\ process[i] = "down" /\ Alone(i)
  /\ process' = [process EXCEPT ![i] = "init"]
  /\ UNCHANGED vars

(* With the reference there Init is done; otherwise it will put one. *)
InitRead(i) ==
  /\ process[i] = "down" /\ Alone(i)
  /\ process' = [process EXCEPT ![i] = IF reference.version = 0 THEN "init" ELSE "up"]
  /\ UNCHANGED vars

InitWrite(i) ==
  /\ process[i] = "init"
  /\ lastID <= MaxIDs   \* the bound, which calls stay below
  /\ lastID' = lastID + 1
  /\ reference' = [entries |-> [q \in {Root} |-> lastID + 1], version |-> 1]
  /\ entry' = Linked(entry, lastID + 1, NewEntry(lastID + 1, NoID, Root, "dir", 0))
  /\ process' = [process EXCEPT ![i] = "up"]
  /\ UNCHANGED <<bucket, mux, call>>

(* A process stops, and the calls that run in it. *)
Crash(i) ==
  /\ process[i] # "down"
  /\ process' = [process EXCEPT ![i] = "down"]
  /\ call' = [c \in Callers |-> IF InstanceOf[c] = i THEN [at |-> "idle"] ELSE call[c]]
  /\ mux' = [mux EXCEPT ![i] = Nobody]
  /\ UNCHANGED <<Stored, lastID>>

BootNext ==
  \/ \E i \in Instances : InitRead(i) \/ InitWrite(i) \/ Crash(i)
  \/ \E c \in Callers :
       /\ process[InstanceOf[c]] = "up"
       /\ Begin(c) \/ AddBegin(c) \/ Proceed(c)
       /\ UNCHANGED process

BootSpec == BootInit /\ [][BootNext]_bootVars

-----------------------------------------------------------------------------
(* Properties *)

\* "Version number for optimistic lock" (README.md:49): whatever processes stop
\* and start again, in the middle of Init or of a call, the version of the
\* reference never goes back, or a call that read an old map could write it.
VersionGrows == [][reference'.version >= reference.version]_bootVars
=============================================================================
