----------------------------- MODULE PathNames -----------------------------
(***************************************************************************)
(* The paths of the maps that AwsFS and RenameLoop speak of.               *)
(***************************************************************************)
EXTENDS PathMap

CONSTANTS Names,     \* the paths a call can name
          Segments   \* the segments they are made of

ASSUME NamesAssumption == Names \subseteq Seq(Segments) /\ Rooted(Names)
=============================================================================
