------------------------------ MODULE Traversal -----------------------------
(***************************************************************************)
(* A request that works through a tree of files: the calls it is in, the   *)
(* innermost last, and what its handler returns.                           *)
(***************************************************************************)
EXTENDS FileStore, SequencesExt

CONSTANT Requests   \* [method, src, dst, overwrite, depth]

VARIABLES req,      \* the request that is served
          stack,    \* the calls of copyFiles, moveFiles or walkFS under way
          status    \* what the handler returns, "none" until it does

Infinite == -1

Top == Last(stack)
At(step) == stack # << >> /\ Top.at = step /\ UNCHANGED req

(* The innermost call goes on, from another place. *)
Continue(call) == stack' = Append(Front(stack), call) /\ UNCHANGED status

(* The innermost call makes another, and goes on after it. *)
Enter(call, inner) == stack' = Front(stack) \o <<call, inner>> /\ UNCHANGED status

(* The innermost call returns, to the loop that made it or for good. *)
Return(code) ==
  /\ stack' = Front(stack)
  /\ status' = IF Len(stack) = 1 THEN code ELSE status

(* The innermost call returns an error, and so do those around it. *)
Fail(code) == stack' = << >> /\ status' = code
=============================================================================
