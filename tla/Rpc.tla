--------------------------------- MODULE Rpc ---------------------------------
(***************************************************************************)
(* What PXI_sendCmd promises the ARM11: a command is executed once, with   *)
(* what was sent, before the call returns.  The ARM9 may panic at any      *)
(* time; a command it has not executed by then is never executed.  The     *)
(* ARM11 may panic inside a call; it makes no other.                       *)
(***************************************************************************)
EXTENDS Naturals

CONSTANT MaxCalls

VARIABLES
  calls,     \* calls made so far; the last one is in progress if not "ready"
  phase,     \* "ready", "called", "served" or "lost"
  dead       \* the ARM9 has panicked

rpcVars == <<calls, phase, dead>>

Init == calls = 0 /\ phase = "ready" /\ dead = FALSE

Call ==
  /\ phase = "ready" /\ calls < MaxCalls
  /\ calls' = calls + 1 /\ phase' = "called"
  /\ UNCHANGED dead
Serve ==
  /\ phase = "called" /\ ~dead
  /\ phase' = "served"
  /\ UNCHANGED <<calls, dead>>
Return ==
  /\ phase = "served"
  /\ phase' = "ready"
  /\ UNCHANGED <<calls, dead>>
\* Death of the server may strike in the middle of a command.
Die ==
  /\ ~dead /\ dead' = TRUE
  /\ UNCHANGED <<calls, phase>>
\* The caller panics.
Abandon ==
  /\ phase \in {"called", "served"}
  /\ phase' = "lost"
  /\ UNCHANGED <<calls, dead>>

Next == Call \/ Serve \/ Return \/ Die \/ Abandon
Spec == Init /\ [][Next]_rpcVars
=============================================================================
