---------------------------- MODULE ScreenMirror ----------------------------
(***************************************************************************)
(* What the viewer promises about its screen, without saying how: pixels   *)
(* the server has changed fall behind, a refresh is scheduled as soon as   *)
(* something may be behind, and a refresh brings everything up to date.    *)
(***************************************************************************)
CONSTANT Pixel  \* the part of the desktop the screen has room for

VARIABLES behind,     \* changed pixels the screen does not show yet
          scheduled,  \* a refresh is on its way
          alive       \* the viewer runs

vars == <<behind, scheduled, alive>>

(* What is behind, whether a refresh is scheduled, and whether it runs.    *)
TypeOK == behind \subseteq Pixel /\ scheduled \in BOOLEAN /\ alive \in BOOLEAN

Init == behind = {} /\ scheduled = FALSE /\ alive = TRUE

Change ==
  /\ alive
  /\ \E S \in SUBSET Pixel : behind' = behind \cup S
  /\ scheduled' = TRUE
  /\ UNCHANGED alive

Show ==
  /\ alive /\ scheduled
  /\ behind' = {}
  /\ scheduled' = FALSE
  /\ UNCHANGED alive

(* A new connection owes nothing yet; a refresh of old damage may be due.  *)
Reconnect ==
  /\ alive
  /\ behind' = {}
  /\ UNCHANGED <<scheduled, alive>>

(* The program ends, perhaps in the middle of a change. *)
Stop ==
  /\ alive
  /\ alive' = FALSE
  /\ \E S \in SUBSET Pixel : behind' = behind \cup S
  /\ scheduled' \in {scheduled, TRUE}

Next == Change \/ Show \/ Reconnect \/ Stop

Safety == Init /\ [][Next]_vars
Spec == Safety /\ WF_vars(Show)

(* The screen is never behind without a refresh on its way.                *)
NeverForgotten == behind # {} => scheduled
=============================================================================
