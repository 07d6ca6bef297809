----------------------------- MODULE Framebuffer -----------------------------
(***************************************************************************)
(* framebuffer:refresh of ffi/framebuffer_linux.lua on the kinds of device *)
(* open() tells apart: which refresh waits for which, by update markers.   *)
(*   carta  Paperwhite 2: before every update for the previous one, and    *)
(*          after it until it is submitted                                 *)
(*   pearl  Touch and Paperwhite 1: the same, for full updates only        *)
(*   kobo   markers, but no waiting                                        *)
(*   eink   the older driver: neither                                      *)
(* The region of an update is the business of Geometry.  All that is known *)
(* of the driver is what refresh relies on: it accepts an update or not,   *)
(* takes the accepted ones in their order, and ends them in any order.     *)
(***************************************************************************)
EXTENDS Integers

CONSTANTS Kinds,       \* kinds of device to look at
          LastMarker,  \* 16
          Updates      \* bound: calls of refresh

ASSUME KindsAssumption == Kinds \subseteq {"carta", "pearl", "kobo", "eink"}
ASSUME MarkerAssumption == LastMarker \in Nat \ {0} /\ Updates \in Nat

VARIABLES kind,
          update_marker,
          stage,     \* idle; complete, send, submission: in refresh
          full,      \* refreshtype == 1
          driver,    \* the updates under way: [id, marker, submitted]
          calls      \* history: how many calls of refresh there were

framebufferVars == <<kind, update_marker, stage, full, driver, calls>>

Marker == 0..LastMarker
Update == [id : 1..Updates, marker : Marker, submitted : BOOLEAN]

(* A marker is one that was sent or 0, and the thread is in one of the     *)
(* places where refresh can wait.                                          *)
FramebufferTypeOK ==
  /\ kind \in Kinds /\ update_marker \in Marker /\ full \in BOOLEAN
  /\ stage \in {"idle", "complete", "send", "submission"}
  /\ calls \in 0..Updates
  /\ driver \subseteq Update

FramebufferInit ==
  /\ kind \in Kinds
  /\ update_marker = 0 /\ stage = "idle" /\ full = FALSE
  /\ driver = {} /\ calls = 0

-----------------------------------------------------------------------------
mxc == kind # "eink"

WaitsSwapped(isFull) == kind = "pearl" \/ (kind = "carta" /\ isFull)  \* mutant: the flags swapped
Waits(isFull) == kind = "carta" \/ (kind = "pearl" /\ isFull)

(* mxc_new_update_marker *)
NextMarker == IF update_marker + 1 > LastMarker THEN 1 ELSE update_marker + 1

refresh ==
  /\ stage = "idle" /\ calls < Updates
  /\ calls' = calls + 1
  /\ full' \in BOOLEAN
  /\ stage' = IF Waits(full') /\ update_marker # 0 THEN "complete" ELSE "send"
  /\ UNCHANGED <<kind, update_marker, driver>>

(* The wait ends when no update with the marker is under way; at once, if  *)
(* the driver does not know the marker.                                    *)
waitForUpdateCompleteOfNext ==  \* mutant: asks for the marker of the update to come
  /\ stage = "complete"
  /\ \A u \in driver : u.marker # NextMarker
  /\ stage' = "send"
  /\ UNCHANGED <<kind, update_marker, full, driver, calls>>

waitForUpdateComplete ==
  /\ stage = "complete"
  /\ \A u \in driver : u.marker # update_marker
  /\ stage' = "send"
  /\ UNCHANGED <<kind, update_marker, full, driver, calls>>

(* The result of the ioctl is not looked at, and the marker is used up     *)
(* whether the driver accepts the update or not.                           *)
Accepted(marker) ==
  driver' = driver \cup {[id |-> calls, marker |-> marker, submitted |-> FALSE]}

sendUpdate ==
  /\ stage = "send"
  /\ update_marker' = IF mxc THEN NextMarker ELSE update_marker
  /\ Accepted(update_marker') \/ UNCHANGED driver
  /\ stage' = IF Waits(full) THEN "submission" ELSE "idle"
  /\ UNCHANGED <<kind, full, calls>>

waitForUpdateSubmissionKnown ==  \* mutant: the driver must know the update
  /\ stage = "submission"
  /\ \E u \in driver : u.marker = update_marker /\ u.submitted
  /\ stage' = "idle"
  /\ UNCHANGED <<kind, update_marker, full, driver, calls>>

waitForUpdateSubmission ==
  /\ stage = "submission"
  /\ \A u \in driver : u.marker = update_marker => u.submitted
  /\ stage' = "idle"
  /\ UNCHANGED <<kind, update_marker, full, driver, calls>>

(* The driver. *)
submit ==
  /\ \E u \in driver :
       /\ ~u.submitted /\ \A earlier \in driver : earlier.id < u.id => earlier.submitted
       /\ driver' = (driver \ {u}) \cup {[u EXCEPT !.submitted = TRUE]}
  /\ UNCHANGED <<kind, update_marker, stage, full, calls>>

complete ==
  /\ \E u \in driver : u.submitted /\ driver' = driver \ {u}
  /\ UNCHANGED <<kind, update_marker, stage, full, calls>>

Thread == refresh \/ waitForUpdateComplete \/ sendUpdate \/ waitForUpdateSubmission
FramebufferNext == Thread \/ submit \/ complete

FramebufferFairness ==
  /\ WF_framebufferVars(waitForUpdateComplete \/ sendUpdate \/ waitForUpdateSubmission)
  /\ WF_framebufferVars(submit \/ complete)
FramebufferSpec == FramebufferInit /\ [][FramebufferNext]_framebufferVars
FramebufferLiveSpec == FramebufferSpec /\ FramebufferFairness

-----------------------------------------------------------------------------
(* framebuffer_linux.lua:253, "Start by checking that our previous update *)
(* has completed": when an update that waits is sent, the one sent before  *)
(* it is no longer under way.                                              *)
PreviousDone == stage = "send" /\ Waits(full) => \A u \in driver : u.id # calls - 1

(* On a Paperwhite 2, where every update waits, the driver never has two   *)
(* at a time, even if it refused some: a refused one uses up its marker,   *)
(* and the wait for that one is a wait for nothing.                        *)
OneAtATime == kind = "carta" => \A u, v \in driver : u = v

(* A refresh ends: waits are only for updates that will be dealt with.     *)
Returns == (stage # "idle") ~> (stage = "idle")
=============================================================================
