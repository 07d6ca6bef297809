---------------------------- MODULE DeviceProofs ----------------------------
(***************************************************************************)
(* Proofs about the parts of the viewer that work alone:                   *)
(*   Keys        for any sets of keys and any sharing of symbols,          *)
(*   Framebuffer for any last marker, number of calls and kind of device,  *)
(*   Timers      for any delays, clock and number of timers,               *)
(*   InputSDL    for every number of events waiting in SDL,                *)
(*   GeometryCalls  for buffers, offsets and rectangles of every size,     *)
(*   Blitbuffer  for buffers of every size and type whose conversions of   *)
(*               colour are right.                                         *)
(***************************************************************************)
EXTENDS Keys, Framebuffer, Timers, InputSDL, GeometryCalls, GeometryLemmas, Blitbuffer,
        NumberLemmas, SequenceTheorems, FiniteSetTheorems

-----------------------------------------------------------------------------
(* Keys. *)

(* The invariants are inductive together with the types: which symbol is   *)
(* released is decided by the key and by shift, and a careful user keeps   *)
(* shift as it is while a letter is held.                                  *)
KeysInv == KeysTypeOK /\ NothingStuck /\ PlainNeverStuck /\ HeldIsDown

LEMMA KeySymPlain ==
  ASSUME NEW k \in Plain
  PROVE  KeySym(k) = SymbolOf[k] /\ KeySym(k)' = SymbolOf[k] /\ KeySym(k) \in Symbol
BY KeyAssumption, SymbolAssumption DEF KeySym

LEMMA KeySymLetter ==
  ASSUME NEW k \in Letter
  PROVE  KeySym(k) = <<k, shift>> /\ KeySym(k)' = <<k, shift'>>
BY DEF KeySym

(* Two bound keys mean the same symbol only if they are plain and share it. *)
LEMMA Distinct ==
  ASSUME KeysTypeOK, NEW k \in Letter, NEW j \in Letter \cup Plain, KeySym(j) = KeySym(k)
  PROVE  j = k
<1>1. <<k, shift>> \in Letter \X BOOLEAN
  BY DEF KeysTypeOK
<1>2. CASE j \in Plain
  BY <1>1, <1>2, KeySymPlain, KeySymLetter, SymbolAssumption
<1>3. CASE j \in Letter
  BY <1>3, KeySymLetter
<1> QED BY <1>2, <1>3

-----------------------------------------------------------------------------
(* Events that send nothing: a modifier, HOME, a key without a binding, a  *)
(* repeated key.                                                           *)
Bound == Letter \cup Plain

LEMMA Silent ==
  ASSUME KeysInv, down' = down, held' \cap Bound = held \cap Bound,
         held' \subseteq Key, {shift', sym', quit', careful'} \subseteq BOOLEAN,
         careful' => careful /\ (shift' = shift \/ held \cap Letter = {})
  PROVE  KeysInv'
<1>1. KeysTypeOK'
  BY DEF KeysInv, KeysTypeOK
<1>2. ASSUME NEW k \in held \cap Bound, careful'
      PROVE  KeySym(k)' = KeySym(k)
  <2>1. CASE k \in Plain
    BY <2>1, KeySymPlain
  <2>2. CASE k \in Letter
    BY <1>2, <2>2, KeySymLetter
  <2> QED BY <1>2, <2>1, <2>2 DEF Bound
<1>3. NothingStuck'
  <2> SUFFICES ASSUME careful', NEW s \in down PROVE s \in Meant'
    BY DEF NothingStuck
  <2>1. PICK k \in held \cap Bound : s = KeySym(k)
    BY DEF KeysInv, NothingStuck, Meant, Bound
  <2>2. s = KeySym(k)' /\ k \in held' \cap Bound
    BY <1>2, <2>1
  <2> QED BY <2>2 DEF Meant, Bound
<1>4. held' \cap Plain = held \cap Plain /\ held' \cap Letter = held \cap Letter
  BY DEF Bound
<1>5. PlainNeverStuck'
  BY <1>4 DEF KeysInv, PlainNeverStuck
<1>6. HeldIsDown'
  <2>1. \A k \in held' \cap Plain : Sole(k) => SymbolOf[k] \in down'
    BY <1>4 DEF KeysInv, HeldIsDown
  <2>2. careful' => \A k \in held' \cap Letter : KeySym(k)' \in down'
    BY <1>2, <1>4 DEF KeysInv, HeldIsDown, Bound
  <2> QED BY <2>1, <2>2 DEF HeldIsDown, Sole
<1> QED BY <1>1, <1>3, <1>5, <1>6 DEF KeysInv

(* A key that is bound and pressed.                                        *)
LEMMA Pressed ==
  ASSUME KeysInv, NEW k \in Bound, held' = held \cup {k},
         UNCHANGED <<shift, sym, quit, careful>>, down' = down \cup {KeySym(k)}
  PROVE  KeysInv'
<1>1. \A j \in Bound : KeySym(j)' = KeySym(j)
  BY KeySymPlain, KeySymLetter DEF Bound
<1>2. k \in Key /\ KeySym(k) \in Symbol \cup (Letter \X BOOLEAN)
  BY KeySymPlain, KeySymLetter DEF Bound, Key, KeysInv, KeysTypeOK
<1>3. KeysTypeOK'
  BY <1>2 DEF KeysInv, KeysTypeOK
<1>4. NothingStuck'
  <2> SUFFICES ASSUME careful', NEW s \in down' PROVE s \in Meant'
    BY DEF NothingStuck
  <2>1. PICK j \in held' \cap Bound : s = KeySym(j)
    BY DEF KeysInv, NothingStuck, Meant, Bound
  <2> QED BY <1>1, <2>1 DEF Meant, Bound
<1>5. PlainNeverStuck'
  <2> SUFFICES ASSUME NEW s \in down', s \in Symbol
              PROVE  \E j \in held' \cap Plain : s = SymbolOf[j]
    BY DEF PlainNeverStuck
  <2>1. CASE s \in down
    BY <2>1 DEF KeysInv, PlainNeverStuck
  <2>2. CASE s = KeySym(k) /\ k \in Plain
    BY <2>2, KeySymPlain
  <2>3. CASE s = KeySym(k) /\ k \in Letter
    BY <2>3, KeySymLetter, SymbolAssumption DEF KeysInv, KeysTypeOK
  <2> QED BY <2>1, <2>2, <2>3 DEF Bound
<1>6. \A j \in held' \cap Plain : Sole(j) => SymbolOf[j] \in down'
  BY KeySymPlain DEF KeysInv, HeldIsDown
<1>7. careful' => \A j \in held' \cap Letter : KeySym(j)' \in down'
  BY <1>1 DEF KeysInv, HeldIsDown, Bound
<1>8. HeldIsDown'
  BY <1>6, <1>7 DEF HeldIsDown, Sole
<1> QED BY <1>3, <1>4, <1>5, <1>8 DEF KeysInv

(* A key that is bound and released.                                       *)
LEMMA Released ==
  ASSUME KeysInv, NEW k \in Bound, held' = held \ {k},
         UNCHANGED <<shift, sym, quit, careful>>, down' = down \ {KeySym(k)}
  PROVE  KeysInv'
<1>1. \A j \in Bound : KeySym(j)' = KeySym(j)
  BY KeySymPlain, KeySymLetter DEF Bound
<1>2. KeysTypeOK'
  BY DEF KeysInv, KeysTypeOK
<1>3. NothingStuck'
  <2> SUFFICES ASSUME careful', NEW s \in down' PROVE s \in Meant'
    BY DEF NothingStuck
  <2>1. PICK j \in held \cap Bound : s = KeySym(j)
    BY DEF KeysInv, NothingStuck, Meant, Bound
  <2>2. j # k
    BY <2>1
  <2> QED BY <1>1, <2>1, <2>2 DEF Meant, Bound
<1>4. PlainNeverStuck'
  <2> SUFFICES ASSUME NEW s \in down', s \in Symbol
              PROVE  \E j \in held' \cap Plain : s = SymbolOf[j]
    BY DEF PlainNeverStuck
  <2>1. PICK j \in held \cap Plain : s = SymbolOf[j]
    BY DEF KeysInv, PlainNeverStuck
  <2>2. j # k
    BY <2>1, KeySymPlain
  <2> QED BY <2>1, <2>2
<1>5. ASSUME NEW j \in held' \cap Plain, Sole(j) PROVE SymbolOf[j] \in down'
  <2>1. SymbolOf[j] \in down /\ j # k
    BY <1>5 DEF KeysInv, HeldIsDown
  <2>2. CASE k \in Plain
    BY <1>5, <2>1, <2>2, KeySymPlain DEF Sole
  <2>3. CASE k \in Letter
    BY <2>1, <2>3, KeySymPlain, KeySymLetter, SymbolAssumption DEF KeysInv, KeysTypeOK
  <2> QED BY <2>2, <2>3 DEF Bound
<1>6. ASSUME careful', NEW j \in held' \cap Letter PROVE KeySym(j)' \in down'
  <2>1. KeySym(j) \in down /\ j # k
    BY <1>6 DEF KeysInv, HeldIsDown
  <2>2. KeySym(k) # KeySym(j)
    BY <2>1, Distinct DEF KeysInv, Bound
  <2> QED BY <1>1, <2>1, <2>2 DEF Bound
<1>7. HeldIsDown'
  BY <1>5, <1>6 DEF HeldIsDown, Sole
<1> QED BY <1>2, <1>3, <1>4, <1>7 DEF KeysInv

-----------------------------------------------------------------------------
LEMMA KeysStep ==
  ASSUME KeysInv, NEW k \in Key, NEW value \in EventValue, Typed(k, value), handleInput(k, value)
  PROVE  KeysInv'
<1> USE KeyAssumption
<1>1. held \subseteq Key /\ held' \subseteq Key /\ {shift, sym, quit, careful, careful'} \subseteq BOOLEAN
      /\ (careful' => careful)
  BY DEF KeysInv, KeysTypeOK, Typed
<1>2. CASE value = "repeat" \/ k \in Mute
  <2>1. UNCHANGED <<shift, sym, quit, down>>
    BY <1>2, KeyAssumption DEF handleInput
  <2>2. held' \cap Bound = held \cap Bound
    BY <1>2 DEF Typed, Bound
  <2> QED BY <1>1, <2>1, <2>2, Silent
<1>3. CASE value # "repeat" /\ k \in {SYM, HOME}
  <2>1. UNCHANGED <<shift, down>> /\ {sym', quit'} \subseteq BOOLEAN
    BY <1>1, <1>3 DEF handleInput
  <2>2. held' \cap Bound = held \cap Bound
    BY <1>3 DEF Typed, Bound
  <2> QED BY <1>1, <2>1, <2>2, Silent
<1>4. CASE value # "repeat" /\ k = SHIFT
  <2>1. UNCHANGED <<sym, quit, down>> /\ shift' \in BOOLEAN
    BY <1>4 DEF handleInput
  <2>2. held' \cap Bound = held \cap Bound /\ (careful' => held \cap Letter = {})
    BY <1>4 DEF Typed, Bound
  <2> QED BY <1>1, <2>1, <2>2, Silent
<1>5. CASE value # "repeat" /\ k \in Bound
  <2>1. UNCHANGED <<shift, sym, quit, careful>> /\ SendKeyEvent(KeySym(k), value = "press")
    BY <1>1, <1>5 DEF handleInput, Bound, Typed
  <2>2. CASE value = "press"
    BY <1>5, <2>1, <2>2, Pressed DEF SendKeyEvent, Typed
  <2>3. CASE value = "release"
    BY <1>5, <2>1, <2>3, Released DEF SendKeyEvent, Typed
  <2> QED BY <1>5, <2>2, <2>3 DEF EventValue
<1> QED BY <1>2, <1>3, <1>4, <1>5 DEF Key, Bound

LEMMA KeysInductive == KeysSpec => []KeysInv
<1>1. KeysInit => KeysInv
  BY DEF KeysInit, KeysInv, KeysTypeOK, NothingStuck, PlainNeverStuck, HeldIsDown
<1>2. KeysInv /\ [KeysNext]_keysVars => KeysInv'
  <2>1. ASSUME KeysInv, UNCHANGED keysVars PROVE KeysInv'
    <3>1. UNCHANGED <<shift, sym, quit, down, held, careful>>
      BY <2>1 DEF keysVars
    <3> QED BY <2>1, <3>1, Silent DEF KeysInv, KeysTypeOK
  <2> QED BY <2>1, KeysStep DEF KeysNext
<1> QED BY <1>1, <1>2, PTL DEF KeysSpec

-----------------------------------------------------------------------------
(* The remembered modifiers are flags, and only known symbols get to the   *)
(* server, for any keyboard (config.lua:32-144).                           *)
THEOREM KeysTypeCorrect == KeysSpec => []KeysTypeOK
<1>1. KeysInv => KeysTypeOK
  BY DEF KeysInv
<1> QED BY <1>1, KeysInductive, PTL

(* A user who leaves shift alone while a letter is held never leaves a key *)
(* stuck at the server (config.lua:32-144).                                *)
THEOREM NothingStuckHolds == KeysSpec => []NothingStuck
<1>1. KeysInv => NothingStuck
  BY DEF KeysInv
<1> QED BY <1>1, KeysInductive, PTL

(* Only letters can get stuck, whatever the user does with shift.          *)
THEOREM PlainNeverStuckHolds == KeysSpec => []PlainNeverStuck
<1>1. KeysInv => PlainNeverStuck
  BY DEF KeysInv
<1> QED BY <1>1, KeysInductive, PTL

(* A held key is down for the server.                                      *)
THEOREM HeldIsDownHolds == KeysSpec => []HeldIsDown
<1>1. KeysInv => HeldIsDown
  BY DEF KeysInv
<1> QED BY <1>1, KeysInductive, PTL

-----------------------------------------------------------------------------
(* Framebuffer. *)

(* What a wait relies on: the update of the previous call, if the driver   *)
(* still has it, carries the marker that is asked for; and while a call    *)
(* has sent nothing, the driver has only updates of calls before it.       *)
Marked ==
  mxc => \A u \in driver :
           u.id = (IF stage \in {"complete", "send"} THEN calls - 1 ELSE calls)
             => u.marker = update_marker
Numbered ==
  /\ \A u \in driver : u.id <= (IF stage \in {"complete", "send"} THEN calls - 1 ELSE calls)
  /\ stage \in {"complete", "send"} => calls >= 1
  /\ stage = "complete" => Waits(full)
  /\ mxc /\ update_marker = 0 => driver = {}

(* On a Paperwhite 2 nothing but the last update is under way. *)
LastOnly ==
  kind = "carta" =>
    /\ stage = "send" => driver = {}
    /\ \A u \in driver : u.id = (IF stage = "complete" THEN calls - 1 ELSE calls)

FBInv == FramebufferTypeOK /\ Marked /\ Numbered /\ LastOnly /\ PreviousDone /\ OneAtATime

-----------------------------------------------------------------------------
LEMMA InitInv == ASSUME FramebufferInit PROVE FBInv
<1>1. FramebufferTypeOK
  <2>1. kind \in Kinds /\ full \in BOOLEAN /\ driver \subseteq Update
    BY DEF FramebufferInit
  <2>2. 0 \in Marker /\ 0 \in 0..Updates
    BY MarkerAssumption DEF Marker
  <2> QED  BY <2>1, <2>2 DEF FramebufferInit, FramebufferTypeOK
<1>2. Marked /\ Numbered /\ LastOnly /\ PreviousDone /\ OneAtATime
  BY DEF FramebufferInit, Marked, Numbered, LastOnly, PreviousDone, OneAtATime
<1> QED  BY <1>1, <1>2 DEF FBInv

(* Only one kind of step puts an update into the driver or renews the      *)
(* marker.                                                                 *)
LEMMA SendInv == ASSUME FBInv, sendUpdate PROVE FBInv'
<1> USE DEF FBInv
<1> DEFINE new == [id |-> calls, marker |-> update_marker', submitted |-> FALSE]
<1>1. driver' = driver \/ driver' = driver \cup {new}
  BY DEF sendUpdate, Accepted
<1>2. /\ stage = "send" /\ stage' \in {"submission", "idle"}
      /\ calls' = calls /\ kind' = kind /\ full' = full
  BY DEF sendUpdate
<1>3. calls \in 1..Updates
  BY <1>2, MarkerAssumption DEF Numbered, FramebufferTypeOK
<1>4. update_marker' \in Marker /\ (mxc => update_marker' # 0)
  BY MarkerAssumption DEF sendUpdate, FramebufferTypeOK, Marker, NextMarker
<1>5. \A u \in driver' : u \in driver \/ u = new
  BY <1>1
<1>6. new.id = calls /\ new.marker = update_marker' /\ new \in Update
  BY <1>3, <1>4 DEF Update
<1>7. \A u \in driver : u.id <= calls - 1 /\ u.id \in Nat
  BY <1>2, MarkerAssumption DEF Numbered, FramebufferTypeOK, Update
<1>8. calls \in Nat
  BY <1>3, MarkerAssumption
<1> HIDE DEF new
<1>9. FramebufferTypeOK'
  BY <1>2, <1>4, <1>5, <1>6 DEF FramebufferTypeOK, Update, Marker
<1>10. Marked'
  BY <1>2, <1>5, <1>6, <1>7, <1>8 DEF Marked, mxc
<1>11. Numbered'
  <2>1. \A u \in driver' : u.id <= calls'
    BY <1>2, <1>5, <1>6, <1>7, <1>8
  <2> QED  BY <2>1, <1>2, <1>4 DEF Numbered, mxc
<1>12. LastOnly' /\ OneAtATime'
  <2>1. kind = "carta" => driver = {}
    BY <1>2 DEF LastOnly
  <2> QED  BY <2>1, <1>2, <1>5, <1>6 DEF LastOnly, OneAtATime
<1>13. PreviousDone'
  BY <1>2 DEF PreviousDone
<1> QED  BY <1>9, <1>10, <1>11, <1>12, <1>13

(* The driver's own steps keep what an update is, or drop it.              *)
LEMMA DriverInv == ASSUME FBInv, submit \/ complete PROVE FBInv'
<1> USE DEF FBInv
<1>1. UNCHANGED <<kind, update_marker, stage, full, calls>>
  BY DEF submit, complete
<1>2. driver' \subseteq Update
      /\ \A u \in driver' : \E v \in driver : u.id = v.id /\ u.marker = v.marker
  <2>1. CASE submit
    <3>1. PICK u \in driver : driver' = (driver \ {u}) \cup {[u EXCEPT !.submitted = TRUE]}
      BY <2>1 DEF submit
    <3>2. u \in Update
      BY DEF FramebufferTypeOK
    <3> QED  BY <3>1, <3>2 DEF FramebufferTypeOK, Update
  <2>2. CASE complete
    BY <2>2 DEF complete, FramebufferTypeOK
  <2> QED  BY <2>1, <2>2
<1>3. driver = {} => driver' = {}
  BY <1>2
<1>4. FramebufferTypeOK'
  BY <1>1, <1>2 DEF FramebufferTypeOK, Update, Marker
<1>5. Marked' /\ Numbered' /\ LastOnly' /\ PreviousDone'
  BY <1>1, <1>2, <1>3 DEF Marked, Numbered, LastOnly, PreviousDone, mxc, Waits
<1>6. OneAtATime'
  <2> SUFFICES ASSUME kind = "carta" PROVE \A u, v \in driver' : u = v
    BY <1>1 DEF OneAtATime
  <2>1. \A u, v \in driver : u = v
    BY DEF OneAtATime
  <2>2. CASE submit
    BY <2>1, <2>2 DEF submit
  <2>3. CASE complete
    BY <2>1, <2>3 DEF complete
  <2> QED  BY <2>2, <2>3
<1> QED  BY <1>4, <1>5, <1>6

LEMMA NextInv == ASSUME FBInv, [FramebufferNext]_framebufferVars PROVE FBInv'
<1> USE DEF FBInv
<1>1. CASE refresh
  <2>1. /\ calls' = calls + 1 /\ full' \in BOOLEAN /\ stage = "idle"
        /\ stage' = IF Waits(full') /\ update_marker # 0 THEN "complete" ELSE "send"
        /\ calls' \in 1..Updates
        /\ UNCHANGED <<kind, update_marker, driver>>
    BY <1>1, MarkerAssumption DEF refresh, FramebufferTypeOK
  <2>2. calls \in Nat /\ calls' - 1 = calls /\ stage' \in {"complete", "send"}
    BY <2>1, MarkerAssumption DEF FramebufferTypeOK
  <2>3. FramebufferTypeOK'
    BY <2>1, <2>2, MarkerAssumption DEF FramebufferTypeOK, Update, Marker
  <2>4. Marked'
    BY <2>1, <2>2 DEF Marked, mxc
  <2>5. stage' = "complete" => Waits(full)'
    BY <2>1 DEF Waits
  <2>6. Numbered'
    BY <2>1, <2>2, <2>5 DEF Numbered, mxc
  <2>7. stage' = "send" /\ Waits(full)' => driver = {}
    BY <2>1 DEF Waits, Numbered, mxc
  <2>8. PreviousDone'
    BY <2>1, <2>7 DEF PreviousDone
  <2>9. LastOnly'
    BY <2>1, <2>2, <2>7 DEF LastOnly, Waits
  <2> QED  BY <2>1, <2>3, <2>4, <2>6, <2>8, <2>9 DEF OneAtATime
<1>2. CASE waitForUpdateComplete
  <2>1. /\ stage = "complete" /\ stage' = "send"
        /\ \A u \in driver : u.marker # update_marker
        /\ UNCHANGED <<kind, update_marker, full, driver, calls>>
    BY <1>2 DEF waitForUpdateComplete
  <2>2. mxc
    BY <2>1 DEF Numbered, Waits, mxc
  <2>3. \A u \in driver : u.id # calls - 1
    BY <2>1, <2>2 DEF Marked
  <2>4. PreviousDone'
    BY <2>1, <2>3 DEF PreviousDone
  <2>5. LastOnly'
    BY <2>1, <2>3 DEF LastOnly
  <2>6. Marked' /\ Numbered' /\ OneAtATime'
    BY <2>1 DEF Marked, Numbered, OneAtATime, mxc
  <2> QED  BY <2>1, <2>4, <2>5, <2>6 DEF FramebufferTypeOK, Update, Marker
<1>3. CASE sendUpdate
  BY <1>3, SendInv
<1>4. CASE waitForUpdateSubmission
  <2>1. /\ stage = "submission" /\ stage' = "idle"
        /\ UNCHANGED <<kind, update_marker, full, driver, calls>>
    BY <1>4 DEF waitForUpdateSubmission
  <2> QED  BY <2>1 DEF FramebufferTypeOK, Update, Marker, Marked, Numbered, LastOnly, PreviousDone, OneAtATime, mxc
<1>5. CASE submit \/ complete
  BY <1>5, DriverInv
<1>6. CASE UNCHANGED framebufferVars
  BY <1>6 DEF framebufferVars, FramebufferTypeOK, Update, Marker, Marked, Numbered, LastOnly, PreviousDone, OneAtATime, mxc, Waits
<1> QED  BY <1>1, <1>2, <1>3, <1>4, <1>5, <1>6 DEF FramebufferNext, Thread

(* The invariant, as a theorem of the specification: the marker asked for *)
(* is the one of the update sent before.                                   *)
THEOREM Invariant == FramebufferSpec => []FBInv
<1>1. FramebufferInit => FBInv
  BY InitInv
<1>2. FBInv /\ [FramebufferNext]_framebufferVars => FBInv'
  BY NextInv
<1> QED  BY <1>1, <1>2, PTL DEF FramebufferSpec

-----------------------------------------------------------------------------
(* framebuffer_linux.lua:253: an update that waits is sent only when the   *)
(* one sent before it is over, although markers are used again.            *)
THEOREM PreviousDoneHolds == FramebufferSpec => []PreviousDone
<1>1. FBInv => PreviousDone
  BY DEF FBInv
<1> QED  BY <1>1, Invariant, PTL

(* Markers stay between 1 and 16 (framebuffer_linux.lua:30-40), and the     *)
(* driver knows each update by one of them.                                *)
THEOREM FramebufferTypeCorrect == FramebufferSpec => []FramebufferTypeOK
<1>1. FBInv => FramebufferTypeOK
  BY DEF FBInv
<1> QED  BY <1>1, Invariant, PTL

(* The driver of a Paperwhite 2 (framebuffer_linux.lua:167-170) has one    *)
(* update at a time.                                                       *)
THEOREM OneAtATimeHolds == FramebufferSpec => []OneAtATime
<1>1. FBInv => OneAtATime
  BY DEF FBInv
<1> QED  BY <1>1, Invariant, PTL

-----------------------------------------------------------------------------
(* Timers: the list. *)

(* What the list should be: `x` is the first of the cells in S after c.    *)
FirstAfter(x, S, c) ==
  (x = Nil /\ \A p \in S : p <= c) \/ (x \in S /\ x > c /\ \A p \in S : p > c => x <= p)
Linked(first, links, S) ==
  FirstAfter(first, S, 0) /\ \A c \in S : FirstAfter(links[c], S, c)

(* The cell before the cursor. *)
Precedes(p, t, first, links, S) == (p = Nil /\ t = first) \/ (p \in S /\ links[p] = t)

TimersTypeOK ==
  /\ clock \in Nat /\ clock >= Start
  /\ made \in 0..MaxTimers /\ pending \in SUBSET (1..made)
  /\ head \in Cell \cup {Nil} /\ next \in [Cell -> Cell \cup {Nil}]
  /\ \A c \in Cell : c > made => next[c] = Nil
  /\ tv \in [Cell -> Timeval] /\ moment \in [Cell -> Nat]
  /\ timer \in Cell \cup {Nil} /\ prev \in Cell \cup {Nil}
  /\ now \in Timeval /\ up_to \in Timeval /\ duration \in Int
  /\ place \in {"top", "scan", "wait"}

(* The moments are the ones asked for, and none is in the second 0, which  *)
(* up_to uses for "none".                                                  *)
MomentsKept == \A c \in pending : Ticks(tv[c]) = moment[c] /\ tv[c].sec > 0

NowRead == place # "top" => now.usec < Second /\ Ticks(now) <= clock

(* While the list is scanned: the timers up to the cursor are not due, and *)
(* up_to is the earliest of them.                                          *)
Passed == {p \in pending : p <= prev}
Scanned ==
  place = "scan" =>
    /\ Precedes(prev, timer, head, next, pending)
    /\ \A p \in Passed : Ticks(now) < moment[p]
    /\ up_to.sec = 0 => Passed = {}
    /\ up_to.sec # 0 => /\ \E p \in Passed : up_to = tv[p]
                        /\ \A p \in Passed : Ticks(up_to) <= moment[p]

TimersInv ==
  /\ TimersTypeOK
  /\ Linked(head, next, pending)
  /\ MomentsKept /\ NowRead /\ Scanned /\ SleepFits

-----------------------------------------------------------------------------

LEMMA ListedAll ==
  ASSUME NEW S \in SUBSET Cell, NEW first \in Cell \cup {Nil},
         NEW links \in [Cell -> Cell \cup {Nil}], Linked(first, links, S)
  PROVE  Listed(first, links) = S
<1>0. \A p \in S : p \in Nat /\ p \in Cell /\ p # 0
  BY ClockAssumption DEF Cell
<1> USE <1>0, ClockAssumption DEF Nil, Cell
<1>1. Closed(S, first, links)
  BY DEF Closed, Linked, FirstAfter
<1>2. Listed(first, links) \subseteq S
  BY <1>1 DEF Listed
<1>3. ASSUME NEW T \in SUBSET Cell, Closed(T, first, links), S \ T # {}
      PROVE FALSE
  <2>1. PICK m \in S \ T : \A p \in S \ T : m <= p
    BY <1>3, HasLeast
  <2>2. first # m
    BY <1>3, <2>1 DEF Closed
  <2> DEFINE B == {p \in S : p < m}
  <2>3. first \in B
    BY <2>1, <2>2 DEF Linked, FirstAfter
  <2>4. B \in SUBSET (0..MaxTimers) /\ B # {}
    <3>1. \A p \in B : p \in 0..MaxTimers
      OBVIOUS
    <3> QED BY <2>3, <3>1
  <2>5. PICK b \in B : \A p \in B : p <= b
    <3> HIDE DEF B
    <3> QED BY <2>4, HasGreatest
  <2>6. b \in T
    BY <2>1, <2>5
  <2>7. links[b] = m
    <3>1. FirstAfter(links[b], S, b) /\ m > b
      BY <2>1, <2>5 DEF Linked
    <3>2. links[b] \in S /\ links[b] > b /\ links[b] <= m
      BY <2>1, <3>1 DEF FirstAfter
    <3> QED BY <3>2, <2>1, <2>5
  <2> QED BY <1>3, <2>1, <2>6, <2>7 DEF Closed
<1> QED BY <1>2, <1>3 DEF Listed

LEMMA TailIs ==
  ASSUME NEW S \in SUBSET Cell, NEW first \in Cell \cup {Nil},
         NEW links \in [Cell -> Cell \cup {Nil}], Linked(first, links, S), S # {},
         NEW t, t = CHOOSE c \in Listed(first, links) : links[c] = Nil
  PROVE  t \in S /\ links[t] = Nil /\ \A p \in S : p <= t
<1>0. \A p \in S : p \in Nat /\ p \in Cell /\ p # 0
  BY ClockAssumption DEF Cell
<1> USE <1>0, ClockAssumption DEF Nil, Cell
<1>1. S \in SUBSET (0..MaxTimers)
  OBVIOUS
<1>2. PICK m \in S : \A p \in S : p <= m
  BY <1>1, HasGreatest
<1>3. links[m] = Nil
  BY <1>2 DEF Linked, FirstAfter
<1>4. t \in S /\ links[t] = Nil
  BY <1>3, ListedAll
<1>5. FirstAfter(links[t], S, t)
  BY <1>4 DEF Linked
<1> QED BY <1>4, <1>5 DEF FirstAfter

LEMMA Appending ==
  ASSUME NEW S \in SUBSET Cell, NEW first \in Cell \cup {Nil},
         NEW links \in [Cell -> Cell \cup {Nil}], Linked(first, links, S),
         NEW t \in S, links[t] = Nil, \A p \in S : p <= t,
         NEW n \in Cell, links[n] = Nil, n > t
  PROVE  Linked(first, [links EXCEPT ![t] = n], S \cup {n})
<1>0. \A p \in S : p \in Nat /\ p \in Cell /\ p # 0
  BY ClockAssumption DEF Cell
<1> USE <1>0, ClockAssumption DEF Nil, Cell
<1> DEFINE l == [links EXCEPT ![t] = n]
<1>1. FirstAfter(first, S \cup {n}, 0)
  BY DEF Linked, FirstAfter
<1>2. ASSUME NEW c \in S, c # t PROVE FirstAfter(l[c], S \cup {n}, c)
  <2>1. l[c] = links[c] /\ FirstAfter(links[c], S, c) /\ t > c
    BY <1>2 DEF Linked
  <2> QED BY <2>1 DEF FirstAfter
<1>3. FirstAfter(l[t], S \cup {n}, t)
  BY DEF FirstAfter
<1>4. FirstAfter(l[n], S \cup {n}, n)
  <2>1. l[n] = Nil /\ \A p \in S \cup {n} : p <= n
    OBVIOUS
  <2> QED BY <2>1 DEF FirstAfter
<1> QED BY <1>1, <1>2, <1>3, <1>4 DEF Linked

(* The list after the cell t behind p was taken out.                       *)
FirstWithout(t, p, first, links) == IF p = Nil THEN links[t] ELSE first
LinksWithout(t, p, links) == IF p = Nil THEN links ELSE [links EXCEPT ![p] = links[t]]

LEMMA Unlinking ==
  ASSUME NEW S \in SUBSET Cell, NEW first \in Cell \cup {Nil},
         NEW links \in [Cell -> Cell \cup {Nil}], Linked(first, links, S),
         NEW t \in S, NEW p \in Cell \cup {Nil}, Precedes(p, t, first, links, S)
  PROVE  /\ Linked(FirstWithout(t, p, first, links), LinksWithout(t, p, links), S \ {t})
         /\ LinksWithout(t, p, links) \in [Cell -> Cell \cup {Nil}]
         /\ FirstWithout(t, p, first, links) \in Cell \cup {Nil}
         /\ Precedes(p, links[t], FirstWithout(t, p, first, links), LinksWithout(t, p, links),
                     S \ {t})
         /\ p < t /\ \A q \in S : q <= p \/ q >= t
<1> DEFINE f == FirstWithout(t, p, first, links)
           l == LinksWithout(t, p, links)
<1>a. /\ f = IF p = Nil THEN links[t] ELSE first
      /\ l = IF p = Nil THEN links ELSE [links EXCEPT ![p] = links[t]]
  BY DEF FirstWithout, LinksWithout
<1>b. t \in Cell /\ links[t] \in Cell \cup {Nil} /\ l \in [Cell -> Cell \cup {Nil}] /\ f \in Cell \cup {Nil}
  BY <1>a
<1> HIDE DEF f, l
<1>0. \A q \in S : q \in Nat /\ q \in Cell /\ q # 0
  BY ClockAssumption DEF Cell
<1> USE <1>0, ClockAssumption DEF Nil, Cell
<1>1. CASE p = Nil
  <2>1. t = first /\ f = links[t] /\ l = links
    BY <1>1, <1>a DEF Precedes
  <2>2. \A q \in S : t <= q
    BY <2>1 DEF Linked, FirstAfter
  <2>3. FirstAfter(f, S \ {t}, 0)
    BY <2>1, <2>2 DEF Linked, FirstAfter
  <2>4. ASSUME NEW c \in S \ {t} PROVE FirstAfter(l[c], S \ {t}, c)
    BY <2>1, <2>2 DEF Linked, FirstAfter
  <2>5. Linked(f, l, S \ {t})
    BY <2>3, <2>4 DEF Linked
  <2>6. p < t /\ Precedes(p, links[t], f, l, S \ {t})
    BY <1>1, <2>1 DEF Precedes
  <2> QED BY <1>b, <2>1, <2>2, <2>5, <2>6 DEF f, l
<1>2. CASE p # Nil
  <2>1. p \in S /\ links[p] = t /\ f = first /\ l = [links EXCEPT ![p] = links[t]]
    BY <1>2, <1>a DEF Precedes
  <2>2. p < t /\ \A q \in S : q <= p \/ q >= t
    BY <2>1 DEF Linked, FirstAfter
  <2>3. FirstAfter(f, S \ {t}, 0)
    BY <2>1, <2>2 DEF Linked, FirstAfter
  <2>4. FirstAfter(l[p], S \ {t}, p)
    <3>1. FirstAfter(links[t], S, t) /\ l[p] = links[t]
      BY <2>1 DEF Linked
    <3> QED BY <3>1, <2>1, <2>2 DEF FirstAfter
  <2>5. ASSUME NEW c \in S \ {t}, c < p PROVE FirstAfter(l[c], S \ {t}, c)
    <3>1. l[c] = links[c] /\ FirstAfter(links[c], S, c)
      BY <2>1, <2>5 DEF Linked
    <3> QED BY <3>1, <2>1, <2>2, <2>5 DEF FirstAfter
  <2>6. ASSUME NEW c \in S \ {t}, c > p PROVE FirstAfter(l[c], S \ {t}, c)
    <3>1. c > t /\ l[c] = links[c] /\ FirstAfter(links[c], S, c)
      BY <2>1, <2>2, <2>6 DEF Linked
    <3> QED BY <3>1, <2>2 DEF FirstAfter
  <2>7. l \in [Cell -> Cell \cup {Nil}] /\ l[p] = links[t]
    BY <2>1
  <2>8. Linked(f, l, S \ {t})
    <3>1. ASSUME NEW c \in S \ {t} PROVE FirstAfter(l[c], S \ {t}, c)
      <4>1. c < p \/ c = p \/ c > p
        BY <2>1
      <4> QED BY <4>1, <2>4, <2>5, <2>6
    <3> QED BY <3>1, <2>3 DEF Linked
  <2>9. Precedes(p, links[t], f, l, S \ {t})
    BY <2>1, <2>2, <2>7 DEF Precedes
  <2> QED BY <1>b, <2>2, <2>8, <2>9 DEF f, l
<1> QED BY <1>1, <1>2, ClockAssumption DEF Cell, Nil

-----------------------------------------------------------------------------
(* The clock's arithmetic. *)

LEMMA SecondIs == Second \in Nat /\ Second > 0 /\ Second = Thousand * Milli
BY ClockAssumption, SMT DEF Second

LEMMA TicksIs ==
  ASSUME NEW m \in Timeval
  PROVE  /\ m.sec \in Nat /\ m.usec \in Nat /\ m.usec <= Second
         /\ Ticks(m) \in Nat /\ Ticks(m) = m.sec * Second + m.usec
<1> USE SecondIs
<1>1. m.sec \in Nat /\ m.usec \in Nat /\ m.usec <= Second
  BY DEF Timeval
<1>2. m.sec * Second \in Nat
  BY <1>1, SMT
<1> QED BY <1>1, <1>2 DEF Ticks

LEMMA MoreSeconds ==
  ASSUME NEW m \in Nat, NEW n \in Nat, m < n
  PROVE  m * Second + Second <= n * Second
<1>1. PICK k \in Nat : n = m + 1 + k
  <2>1. n - m - 1 \in Nat /\ n = m + 1 + (n - m - 1)
    OBVIOUS
  <2> QED BY <2>1
<1>2. n * Second = m * Second + Second + k * Second /\ k * Second >= 0
  BY <1>1, SecondIs, SMT
<1>3. m * Second \in Int /\ n * Second \in Int /\ k * Second \in Int
  BY SecondIs, SMT
<1> QED BY <1>2, <1>3, SecondIs

LEMMA NotBeforeIs ==
  ASSUME NEW a \in Timeval, NEW b \in Timeval, a.usec < Second
  PROVE  NotBefore(a, b) <=> Ticks(b) <= Ticks(a)
<1>1. CASE a.sec = b.sec
  BY <1>1, TicksIs, SecondIs DEF NotBefore
<1>2. CASE a.sec < b.sec
  <2>1. a.sec * Second + Second <= b.sec * Second
    BY <1>2, TicksIs, MoreSeconds
  <2>2. a.sec * Second \in Int /\ b.sec * Second \in Int
    BY TicksIs, SecondIs, SMT
  <2>3. Ticks(a) < Ticks(b)
    BY <2>1, <2>2, TicksIs, SecondIs
  <2> QED BY <1>2, <2>3, TicksIs DEF NotBefore
<1>3. CASE a.sec > b.sec
  <2>1. b.sec * Second + Second <= a.sec * Second
    BY <1>3, TicksIs, MoreSeconds
  <2>2. a.sec * Second \in Int /\ b.sec * Second \in Int
    BY TicksIs, SecondIs, SMT
  <2>3. Ticks(b) <= Ticks(a)
    BY <2>1, <2>2, TicksIs, SecondIs
  <2> QED BY <1>3, <2>3, TicksIs DEF NotBefore
<1> QED BY <1>1, <1>2, <1>3, TicksIs

LEMMA EarlierIs ==
  ASSUME NEW a \in Timeval, NEW b \in Timeval
  PROVE  IF Earlier(a, b) THEN Ticks(a) <= Ticks(b) ELSE Ticks(b) <= Ticks(a)
<1>1. CASE a.sec = b.sec
  BY <1>1, TicksIs, SecondIs DEF Earlier
<1>2. CASE a.sec < b.sec
  <2>1. a.sec * Second + Second <= b.sec * Second
    BY <1>2, TicksIs, MoreSeconds
  <2>2. a.sec * Second \in Int /\ b.sec * Second \in Int
    BY TicksIs, SecondIs, SMT
  <2>3. Ticks(a) <= Ticks(b)
    BY <2>1, <2>2, TicksIs, SecondIs
  <2> QED BY <1>2, <2>3, TicksIs DEF Earlier
<1>3. CASE a.sec > b.sec
  <2>1. b.sec * Second + Second <= a.sec * Second
    BY <1>3, TicksIs, MoreSeconds
  <2>2. a.sec * Second \in Int /\ b.sec * Second \in Int
    BY TicksIs, SecondIs, SMT
  <2>3. Ticks(b) <= Ticks(a)
    BY <2>1, <2>2, TicksIs, SecondIs
  <2> QED BY <1>3, <2>3, TicksIs DEF Earlier
<1> QED BY <1>1, <1>2, <1>3, TicksIs

LEMMA TimeOfDay ==
  ASSUME clock \in Nat, clock >= Start
  PROVE  /\ gettimeofday \in Timeval /\ gettimeofday.usec < Second
         /\ Ticks(gettimeofday) = clock /\ gettimeofday.sec > 0
<1>1. /\ clock \div Second \in Nat /\ clock % Second \in 0..(Second - 1)
      /\ clock = Second * (clock \div Second) + (clock % Second)
  <2>1. clock \in Int /\ Second \in Nat \ {0}
    BY SecondIs
  <2> QED BY <2>1, Division, Zenon
<1>2. gettimeofday.sec = clock \div Second /\ gettimeofday.usec = clock % Second
  BY DEF gettimeofday
<1>3. gettimeofday \in Timeval /\ gettimeofday.usec < Second
  <2>1. gettimeofday.usec < Second
    BY <1>1, <1>2, SecondIs
  <2>2. gettimeofday = [sec |-> clock \div Second, usec |-> clock % Second]
    BY DEF gettimeofday
  <2>3. clock \div Second \in Nat /\ clock % Second \in 0..Second
    BY <1>1, SecondIs
  <2> QED BY <2>1, <2>2, <2>3 DEF Timeval
<1>4. Second * (clock \div Second) = (clock \div Second) * Second
  BY <1>1, SecondIs, SMT
<1>5. Ticks(gettimeofday) = clock
  BY <1>1, <1>2, <1>4 DEF Ticks
<1>6. clock \div Second # 0
  <2>1. clock >= Second
    BY SecondIs, ClockAssumption
  <2>2. Second * 0 = 0
    BY SecondIs
  <2> QED BY <1>1, <2>1, <2>2, SecondIs
<1> QED BY <1>1, <1>2, <1>3, <1>5, <1>6

LEMMA InMsIs ==
  ASSUME clock \in Nat, clock >= Start, NEW ms \in Delays
  PROVE  /\ inMs(ms) \in Timeval /\ inMs(ms).sec > 0
         /\ Ticks(inMs(ms)) = clock + ms * Milli /\ clock + ms * Milli \in Nat
<1> DEFINE now0 == gettimeofday
           seconds == IF ms > Thousand THEN (ms - 1) \div Thousand ELSE 0
           rest == ms - seconds * Thousand
           usec == now0.usec + rest * Milli
<1>0. /\ now0 \in Timeval /\ now0.usec < Second /\ Ticks(now0) = clock /\ now0.sec > 0
      /\ now0.sec \in Nat /\ now0.usec \in Nat
  BY TimeOfDay, TicksIs
<1>1. ms \in Nat /\ Thousand \in Nat \ {0} /\ Milli \in Nat \ {0}
  BY ClockAssumption
<1>2. seconds \in Nat /\ rest \in 0..Thousand
  <2>1. CASE ms > Thousand
    <3>1. /\ (ms - 1) \div Thousand \in Nat /\ (ms - 1) % Thousand \in 0..(Thousand - 1)
          /\ ms - 1 = Thousand * ((ms - 1) \div Thousand) + ((ms - 1) % Thousand)
      <4>1. ms - 1 \in Int /\ ms - 1 \in Nat
        BY <2>1, <1>1
      <4> QED BY <4>1, <1>1, Division, Zenon
    <3>2. Thousand * ((ms - 1) \div Thousand) = ((ms - 1) \div Thousand) * Thousand
      BY <3>1, <1>1, SMT
    <3>3. rest = 1 + ((ms - 1) % Thousand)
      BY <2>1, <3>1, <3>2, <1>1
    <3> QED BY <2>1, <3>1, <3>3, <1>1
  <2>2. CASE ~(ms > Thousand)
    BY <2>2, <1>1
  <2> QED BY <2>1, <2>2
<1> HIDE DEF seconds
<1>3. rest * Milli \in Nat /\ rest * Milli <= Second
  <2>1. PICK k \in Nat : Thousand = rest + k
    <3>1. Thousand - rest \in Nat /\ Thousand = rest + (Thousand - rest)
      BY <1>1, <1>2
    <3> QED BY <3>1
  <2>2. rest \in Nat
    BY <1>2
  <2> HIDE DEF rest
  <2>3. rest * Milli \in Nat /\ k * Milli \in Nat
    BY <2>2, <1>1, SMT
  <2>4. Thousand * Milli = rest * Milli + k * Milli
    BY <2>1, <2>2, <1>1, SMT
  <2> QED BY <2>3, <2>4, SecondIs
<1>4. seconds * Second \in Nat /\ ms * Milli = seconds * Second + rest * Milli
  BY <1>1, <1>2, SecondIs, SMT
<1> HIDE DEF rest
<1>5. usec \in Nat /\ usec <= 2 * Second
  BY <1>0, <1>3, SecondIs
<1> DEFINE total == now0.sec + seconds
<1>6. total \in Nat /\ total > 0 /\ total * Second = now0.sec * Second + seconds * Second
  BY <1>0, <1>2, SecondIs, SMT
<1>7. total * Second \in Nat /\ (total + 1) * Second = total * Second + Second
  BY <1>6, SecondIs, SMT
<1>8. total * Second + usec = clock + ms * Milli
  <2>1. now0.sec * Second \in Nat
    BY <1>0, SecondIs, SMT
  <2>2. clock = now0.sec * Second + now0.usec
    BY <1>0 DEF Ticks
  <2> QED BY <2>1, <2>2, <1>0, <1>3, <1>4, <1>6
<1>9. inMs(ms) = IF usec > Second THEN [sec |-> total + 1, usec |-> usec - Second]
                 ELSE [sec |-> total, usec |-> usec]
  BY DEF inMs, seconds, rest
<1> HIDE DEF usec, total
<1>10. inMs(ms) \in Timeval /\ inMs(ms).sec > 0
  BY <1>5, <1>6, <1>9, SecondIs DEF Timeval
<1>11. Ticks(inMs(ms)) = total * Second + usec
  <2>1. CASE usec > Second
    BY <2>1, <1>5, <1>7, <1>9, SecondIs DEF Ticks
  <2>2. CASE ~(usec > Second)
    BY <2>2, <1>9 DEF Ticks
  <2> QED BY <2>1, <2>2
<1> QED BY <1>5, <1>7, <1>8, <1>10, <1>11

-----------------------------------------------------------------------------
(* The steps. *)

LEMMA TimersInitHolds == TimersInit => TimersInv
<1> SUFFICES ASSUME TimersInit PROVE TimersInv
  OBVIOUS
<1> USE ClockAssumption, SecondIs DEF TimersInit, Nil
<1>1. TimersTypeOK
  BY DEF TimersTypeOK, Cell, Timeval
<1>2. Linked(head, next, pending)
  BY DEF Linked, FirstAfter
<1> QED BY <1>1, <1>2 DEF TimersInv, MomentsKept, NowRead, Scanned, SleepFits

LEMMA IterateStep == TimersInv /\ iterate => TimersInv'
<1> SUFFICES ASSUME TimersInv, iterate PROVE TimersInv'
  OBVIOUS
<1>1. TimersTypeOK /\ clock \in Nat /\ clock >= Start
  BY DEF TimersInv, TimersTypeOK
<1>2. /\ now' = gettimeofday /\ gettimeofday \in Timeval /\ gettimeofday.usec < Second
      /\ Ticks(gettimeofday) = clock
  BY <1>1, TimeOfDay DEF iterate
<1>3. up_to' \in Timeval /\ up_to'.sec = 0
  BY <1>1 DEF iterate, TimersTypeOK, Timeval
<1>4. TimersTypeOK'
  BY <1>1, <1>2, <1>3 DEF TimersTypeOK, iterate
<1>5. NowRead'
  BY <1>1, <1>2 DEF iterate, NowRead, Ticks
<1>6. Passed' = {} /\ Precedes(prev, timer, head, next, pending)'
  BY <1>1, ClockAssumption DEF iterate, Passed, Precedes, TimersTypeOK, Nil
<1> QED
  BY <1>3, <1>4, <1>5, <1>6
  DEF TimersInv, iterate, Linked, FirstAfter, MomentsKept, Scanned, SleepFits, Ticks

(* What the step of the cursor over an expired timer starts from.          *)
LEMMA Expired ==
  ASSUME TimersInv, AtTimer
  PROVE  /\ place = "scan" /\ timer \in pending /\ timer \in Cell /\ pending \in SUBSET Cell
         /\ Precedes(prev, timer, head, next, pending)
         /\ Linked(head, next, pending)
<1>1. place = "scan" /\ Precedes(prev, timer, head, next, pending) /\ timer # Nil
  BY DEF TimersInv, Scanned, AtTimer
<1>2. Linked(head, next, pending)
  BY DEF TimersInv
<1>3. timer \in pending
  BY <1>1, <1>2 DEF Precedes, Linked, FirstAfter
<1>4. pending \in SUBSET Cell
  BY ClockAssumption DEF TimersInv, TimersTypeOK, Cell
<1> QED BY <1>1, <1>2, <1>3, <1>4

LEMMA RunTimerStep == TimersInv /\ runTimer => TimersInv'
<1> SUFFICES ASSUME TimersInv, runTimer PROVE TimersInv'
  OBVIOUS
<1>1. /\ place = "scan" /\ timer \in pending /\ timer \in Cell /\ pending \in SUBSET Cell
      /\ Precedes(prev, timer, head, next, pending)
      /\ Linked(head, next, pending)
  BY Expired DEF runTimer
<1>2. TimersTypeOK /\ Scanned /\ MomentsKept /\ NowRead
  BY DEF TimersInv
<1>3. /\ Linked(head', next', pending \ {timer})
      /\ next' \in [Cell -> Cell \cup {Nil}] /\ head' \in Cell \cup {Nil}
      /\ Precedes(prev, next[timer], head', next', pending \ {timer})
      /\ prev < timer /\ \A q \in pending : q <= prev \/ q >= timer
  <2>1. /\ head \in Cell \cup {Nil} /\ prev \in Cell \cup {Nil}
        /\ next \in [Cell -> Cell \cup {Nil}]
    BY <1>2 DEF TimersTypeOK
  <2>2. /\ head' = FirstWithout(timer, prev, head, next)
        /\ next' = LinksWithout(timer, prev, next)
    BY DEF runTimer, unlink, FirstWithout, LinksWithout
  <2> QED BY <2>1, <2>2, <1>1, Unlinking
<1>4. /\ pending' = pending \ {timer} /\ timer' = next[timer]
      /\ UNCHANGED <<clock, tv, prev, now, up_to, place, duration, made, moment>>
  BY DEF runTimer, unlink
<1>5. \A c \in Cell : c > made => next'[c] = Nil
  <2>1. prev # Nil => prev \in pending /\ prev <= made
    BY <1>1, <1>2 DEF Precedes, TimersTypeOK
  <2>2. next' = IF prev = Nil THEN next ELSE [next EXCEPT ![prev] = next[timer]]
    BY DEF runTimer, unlink
  <2> QED BY <2>1, <2>2, <1>2, ClockAssumption DEF TimersTypeOK, Cell, Nil
<1>6. TimersTypeOK'
  BY <1>1, <1>2, <1>3, <1>4, <1>5 DEF TimersTypeOK
<1>7. Passed' = Passed
  <2>1. timer \notin Passed
    BY <1>1, <1>2, <1>3, ClockAssumption DEF Passed, TimersTypeOK, Cell, Nil
  <2> QED BY <2>1, <1>4 DEF Passed
<1>8. Scanned'
  BY <1>1, <1>2, <1>3, <1>4, <1>7 DEF Scanned, Ticks
<1> QED
  BY <1>1, <1>2, <1>3, <1>4, <1>6, <1>8 DEF TimersInv, MomentsKept, NowRead, SleepFits, Ticks

(* What a registration does to the cells.                                  *)
LEMMA Registering ==
  ASSUME TimersInv, NEW ms \in Delays, registered(ms), made < MaxTimers, UNCHANGED clock
  PROVE  /\ made' = made + 1 /\ made + 1 \in Cell /\ made + 1 \notin pending
         /\ \A c \in pending : c < made + 1
         /\ tv' \in [Cell -> Timeval] /\ moment' \in [Cell -> Nat]
         /\ \A c \in pending : tv'[c] = tv[c] /\ moment'[c] = moment[c]
         /\ Ticks(tv'[made + 1]) = moment'[made + 1] /\ tv'[made + 1].sec > 0
<1>1. TimersTypeOK
  BY DEF TimersInv
<1>2. made + 1 \in Cell /\ \A c \in pending : c < made + 1
  BY <1>1, ClockAssumption DEF TimersTypeOK, Cell
<1>3. made + 1 \notin pending
  BY <1>2, <1>1, ClockAssumption DEF TimersTypeOK
<1>4. /\ inMs(ms) \in Timeval /\ inMs(ms).sec > 0
      /\ Ticks(inMs(ms)) = clock + ms * Milli /\ clock + ms * Milli \in Nat
  BY <1>1, InMsIs DEF TimersTypeOK
<1>5. /\ tv' = [tv EXCEPT ![made + 1] = inMs(ms)]
      /\ moment' = [moment EXCEPT ![made + 1] = clock + ms * Milli]
      /\ made' = made + 1
  BY DEF registered
<1>6. tv \in [Cell -> Timeval] /\ moment \in [Cell -> Nat] /\ pending \in SUBSET Cell
  BY <1>1, ClockAssumption DEF TimersTypeOK, Cell
<1>7. tv'[made + 1] = inMs(ms) /\ moment'[made + 1] = clock + ms * Milli
  BY <1>2, <1>5, <1>6
<1>8. tv' \in [Cell -> Timeval] /\ moment' \in [Cell -> Nat]
  BY <1>2, <1>4, <1>5, <1>6
<1>9. \A c \in pending : tv'[c] = tv[c] /\ moment'[c] = moment[c]
  BY <1>3, <1>5, <1>6
<1> QED BY <1>2, <1>3, <1>4, <1>5, <1>7, <1>8, <1>9

LEMMA RunTimerRegisteringStep ==
  ASSUME TimersInv, NEW ms \in Delays, runTimerRegistering(ms)
  PROVE  TimersInv'
<1>1. /\ place = "scan" /\ timer \in pending /\ timer \in Cell /\ pending \in SUBSET Cell
      /\ Precedes(prev, timer, head, next, pending)
      /\ Linked(head, next, pending)
  BY Expired DEF runTimerRegistering
<1>2. TimersTypeOK /\ Scanned /\ MomentsKept /\ NowRead
  BY DEF TimersInv
<1> DEFINE n == made + 1
           tail == CHOOSE c \in Listed(head, next) : next[c] = Nil
           links == [next EXCEPT ![tail] = n]
<1>3. /\ registered(ms) /\ made < MaxTimers /\ unlink(head, links)
      /\ pending' = (pending \ {timer}) \cup {n}
      /\ UNCHANGED <<clock, prev, now, up_to, place, duration>>
  BY DEF runTimerRegistering
<1>4. /\ made' = n /\ n \in Cell /\ n \notin pending
      /\ \A c \in pending : c < n
      /\ tv' \in [Cell -> Timeval] /\ moment' \in [Cell -> Nat]
      /\ \A c \in pending : tv'[c] = tv[c] /\ moment'[c] = moment[c]
      /\ Ticks(tv'[n]) = moment'[n] /\ tv'[n].sec > 0
  BY <1>3, Registering
<1>5. tail \in pending /\ next[tail] = Nil /\ \A p \in pending : p <= tail
  BY <1>1, <1>2, TailIs DEF TimersTypeOK
<1>6. n > made /\ next[n] = Nil
  BY <1>2, <1>4, ClockAssumption DEF TimersTypeOK
<1> HIDE DEF tail, n
<1>7. Linked(head, links, pending \cup {n})
  BY <1>1, <1>2, <1>4, <1>5, <1>6, Appending DEF TimersTypeOK
<1>8. links \in [Cell -> Cell \cup {Nil}]
  BY <1>2, <1>4, <1>5 DEF TimersTypeOK
<1>9. Precedes(prev, timer, head, links, pending \cup {n})
  <2>1. prev \in pending /\ next[prev] = timer => prev # tail
    BY <1>1, <1>5, ClockAssumption DEF Cell, Nil
  <2> QED BY <2>1, <1>1, <1>2, <1>5 DEF Precedes, TimersTypeOK
<1>10. pending \cup {n} \in SUBSET Cell
  BY <1>1, <1>4
<1>11. /\ Linked(head', next', (pending \cup {n}) \ {timer})
       /\ next' \in [Cell -> Cell \cup {Nil}] /\ head' \in Cell \cup {Nil}
       /\ Precedes(prev, links[timer], head', next', (pending \cup {n}) \ {timer})
       /\ prev < timer /\ \A q \in pending : q <= prev \/ q >= timer
  <2> HIDE DEF links
  <2>1. head \in Cell \cup {Nil} /\ prev \in Cell \cup {Nil} /\ timer \in pending \cup {n}
    BY <1>1, <1>2 DEF TimersTypeOK
  <2>2. /\ head' = FirstWithout(timer, prev, head, links)
        /\ next' = LinksWithout(timer, prev, links)
    BY <1>3 DEF unlink, FirstWithout, LinksWithout
  <2> DEFINE S == pending \cup {n}
  <2>3. \A q \in pending : q \in S
    OBVIOUS
  <2> HIDE DEF S
  <2>4. /\ Linked(head', next', S \ {timer})
        /\ next' \in [Cell -> Cell \cup {Nil}] /\ head' \in Cell \cup {Nil}
        /\ Precedes(prev, links[timer], head', next', S \ {timer})
        /\ prev < timer /\ \A q \in S : q <= prev \/ q >= timer
    <3>1. /\ S \in SUBSET Cell /\ timer \in S /\ Linked(head, links, S)
          /\ Precedes(prev, timer, head, links, S)
      BY <2>1, <1>7, <1>9, <1>10 DEF S
    <3> QED BY <3>1, <2>1, <2>2, <1>8, Unlinking
  <2> QED BY <2>3, <2>4 DEF S
<1>12. pending' = (pending \cup {n}) \ {timer} /\ timer' = links[timer]
  BY <1>1, <1>3, <1>4 DEF unlink
<1>13. \A c \in Cell : c > n => next'[c] = Nil
  <2>1. prev # Nil => prev \in pending
    BY <1>1 DEF Precedes
  <2>2. next' = IF prev = Nil THEN links ELSE [links EXCEPT ![prev] = links[timer]]
    BY <1>3 DEF unlink
  <2>3. ASSUME NEW c \in Cell, c > n PROVE next'[c] = Nil
    <3>1. c # tail /\ c # prev /\ c > made /\ next[c] = Nil
      BY <2>1, <2>3, <1>1, <1>2, <1>4, <1>5, <1>6, ClockAssumption DEF TimersTypeOK, Cell, Nil
    <3>2. links[c] = Nil
      BY <3>1, <1>2, <2>3 DEF TimersTypeOK
    <3> QED BY <3>1, <3>2, <2>2, <2>3, <1>8
  <2> QED BY <2>3
<1>14. TimersTypeOK'
  <2>1. pending' \in SUBSET (1..made') /\ made' \in 0..MaxTimers
    BY <1>2, <1>4, <1>6, <1>12, ClockAssumption DEF TimersTypeOK, Cell
  <2>2. timer' \in Cell \cup {Nil}
    BY <1>1, <1>8, <1>12
  <2> QED BY <2>1, <2>2, <1>2, <1>3, <1>4, <1>11, <1>13 DEF TimersTypeOK
<1>15. MomentsKept'
  BY <1>2, <1>3, <1>4 DEF MomentsKept, Ticks
<1>16. Passed' = Passed /\ Passed \subseteq pending
  <2>1. timer \notin Passed
    BY <1>1, <1>2, <1>11, ClockAssumption DEF Passed, TimersTypeOK, Cell, Nil
  <2>2. ~(n <= prev)
    BY <1>1, <1>2, <1>4, <1>11, ClockAssumption DEF TimersTypeOK, Cell, Nil
  <2> QED BY <2>1, <2>2, <1>3 DEF Passed
<1>17. Scanned'
  BY <1>1, <1>2, <1>3, <1>4, <1>11, <1>12, <1>16 DEF Scanned, Ticks
<1> QED
  BY <1>1, <1>2, <1>3, <1>11, <1>12, <1>14, <1>15, <1>17 DEF TimersInv, NowRead, SleepFits, Ticks

LEMMA SkipTimerStep == TimersInv /\ skipTimer => TimersInv'
<1> SUFFICES ASSUME TimersInv, skipTimer PROVE TimersInv'
  OBVIOUS
<1>1. /\ place = "scan" /\ timer \in pending /\ timer \in Cell /\ pending \in SUBSET Cell
      /\ Precedes(prev, timer, head, next, pending)
      /\ Linked(head, next, pending)
  BY Expired DEF skipTimer
<1>2. TimersTypeOK /\ Scanned /\ MomentsKept /\ NowRead
  BY DEF TimersInv
<1>3. /\ prev < timer /\ \A q \in pending : q <= prev \/ q >= timer
  BY <1>1, <1>2, Unlinking DEF TimersTypeOK
<1>4. /\ prev' = timer /\ timer' = next[timer]
      /\ up_to' = IF up_to.sec = 0 \/ Earlier(tv[timer], up_to) THEN tv[timer] ELSE up_to
      /\ UNCHANGED <<clock, head, next, tv, now, place, duration, made, pending, moment>>
  BY DEF skipTimer
<1>5. /\ now \in Timeval /\ tv[timer] \in Timeval /\ up_to \in Timeval
      /\ now.usec < Second /\ ~NotBefore(now, tv[timer])
      /\ moment[timer] = Ticks(tv[timer]) /\ tv[timer].sec > 0
  BY <1>1, <1>2 DEF TimersTypeOK, MomentsKept, NowRead, skipTimer
<1>6. Ticks(now) < moment[timer]
  BY <1>5, NotBeforeIs, TicksIs
<1>7. TimersTypeOK'
  BY <1>1, <1>2, <1>4, <1>5 DEF TimersTypeOK
<1>8. Passed' = Passed \cup {timer}
  <2>1. \A p \in pending : p <= timer <=> p <= prev \/ p = timer
    BY <1>1, <1>2, <1>3, ClockAssumption DEF TimersTypeOK, Cell, Nil
  <2> QED BY <2>1, <1>1, <1>4 DEF Passed
<1>9. up_to'.sec # 0 /\ up_to' \in Timeval
  BY <1>4, <1>5, TicksIs
<1>10. \E p \in Passed' : up_to' = tv[p]
  BY <1>1, <1>2, <1>4, <1>8 DEF Scanned
<1>11. \A p \in Passed' : Ticks(up_to') <= moment[p]
  <2>1. Passed \subseteq pending
    BY DEF Passed
  <2>2. \A p \in pending : moment[p] \in Nat
    BY <1>1, <1>2 DEF TimersTypeOK
  <2>3. CASE up_to.sec = 0
    BY <2>3, <1>1, <1>2, <1>4, <1>5, <1>8, TicksIs DEF Scanned
  <2>4. CASE up_to.sec # 0
    <3>1. \A p \in Passed : Ticks(up_to) <= moment[p]
      BY <2>4, <1>1, <1>2 DEF Scanned
    <3>2. Ticks(up_to') <= Ticks(up_to) /\ Ticks(up_to') <= Ticks(tv[timer])
      BY <2>4, <1>4, <1>5, EarlierIs, TicksIs
    <3>3. Ticks(up_to) \in Int /\ Ticks(tv[timer]) \in Int /\ Ticks(up_to') \in Int
      BY <1>5, <1>9, TicksIs
    <3> QED BY <3>1, <3>2, <3>3, <2>1, <2>2, <1>5, <1>8
  <2> QED BY <2>3, <2>4
<1>12. Precedes(prev, timer, head, next, pending)'
  BY <1>1, <1>4 DEF Precedes
<1>13. \A p \in Passed' : Ticks(now) < moment[p]
  BY <1>1, <1>2, <1>6, <1>8 DEF Scanned
<1>14. Scanned'
  BY <1>4, <1>9, <1>10, <1>11, <1>12, <1>13 DEF Scanned, Ticks
<1> QED
  BY <1>1, <1>2, <1>4, <1>7, <1>14 DEF TimersInv, MomentsKept, NowRead, SleepFits, Ticks

LEMMA EndScanStep == TimersInv /\ endScan => TimersInv'
<1> SUFFICES ASSUME TimersInv, endScan PROVE TimersInv'
  OBVIOUS
<1>1. /\ place = "scan" /\ timer = Nil /\ duration' = poll_duration /\ place' = "wait"
      /\ UNCHANGED <<clock, head, next, tv, timer, prev, now, up_to, made, pending, moment>>
  BY DEF endScan
<1>2. TimersTypeOK /\ Scanned /\ MomentsKept /\ NowRead /\ Linked(head, next, pending)
  BY DEF TimersInv
<1>3. Precedes(prev, timer, head, next, pending)
  BY <1>1, <1>2 DEF Scanned
<1>4. Passed = pending
  <2>1. \A p \in pending : p <= prev
    BY <1>1, <1>2, <1>3, ClockAssumption DEF Precedes, Linked, FirstAfter, TimersTypeOK, Cell, Nil
  <2> QED BY <2>1 DEF Passed
<1>5. now \in Timeval /\ up_to \in Timeval /\ Ticks(now) \in Nat /\ Ticks(up_to) \in Nat
  BY <1>2, TicksIs DEF TimersTypeOK
<1>6. \A p \in pending : moment[p] \in Nat
  BY <1>2, ClockAssumption DEF TimersTypeOK, Cell
<1>7. CASE up_to.sec = 0
  <2>1. poll_duration = -1 /\ pending = {}
    BY <1>7, <1>1, <1>2, <1>4 DEF poll_duration, Scanned
  <2>2. SleepFits'
    BY <2>1, <1>1 DEF SleepFits
  <2>3. TimersTypeOK'
    BY <2>1, <1>1, <1>2 DEF TimersTypeOK
  <2> QED
    BY <2>2, <2>3, <1>1, <1>2 DEF TimersInv, MomentsKept, NowRead, Scanned, Ticks
<1>8. CASE up_to.sec # 0
  <2> DEFINE D == Ticks(up_to) - Ticks(now)
  <2>1. PICK p \in pending : up_to = tv[p]
    BY <1>8, <1>1, <1>2, <1>4 DEF Scanned
  <2>2. Ticks(up_to) = moment[p] /\ \A c \in pending : Ticks(up_to) <= moment[c] /\ Ticks(now) < moment[c]
    BY <2>1, <1>8, <1>1, <1>2, <1>4 DEF Scanned, MomentsKept
  <2>3. D \in Int /\ D > 0
    BY <2>2, <1>5
  <2>4. up_to.usec - now.usec + (up_to.sec - now.sec) * Second = D
    <3>1. /\ up_to.sec \in Nat /\ now.sec \in Nat /\ up_to.usec \in Nat /\ now.usec \in Nat
          /\ Ticks(up_to) = up_to.sec * Second + up_to.usec
          /\ Ticks(now) = now.sec * Second + now.usec
      BY <1>5, TicksIs
    <3>2. /\ (up_to.sec - now.sec) * Second = up_to.sec * Second - now.sec * Second
          /\ up_to.sec * Second \in Int /\ now.sec * Second \in Int
      BY <3>1, SecondIs, SMT
    <3> QED BY <3>1, <3>2
  <2>5. poll_duration = D \div Milli + 1
    BY <1>8, <2>4 DEF poll_duration
  <2> HIDE DEF D
  <2>6. /\ D \div Milli \in Int /\ D % Milli \in 0..(Milli - 1)
        /\ D = Milli * (D \div Milli) + (D % Milli)
    BY <2>3, ClockAssumption, Division, Zenon
  <2>7. poll_duration * Milli = Milli * (D \div Milli) + Milli
    BY <2>5, <2>6, ClockAssumption, SMT
  <2>8. Milli * (D \div Milli) \in Int /\ Milli \in Nat
    BY <2>6, ClockAssumption, SMT
  <2>9. poll_duration * Milli > D /\ poll_duration * Milli <= D + Milli
    BY <2>3, <2>6, <2>7, <2>8
  <2>10. poll_duration * Milli \in Int /\ poll_duration \in Int
    BY <2>5, <2>6, <2>7, <2>8
  <2> DEFINE end == Ticks(now) + poll_duration * Milli
  <2>11. end \in Int /\ end > Ticks(up_to) /\ end <= Ticks(up_to) + Milli
    BY <2>8, <2>9, <2>10, <1>5 DEF D
  <2>12. SleepFits'
    <3>2. \A c \in pending : Ticks(now) < moment[c] /\ end <= moment[c] + Milli
      <4> HIDE DEF end
      <4> QED BY <2>2, <2>8, <2>11, <1>5, <1>6
    <3>3. moment[p] <= end
      <4> HIDE DEF end
      <4> QED BY <2>2, <2>11, <1>5
    <3>4. Ticks(now)' = Ticks(now)
      BY <1>1 DEF Ticks
    <3> QED BY <3>2, <3>3, <3>4, <2>1, <1>1 DEF SleepFits
  <2>13. TimersTypeOK'
    BY <2>10, <1>1, <1>2 DEF TimersTypeOK
  <2> QED
    BY <2>12, <2>13, <1>1, <1>2 DEF TimersInv, MomentsKept, NowRead, Scanned, Ticks
<1> QED BY <1>7, <1>8

LEMMA PollReturnsStep == TimersInv /\ pollReturns => TimersInv'
BY DEF TimersInv, pollReturns, TimersTypeOK, Linked, FirstAfter, MomentsKept, NowRead, Scanned,
       SleepFits, Ticks

LEMMA PollReturnsRegisteringStep ==
  ASSUME TimersInv, NEW ms \in Delays, pollReturnsRegistering(ms)
  PROVE  TimersInv'
<1>1. TimersTypeOK /\ MomentsKept /\ NowRead /\ Linked(head, next, pending)
  BY DEF TimersInv
<1> DEFINE n == made + 1
           tail == CHOOSE c \in Listed(head, next) : next[c] = Nil
<1>2. /\ registered(ms) /\ made < MaxTimers /\ append
      /\ pending' = pending \cup {n} /\ place' = "top"
      /\ UNCHANGED <<clock, timer, prev, now, up_to, duration>>
  BY DEF pollReturnsRegistering
<1>3. /\ made' = n /\ n \in Cell /\ n \notin pending
      /\ \A c \in pending : c < n
      /\ tv' \in [Cell -> Timeval] /\ moment' \in [Cell -> Nat]
      /\ \A c \in pending : tv'[c] = tv[c] /\ moment'[c] = moment[c]
      /\ Ticks(tv'[n]) = moment'[n] /\ tv'[n].sec > 0
  BY <1>2, Registering
<1>4. n > made /\ next[n] = Nil /\ pending \in SUBSET Cell
  BY <1>1, <1>3, ClockAssumption DEF TimersTypeOK, Cell
<1>5. /\ Linked(head', next', pending \cup {n})
      /\ head' \in Cell \cup {Nil} /\ next' \in [Cell -> Cell \cup {Nil}]
      /\ \A c \in Cell : c > n => next'[c] = Nil
  <2>1. CASE head = Nil
    <3>1. head' = n /\ next' = next
      BY <2>1, <1>2 DEF append
    <3>2. pending = {}
      <4>1. \A p \in pending : p <= 0 /\ p \in Cell
        BY <2>1, <1>1, <1>4, ClockAssumption DEF Linked, FirstAfter, Cell, Nil
      <4> QED BY <4>1, ClockAssumption DEF Cell
    <3>3. Linked(n, next, {n})
      BY <1>3, <1>4, ClockAssumption DEF Linked, FirstAfter, Cell, Nil
    <3> QED
      BY <3>1, <3>2, <3>3, <1>1, <1>3, <1>4, ClockAssumption DEF TimersTypeOK, Cell
  <2>2. CASE head # Nil
    <3>1. head' = head /\ next' = [next EXCEPT ![tail] = n]
      BY <2>2, <1>2 DEF append
    <3>2. pending # {}
      BY <2>2, <1>1 DEF Linked, FirstAfter
    <3>3. tail \in pending /\ next[tail] = Nil /\ \A p \in pending : p <= tail
      <4>1. head \in Cell \cup {Nil} /\ next \in [Cell -> Cell \cup {Nil}]
        BY <1>1 DEF TimersTypeOK
      <4> QED BY <4>1, <3>2, <1>1, <1>4, TailIs
    <3> HIDE DEF tail, n
    <3>4. Linked(head, [next EXCEPT ![tail] = n], pending \cup {n})
      BY <3>3, <1>1, <1>3, <1>4, Appending DEF TimersTypeOK
    <3>5. ASSUME NEW c \in Cell, c > n PROVE next'[c] = Nil
      <4>1. c # tail /\ c > made
        BY <3>3, <3>5, <1>1, <1>3, <1>4, ClockAssumption DEF TimersTypeOK, Cell
      <4> QED BY <4>1, <3>1, <3>5, <1>1 DEF TimersTypeOK
    <3>6. next' \in [Cell -> Cell \cup {Nil}]
      BY <3>1, <3>3, <1>1, <1>3 DEF TimersTypeOK
    <3> QED BY <3>1, <3>4, <3>5, <3>6, <1>1 DEF TimersTypeOK
  <2> QED BY <2>1, <2>2
<1>6. TimersTypeOK'
  <2> HIDE DEF n
  <2>1. pending' \in SUBSET (1..made') /\ made' \in 0..MaxTimers
    BY <1>1, <1>2, <1>3, <1>4, ClockAssumption DEF TimersTypeOK, Cell
  <2> QED BY <2>1, <1>1, <1>2, <1>3, <1>5 DEF TimersTypeOK
<1>7. MomentsKept'
  <2> HIDE DEF n
  <2> QED BY <1>1, <1>2, <1>3 DEF MomentsKept, Ticks
<1> QED
  BY <1>2, <1>5, <1>6, <1>7 DEF TimersInv, NowRead, Scanned, SleepFits

LEMMA TickStep == TimersInv /\ tick => TimersInv'
<1> SUFFICES ASSUME TimersInv, tick PROVE TimersInv'
  OBVIOUS
<1>1. TimersTypeOK'
  BY ClockAssumption DEF TimersInv, TimersTypeOK, tick
<1>2. NowRead'
  <2>1. now \in Timeval /\ clock \in Nat
    BY DEF TimersInv, TimersTypeOK
  <2> QED BY <2>1, TicksIs DEF TimersInv, NowRead, tick, Ticks
<1> QED
  BY <1>1, <1>2
  DEF TimersInv, tick, Linked, FirstAfter, MomentsKept, Scanned, Passed, Precedes, SleepFits, Ticks

-----------------------------------------------------------------------------
LEMMA TimersInvHolds == TimersSpec => []TimersInv
<1>1. TimersInv /\ [TimersNext]_timersVars => TimersInv'
  <2> SUFFICES ASSUME TimersInv, [TimersNext]_timersVars PROVE TimersInv'
    OBVIOUS
  <2>1. CASE UNCHANGED timersVars
    BY <2>1
    DEF timersVars, TimersInv, TimersTypeOK, Linked, FirstAfter, MomentsKept, NowRead, Scanned,
        Passed, Precedes, SleepFits, Ticks
  <2>2. ASSUME NEW ms \in Delays, runTimerRegistering(ms) \/ pollReturnsRegistering(ms)
        PROVE  TimersInv'
    BY <2>2, RunTimerRegisteringStep, PollReturnsRegisteringStep
  <2> QED
    BY <2>1, <2>2, IterateStep, RunTimerStep, SkipTimerStep, EndScanStep, PollReturnsStep, TickStep
    DEF TimersNext
<1> QED BY <1>1, TimersInitHolds, PTL DEF TimersSpec

LEMMA ListRight == TimersInv => TimersExact
<1> SUFFICES ASSUME TimersInv PROVE TimersExact
  OBVIOUS
<1>1. TimersTypeOK /\ Linked(head, next, pending) /\ pending \in SUBSET Cell
  BY ClockAssumption DEF TimersInv, TimersTypeOK, Cell
<1>2. Listed(head, next) = pending
  BY <1>1, ListedAll DEF TimersTypeOK
<1>3. ListMatches
  BY <1>1, <1>2 DEF ListMatches, Linked, FirstAfter
<1>4. MomentsExact
  BY DEF TimersInv, MomentsKept, MomentsExact
<1>5. NeverEarly
  <2> SUFFICES ASSUME AtTimer, NotBefore(now, tv[timer]) PROVE moment[timer] <= clock
    BY DEF NeverEarly
  <2>1. place = "scan" /\ timer \in pending /\ timer \in Cell
    BY Expired
  <2>2. /\ now \in Timeval /\ now.usec < Second /\ tv[timer] \in Timeval
        /\ Ticks(now) <= clock /\ clock \in Nat
        /\ moment[timer] = Ticks(tv[timer])
    BY <2>1, <1>1 DEF TimersInv, TimersTypeOK, NowRead, MomentsKept
  <2> QED BY <2>2, NotBeforeIs, TicksIs
<1> QED BY <1>3, <1>4, <1>5 DEF TimersExact

(* The linked list holds the registered timers in their order, their       *)
(* moments are exact and none runs early (ffi/eventloop.lua:52-98 and      *)
(* :183-201), for any delays, clock and number of timers.                  *)
THEOREM TimersExactHolds == TimersSpec => []TimersExact
BY TimersInvHolds, ListRight, PTL

(* loop() sleeps to the earliest moment, a millisecond more at most, and   *)
(* leaves no timer behind that was due when it read the clock              *)
(* (ffi/eventloop.lua:183-215).                                            *)
THEOREM SleepFitsHolds == TimersSpec => []SleepFits
<1>1. TimersInv => SleepFits
  BY DEF TimersInv
<1> QED BY <1>1, TimersInvHolds, PTL

-----------------------------------------------------------------------------
(* InputSDL. *)

None(list) == \A i \in 1..Len(list) : list[i].id # Poller
One(list) ==
  \E i \in 1..Len(list) :
    /\ list[i].id = Poller
    /\ \A j \in 1..Len(list) : list[j].id = Poller => j = i

(* poll() is only called while the loop is running, and a loop that has    *)
(* returned was stopped: this carries the number of pollers around.        *)
PollerInv ==
  /\ timers \in Seq(Timer) /\ pos \in Nat \ {0} /\ running \in BOOLEAN
  /\ pc \in {"top", "timers", "poll", "dispatch"} =>
       IF running THEN One(timers) ELSE None(timers)
  /\ pc \in {"poll", "dispatch"} => running
  /\ pc \in {"wait", "returned"} => None(timers)

-----------------------------------------------------------------------------
(* The list of timers. *)

LEMMA Appended ==
  ASSUME NEW s \in Seq(Timer), NEW t \in Timer
  PROVE  /\ Append(s, t) \in Seq(Timer) /\ Len(s) \in Nat /\ Len(Append(s, t)) = Len(s) + 1
         /\ \A i \in 1..Len(s) : Append(s, t)[i] = s[i]
         /\ Append(s, t)[Len(s) + 1] = t
BY AppendProperties

LEMMA Removed ==
  ASSUME NEW s \in Seq(Timer), NEW p \in 1..Len(s)
  PROVE  /\ RemoveAt(s, p) \in Seq(Timer) /\ Len(s) \in Nat
         /\ Len(RemoveAt(s, p)) = Len(s) - 1
         /\ \A i \in 1..(Len(s) - 1) : RemoveAt(s, p)[i] = IF i < p THEN s[i] ELSE s[i + 1]
<1>1. Len(s) \in Nat /\ p \in Nat /\ p >= 1 /\ p <= Len(s)
  OBVIOUS
<1> DEFINE a == SubSeq(s, 1, p - 1)
           b == SubSeq(s, p + 1, Len(s))
<1>2. a \in Seq(Timer) /\ Len(a) = p - 1 /\ \A i \in 1..(p - 1) : a[i] = s[i]
  BY <1>1
<1>3. b \in Seq(Timer) /\ Len(b) = Len(s) - p /\ \A i \in 1..(Len(s) - p) : b[i] = s[p + i]
  BY <1>1
<1> HIDE DEF a, b
<1>4. /\ a \o b \in Seq(Timer) /\ Len(a \o b) = Len(s) - 1
      /\ \A i \in 1..(p - 1) : (a \o b)[i] = a[i]
      /\ \A i \in p..(Len(s) - 1) : (a \o b)[i] = b[i - (p - 1)]
  <2>1. /\ a \o b \in Seq(Timer) /\ Len(a \o b) = Len(a) + Len(b)
        /\ \A i \in 1..(Len(a) + Len(b)) :
             (a \o b)[i] = IF i <= Len(a) THEN a[i] ELSE b[i - Len(a)]
    BY <1>2, <1>3, ConcatProperties
  <2>2. Len(a) + Len(b) = Len(s) - 1
    BY <1>1, <1>2, <1>3
  <2> QED BY <1>1, <1>2, <2>1, <2>2
<1>5. ASSUME NEW i \in 1..(Len(s) - 1)
      PROVE  (a \o b)[i] = IF i < p THEN s[i] ELSE s[i + 1]
  <2>1. CASE i < p
    BY <1>1, <1>2, <1>4, <2>1
  <2>2. CASE ~(i < p)
    <3>1. i - (p - 1) \in 1..(Len(s) - p) /\ p + (i - (p - 1)) = i + 1
      BY <1>1, <2>2
    <3> QED BY <1>1, <1>3, <1>4, <2>2, <3>1
  <2> QED BY <2>1, <2>2
<1> QED BY <1>1, <1>4, <1>5 DEF RemoveAt, a, b

(* A list with the same names in the same places has as many pollers.      *)
LEMMA SameNames ==
  ASSUME NEW s, NEW t, Len(s) = Len(t), \A i \in 1..Len(s) : t[i].id = s[i].id
  PROVE  (One(t) <=> One(s)) /\ (None(t) <=> None(s))
<1>1. One(t) <=> One(s)
  BY DEF One
<1>2. None(t) <=> None(s)
  BY DEF None
<1> QED BY <1>1, <1>2

LEMMA NewNames ==
  /\ NewTimer(Poller) \in Timer /\ NewTimer(Poller).id = Poller
  /\ NewTimer(Refresh) \in Timer /\ NewTimer(Refresh).id = Refresh /\ Refresh # Poller
BY SDLAssumption DEF NewTimer, Timer

LEMMA Registered ==
  ASSUME NEW s \in Seq(Timer), NEW t \in Timer
  PROVE  /\ None(s) /\ t.id = Poller => One(Append(s, t))
         /\ None(s) /\ t.id # Poller => None(Append(s, t))
         /\ One(s) /\ t.id # Poller => One(Append(s, t))
<1> DEFINE l == Append(s, t)
<1>1. /\ Len(s) \in Nat /\ Len(l) = Len(s) + 1
      /\ \A i \in 1..Len(s) : l[i] = s[i]
      /\ l[Len(s) + 1] = t
  BY Appended
<1> HIDE DEF l
<1>2. None(s) /\ t.id = Poller => One(l)
  BY <1>1 DEF None, One
<1>3. None(s) /\ t.id # Poller => None(l)
  BY <1>1 DEF None
<1>4. One(s) /\ t.id # Poller => One(l)
  BY <1>1 DEF One
<1> QED BY <1>2, <1>3, <1>4 DEF l

LEMMA TakenOut ==
  ASSUME NEW s \in Seq(Timer), NEW p \in 1..Len(s)
  PROVE  /\ One(s) /\ s[p].id = Poller => None(RemoveAt(s, p))
         /\ One(s) /\ s[p].id # Poller => One(RemoveAt(s, p))
         /\ None(s) => None(RemoveAt(s, p))
<1> DEFINE l == RemoveAt(s, p)
<1>1. /\ Len(s) \in Nat /\ Len(l) = Len(s) - 1 /\ p \in Nat /\ 1 <= p /\ p <= Len(s)
      /\ \A i \in 1..(Len(s) - 1) : l[i] = IF i < p THEN s[i] ELSE s[i + 1]
  BY Removed
<1> HIDE DEF l
<1>2. One(s) /\ s[p].id = Poller => None(l)
  BY <1>1 DEF One, None
<1>3. ASSUME One(s), s[p].id # Poller PROVE One(l)
  <2>1. PICK i \in 1..Len(s) : /\ s[i].id = Poller
                               /\ \A j \in 1..Len(s) : s[j].id = Poller => j = i
    BY <1>3 DEF One
  <2> DEFINE k == IF i < p THEN i ELSE i - 1
  <2>2. i # p /\ k \in 1..Len(l) /\ l[k].id = Poller
    BY <1>1, <1>3, <2>1
  <2>3. \A j \in 1..Len(l) : l[j].id = Poller => j = k
    BY <1>1, <2>1, <2>2
  <2> HIDE DEF k
  <2> QED BY <2>2, <2>3 DEF One
<1>4. None(s) => None(l)
  BY <1>1 DEF None
<1> QED BY <1>2, <1>3, <1>4 DEF l

(* The poller that ran and the one it registered.                          *)
LEMMA Replaced ==
  ASSUME NEW s \in Seq(Timer), NEW p \in 1..Len(s), One(s), s[p].id = Poller
  PROVE  One(RemoveAt(Append(s, NewTimer(Poller)), p))
<1> DEFINE new == Append(s, NewTimer(Poller))
           l == RemoveAt(new, p)
<1>1. /\ new \in Seq(Timer) /\ Len(s) \in Nat /\ Len(new) = Len(s) + 1
      /\ \A i \in 1..Len(s) : new[i] = s[i]
      /\ new[Len(s) + 1].id = Poller
  BY Appended, NewNames
<1> HIDE DEF new
<1>2. /\ p \in 1..Len(new) /\ p \in Nat /\ 1 <= p /\ p <= Len(s)
  BY <1>1
<1>3. /\ Len(l) = Len(s)
      /\ \A i \in 1..Len(s) : l[i] = IF i < p THEN new[i] ELSE new[i + 1]
  <2>1. Len(new) - 1 = Len(s)
    BY <1>1
  <2>2. /\ Len(RemoveAt(new, p)) = Len(new) - 1
        /\ \A i \in 1..(Len(new) - 1) :
             RemoveAt(new, p)[i] = IF i < p THEN new[i] ELSE new[i + 1]
    BY <1>1, <1>2, Removed
  <2> QED BY <2>1, <2>2
<1> HIDE DEF l
<1>4. \A j \in 1..Len(s) : s[j].id = Poller => j = p
  BY DEF One
<1>5. Len(s) \in 1..Len(l) /\ l[Len(s)].id = Poller
  BY <1>1, <1>2, <1>3
<1>6. \A j \in 1..Len(l) : l[j].id = Poller => j = Len(s)
  <2> SUFFICES ASSUME NEW j \in 1..Len(s), l[j].id = Poller PROVE j = Len(s)
    BY <1>3
  <2>1. CASE j < p
    BY <1>1, <1>2, <1>3, <1>4, <2>1
  <2>2. CASE ~(j < p) /\ j # Len(s)
    <3>1. j + 1 \in 1..Len(s) /\ l[j] = s[j + 1]
      BY <1>1, <1>2, <1>3, <2>2
    <3> QED BY <1>2, <1>4, <2>2, <3>1
  <2> QED BY <2>1, <2>2
<1>7. One(l)
  BY <1>5, <1>6 DEF One
<1> QED BY <1>7 DEF l, new

-----------------------------------------------------------------------------
(* The steps. *)

LEMMA SDLInitHolds == InputSDLInit => PollerInv
<1>1. <<>> \in Seq(Timer) /\ Len(<<>>) = 0
  BY EmptySeq
<1> QED BY <1>1 DEF InputSDLInit, PollerInv, None

LEMMA ExpiredTimer ==
  ASSUME PollerInv, NEW id, TimerExpired(id)
  PROVE  /\ pc = "timers" /\ pos \in 1..Len(timers) /\ timers[pos].id = id
         /\ timers \in Seq(Timer) /\ Len(timers) \in Nat
         /\ IF running THEN One(timers) ELSE None(timers)
<1>1. timers \in Seq(Timer) /\ Len(timers) \in Nat
  BY DEF PollerInv
<1> QED BY <1>1 DEF PollerInv, TimerExpired

LEMMA WaitStep == PollerInv /\ (waitForInput \/ loopEnded) => PollerInv'
<1> SUFFICES ASSUME PollerInv, waitForInput \/ loopEnded PROVE PollerInv'
  OBVIOUS
<1>1. CASE waitForInput /\ input_queue = <<>>
  <2>1. /\ timers' = Append(timers, NewTimer(Poller)) /\ running' = TRUE /\ pc' = "top"
        /\ pc = "wait" /\ UNCHANGED pos
    BY <1>1 DEF waitForInput, register_timer, EnterLoop
  <2>2. timers' \in Seq(Timer) /\ One(timers')
    BY <2>1, Appended, Registered, NewNames DEF PollerInv
  <2> QED BY <2>1, <2>2 DEF PollerInv
<1>2. CASE waitForInput /\ input_queue # <<>>
  BY <1>2 DEF waitForInput, PollerInv
<1>3. CASE loopEnded
  BY <1>3 DEF loopEnded, PollerInv
<1> QED BY <1>1, <1>2, <1>3

LEMMA PollerStep == PollerInv /\ poller => PollerInv'
<1> SUFFICES ASSUME PollerInv, poller PROVE PollerInv'
  OBVIOUS
<1>1. /\ pc = "timers" /\ pos \in 1..Len(timers) /\ timers[pos].id = Poller
      /\ timers \in Seq(Timer) /\ UNCHANGED pos
      /\ IF running THEN One(timers) ELSE None(timers)
  BY ExpiredTimer DEF poller
<1>2. running /\ One(timers)
  BY <1>1 DEF None
<1>3. CASE sdl = <<>>
  <2>1. /\ timers' = RemoveAt(Append(timers, NewTimer(Poller)), pos)
        /\ UNCHANGED <<pc, running>>
    BY <1>3 DEF poller, RemoveTimer
  <2>2. Append(timers, NewTimer(Poller)) \in Seq(Timer)
        /\ pos \in 1..Len(Append(timers, NewTimer(Poller)))
    BY <1>1, Appended, NewNames
  <2>3. timers' \in Seq(Timer)
    BY <2>1, <2>2, Removed
  <2>4. One(timers')
    BY <1>1, <1>2, <2>1, Replaced
  <2> QED BY <1>1, <1>2, <2>1, <2>3, <2>4 DEF PollerInv
<1>4. CASE sdl # <<>> /\ Contains(sdl, "QUIT")
  <2>1. pc' = "forced to quit" /\ UNCHANGED <<timers, running>>
    BY <1>4 DEF poller
  <2> QED BY <1>1, <2>1 DEF PollerInv
<1>5. CASE sdl # <<>> /\ ~Contains(sdl, "QUIT")
  <2>1. timers' = RemoveAt(timers, pos) /\ running' = FALSE /\ UNCHANGED pc
    BY <1>5 DEF poller, RemoveTimer, abort_loop
  <2>2. timers' \in Seq(Timer) /\ None(timers')
    BY <1>1, <1>2, <2>1, Removed, TakenOut
  <2> QED BY <1>1, <2>1, <2>2 DEF PollerInv
<1> QED BY <1>3, <1>4, <1>5

LEMMA RefreshRunsStep == PollerInv /\ refreshRuns => PollerInv'
<1> SUFFICES ASSUME PollerInv, refreshRuns PROVE PollerInv'
  OBVIOUS
<1>1. /\ pc = "timers" /\ pos \in 1..Len(timers) /\ timers[pos].id # Poller
      /\ timers \in Seq(Timer) /\ UNCHANGED <<pc, pos, running>>
      /\ IF running THEN One(timers) ELSE None(timers)
      /\ timers' = RemoveAt(timers, pos)
  BY ExpiredTimer, NewNames DEF refreshRuns, RemoveTimer
<1>2. /\ timers' \in Seq(Timer)
      /\ IF running' THEN One(timers') ELSE None(timers')
  BY <1>1, Removed, TakenOut
<1> QED BY <1>1, <1>2 DEF PollerInv

LEMMA MessageReadStep == PollerInv /\ messageRead => PollerInv'
<1> SUFFICES ASSUME PollerInv, messageRead PROVE PollerInv'
  OBVIOUS
<1>1. /\ pc = "dispatch" /\ pc' \in {"top", "dispatch"} /\ UNCHANGED <<pos, running>>
      /\ timers' = timers \/ timers' = Append(timers, NewTimer(Refresh))
  BY DEF messageRead, Dispatching, Dispatched, register_timer
<1>2. running /\ One(timers) /\ timers \in Seq(Timer)
  BY <1>1 DEF PollerInv
<1>3. timers' \in Seq(Timer) /\ One(timers')
  BY <1>1, <1>2, Appended, Registered, NewNames
<1> QED BY <1>1, <1>2, <1>3 DEF PollerInv

LEMMA LoopStep ==
  ASSUME PollerInv,
         \/ Iterate \/ SkipTimer \/ EndTimers \/ TimePasses
         \/ PollEvents({<<Sock, "IN">>}) \/ PollTimeout({}) \/ PollInterrupted({})
  PROVE  PollerInv'
<1>1. CASE Iterate
  <2>1. /\ pc = "top" /\ pc' = "timers" /\ pos' = 1 /\ UNCHANGED running
        /\ timers' = [i \in 1..Len(timers) |-> Seen(timers[i])]
    BY <1>1 DEF Iterate
  <2>2. Len(timers) \in Nat /\ \A i \in 1..Len(timers) : timers[i] \in Timer
    BY ElementOfSeq DEF PollerInv
  <2>3. \A i \in 1..Len(timers) :
          Seen(timers[i]) \in Timer /\ Seen(timers[i]).id = timers[i].id
    BY <2>2 DEF Seen, Timer
  <2>4. timers' \in [1..Len(timers) -> Timer]
    BY <2>1, <2>3
  <2>5. timers' \in Seq(Timer) /\ Len(timers') = Len(timers)
    BY <2>2, <2>4
  <2>6. (One(timers') <=> One(timers)) /\ (None(timers') <=> None(timers))
    BY <2>1, <2>3, <2>5, SameNames
  <2> QED BY <2>1, <2>5, <2>6 DEF PollerInv
<1>2. CASE TimePasses
  <2>1. PICK i \in 1..Len(timers) : timers' = [timers EXCEPT ![i].state = "past"]
    BY <1>2 DEF TimePasses
  <2>2. UNCHANGED <<pc, pos, running>>
    BY <1>2 DEF TimePasses
  <2>3. /\ timers \in Seq(Timer) /\ Len(timers) \in Nat
        /\ \A j \in 1..Len(timers) : timers[j] \in Timer
    BY ElementOfSeq DEF PollerInv
  <2>4. timers[i] \in Timer /\ [timers[i] EXCEPT !.state = "past"] \in Timer
        /\ [timers[i] EXCEPT !.state = "past"].id = timers[i].id
    BY <2>3 DEF Timer
  <2>5. timers' = [timers EXCEPT ![i] = [timers[i] EXCEPT !.state = "past"]]
    BY <2>1
  <2>6. timers' \in Seq(Timer) /\ Len(timers') = Len(timers)
        /\ \A j \in 1..Len(timers) : timers'[j].id = timers[j].id
    BY <2>3, <2>4, <2>5
  <2>7. (One(timers') <=> One(timers)) /\ (None(timers') <=> None(timers))
    BY <2>6, SameNames
  <2> QED BY <2>2, <2>6, <2>7 DEF PollerInv
<1>3. CASE SkipTimer
  BY <1>3 DEF SkipTimer, PollerInv
<1>4. CASE EndTimers
  BY <1>4 DEF EndTimers, PollerInv
<1>5. CASE PollEvents({<<Sock, "IN">>}) \/ PollTimeout({}) \/ PollInterrupted({})
  BY <1>5 DEF PollEvents, PollTimeout, PollInterrupted, PollerInv
<1> QED BY <1>1, <1>2, <1>3, <1>4, <1>5

LEMMA SDLNextHolds == PollerInv /\ [InputSDLNext]_inputSDLVars => PollerInv'
<1>1. PollerInv /\ (userActs \/ UNCHANGED inputSDLVars) => PollerInv'
  BY DEF userActs, inputSDLVars, loopVars, PollerInv
<1> QED BY <1>1, WaitStep, PollerStep, RefreshRunsStep, MessageReadStep, LoopStep
        DEF InputSDLNext

LEMMA Counted ==
  ASSUME timers \in Seq(Timer)
  PROVE  /\ One(timers) => Pollers = 1
         /\ None(timers) => Pollers = 0
<1> DEFINE P == {i \in 1..Len(timers) : timers[i].id = Poller}
<1>1. ASSUME One(timers) PROVE Cardinality(P) = 1
  <2>1. PICK i \in 1..Len(timers) :
          /\ timers[i].id = Poller
          /\ \A j \in 1..Len(timers) : timers[j].id = Poller => j = i
    BY <1>1 DEF One
  <2>2. P = {i}
    BY <2>1
  <2> QED BY <2>2, FS_Singleton
<1>2. ASSUME None(timers) PROVE Cardinality(P) = 0
  <2>1. P = {}
    BY <1>2 DEF None
  <2> QED BY <2>1, FS_EmptySet
<1> QED BY <1>1, <1>2 DEF Pollers

(* Every call of waitForEvent registers a poller and every fruitless       *)
(* poller another, yet they neither multiply nor get lost                  *)
(* (input_SDL.lua:28-31, :76-82), whatever SDL has and however often the   *)
(* refresh timer runs in between.                                          *)
THEOREM OnePollerHolds == InputSDLSpec => []OnePoller
<1>1. PollerInv => OnePoller
  BY Counted DEF PollerInv, OnePoller, LoopPc
<1> QED BY <1>1, SDLInitHolds, SDLNextHolds, PTL DEF InputSDLSpec

-----------------------------------------------------------------------------
(* Blit buffers. *)

(* The relation of CheckBoundsPairs, as the equality of two sets of pairs. *)
SamePairs(r, len, t, s, T, S) ==
  {<<r.target + k, r.source + k>> : k \in 0..(r.len - 1)}
    = {<<t + k, s + k>> : k \in {n \in 0..(len - 1) :
                                   t + n \in 0..(T - 1) /\ s + n \in 0..(S - 1)}}

LEMMA CopiedPairs ==
  ASSUME NEW len \in Int, NEW t \in Int, NEW s \in Int,
         NEW T \in Int, NEW S \in Int,
         NEW r, r \in [len : Int, target : Int, source : Int],
         \A a, b \in Int : Copies(r, a, b) <=> Wanted(len, t, s, T, S, a, b)
  PROVE  SamePairs(r, len, t, s, T, S)
<1>1. ASSUME NEW k \in 0..(r.len - 1)
      PROVE  \E n \in 0..(len - 1) :
               /\ t + n \in 0..(T - 1) /\ s + n \in 0..(S - 1)
               /\ r.target + k = t + n /\ r.source + k = s + n
  <2>1. Copies(r, r.target + k, r.source + k)
    BY DEF Copies
  <2>2. Wanted(len, t, s, T, S, r.target + k, r.source + k)
    BY <2>1
  <2>3. r.target + k - t \in 0..(len - 1)
    BY <2>2 DEF Wanted
  <2>4. t + (r.target + k - t) = r.target + k /\ s + (r.target + k - t) = r.source + k
    BY <2>2 DEF Wanted
  <2>5. r.target + k \in 0..(T - 1) /\ r.source + k \in 0..(S - 1)
    BY <2>2 DEF Wanted
  <2> WITNESS r.target + k - t \in 0..(len - 1)
  <2> QED BY <2>4, <2>5
<1>2. ASSUME NEW n \in 0..(len - 1), t + n \in 0..(T - 1), s + n \in 0..(S - 1)
      PROVE  \E k \in 0..(r.len - 1) :
               t + n = r.target + k /\ s + n = r.source + k
  <2>1. Wanted(len, t, s, T, S, t + n, s + n)
    BY <1>2 DEF Wanted
  <2>2. Copies(r, t + n, s + n)
    BY <2>1
  <2>3. t + n - r.target \in 0..(r.len - 1)
    BY <2>2 DEF Copies
  <2>4. r.target + (t + n - r.target) = t + n /\ r.source + (t + n - r.target) = s + n
    BY <2>2 DEF Copies
  <2> WITNESS t + n - r.target \in 0..(r.len - 1)
  <2> QED BY <2>4
<1> QED BY <1>1, <1>2 DEF SamePairs

(* checkBounds copies exactly the cells that exist on both sides.          *)
THEOREM ClipExactHolds == GeometrySpec => []ClipExact
<1>1. GeometryInit => ClipExact
  BY DEF GeometryInit, Idle, ClipExact
<1>2. ClipExact /\ [GeometryNext]_geometryVars => ClipExact'
  <2> SUFFICES ASSUME ClipExact, [GeometryNext]_geometryVars, call'.fn = "checkBounds"
               PROVE  ClipExact'
    BY DEF ClipExact
  <2>1. CASE CheckBoundsCall
    <3>1. PICK len \in Lengths, t \in Offsets, s \in Offsets, T \in Sizes, S \in Sizes :
            call' = [fn |-> "checkBounds", len |-> len, t |-> t, s |-> s, T |-> T, S |-> S,
                     ret |-> CheckBounds(len, t, s, T, S)]
      BY <2>1 DEF CheckBoundsCall
    <3>2. len \in Int /\ t \in Int /\ s \in Int /\ T \in Int /\ S \in Int
      BY CopyAssumption
    <3> DEFINE r == CheckBounds(len, t, s, T, S)
    <3>3. r \in [len : Int, target : Int, source : Int]
      BY <3>2, CheckBoundsTypes, Zenon
    <3>4. \A a, b \in Int : Copies(r, a, b) <=> Wanted(len, t, s, T, S, a, b)
      BY <3>2, CheckBoundsPairs, Zenon
    <3>5. /\ call'.ret = r /\ call'.len = len /\ call'.t = t /\ call'.s = s
          /\ call'.T = T /\ call'.S = S
      BY <3>1
    <3> HIDE DEF r
    <3>6. SamePairs(r, len, t, s, T, S)
      BY <3>2, <3>3, <3>4, CopiedPairs, Zenon
    <3> QED BY <3>5, <3>6 DEF ClipExact, ValidSteps, SamePairs
  <2>2. CASE PhysicalRectCall \/ DamageCall \/ Return
    BY <2>2 DEF PhysicalRectCall, DamageCall, Return, Idle
  <2>3. CASE UNCHANGED geometryVars
    BY <2>3 DEF geometryVars, ClipExact, ValidSteps
  <2> QED BY <2>1, <2>2, <2>3 DEF GeometryNext
<1> QED BY <1>1, <1>2, PTL DEF GeometrySpec

(* The region sent to the driver covers every pixel that was written.      *)
THEOREM RefreshCoversBlitHolds == GeometrySpec => []RefreshCoversBlit
<1>1. GeometryInit => RefreshCoversBlit
  BY DEF GeometryInit, Idle, RefreshCoversBlit
<1>2. RefreshCoversBlit /\ [GeometryNext]_geometryVars => RefreshCoversBlit'
  <2> SUFFICES ASSUME RefreshCoversBlit, [GeometryNext]_geometryVars, call'.fn = "refresh"
               PROVE  RefreshCoversBlit'
    BY DEF RefreshCoversBlit
  <2>1. CASE DamageCall
    <3>1. PICK buffer \in Buffers, src \in Sources, r \in Rects :
            call' = [fn |-> "refresh", bb |-> buffer, src |-> src, r |-> r,
                     blit |-> BlitRect(buffer, src, r), region |-> RefreshRect(buffer, r)]
      BY <2>1 DEF DamageCall
    <3>2. buffer \in BufferOf(Side, Side) /\ src \in BufferOf(Side, Side) /\ r \in DamageRect
      BY BufferAssumption DEF DamageRect
    <3>3. ASSUME NEW p \in Pixels(BlitRect(buffer, src, r))
          PROVE  PhysicalCoordinates(buffer, p[1], p[2]) \in Pixels(RefreshRect(buffer, r))
      <4>1. p = <<p[1], p[2]>> /\ p[1] \in Int /\ p[2] \in Int
        BY DEF Pixels
      <4> QED BY <3>2, <4>1, RefreshCovers
    <3>4. call'.bb = buffer /\ call'.blit = BlitRect(buffer, src, r) /\ call'.region = RefreshRect(buffer, r)
      BY <3>1
    <3> QED BY <3>3, <3>4 DEF RefreshCoversBlit, Image
  <2>2. CASE CheckBoundsCall \/ PhysicalRectCall \/ Return
    BY <2>2 DEF PhysicalRectCall, CheckBoundsCall, Return, Idle
  <2>3. CASE UNCHANGED geometryVars
    BY <2>3 DEF geometryVars, RefreshCoversBlit, Image
  <2> QED BY <2>1, <2>2, <2>3 DEF GeometryNext
<1> QED BY <1>1, <1>2, PTL DEF GeometrySpec

(* checkBounds returns offsets inside their buffers.                       *)
THEOREM OffsetsInRangeHolds == GeometrySpec => []OffsetsInRange
<1>1. GeometryInit => OffsetsInRange
  BY DEF GeometryInit, Idle, OffsetsInRange
<1>2. OffsetsInRange /\ [GeometryNext]_geometryVars => OffsetsInRange'
  <2> SUFFICES ASSUME OffsetsInRange, [GeometryNext]_geometryVars, call'.fn = "checkBounds"
               PROVE  OffsetsInRange'
    BY DEF OffsetsInRange
  <2>1. CASE CheckBoundsCall
    <3>1. PICK len \in Lengths, t \in Offsets, s \in Offsets, T \in Sizes, S \in Sizes :
            call' = [fn |-> "checkBounds", len |-> len, t |-> t, s |-> s, T |-> T, S |-> S,
                     ret |-> CheckBounds(len, t, s, T, S)]
      BY <2>1 DEF CheckBoundsCall
    <3>2. len \in Int /\ t \in Int /\ s \in Int /\ T \in Int /\ S \in Int /\ T > 0 /\ S > 0
      BY CopyAssumption
    <3>3. /\ CheckBounds(len, t, s, T, S).target \in 0..(T - 1)
          /\ CheckBounds(len, t, s, T, S).source \in 0..(S - 1)
      BY <3>2, CheckBoundsOffsets, Zenon
    <3>4. call'.ret = CheckBounds(len, t, s, T, S) /\ call'.T = T /\ call'.S = S
      BY <3>1
    <3> QED BY <3>3, <3>4 DEF OffsetsInRange
  <2>2. CASE PhysicalRectCall \/ DamageCall \/ Return
    BY <2>2 DEF PhysicalRectCall, DamageCall, Return, Idle
  <2>3. CASE UNCHANGED geometryVars
    BY <2>3 DEF geometryVars, OffsetsInRange
  <2> QED BY <2>1, <2>2, <2>3 DEF GeometryNext
<1> QED BY <1>1, <1>2, PTL DEF GeometrySpec

(* getPhysicalRect returns exactly the places of the logical pixels.       *)
THEOREM PhysicalRectIsImageHolds == GeometrySpec => []PhysicalRectIsImage
<1>1. GeometryInit => PhysicalRectIsImage
  BY DEF GeometryInit, Idle, PhysicalRectIsImage
<1>2. PhysicalRectIsImage /\ [GeometryNext]_geometryVars => PhysicalRectIsImage'
  <2> SUFFICES ASSUME PhysicalRectIsImage, [GeometryNext]_geometryVars, call'.fn = "getPhysicalRect",
                      call'.r.w > 0, call'.r.h > 0
               PROVE  Pixels(call'.ret) = Image(call'.bb, Pixels(call'.r))
    BY DEF PhysicalRectIsImage, Image
  <2>1. CASE PhysicalRectCall
    <3>1. PICK buffer \in Buffers, r \in Rects :
            call' = [fn |-> "getPhysicalRect", bb |-> buffer, r |-> r, ret |-> PhysicalRect(buffer, r)]
      BY <2>1 DEF PhysicalRectCall
    <3>2. call'.bb = buffer /\ call'.r = r /\ call'.ret = PhysicalRect(buffer, r)
      BY <3>1
    <3>3. buffer \in BufferOf(Int, Int)
      BY BufferAssumption, SideInt DEF BufferOf
    <3>4. r \in [x : Nat, y : Nat, w : Nat, h : Nat] /\ 0 < r.w /\ 0 < r.h
      BY <3>2, BufferAssumption
    <3> DEFINE x == r.x  y == r.y  w == r.w  h == r.h
    <3>5. x \in Int /\ y \in Int /\ w \in Int /\ h \in Int /\ 0 < w /\ 0 < h /\ r = Rect(x, y, w, h)
      BY <3>4 DEF Rect
    <3> HIDE DEF x, y, w, h
    <3>6. ASSUME NEW q \in Pixels(PhysicalRect(buffer, r))
          PROVE  q \in Image(buffer, Pixels(r))
      <4> DEFINE a == q[1]  b == q[2]
      <4> HIDE DEF a, b
      <4>1. q = <<a, b>> /\ a \in Int /\ b \in Int
        BY DEF Pixels, a, b
      <4>2. <<a, b>> \in Pixels(PhysicalRect(buffer, Rect(x, y, w, h)))
        BY <3>5, <3>6, <4>1
      <4>3. <<a, b>> \in Places(buffer, Rect(x, y, w, h))
        BY <3>3, <3>5, <4>1, <4>2, PhysicalRectOnto, Zenon
      <4> QED BY <3>5, <4>1, <4>3 DEF Image, Places
    <3>7. ASSUME NEW p \in Pixels(r)
          PROVE  PhysicalCoordinates(buffer, p[1], p[2]) \in Pixels(PhysicalRect(buffer, r))
      <4>1. p = <<p[1], p[2]>> /\ p[1] \in Int /\ p[2] \in Int
        BY DEF Pixels
      <4>2. x <= p[1] /\ p[1] < x + w /\ y <= p[2] /\ p[2] < y + h
        BY <3>5, <4>1, PixelOf
      <4> QED BY <3>3, <3>5, <4>1, <4>2, PhysicalRectContains
    <3> QED BY <3>2, <3>6, <3>7 DEF Image
  <2>2. CASE CheckBoundsCall \/ DamageCall \/ Return
    BY <2>2 DEF CheckBoundsCall, DamageCall, Return, Idle
  <2>3. CASE UNCHANGED geometryVars
    BY <2>3 DEF geometryVars, PhysicalRectIsImage
  <2> QED BY <2>1, <2>2, <2>3 DEF GeometryNext
<1> QED BY <1>1, <1>2, PTL DEF GeometrySpec

(* The region sent to the driver lies on the panel.                        *)
THEOREM RegionOnPanelHolds == GeometrySpec => []RegionOnPanel
<1>1. GeometryInit => RegionOnPanel
  BY DEF GeometryInit, Idle, RegionOnPanel
<1>2. RegionOnPanel /\ [GeometryNext]_geometryVars => RegionOnPanel'
  <2> SUFFICES ASSUME RegionOnPanel, [GeometryNext]_geometryVars, call'.fn = "refresh", Pixels(call'.blit) # {}
               PROVE  Pixels(call'.region) # {} /\ Pixels(call'.region) \subseteq Panel(call'.bb)
    BY DEF RegionOnPanel, Panel
  <2>1. CASE DamageCall
    <3>1. PICK buffer \in Buffers, src \in Sources, r \in Rects :
            call' = [fn |-> "refresh", bb |-> buffer, src |-> src, r |-> r,
                     blit |-> BlitRect(buffer, src, r), region |-> RefreshRect(buffer, r)]
      BY <2>1 DEF DamageCall
    <3>2. buffer \in BufferOf(Side, Side) /\ src \in BufferOf(Side, Side) /\ r \in DamageRect
      BY BufferAssumption DEF DamageRect
    <3>3. call'.bb = buffer /\ call'.blit = BlitRect(buffer, src, r) /\ call'.region = RefreshRect(buffer, r)
      BY <3>1
    <3>4. PICK p \in Pixels(BlitRect(buffer, src, r)) : TRUE
      BY <3>3
    <3>5. p = <<p[1], p[2]>> /\ p[1] \in Int /\ p[2] \in Int
      BY <3>4 DEF Pixels
    <3>6. PhysicalCoordinates(buffer, p[1], p[2]) \in Pixels(RefreshRect(buffer, r))
      BY <3>2, <3>4, <3>5, RefreshCovers
    <3>7. InBoth(buffer, src, r, p[1], p[2])
      BY <3>2, <3>4, <3>5, BlitPixels
    <3>8. 0 < r.w /\ 0 < r.h /\ r.x < Width(buffer) /\ r.y < Height(buffer)
      <4>1. Width(buffer) \in Int /\ Height(buffer) \in Int
        BY <3>2, SizeTypes, SideInt
      <4>2. r.x \in Int /\ r.y \in Int /\ r.w \in Int /\ r.h \in Int
        BY <3>2 DEF DamageRect
      <4> QED BY <3>5, <3>7, <4>1, <4>2 DEF InBoth
    <3>9. OnPanel(buffer, RefreshRect(buffer, r))
      BY <3>2, <3>8, RefreshOnPanel
    <3> DEFINE region == RefreshRect(buffer, r)
    <3>10. region \in [x : Int, y : Int, w : Int, h : Int] /\ buffer.w \in Int /\ buffer.h \in Int
      BY <3>2, RefreshRectType, SideInt DEF BufferOf
    <3> HIDE DEF region
    <3>11. Pixels(region) \subseteq Panel(buffer)
      BY <3>9, <3>10 DEF Pixels, Panel, OnPanel, Rect, region
    <3> QED BY <3>3, <3>6, <3>11 DEF region
  <2>2. CASE CheckBoundsCall \/ PhysicalRectCall \/ Return
    BY <2>2 DEF PhysicalRectCall, CheckBoundsCall, Return, Idle
  <2>3. CASE UNCHANGED geometryVars
    BY <2>3 DEF geometryVars, RegionOnPanel, Panel
  <2> QED BY <2>1, <2>2, <2>3 DEF GeometryNext
<1> QED BY <1>1, <1>2, PTL DEF GeometrySpec

-----------------------------------------------------------------------------
(* checkBounds copies what was asked for and exists on both sides, and its  *)
(* offsets are in their buffers (blitbuffer.lua:658-699), for all integers. *)
THEOREM ClipSoundHolds == GeometrySpec => []ClipSound
<1>1. ClipExact /\ OffsetsInRange => ClipSound
  BY DEF ClipSound
<1> QED BY <1>1, ClipExactHolds, OffsetsInRangeHolds, PTL

(* What is refreshed is the image of the damage, covers what was written    *)
(* and lies on the panel (framebuffer_linux.lua:262-264), for all sizes.    *)
THEOREM RefreshSoundHolds == GeometrySpec => []RefreshSound
<1>1. PhysicalRectIsImage /\ RefreshCoversBlit /\ RegionOnPanel => RefreshSound
  BY DEF RefreshSound
<1> QED BY <1>1, PhysicalRectIsImageHolds, RefreshCoversBlitHolds, RegionOnPanelHolds, PTL
-----------------------------------------------------------------------------
(* Bytes and words, and their fields.                                      *)
LEMMA Powers ==
  /\ 2^0 = 1 /\ 2^1 = 2 /\ 2^2 = 4 /\ 2^3 = 8 /\ 2^4 = 16 /\ 2^5 = 32 /\ 2^6 = 64 /\ 2^8 = 256
  /\ 2^11 = 2048 /\ 2^14 = 16384 /\ 2^16 = 65536 /\ 2^18 = 262144
  OBVIOUS

LEMMA WordIs == \A v : v \in Word16 <=> v \in Nat /\ v < 65536
  BY Powers DEF Word16

LEMMA ByteIs == \A v : v \in Byte <=> v \in Nat /\ v <= 255
  BY DEF Byte

Nibbles(v, h, l) == h \in Nat /\ h < 16 /\ l \in Nat /\ l < 16 /\ v = 16 * h + l

LEMMA NibbleFields ==
  ASSUME NEW h, NEW l, NEW v, Nibbles(v, h, l)
  PROVE  Bits(v, 0, 4) = l /\ Bits(v, 4, 4) = h /\ Top(v, 4) = 16 * h /\ v \in Byte
  BY Powers, ByteIs DEF Bits, Top, Nibbles

LEMMA NibblesOf ==
  ASSUME NEW v \in Byte
  PROVE  \E h, l : Nibbles(v, h, l)
<1>1. v \in Nat /\ v <= 255
  BY ByteIs
<1>2. v \div 16 \in Nat /\ v % 16 \in Nat /\ v \div 16 < 16 /\ v % 16 < 16
      /\ v = 16 * (v \div 16) + (v % 16)
  BY <1>1
<1>3. Nibbles(v, v \div 16, v % 16)
  BY <1>2 DEF Nibbles
<1> QED BY <1>3

Fields(v, a, b, c) ==
  /\ a \in Nat /\ a < 32 /\ b \in Nat /\ b < 64 /\ c \in Nat /\ c < 32
  /\ v = 2048 * a + 32 * b + c

LEMMA WordFields ==
  ASSUME NEW a, NEW b, NEW c, NEW v, Fields(v, a, b, c)
  PROVE  v \in Word16 /\ Bits(v, 11, 5) = a /\ Bits(v, 5, 6) = b /\ Bits(v, 0, 5) = c
<1>1. v \in Nat /\ v < 65536
  BY DEF Fields
<1>2. v \div 2048 = a
  <2>1. a * 2048 <= v /\ v < (a + 1) * 2048 /\ a \in Int
    BY DEF Fields
  <2> QED BY <1>1, <2>1, QuotientIs
<1>3. v \div 32 = 64 * a + b
  <2>1. (64 * a + b) * 32 <= v /\ v < (64 * a + b + 1) * 32 /\ 64 * a + b \in Int
    BY DEF Fields
  <2> QED BY <1>1, <2>1, QuotientIs
<1>4. v \div 1 = v /\ v % 32 = c
  <2>1. v = 32 * (v \div 32) + (v % 32) /\ v % 32 \in Nat
    BY <1>1
  <2> QED BY <1>1, <1>3, <2>1 DEF Fields
<1>5. a % 32 = a /\ (64 * a + b) % 64 = b
  BY DEF Fields
<1>6. v \in Word16
  BY <1>1, WordIs
<1> QED BY <1>2, <1>3, <1>4, <1>5, <1>6, Powers DEF Bits

LEMMA FieldsOf ==
  ASSUME NEW v \in Word16
  PROVE  \E a, b, c : Fields(v, a, b, c)
<1> DEFINE q == v \div 32
           c == v % 32
           a == q \div 64
           b == q % 64
<1>0. v \in Nat /\ v < 65536
  BY WordIs
<1>1. v = 32 * q + c /\ c \in Nat /\ c < 32 /\ q \in Nat /\ q < 2048
  BY <1>0
<1> HIDE DEF q, c
<1>2. q = 64 * a + b /\ b \in Nat /\ b < 64 /\ a \in Nat /\ a < 32
  BY <1>1
<1> HIDE DEF a, b
<1>3. Fields(v, a, b, c)
  BY <1>0, <1>1, <1>2 DEF Fields
<1> QED BY <1>3

LEMMA ExpandIs ==
  /\ \A n \in Nat : n < 32 => /\ Expand(n, 5) \in Byte
                              /\ 8 * n <= Expand(n, 5) /\ Expand(n, 5) <= 8 * n + 7
                              /\ Expand(31 - n, 5) = 255 - Expand(n, 5)
  /\ \A n \in Nat : n < 64 => /\ Expand(n, 6) \in Byte
                              /\ 4 * n <= Expand(n, 6) /\ Expand(n, 6) <= 4 * n + 3
                              /\ Expand(63 - n, 6) = 255 - Expand(n, 6)
<1>1. ASSUME NEW n \in Nat, n < 32
      PROVE  /\ Expand(n, 5) \in Byte
             /\ 8 * n <= Expand(n, 5) /\ Expand(n, 5) <= 8 * n + 7
             /\ Expand(31 - n, 5) = 255 - Expand(n, 5)
  <2>1. Expand(n, 5) = 8 * n + (n \div 4) /\ Expand(31 - n, 5) = 8 * (31 - n) + ((31 - n) \div 4)
    BY Powers DEF Expand
  <2>2. n \div 4 \in Nat /\ n \div 4 < 8 /\ (31 - n) \div 4 = 7 - (n \div 4)
    BY <1>1
  <2> QED BY <1>1, <2>1, <2>2, ByteIs
<1>2. ASSUME NEW n \in Nat, n < 64
      PROVE  /\ Expand(n, 6) \in Byte
             /\ 4 * n <= Expand(n, 6) /\ Expand(n, 6) <= 4 * n + 3
             /\ Expand(63 - n, 6) = 255 - Expand(n, 6)
  <2>1. Expand(n, 6) = 4 * n + (n \div 16) /\ Expand(63 - n, 6) = 4 * (63 - n) + ((63 - n) \div 16)
    BY Powers DEF Expand
  <2>2. n \div 16 \in Nat /\ n \div 16 < 4 /\ (63 - n) \div 16 = 3 - (n \div 16)
    BY <1>2
  <2> QED BY <1>2, <2>1, <2>2, ByteIs
<1> QED BY <1>1, <1>2

-----------------------------------------------------------------------------
(* Colours. *)
Values(t) ==
  IF t \in RGB THEN Byte \X Byte \X Byte ELSE IF t = "RGB16" THEN Word16 ELSE Byte
ColourOf(t) == {Color(t, v) : v \in Values(t)}

Shows(c, r, g, b) == r \in Byte /\ g \in Byte /\ b \in Byte /\ ChannelsOf(c) = <<r, g, b>>

LEMMA LevelOf ==
  ASSUME NEW t, NEW v
  PROVE  /\ t = "4L" => Level8(Color(t, v)) = 17 * Bits(v, 0, 4)
         /\ t = "4U" => Level8(Color(t, v)) = 17 * Bits(v, 4, 4)
         /\ t \in {"8", "8A"} => Level8(Color(t, v)) = v
         /\ t \in RGB => Level8(Color(t, v)) = Bits(Weighted(v), 14, 8)
  BY DEF Level8, Color, RGB

LEMMA GreyChannels ==
  ASSUME NEW t \in Grey, NEW v, Level8(Color(t, v)) \in Byte
  PROVE  Shows(Color(t, v), Level8(Color(t, v)), Level8(Color(t, v)), Level8(Color(t, v)))
<1> DEFINE c == Color(t, v)
<1>1. c.t = t
  BY DEF Color
<1>2. ChannelsOf(c) = <<Level8(c), Level8(c), Level8(c)>>
  BY <1>1 DEF ChannelsOf, Grey, RGB
<1> QED BY <1>2 DEF Shows

LEMMA GreyShows ==
  ASSUME NEW t \in Grey, NEW v \in Byte
  PROVE  LET l == Level8(Color(t, v)) IN l \in Byte /\ Shows(Color(t, v), l, l, l)
<1>1. PICK h, l : Nibbles(v, h, l)
  BY NibblesOf
<1>2. Bits(v, 0, 4) = l /\ Bits(v, 4, 4) = h
  BY <1>1, NibbleFields
<1>3. Level8(Color(t, v)) \in {17 * l, 17 * h, v}
  BY <1>2, LevelOf DEF Grey
<1>4. 17 * l \in Byte /\ 17 * h \in Byte
  BY <1>1, ByteIs DEF Nibbles
<1>5. Level8(Color(t, v)) \in Byte
  BY <1>3, <1>4
<1> QED BY <1>5, GreyChannels

LEMMA ShowsRGB16 ==
  ASSUME NEW a, NEW b, NEW c, NEW v, Fields(v, a, b, c)
  PROVE  Shows(Color("RGB16", v), Expand(a, 5), Expand(b, 6), Expand(c, 5))
<1>1. Bits(v, 11, 5) = a /\ Bits(v, 5, 6) = b /\ Bits(v, 0, 5) = c
  BY WordFields
<1>2. ChannelsOf(Color("RGB16", v)) = <<Expand(a, 5), Expand(b, 6), Expand(c, 5)>>
  BY <1>1 DEF ChannelsOf, Channels16, Color, Grey, RGB
<1>3. Expand(a, 5) \in Byte /\ Expand(b, 6) \in Byte /\ Expand(c, 5) \in Byte
  BY ExpandIs DEF Fields
<1> QED BY <1>2, <1>3 DEF Shows

LEMMA ShowsRGB ==
  ASSUME NEW t \in RGB, NEW r \in Byte, NEW g \in Byte, NEW b \in Byte
  PROVE  Shows(Color(t, <<r, g, b>>), r, g, b)
  BY DEF Shows, ChannelsOf, Color, RGB, Grey

LEMMA ShowsOnce ==
  ASSUME NEW c, NEW r, NEW g, NEW b, NEW x, NEW y, NEW z, Shows(c, r, g, b), Shows(c, x, y, z)
  PROVE  r = x /\ g = y /\ b = z
  BY DEF Shows

LEMMA EveryShows ==
  ASSUME NEW t \in ColorType, NEW v \in Values(t)
  PROVE  \E r, g, b \in Byte : Shows(Color(t, v), r, g, b)
<1>1. CASE t \in Grey
  <2>1. v \in Byte
    BY <1>1 DEF Values, Grey, RGB
  <2> QED BY <1>1, <2>1, GreyShows
<1>2. CASE t = "RGB16"
  <2>1. v \in Word16
    BY <1>2 DEF Values, RGB
  <2>2. PICK a, b, c : Fields(v, a, b, c)
    BY <2>1, FieldsOf
  <2>3. Shows(Color(t, v), Expand(a, 5), Expand(b, 6), Expand(c, 5))
    BY <1>2, <2>2, ShowsRGB16
  <2> QED BY <2>3 DEF Shows
<1>3. CASE t \in RGB
  <2>1. PICK r \in Byte, g \in Byte, b \in Byte : v = <<r, g, b>>
    BY <1>3 DEF Values
  <2> QED BY <1>3, <2>1, ShowsRGB
<1> QED BY <1>1, <1>2, <1>3 DEF ColorType

LEMMA LuminanceOf ==
  ASSUME NEW c, NEW r, NEW g, NEW b, Shows(c, r, g, b)
  PROVE  /\ Luminance(c) = 299 * r + 587 * g + 114 * b
         /\ Luminance(c) \in Nat /\ Luminance(c) <= White
<1>1. r \in Nat /\ g \in Nat /\ b \in Nat /\ r <= 255 /\ g <= 255 /\ b <= 255
  BY ByteIs DEF Shows
<1>2. Luminance(c) = 299 * r + 587 * g + 114 * b
  BY DEF Luminance, Shows
<1> QED BY <1>1, <1>2 DEF White

-----------------------------------------------------------------------------
(* Inversion: every type but BGR32 shows the complement; BGR32, which      *)
(* exchanges red and blue on the way, comes back when inverted twice.      *)
LEMMA InvertGrey ==
  ASSUME NEW t \in Grey, NEW v \in Byte
  PROVE  \E w \in Byte : /\ Invert(Color(t, v)) = Color(t, w)
                         /\ Level8(Color(t, w)) = 255 - Level8(Color(t, v))
<1> DEFINE c == Color(t, v)
<1>1. PICK h, l : Nibbles(v, h, l)
  BY NibblesOf
<1>2. Bits(v, 0, 4) = l /\ Bits(v, 4, 4) = h /\ v \in Nat /\ v <= 255
  BY <1>1, NibbleFields, ByteIs
<1>3. CASE t = "4L"
  <2> DEFINE w == 16 * h + (15 - l)
  <2>1. Invert(c) = Color(t, v + 15 - 2 * l)
    BY <1>2, <1>3 DEF Invert, Color
  <2>2. w = v + 15 - 2 * l /\ Nibbles(w, h, 15 - l)
    BY <1>1 DEF Nibbles
  <2>3. Bits(w, 0, 4) = 15 - l /\ w \in Byte
    BY <2>2, NibbleFields
  <2>4. Level8(Color(t, w)) = 17 * (15 - l) /\ Level8(c) = 17 * l
    BY <1>2, <1>3, <2>3, LevelOf
  <2> HIDE DEF w
  <2> QED BY <1>1, <2>1, <2>2, <2>3, <2>4 DEF Nibbles
<1>4. CASE t = "4U"
  <2> DEFINE w == 16 * (15 - h) + l
  <2>1. Invert(c) = Color(t, v + 240 - 32 * h)
    BY <1>2, <1>4 DEF Invert, Color
  <2>2. w = v + 240 - 32 * h /\ Nibbles(w, 15 - h, l)
    BY <1>1 DEF Nibbles
  <2>3. Bits(w, 4, 4) = 15 - h /\ w \in Byte
    BY <2>2, NibbleFields
  <2>4. Level8(Color(t, w)) = 17 * (15 - h) /\ Level8(c) = 17 * h
    BY <1>2, <1>4, <2>3, LevelOf
  <2> HIDE DEF w
  <2> QED BY <1>1, <2>1, <2>2, <2>3, <2>4 DEF Nibbles
<1>5. CASE t \in {"8", "8A"}
  <2>1. Invert(c) = Color(t, 255 - v) /\ 255 - v \in Byte
    BY <1>2, <1>5, ByteIs DEF Invert, Color
  <2>2. Level8(Color(t, 255 - v)) = 255 - v /\ Level8(c) = v
    BY <1>5, LevelOf
  <2> QED BY <2>1, <2>2
<1> QED BY <1>3, <1>4, <1>5 DEF Grey

LEMMA InvertShows ==
  ASSUME NEW t \in ColorType \ {"BGR32"}, NEW v \in Values(t)
  PROVE  \E r, g, b \in Byte :
           /\ Shows(Color(t, v), r, g, b)
           /\ Invert(Color(t, v)) \in ColourOf(t)
           /\ Shows(Invert(Color(t, v)), 255 - r, 255 - g, 255 - b)
<1> DEFINE c == Color(t, v)
<1>1. CASE t \in Grey
  <2>1. v \in Byte
    BY <1>1 DEF Values, Grey, RGB
  <2>2. PICK w \in Byte : Invert(c) = Color(t, w) /\ Level8(Color(t, w)) = 255 - Level8(c)
    BY <1>1, <2>1, InvertGrey
  <2>3. Invert(c) \in ColourOf(t)
    BY <1>1, <2>2 DEF ColourOf, Values, Grey, RGB
  <2>4. Level8(c) \in Byte /\ Shows(c, Level8(c), Level8(c), Level8(c))
    BY <1>1, <2>1, GreyShows
  <2>5. Shows(Invert(c), 255 - Level8(c), 255 - Level8(c), 255 - Level8(c))
    BY <1>1, <2>2, GreyShows
  <2> QED BY <2>3, <2>4, <2>5
<1>2. CASE t = "RGB16"
  <2>1. v \in Word16
    BY <1>2 DEF Values, RGB
  <2>2. PICK x, y, z : Fields(v, x, y, z)
    BY <2>1, FieldsOf
  <2> DEFINE w == 2048 * (31 - x) + 32 * (63 - y) + (31 - z)
  <2>3. Invert(c) = Color("RGB16", 65535 - v)
    BY <1>2 DEF Invert, Color
  <2>4. w = 65535 - v /\ Fields(w, 31 - x, 63 - y, 31 - z)
    BY <2>2 DEF Fields
  <2>5. /\ Shows(Color("RGB16", w), Expand(31 - x, 5), Expand(63 - y, 6), Expand(31 - z, 5))
        /\ w \in Word16
    BY <2>4, ShowsRGB16, WordFields
  <2>6. Shows(c, Expand(x, 5), Expand(y, 6), Expand(z, 5))
    BY <1>2, <2>2, ShowsRGB16
  <2>7. /\ Expand(31 - x, 5) = 255 - Expand(x, 5) /\ Expand(63 - y, 6) = 255 - Expand(y, 6)
        /\ Expand(31 - z, 5) = 255 - Expand(z, 5)
    BY <2>2, ExpandIs DEF Fields
  <2> HIDE DEF w
  <2>8. Invert(c) = Color(t, w) /\ Invert(c) \in ColourOf(t)
    BY <1>2, <2>3, <2>4, <2>5 DEF ColourOf, Values, RGB
  <2>9. Shows(Invert(c), 255 - Expand(x, 5), 255 - Expand(y, 6), 255 - Expand(z, 5))
    BY <1>2, <2>5, <2>7, <2>8
  <2>10. Expand(x, 5) \in Byte /\ Expand(y, 6) \in Byte /\ Expand(z, 5) \in Byte
    BY <2>6 DEF Shows
  <2> QED BY <2>6, <2>8, <2>9, <2>10
<1>3. CASE t \in {"RGB24", "RGB32"}
  <2>1. PICK x \in Byte, y \in Byte, z \in Byte : v = <<x, y, z>>
    BY <1>3 DEF Values, RGB
  <2>2. 255 - x \in Byte /\ 255 - y \in Byte /\ 255 - z \in Byte
    BY ByteIs
  <2>3. Complement(v) = <<255 - x, 255 - y, 255 - z>>
    BY <2>1 DEF Complement
  <2>4. Invert(c) = Color(t, <<255 - x, 255 - y, 255 - z>>)
    BY <1>3, <2>3 DEF Invert, Color
  <2>5. Invert(c) \in ColourOf(t)
    BY <1>3, <2>2, <2>4 DEF ColourOf, Values, RGB
  <2>6. Shows(c, x, y, z) /\ Shows(Invert(c), 255 - x, 255 - y, 255 - z)
    BY <1>3, <2>1, <2>2, <2>4, ShowsRGB DEF RGB
  <2> QED BY <2>5, <2>6
<1> QED BY <1>1, <1>2, <1>3 DEF ColorType, RGB

LEMMA MirrorTwice ==
  ASSUME NEW l \in Int
  PROVE  Mirrored(l) \in Int /\ Mirrored(Mirrored(l)) = l
  BY DEF Mirrored, White

LEMMA InvertLuminance ==
  ASSUME NEW t \in ColorType \ {"BGR32"}, NEW v \in Values(t)
  PROVE  /\ Invert(Color(t, v)) \in ColourOf(t)
         /\ Luminance(Invert(Color(t, v))) = Mirrored(Luminance(Color(t, v)))
         /\ Luminance(Color(t, v)) \in Nat
<1>1. PICK r \in Byte, g \in Byte, b \in Byte :
           /\ Shows(Color(t, v), r, g, b)
           /\ Invert(Color(t, v)) \in ColourOf(t)
           /\ Shows(Invert(Color(t, v)), 255 - r, 255 - g, 255 - b)
  BY InvertShows
<1>2. r \in Nat /\ g \in Nat /\ b \in Nat
  BY ByteIs
<1> QED BY <1>1, <1>2, LuminanceOf DEF Mirrored, White

LEMMA InvertBGR ==
  ASSUME NEW r \in Byte, NEW g \in Byte, NEW b \in Byte
  PROVE  /\ Invert(Color("BGR32", <<r, g, b>>)) = Color("BGR32", <<255 - b, 255 - g, 255 - r>>)
         /\ 255 - r \in Byte /\ 255 - g \in Byte /\ 255 - b \in Byte
<1>1. \A x, y, z \in Byte : Invert(Color("BGR32", <<x, y, z>>)) = Color("BGR32", <<255 - z, 255 - y, 255 - x>>)
  BY DEF Invert, Color, Swapped, Complement
<1>2. 255 - r \in Byte /\ 255 - g \in Byte /\ 255 - b \in Byte
  BY ByteIs
<1> QED BY <1>1, <1>2

LEMMA InvertBGRTwice ==
  ASSUME NEW r \in Byte, NEW g \in Byte, NEW b \in Byte
  PROVE  Invert(Invert(Color("BGR32", <<r, g, b>>))) = Color("BGR32", <<r, g, b>>)
<1> DEFINE x == 255 - b
           y == 255 - g
           z == 255 - r
<1>1. Invert(Color("BGR32", <<r, g, b>>)) = Color("BGR32", <<x, y, z>>)
      /\ x \in Byte /\ y \in Byte /\ z \in Byte
  BY InvertBGR
<1>2. 255 - z = r /\ 255 - y = g /\ 255 - x = b
  BY ByteIs
<1> HIDE DEF x, y, z
<1>3. Invert(Color("BGR32", <<x, y, z>>)) = Color("BGR32", <<255 - z, 255 - y, 255 - x>>)
  BY <1>1, InvertBGR
<1> QED BY <1>1, <1>2, <1>3

-----------------------------------------------------------------------------
(* Conversion: what the luminance may lose. *)
Within(x, y, levels) == x - y <= 1000 * levels /\ y - x <= 1000 * levels

LEMMA WeightedLevel ==
  ASSUME NEW r \in Byte, NEW g \in Byte, NEW b \in Byte
  PROVE  LET lum == 299 * r + 587 * g + 114 * b
             rgb == <<r, g, b>>
         IN /\ Bits(Weighted(rgb), 14, 8) \in Byte
            /\ 1000 * Bits(Weighted(rgb), 14, 8) - 100 <= lum
            /\ lum - 1000 * Bits(Weighted(rgb), 14, 8) <= 1100
            /\ Bits(Weighted(rgb), 18, 8) \in Nat /\ Bits(Weighted(rgb), 18, 8) < 16
            /\ Within(17000 * Bits(Weighted(rgb), 18, 8), lum, 17)
<1> DEFINE m == 4897 * r + 9617 * g + 1868 * b
           lum == 299 * r + 587 * g + 114 * b
           l == m \div 16384
           n == m \div 262144
<1>1. r \in Nat /\ g \in Nat /\ b \in Nat /\ r <= 255 /\ g <= 255 /\ b <= 255
  BY ByteIs
<1>2. Weighted(<<r, g, b>>) = m
  BY DEF Weighted
<1>3. m \in Nat /\ m < 4194304
  BY <1>1
<1>4. /\ 16384 * lum - 1000 * m = 1816 * r + 408 * g - 224 * b
      /\ lum \in Nat
  BY <1>1
<1> HIDE DEF m, lum
<1>5. 1000 * m - 57120 <= 16384 * lum /\ 16384 * lum <= 1000 * m + 567120
  BY <1>1, <1>3, <1>4
<1>6. l \in Nat /\ l <= 255 /\ 16384 * l <= m /\ m < 16384 * (l + 1)
  BY <1>3
<1>7. n \in Nat /\ n < 16 /\ 262144 * n <= m /\ m < 262144 * (n + 1)
  BY <1>3
<1>8. Bits(m, 14, 8) = l /\ Bits(m, 18, 8) = n
  <2>1. l % 256 = l /\ n % 256 = n
    <3> HIDE DEF l, n
    <3> QED BY <1>6, <1>7
  <2> QED BY <2>1, <1>3, Powers DEF Bits
<1> HIDE DEF l, n
<1>9. 1000 * l - 100 <= lum /\ lum - 1000 * l <= 1100
  BY <1>3, <1>4, <1>5, <1>6
<1>10. 16000 * n - 100 <= lum /\ lum <= 16000 * n + 16100
  BY <1>3, <1>4, <1>5, <1>7
<1>11. l \in Byte
  BY <1>6, ByteIs
<1> QED BY <1>2, <1>4, <1>6, <1>7, <1>8, <1>9, <1>10, <1>11 DEF Within, lum

(* What a colour shows, as its luminance.                                  *)
LEMMA GreyLuminance ==
  ASSUME NEW t \in Grey, NEW v \in Byte
  PROVE  /\ Luminance(Color(t, v)) = 1000 * Level8(Color(t, v))
         /\ Level8(Color(t, v)) \in Byte
<1> DEFINE l == Level8(Color(t, v))
<1>1. l \in Byte /\ Shows(Color(t, v), l, l, l)
  BY GreyShows
<1>2. l \in Nat
  BY <1>1, ByteIs
<1> HIDE DEF l
<1>3. Luminance(Color(t, v)) = 299 * l + 587 * l + 114 * l
  BY <1>1, LuminanceOf
<1> QED BY <1>1, <1>2, <1>3 DEF l

(* Into bytes of grey. *)
LEMMA ToByte ==
  ASSUME NEW s \in Grey \cup RGB, NEW v \in Values(s), NEW type \in {"8", "8A"}
  PROVE  LET new == Convert(Color(s, v), type)
         IN /\ new \in ColourOf(type)
            /\ Within(Luminance(new), Luminance(Color(s, v)), 2)
<1> DEFINE l == Level8(Color(s, v))
<1>1. Convert(Color(s, v), type) = Color(type, l)
  BY DEF Convert
<1>2. l \in Byte /\ Within(1000 * l, Luminance(Color(s, v)), 2)
  <2>1. CASE s \in Grey
    <3>1. v \in Byte
      BY <2>1 DEF Values, Grey, RGB
    <3>2. Luminance(Color(s, v)) = 1000 * l /\ l \in Byte
      BY <2>1, <3>1, GreyLuminance
    <3> QED BY <3>2, ByteIs DEF Within
  <2>2. CASE s \in RGB
    <3>1. PICK r \in Byte, g \in Byte, b \in Byte : v = <<r, g, b>>
      BY <2>2 DEF Values
    <3>2. Luminance(Color(s, v)) = 299 * r + 587 * g + 114 * b
      BY <2>2, <3>1, ShowsRGB, LuminanceOf
    <3>3. l = Bits(Weighted(<<r, g, b>>), 14, 8)
      BY <2>2, <3>1, LevelOf
    <3>4. l \in Byte /\ 1000 * l - 100 <= Luminance(Color(s, v))
          /\ Luminance(Color(s, v)) - 1000 * l <= 1100
      BY <3>2, <3>3, WeightedLevel
    <3>5. l \in Nat /\ Luminance(Color(s, v)) \in Nat
      BY <2>2, <3>1, <3>4, ShowsRGB, LuminanceOf, ByteIs
    <3> HIDE DEF l
    <3> QED BY <3>4, <3>5 DEF Within
  <2> QED BY <2>1, <2>2
<1> HIDE DEF l
<1>3. Level8(Color(type, l)) = l /\ Luminance(Color(type, l)) = 1000 * Level8(Color(type, l))
  BY <1>2, GreyLuminance, LevelOf DEF Grey
<1>4. Color(type, l) \in ColourOf(type)
  BY <1>2 DEF ColourOf, Values, RGB
<1> QED BY <1>1, <1>2, <1>3, <1>4

(* Into a nibble of grey: its value, and the luminance it stands for.      *)
LEMMA ToNibble ==
  ASSUME NEW s \in Grey \cup RGB, NEW v \in Values(s)
  PROVE  /\ \E n \in Nat : /\ n < 16 /\ Convert(Color(s, v), "4L").v = n
                           /\ Within(17000 * n, Luminance(Color(s, v)), 17)
         /\ \E n \in Nat : /\ n < 16 /\ Convert(Color(s, v), "4U").v = 16 * n
                           /\ Within(17000 * n, Luminance(Color(s, v)), 17)
<1> DEFINE c == Color(s, v)
<1>1. c.t = s /\ c.v = v
  BY DEF Color
<1>2. Convert(c, "4L").v = Level4L(c) /\ Convert(c, "4U").v = Level4U(c)
  BY DEF Convert, Color
<1>3. CASE s \in Grey
  <2>1. v \in Byte
    BY <1>3 DEF Values, Grey, RGB
  <2>2. PICK h, l : Nibbles(v, h, l)
    BY <2>1, NibblesOf
  <2>3. Bits(v, 0, 4) = l /\ Bits(v, 4, 4) = h /\ Top(v, 4) = 16 * h
    BY <2>2, NibbleFields
  <2>4. Luminance(c) = 1000 * Level8(c)
    BY <1>3, <2>1, GreyLuminance
  <2>5. CASE s = "4L"
    <3>1. Level4L(c) = l /\ Level4U(c) = 16 * l
      BY <1>1, <2>3, <2>5 DEF Level4L, Level4U, Grey, RGB
    <3>3. Level8(c) = 17 * l
      BY <2>3, <2>5, LevelOf
    <3>2. l \in Nat /\ l < 16 /\ Within(17000 * l, Luminance(c), 17)
      BY <2>2, <2>4, <3>3 DEF Nibbles, Within
    <3> QED BY <1>2, <3>1, <3>2
  <2>6. CASE s # "4L"
    <3>1. Level4L(c) = h /\ Level4U(c) = 16 * h
      BY <1>1, <1>3, <2>3, <2>6 DEF Level4L, Level4U, Grey, RGB
    <3>2. Level8(c) \in {17 * h, v}
      BY <1>3, <2>3, <2>6, LevelOf DEF Grey
    <3>3. h \in Nat /\ h < 16 /\ Within(17000 * h, Luminance(c), 17)
      BY <2>2, <2>4, <3>2 DEF Nibbles, Within
    <3> QED BY <1>2, <3>1, <3>3
  <2> QED BY <2>5, <2>6
<1>4. CASE s \in RGB
  <2>1. PICK r \in Byte, g \in Byte, b \in Byte : v = <<r, g, b>>
    BY <1>4 DEF Values
  <2>2. Luminance(c) = 299 * r + 587 * g + 114 * b /\ Luminance(c) \in Nat
    BY <1>4, <2>1, ShowsRGB, LuminanceOf
  <2> DEFINE n == Bits(Weighted(v), 18, 8)
             m == Bits(Weighted(v), 14, 8)
  <2>3. n \in Nat /\ n < 16 /\ Within(17000 * n, Luminance(c), 17)
    BY <2>1, <2>2, WeightedLevel
  <2>4. m \in Byte /\ 1000 * m - 100 <= Luminance(c) /\ Luminance(c) - 1000 * m <= 1100
    BY <2>1, <2>2, WeightedLevel
  <2>5. Level4L(c) = n
    BY <1>1, <1>4 DEF Level4L, Grey, RGB
  <2>6. Level4U(c) = Top(m, 4)
    <3>1. Level8(c) = m
      BY <1>4, LevelOf
    <3>2. Level4U(c) = Top(Level8(c), 4)
      BY <1>1, <1>4 DEF Level4U, Grey, RGB
    <3> QED BY <3>1, <3>2
  <2> HIDE DEF n, m
  <2>7. PICK h, l : Nibbles(m, h, l)
    BY <2>4, NibblesOf
  <2>8. Top(m, 4) = 16 * h
    BY <2>7, NibbleFields
  <2>9. h \in Nat /\ h < 16 /\ Within(17000 * h, Luminance(c), 17)
    BY <2>2, <2>4, <2>7 DEF Nibbles, Within
  <2> QED BY <1>2, <2>3, <2>5, <2>6, <2>8, <2>9
<1> QED BY <1>3, <1>4

(* Into three channels: nothing is lost. *)
LEMMA ToRGB ==
  ASSUME NEW s \in ColorType, NEW v \in Values(s), NEW type \in {"RGB24", "RGB32"}
  PROVE  LET new == Convert(Color(s, v), type)
         IN new \in ColourOf(type) /\ Luminance(new) = Luminance(Color(s, v))
<1>1. PICK r \in Byte, g \in Byte, b \in Byte : Shows(Color(s, v), r, g, b)
  BY EveryShows
<1>2. Convert(Color(s, v), type) = Color(type, <<r, g, b>>)
  BY <1>1 DEF Convert, Shows
<1>3. Color(type, <<r, g, b>>) \in ColourOf(type)
  BY <1>1 DEF ColourOf, Values, RGB
<1>4. Shows(Color(type, <<r, g, b>>), r, g, b)
  BY ShowsRGB DEF RGB
<1> QED BY <1>1, <1>2, <1>3, <1>4, LuminanceOf

(* Grey into BGR32, where the order of the channels makes no difference.   *)
LEMMA ToBGR ==
  ASSUME NEW s \in Grey, NEW v \in Byte
  PROVE  LET new == Convert(Color(s, v), "BGR32")
         IN /\ Luminance(new) = Luminance(Color(s, v))
            /\ \E l \in Byte : new = Color("BGR32", <<l, l, l>>)
<1> DEFINE l == Level8(Color(s, v))
<1>1. l \in Byte /\ Shows(Color(s, v), l, l, l)
  BY GreyShows
<1>2. Convert(Color(s, v), "BGR32") = Color("BGR32", <<l, l, l>>)
  <2>1. Color(s, v).t \in Grey
    BY DEF Color
  <2> HIDE DEF l
  <2> QED BY <1>1, <2>1 DEF Convert, Shows
<1> HIDE DEF l
<1>3. Shows(Color("BGR32", <<l, l, l>>), l, l, l)
  BY <1>1, ShowsRGB DEF RGB
<1> QED BY <1>1, <1>2, <1>3, LuminanceOf

(* Into a word of RGB16: five or six bits of each channel are left.        *)
LEMMA TopIs ==
  ASSUME NEW n \in Nat
  PROVE  Top(n, 5) = 8 * (n \div 8) /\ Top(n, 6) = 4 * (n \div 4)
<1>1. n = 8 * (n \div 8) + (n % 8) /\ n = 4 * (n \div 4) + (n % 4)
  OBVIOUS
<1>2. 2^(8 - 5) = 8 /\ 2^(8 - 6) = 4
  BY Powers
<1> QED BY <1>1, <1>2 DEF Top

LEMMA PackedIs ==
  ASSUME NEW c, c.t # "RGB16",
         NEW r \in Byte, NEW g \in Byte, NEW b \in Byte, Shows(c, r, g, b)
  PROVE  Fields(Packed16(c), r \div 8, g \div 4, b \div 8)
<1>1. r \in Nat /\ g \in Nat /\ b \in Nat /\ r <= 255 /\ g <= 255 /\ b <= 255
  BY ByteIs
<1>2. Packed16(c) = 256 * Top(r, 5) + 8 * Top(g, 6) + (b \div 8)
  BY Powers DEF Packed16, Shows
<1>3. Top(r, 5) = 8 * (r \div 8) /\ Top(g, 6) = 4 * (g \div 4)
  BY <1>1, TopIs
<1>4. r \div 8 \in Nat /\ r \div 8 < 32 /\ g \div 4 \in Nat /\ g \div 4 < 64
      /\ b \div 8 \in Nat /\ b \div 8 < 32
  BY <1>1
<1>5. Packed16(c) = 2048 * (r \div 8) + 32 * (g \div 4) + (b \div 8)
  BY <1>2, <1>3, <1>4
<1> QED BY <1>4, <1>5 DEF Fields

LEMMA ExpandNear ==
  ASSUME NEW n \in Byte
  PROVE  /\ n - Expand(n \div 8, 5) <= 7 /\ Expand(n \div 8, 5) - n <= 7
         /\ n - Expand(n \div 4, 6) <= 3 /\ Expand(n \div 4, 6) - n <= 3
<1>1. n \in Nat /\ n <= 255
  BY ByteIs
<1>2. /\ n \div 8 \in Nat /\ n \div 8 < 32 /\ 8 * (n \div 8) <= n /\ n <= 8 * (n \div 8) + 7
      /\ n \div 4 \in Nat /\ n \div 4 < 64 /\ 4 * (n \div 4) <= n /\ n <= 4 * (n \div 4) + 3
  BY <1>1
<1> DEFINE p == n \div 8
           q == n \div 4
<1> HIDE DEF p, q
<1>3. /\ 8 * p <= Expand(p, 5) /\ Expand(p, 5) <= 8 * p + 7 /\ Expand(p, 5) \in Byte
      /\ 4 * q <= Expand(q, 6) /\ Expand(q, 6) <= 4 * q + 3 /\ Expand(q, 6) \in Byte
  BY <1>2, ExpandIs DEF p, q
<1>4. Expand(p, 5) \in Nat /\ Expand(q, 6) \in Nat
  BY <1>3, ByteIs
<1>5. /\ p \in Nat /\ 8 * p <= n /\ n <= 8 * p + 7
      /\ q \in Nat /\ 4 * q <= n /\ n <= 4 * q + 3
  BY <1>2 DEF p, q
<1> HIDE DEF Expand
<1>6. /\ n - Expand(p, 5) <= 7 /\ Expand(p, 5) - n <= 7
      /\ n - Expand(q, 6) <= 3 /\ Expand(q, 6) - n <= 3
  BY <1>1, <1>3, <1>4, <1>5
<1> QED BY <1>6 DEF p, q

LEMMA LuminanceNear ==
  ASSUME NEW c, NEW d, NEW r \in Byte, NEW g \in Byte, NEW b \in Byte, Shows(c, r, g, b),
         NEW x \in Byte, NEW y \in Byte, NEW z \in Byte, Shows(d, x, y, z),
         x - r <= 7, r - x <= 7, y - g <= 7, g - y <= 7, z - b <= 7, b - z <= 7
  PROVE  Within(Luminance(d), Luminance(c), 8)
<1>1. /\ r \in Nat /\ g \in Nat /\ b \in Nat /\ x \in Nat /\ y \in Nat /\ z \in Nat
  BY ByteIs
<1>2. /\ Luminance(c) = 299 * r + 587 * g + 114 * b
      /\ Luminance(d) = 299 * x + 587 * y + 114 * z
  BY LuminanceOf
<1> QED BY <1>1, <1>2 DEF Within

LEMMA ToRGB16 ==
  ASSUME NEW s \in ColorType, NEW v \in Values(s)
  PROVE  LET new == Convert(Color(s, v), "RGB16")
         IN /\ new \in ColourOf("RGB16")
            /\ Within(Luminance(new), Luminance(Color(s, v)), 8)
<1> DEFINE c == Color(s, v)
<1>1. Convert(c, "RGB16") = Color("RGB16", Packed16(c)) /\ c.t = s /\ c.v = v
  BY DEF Convert, Color
<1>2. PICK r \in Byte, g \in Byte, b \in Byte : Shows(c, r, g, b)
  BY EveryShows
<1>3. CASE s = "RGB16"
  <2>1. Convert(c, "RGB16") = c /\ c \in ColourOf("RGB16")
    BY <1>1, <1>3 DEF Packed16, ColourOf, Color
  <2>2. Luminance(c) \in Nat
    BY <1>2, LuminanceOf
  <2> HIDE DEF c
  <2>3. Within(Luminance(c), Luminance(c), 8)
    BY <2>2 DEF Within
  <2> QED BY <2>1, <2>3 DEF c
<1>4. CASE s # "RGB16"
  <2> DEFINE w == Packed16(c)
             x == Expand(r \div 8, 5)
             y == Expand(g \div 4, 6)
             z == Expand(b \div 8, 5)
  <2> HIDE DEF c
  <2>1. Fields(w, r \div 8, g \div 4, b \div 8)
    BY <1>1, <1>2, <1>4, PackedIs
  <2> HIDE DEF w
  <2>2. w \in Word16 /\ Shows(Color("RGB16", w), x, y, z)
    BY <2>1, WordFields, ShowsRGB16
  <2>3. x \in Byte /\ y \in Byte /\ z \in Byte
    BY <2>2 DEF Shows
  <2>4. /\ x - r <= 7 /\ r - x <= 7 /\ g - y <= 3 /\ y - g <= 3 /\ z - b <= 7 /\ b - z <= 7
    BY ExpandNear
  <2> HIDE DEF x, y, z
  <2>5. y - g <= 7 /\ g - y <= 7
    BY <2>3, <2>4, ByteIs
  <2>6. Within(Luminance(Color("RGB16", w)), Luminance(c), 8)
    BY <1>2, <2>2, <2>3, <2>4, <2>5, LuminanceNear
  <2>7. Color("RGB16", w) \in ColourOf("RGB16")
    BY <2>2 DEF ColourOf, Values, RGB
  <2> QED BY <1>1, <2>6, <2>7 DEF w, c
<1> QED BY <1>3, <1>4

-----------------------------------------------------------------------------
(* The colour that is stored.  A buffer of type BGR32 holds greys only,    *)
(* whose inversion is right although it exchanges red and blue.            *)
Steady(t) ==
  IF t = "BGR32" THEN {Color(t, <<l, l, l>>) : l \in Byte} ELSE ColourOf(t)

LEMMA InvertSteady ==
  ASSUME NEW t \in ColorType, NEW c \in Steady(t)
  PROVE  /\ Luminance(c) \in Nat
         /\ Luminance(Invert(c)) = Mirrored(Luminance(c))
<1>1. CASE t = "BGR32"
  <2>1. PICK l \in Byte : c = Color("BGR32", <<l, l, l>>)
    BY <1>1 DEF Steady
  <2>2. /\ Invert(c) = Color("BGR32", <<255 - l, 255 - l, 255 - l>>)
        /\ 255 - l \in Byte
    BY <2>1, InvertBGR
  <2>3. Shows(c, l, l, l) /\ Shows(Invert(c), 255 - l, 255 - l, 255 - l)
    BY <2>1, <2>2, ShowsRGB DEF RGB
  <2>4. l \in Nat
    BY ByteIs
  <2> QED BY <2>3, <2>4, LuminanceOf DEF Mirrored, White
<1>2. CASE t # "BGR32"
  <2>1. PICK v \in Values(t) : c = Color(t, v)
    BY <1>2 DEF Steady, ColourOf
  <2> QED BY <1>2, <2>1, InvertLuminance
<1> QED BY <1>1, <1>2

(* The uses the conversions are right for.  Luminance of an RGB16 colour   *)
(* is computed with red left in green (Weighted16), BGR32 from a coloured  *)
(* source is written in the wrong order, and an odd number of inversions   *)
(* of BGR32 exchanges red and blue.                                        *)
SoundUse(u) ==
  \/ u.source \in Grey
  \/ u.source = "RGB16" /\ u.type \in {"RGB16", "RGB24", "RGB32"}
  \/ u.source \in {"RGB24", "RGB32"} /\ u.type # "BGR32"
  \/ /\ u.source = "BGR32" /\ u.type # "BGR32"
     /\ u.inversions = 0 /\ (u.sourceInverse <=> u.inverse = 1)

LEMMA RawIs ==
  ASSUME use \in Use, NEW raw \in Raw
  PROVE  raw \in ColourOf(use.source)
<1> DEFINE colors == {Color("RGB24", rgb) : rgb \in Channel \X Channel \X Channel}
<1>1. use.source \in ColorType /\ Channel \subseteq Byte
  BY SizeAssumption DEF Use
<1>2. ASSUME NEW rgb \in Channel \X Channel \X Channel
      PROVE  rgb \in Byte \X Byte \X Byte
  BY <1>1
<1>3. CASE use.source \in RGB
  <2>0. Raw = {Color(use.source, c.v) : c \in colors}
    BY <1>3 DEF Raw, RGB, Grey
  <2>1. PICK rgb \in Channel \X Channel \X Channel : raw = Color(use.source, Color("RGB24", rgb).v)
    BY <2>0
  <2>2. raw = Color(use.source, rgb)
    BY <2>1 DEF Color
  <2> QED BY <1>2, <1>3, <2>2 DEF ColourOf, Values
<1>4. CASE use.source = "RGB16"
  <2>1. PICK rgb \in Channel \X Channel \X Channel : raw = Convert(Color("RGB24", rgb), "RGB16")
    <3>1. Raw = {Convert(c, "RGB16") : c \in colors}
      BY <1>4 DEF Raw, RGB, Grey
    <3> QED BY <3>1
  <2>2. rgb \in Values("RGB24")
    BY <1>2 DEF Values, RGB
  <2> QED BY <1>4, <2>1, <2>2, ToRGB16 DEF ColorType, RGB
<1>5. CASE use.source \in Grey
  <2>1. PICK v \in Channel : raw = Color(use.source, v)
    BY <1>5 DEF Raw, Grey, RGB
  <2> QED BY <1>1, <1>5, <2>1 DEF ColourOf, Values, Grey, RGB
<1> QED BY <1>1, <1>3, <1>4, <1>5 DEF ColorType

(* What setPixel converts: the colour read from the source, inverted for   *)
(* the buffer; and the luminance it should be stored with.                 *)
Read(raw) == IF use.sourceInverse THEN Invert(raw) ELSE raw
Level(raw) == IF use.sourceInverse THEN Mirrored(Luminance(raw)) ELSE Luminance(raw)
Upright(i, c) == IF i = 1 THEN Invert(c) ELSE c
Righted(i, l) == IF i = 1 THEN Mirrored(l) ELSE l

LEMMA ColourInvert ==
  ASSUME NEW t \in ColorType \ {"BGR32"}, NEW c \in ColourOf(t)
  PROVE  /\ Invert(c) \in ColourOf(t) /\ Luminance(c) \in Nat
         /\ Luminance(Invert(c)) = Mirrored(Luminance(c))
<1>1. PICK v \in Values(t) : c = Color(t, v)
  BY DEF ColourOf
<1> QED BY <1>1, InvertLuminance

LEMMA ReadColour ==
  ASSUME use \in Use, SoundUse(use), NEW raw \in Raw, NEW i \in 0..1,
         use.inversions = 0 => i = use.inverse
  PROVE  /\ Upright(i, Read(raw)) \in ColourOf(use.source)
         /\ Luminance(Upright(i, Read(raw))) = Righted(i, Level(raw))
         /\ Level(raw) \in Int
<1>1. raw \in ColourOf(use.source) /\ use.source \in ColorType
  BY RawIs DEF Use
<1>2. CASE use.source # "BGR32"
  <2>1. ASSUME NEW c \in ColourOf(use.source)
        PROVE  /\ Invert(c) \in ColourOf(use.source) /\ Luminance(c) \in Nat
               /\ Luminance(Invert(c)) = Mirrored(Luminance(c))
    BY <1>1, <1>2, ColourInvert
  <2>2. /\ Read(raw) \in ColourOf(use.source) /\ Luminance(Read(raw)) = Level(raw)
    BY <1>1, <2>1 DEF Read, Level
  <2> QED BY <2>1, <2>2 DEF Upright, Righted
<1>3. CASE use.source = "BGR32"
  <2>1. use.inversions = 0 /\ (use.sourceInverse <=> use.inverse = 1)
    BY <1>3 DEF SoundUse, Grey
  <2>2. use.sourceInverse <=> i = 1
    BY <2>1
  <2>3. PICK r \in Byte, g \in Byte, b \in Byte : raw = Color("BGR32", <<r, g, b>>)
    BY <1>1, <1>3 DEF ColourOf, Values, RGB
  <2>4. Luminance(raw) \in Int
    BY <2>3, ShowsRGB, LuminanceOf DEF RGB
  <2>5. Upright(i, Read(raw)) = raw
    <3>1. CASE i = 1
      <4>1. Read(raw) = Invert(raw)
        BY <2>2, <3>1 DEF Read
      <4>2. Invert(Invert(raw)) = raw
        BY <2>3, InvertBGRTwice
      <4> QED BY <3>1, <4>1, <4>2 DEF Upright
    <3>2. CASE i # 1
      BY <2>2, <3>2 DEF Upright, Read
    <3> QED BY <3>1, <3>2
  <2>6. Righted(i, Level(raw)) = Luminance(raw) /\ Level(raw) \in Int
    BY <2>2, <2>4, MirrorTwice DEF Righted, Level
  <2> QED BY <1>1, <2>5, <2>6
<1> QED BY <1>2, <1>3

(* What a colour of the source becomes in a pixel of its own memory. *)
LEMMA WholePixel ==
  ASSUME use \in Use, SoundUse(use), use.type # "4", NEW c \in ColourOf(use.source)
  PROVE  /\ Convert(c, use.type) \in Steady(use.type)
         /\ Within(Luminance(Convert(c, use.type)), Luminance(c), Tolerance)
<1>1. use.source \in ColorType /\ use.type \in {"8", "8A", "RGB16", "RGB24", "RGB32", "BGR32"}
  BY DEF Use, BufferType
<1>2. PICK v \in Values(use.source) : c = Color(use.source, v)
  BY DEF ColourOf
<1>3. CASE use.type \in {"8", "8A"}
  <2>1. use.source \in Grey \cup RGB
    BY <1>3 DEF SoundUse, RGB
  <2>2. Tolerance = 2 /\ Steady(use.type) = ColourOf(use.type)
    BY <1>3 DEF Tolerance, Steady, RGB
  <2> QED BY <1>2, <1>3, <2>1, <2>2, ToByte
<1>4. CASE use.type = "RGB16"
  <2>1. Tolerance = 8 /\ Steady(use.type) = ColourOf("RGB16")
    BY <1>4 DEF Tolerance, Steady, RGB
  <2> QED BY <1>1, <1>2, <1>4, <2>1, ToRGB16
<1>5. ASSUME Luminance(Convert(c, use.type)) = Luminance(c), use.type \in RGB
      PROVE  Within(Luminance(Convert(c, use.type)), Luminance(c), Tolerance)
  <2>1. Tolerance = 1
    BY <1>5 DEF Tolerance, RGB
  <2>2. Luminance(c) \in Nat
    BY <1>1, <1>2, EveryShows, LuminanceOf
  <2> QED BY <1>5, <2>1, <2>2 DEF Within
<1>6. CASE use.type \in {"RGB24", "RGB32"}
  <2>1. /\ Convert(c, use.type) \in ColourOf(use.type)
        /\ Luminance(Convert(c, use.type)) = Luminance(c)
    BY <1>1, <1>2, <1>6, ToRGB
  <2>2. Steady(use.type) = ColourOf(use.type) /\ use.type \in RGB
    BY <1>6 DEF Steady, RGB
  <2> QED BY <1>5, <2>1, <2>2
<1>7. CASE use.type = "BGR32"
  <2>1. use.source \in Grey
    BY <1>7 DEF SoundUse
  <2>2. v \in Byte
    BY <1>2, <2>1 DEF Values, Grey, RGB
  <2>3. /\ Luminance(Convert(c, use.type)) = Luminance(c)
        /\ \E l \in Byte : Convert(c, use.type) = Color("BGR32", <<l, l, l>>)
    BY <1>2, <1>7, <2>1, <2>2, ToBGR
  <2>4. Convert(c, use.type) \in Steady(use.type) /\ use.type \in RGB
    BY <1>7, <2>3 DEF Steady, RGB
  <2> QED BY <1>5, <2>3, <2>4
<1> QED BY <1>1, <1>3, <1>4, <1>6, <1>7

LEMMA HalfPixel ==
  ASSUME use \in Use, SoundUse(use), use.type = "4", NEW c \in ColourOf(use.source)
  PROVE  /\ \E n \in Nat : /\ n < 16 /\ Convert(c, "4L").v = n
                           /\ Within(17000 * n, Luminance(c), 17)
         /\ \E n \in Nat : /\ n < 16 /\ Convert(c, "4U").v = 16 * n
                           /\ Within(17000 * n, Luminance(c), 17)
<1>1. PICK v \in Values(use.source) : c = Color(use.source, v)
  BY DEF ColourOf
<1>2. use.source \in Grey \cup RGB
  BY DEF SoundUse, RGB
<1> QED BY <1>1, <1>2, ToNibble

-----------------------------------------------------------------------------
(* Memory.  An address is one of a cell in a row: the cell of a pixel is   *)
(* its column, or for two pixels in a byte the half of it.                 *)
Column(x) == IF use.type = "4" THEN x \div 2 ELSE x
RowLength == IF use.type = "4" THEN Pitch ELSE W
Step == IF use.type = "4" THEN 1 ELSE Size
Surface == (0..(W - 1)) \X (0..(H - 1))

LEMMA CellApart ==
  ASSUME NEW m \in Nat, NEW y \in Nat, NEW z \in Nat, NEW j \in Nat, NEW k \in Nat,
         j < m, k < m, m * y + j = m * z + k
  PROVE  y = z /\ j = k
<1>1. m \in Nat \ {0} /\ m * y + j \in Int
  OBVIOUS
<1>2. y * m <= m * y + j /\ m * y + j < (y + 1) * m
  OBVIOUS
<1>3. z * m <= m * y + j /\ m * y + j < (z + 1) * m
  OBVIOUS
<1>4. y = (m * y + j) \div m /\ z = (m * y + j) \div m
  BY <1>1, <1>2, <1>3, QuotientIs
<1>5. y = z
  BY <1>4
<1> QED BY <1>5

LEMMA CellWithin ==
  ASSUME NEW m \in Nat, NEW y \in Nat, NEW h \in Nat, NEW k \in Nat, k < m, y < h
  PROVE  m * y + k \in Nat /\ m * y + k < m * h
<1>1. h = (y + 1) + (h - y - 1) /\ h - y - 1 \in Nat
  OBVIOUS
<1>2. m * h = m * (y + 1) + m * (h - y - 1) /\ m * (h - y - 1) \in Nat
  BY <1>1
<1>3. m * (y + 1) = m * y + m
  OBVIOUS
<1> QED BY <1>2, <1>3

LEMMA AddressIs ==
  ASSUME use \in Use
  PROVE  /\ Step \in {1, 2, 3, 4} /\ RowLength \in Nat /\ Pitch = Step * RowLength
         /\ \A x \in 0..(W - 1) : Column(x) \in Nat /\ Column(x) < RowLength
         /\ \A x \in 0..(W - 1), y \in 0..(H - 1) :
              Address(x, y) = Step * (RowLength * y + Column(x))
<1>1. W \in Nat /\ H \in Nat
  BY SizeAssumption, SideInt
<1>2. CASE use.type = "4"
  <2>1. Pitch = (W % 2) + (W \div 2) /\ Step = 1 /\ RowLength = Pitch
    BY <1>2 DEF Pitch, Step, RowLength
  <2>2. Pitch \in Nat /\ \A x \in 0..(W - 1) : x \div 2 \in Nat /\ x \div 2 < Pitch
    BY <1>1, <2>1
  <2>3. \A x : Column(x) = x \div 2
    BY <1>2 DEF Column
  <2>4. ASSUME NEW x \in 0..(W - 1), NEW y \in 0..(H - 1)
        PROVE  Address(x, y) = Step * (RowLength * y + Column(x))
    <3>1. Address(x, y) = Pitch * y + (x \div 2)
      BY <1>2 DEF Address
    <3>2. Pitch * y + (x \div 2) \in Int
      BY <1>1, <2>2
    <3> QED BY <2>1, <2>3, <3>1, <3>2
  <2> QED BY <2>1, <2>2, <2>3, <2>4
<1>3. CASE use.type # "4"
  <2>1. Size \in {1, 2, 3, 4}
    BY <1>3 DEF Size, Use, BufferType
  <2>2. Pitch = Size * W /\ Step = Size /\ RowLength = W
    BY <1>3 DEF Pitch, Step, RowLength
  <2>3. \A x : Column(x) = x
    BY <1>3 DEF Column
  <2>4. ASSUME NEW x \in 0..(W - 1), NEW y \in 0..(H - 1)
        PROVE  Address(x, y) = Step * (RowLength * y + Column(x))
    <3>1. Address(x, y) = (Size * W) * y + Size * x
      BY <1>3, <2>2 DEF Address
    <3>2. (Size * W) * y + Size * x = Size * (W * y + x)
      BY <1>1, <2>1
    <3> QED BY <2>2, <2>3, <3>1, <3>2
  <2> QED BY <1>1, <2>1, <2>2, <2>3, <2>4
<1> QED BY <1>2, <1>3

LEMMA AddressWithin ==
  ASSUME use \in Use, NEW x \in 0..(W - 1), NEW y \in 0..(H - 1)
  PROVE  Address(x, y) \in 0..(Pitch * H - 1)
<1>1. W \in Nat /\ H \in Nat
  BY SizeAssumption, SideInt
<1> DEFINE n == RowLength * y + Column(x)
           m == RowLength * H
<1>2. /\ Step \in {1, 2, 3, 4} /\ RowLength \in Nat /\ Pitch = Step * RowLength
      /\ Column(x) \in Nat /\ Column(x) < RowLength /\ Address(x, y) = Step * n
  BY AddressIs
<1>3. y \in Nat /\ y < H
  BY <1>1
<1>4. n \in Nat /\ n < m /\ m \in Nat
  BY <1>1, <1>2, <1>3, CellWithin
<1>5. Pitch * H = Step * m
  BY <1>1, <1>2
<1> HIDE DEF n, m
<1>6. Step * n \in Nat /\ Step * n < Step * m /\ Step * m \in Nat
  BY <1>2, <1>4
<1> QED BY <1>2, <1>5, <1>6

(* Two pixels share an address only as the two halves of a byte. *)
LEMMA SameAddress ==
  ASSUME use \in Use, NEW x \in 0..(W - 1), NEW y \in 0..(H - 1),
         NEW i \in 0..(W - 1), NEW j \in 0..(H - 1),
         Address(x, y) = Address(i, j), <<x, y>> # <<i, j>>
  PROVE  use.type = "4" /\ {PixelType(x), PixelType(i)} = {"4U", "4L"}
<1>1. W \in Nat /\ H \in Nat
  BY SizeAssumption, SideInt
<1> DEFINE a == RowLength * y + Column(x)
           b == RowLength * j + Column(i)
<1>2. /\ Step \in {1, 2, 3, 4} /\ RowLength \in Nat
      /\ Column(x) \in Nat /\ Column(x) < RowLength /\ Address(x, y) = Step * a
      /\ Column(i) \in Nat /\ Column(i) < RowLength /\ Address(i, j) = Step * b
  BY AddressIs
<1>3. y \in Nat /\ j \in Nat
  BY <1>1
<1>4. a = b
  <2>1. a \in Int /\ b \in Int
    BY <1>2, <1>3
  <2> HIDE DEF a, b
  <2>2. Step * a = Step * b
    BY <1>2
  <2>3. CASE Step = 1
    BY <2>1, <2>2, <2>3
  <2>4. CASE Step = 2
    BY <2>1, <2>2, <2>4
  <2>5. CASE Step = 3
    BY <2>1, <2>2, <2>5
  <2>6. CASE Step = 4
    BY <2>1, <2>2, <2>6
  <2> QED BY <1>2, <2>3, <2>4, <2>5, <2>6
<1>5. y = j /\ Column(x) = Column(i)
  BY <1>2, <1>3, <1>4, CellApart
<1>6. x # i
  BY <1>5
<1>7. use.type = "4" /\ x \div 2 = i \div 2
  BY <1>5, <1>6 DEF Column
<1>8. x \in Int /\ i \in Int
  BY <1>1
<1>9. x % 2 # i % 2 /\ x % 2 \in {0, 1} /\ i % 2 \in {0, 1}
  BY <1>6, <1>7, <1>8
<1>10. \/ x % 2 = 0 /\ i % 2 # 0
       \/ x % 2 # 0 /\ i % 2 = 0
  BY <1>9
<1> QED BY <1>7, <1>10 DEF PixelType

(* What memory d holds for a pixel. *)
At(d, x, y) == IF Address(x, y) \in DOMAIN d THEN d[Address(x, y)] ELSE Zero
Held(d, p) == Color(PixelType(p[1]), At(d, p[1], p[2]))
MemoryFits(d) == \A a \in DOMAIN d : a \in 0..(Pitch * H - 1) /\ d[a] \in Value
Set(d, a, v) == [b \in DOMAIN d \cup {a} |-> IF b = a THEN v ELSE d[b]]

LEMMA AtFits ==
  ASSUME use \in Use, use.type = "4", NEW d, MemoryFits(d), NEW x, NEW y
  PROVE  At(d, x, y) \in Byte
<1>1. Value = Byte /\ Zero = 0
  BY DEF Value, Zero, RGB
<1>2. 0 \in Byte
  BY ByteIs
<1> QED BY <1>1, <1>2 DEF At, MemoryFits

LEMMA SetFits ==
  ASSUME NEW d, MemoryFits(d), NEW a \in 0..(Pitch * H - 1), NEW v \in Value
  PROVE  MemoryFits(Set(d, a, v))
  BY DEF MemoryFits, Set

LEMMA SetAt ==
  ASSUME NEW d, NEW v, NEW x, NEW y, NEW i, NEW j
  PROVE  /\ At(Set(d, Address(x, y), v), x, y) = v
         /\ Address(i, j) # Address(x, y) => At(Set(d, Address(x, y), v), i, j) = At(d, i, j)
         /\ Address(i, j) = Address(x, y) => At(Set(d, Address(x, y), v), i, j) = v
  BY DEF At, Set

(* A pixel holds the luminance l, as it is seen when the buffer is         *)
(* inverted (i = 1) or not.                                                *)
Holds(d, i, p, l) ==
  /\ Held(d, p) \in Steady(PixelType(p[1]))
  /\ Within(Luminance(Held(d, p)), Righted(i, l), Tolerance)

(* A nibble is set, the other one stays. *)
Lower(o) == o % 16
LEMMA HalfSet ==
  ASSUME use \in Use, use.type = "4", NEW d, MemoryFits(d), NEW x, NEW y,
         NEW n \in Nat, n < 16, NEW v
  PROVE  /\ v = Lower(At(d, x, y)) + 16 * n =>
              /\ v \in Byte /\ Level8(Color("4U", v)) = 17 * n
              /\ Level8(Color("4L", v)) = Level8(Color("4L", At(d, x, y)))
         /\ v = Top(At(d, x, y), 4) + n =>
              /\ v \in Byte /\ Level8(Color("4L", v)) = 17 * n
              /\ Level8(Color("4U", v)) = Level8(Color("4U", At(d, x, y)))
<1> DEFINE o == At(d, x, y)
<1>1. o \in Byte
  BY AtFits
<1> HIDE DEF o
<1>2. PICK h, l : Nibbles(o, h, l)
  BY <1>1, NibblesOf
<1>3. Bits(o, 0, 4) = l /\ Bits(o, 4, 4) = h /\ Top(o, 4) = 16 * h /\ o % 16 = l
  <2>1. o % 16 = l
    BY <1>2 DEF Nibbles
  <2> QED BY <1>2, <2>1, NibbleFields
<1>4. h \in Nat /\ h < 16 /\ l \in Nat /\ l < 16
  BY <1>2 DEF Nibbles
<1> DEFINE u == 16 * n + l
           w == 16 * h + n
<1>5. Nibbles(u, n, l) /\ Nibbles(w, h, n) /\ Lower(o) + 16 * n = u /\ Top(o, 4) + n = w
  BY <1>3, <1>4 DEF Nibbles, Lower
<1> HIDE DEF u, w
<1>6. /\ Bits(u, 0, 4) = l /\ Bits(u, 4, 4) = n /\ u \in Byte
      /\ Bits(w, 0, 4) = n /\ Bits(w, 4, 4) = h /\ w \in Byte
  BY <1>5, NibbleFields
<1>7. /\ Level8(Color("4U", u)) = 17 * n /\ Level8(Color("4L", u)) = Level8(Color("4L", o))
      /\ Level8(Color("4L", w)) = 17 * n /\ Level8(Color("4U", w)) = Level8(Color("4U", o))
  BY <1>3, <1>6, LevelOf
<1> QED BY <1>5, <1>6, <1>7 DEF o

(* SetValue, in memory d. *)
ValueIn(d, x, y, c) ==
  LET new == Convert(c, PixelType(x)).v
  IN  CASE PixelType(x) = "4U" -> (At(d, x, y) % 16) + new
        [] PixelType(x) = "4L" -> Top(At(d, x, y), 4) + new
        [] OTHER -> new

LEMMA SteadyValue ==
  ASSUME use \in Use, use.type # "4", NEW v, Color(use.type, v) \in Steady(use.type)
  PROVE  v \in Value
<1>1. use.type \in {"8", "8A", "RGB16", "RGB24", "RGB32", "BGR32"}
  BY DEF Use, BufferType
<1>2. Value = Values(use.type)
  BY <1>1 DEF Value, Values, RGB
<1>3. CASE use.type = "BGR32"
  <2>1. PICK l \in Byte : Color(use.type, v) = Color("BGR32", <<l, l, l>>)
    BY <1>3 DEF Steady
  <2>2. v = <<l, l, l>>
    BY <2>1 DEF Color
  <2> QED BY <1>2, <1>3, <2>1, <2>2 DEF Values, RGB
<1>4. CASE use.type # "BGR32"
  <2>1. PICK w \in Values(use.type) : Color(use.type, v) = Color(use.type, w)
    BY <1>4 DEF Steady, ColourOf
  <2> QED BY <1>2, <2>1 DEF Color
<1> QED BY <1>3, <1>4

(* A pixel of grey holds what its level says. *)
LEMMA HoldsLevel ==
  ASSUME use \in Use, use.type = "4", NEW d, MemoryFits(d), NEW i, NEW p, NEW l,
         NEW t \in {"4U", "4L"}, PixelType(p[1]) = t
  PROVE  LET n == Level8(Color(t, At(d, p[1], p[2])))
         IN  Holds(d, i, p, l) <=> Within(1000 * n, Righted(i, l), 17)
<1>1. At(d, p[1], p[2]) \in Byte
  BY AtFits
<1>2. Held(d, p) = Color(t, At(d, p[1], p[2]))
  BY DEF Held
<1>3. Luminance(Held(d, p)) = 1000 * Level8(Color(t, At(d, p[1], p[2])))
  BY <1>1, <1>2, GreyLuminance DEF Grey
<1>4. Held(d, p) \in Steady(t)
  BY <1>1, <1>2 DEF Steady, ColourOf, Values, RGB
<1>5. Tolerance = 17
  BY DEF Tolerance, RGB
<1> QED BY <1>3, <1>4, <1>5 DEF Holds

LEMMA SetHolds ==
  ASSUME use \in Use, SoundUse(use), NEW d, MemoryFits(d),
         NEW x \in 0..(W - 1), NEW y \in 0..(H - 1),
         NEW c \in ColourOf(use.source), NEW i, NEW l, Luminance(c) = Righted(i, l)
  PROVE  LET v == ValueIn(d, x, y, c)
             e == Set(d, Address(x, y), v)
         IN  /\ v \in Value
             /\ Holds(e, i, <<x, y>>, l)
             /\ \A p \in Surface : \A k : p # <<x, y>> /\ Holds(d, i, p, k) => Holds(e, i, p, k)
<1> DEFINE v == ValueIn(d, x, y, c)
           e == Set(d, Address(x, y), v)
<1>1. ASSUME NEW p \in Surface, NEW k, p # <<x, y>>, Holds(d, i, p, k),
             Address(p[1], p[2]) # Address(x, y)
      PROVE  Holds(e, i, p, k)
  <2>1. At(e, p[1], p[2]) = At(d, p[1], p[2])
    BY <1>1, SetAt
  <2> HIDE DEF e
  <2> QED BY <1>1, <2>1 DEF Holds, Held
<1>2. At(e, x, y) = v
  BY SetAt
<1>3. CASE use.type # "4"
  <2>1. PixelType(x) = use.type /\ use.type \notin {"4U", "4L"}
    BY <1>3 DEF PixelType, Use, BufferType
  <2>2. v = Convert(c, use.type).v /\ Color(use.type, v) = Convert(c, use.type)
    BY <2>1 DEF ValueIn, Convert, Color
  <2>3. Convert(c, use.type) \in Steady(use.type)
        /\ Within(Luminance(Convert(c, use.type)), Luminance(c), Tolerance)
    BY <1>3, WholePixel
  <2> HIDE DEF v, e
  <2>4. v \in Value
    BY <1>3, <2>2, <2>3, SteadyValue
  <2>5. Holds(e, i, <<x, y>>, l)
    BY <1>2, <2>1, <2>2, <2>3 DEF Holds, Held
  <2>6. ASSUME NEW p \in Surface, NEW k, p # <<x, y>>, Holds(d, i, p, k)
        PROVE  Address(p[1], p[2]) # Address(x, y)
    BY <1>3, <2>6, SameAddress DEF Surface
  <2> QED BY <1>1, <2>4, <2>5, <2>6 DEF v, e
<1>4. CASE use.type = "4"
  <2>1. PixelType(x) \in {"4U", "4L"} /\ Value = Byte
    BY <1>4 DEF PixelType, Value, RGB
  <2> DEFINE t == PixelType(x)
             u == IF t = "4U" THEN "4L" ELSE "4U"
  <2>2. PICK n \in Nat : n < 16 /\ Within(17000 * n, Luminance(c), 17)
                         /\ Convert(c, t).v = (IF t = "4U" THEN 16 * n ELSE n)
    BY <1>4, <2>1, HalfPixel
  <2>3. v \in Byte /\ Level8(Color(t, v)) = 17 * n
        /\ Level8(Color(u, v)) = Level8(Color(u, At(d, x, y)))
    <3>1. CASE t = "4U"
      <4>1. v = Lower(At(d, x, y)) + 16 * n
        BY <2>2, <3>1 DEF ValueIn, Lower
      <4>2. u = "4L"
        BY <3>1
      <4> HIDE DEF v
      <4>3. v \in Byte /\ Level8(Color("4U", v)) = 17 * n
            /\ Level8(Color("4L", v)) = Level8(Color("4L", At(d, x, y)))
        BY <1>4, <2>2, <4>1, HalfSet
      <4> QED BY <3>1, <4>2, <4>3
    <3>2. CASE t = "4L"
      <4>1. v = Top(At(d, x, y), 4) + n
        BY <2>2, <3>2 DEF ValueIn
      <4>2. u = "4U"
        BY <3>2
      <4> HIDE DEF v
      <4>3. v \in Byte /\ Level8(Color("4L", v)) = 17 * n
            /\ Level8(Color("4U", v)) = Level8(Color("4U", At(d, x, y)))
        BY <1>4, <2>2, <4>1, HalfSet
      <4> QED BY <3>2, <4>2, <4>3
    <3> QED BY <2>1, <3>1, <3>2
  <2>4. MemoryFits(e)
    BY <2>1, <2>3, SetFits, AddressWithin
  <2>5. Holds(e, i, <<x, y>>, l)
    <3>1. 1000 * Level8(Color(t, v)) = 17000 * n
      BY <2>2, <2>3
    <3> HIDE DEF v, e
    <3> QED BY <1>2, <1>4, <2>1, <2>2, <2>4, <3>1, HoldsLevel
  <2>6. ASSUME NEW p \in Surface, NEW k, p # <<x, y>>, Holds(d, i, p, k),
               Address(p[1], p[2]) = Address(x, y)
        PROVE  Holds(e, i, p, k)
    <3>1. {t, PixelType(p[1])} = {"4U", "4L"}
      BY <2>6, SameAddress DEF Surface
    <3>2. PixelType(p[1]) = u /\ u \in {"4U", "4L"}
      BY <2>1, <3>1
    <3>3. At(e, p[1], p[2]) = v /\ At(d, p[1], p[2]) = At(d, x, y)
      BY <2>6, SetAt DEF At
    <3> HIDE DEF v, e, u, t
    <3>4. /\ Holds(d, i, p, k) <=> Within(1000 * Level8(Color(u, At(d, x, y))), Righted(i, k), 17)
          /\ Holds(e, i, p, k) <=> Within(1000 * Level8(Color(u, v)), Righted(i, k), 17)
      BY <1>4, <2>4, <3>2, <3>3, HoldsLevel
    <3> QED BY <2>3, <2>6, <3>4
  <2> QED BY <1>1, <2>1, <2>3, <2>5, <2>6
<1> QED BY <1>3, <1>4

-----------------------------------------------------------------------------
(* The configuration byte: inverse i, rotation r, type t. *)
Configured(v, i, r, t) ==
  i \in 0..1 /\ r \in 0..3 /\ t \in 0..6 /\ v = 1 + 2 * i + 4 * r + 16 * t

LEMMA ConfigFields ==
  ASSUME NEW v, NEW i, NEW r, NEW t, Configured(v, i, r, t)
  PROVE  Bits(v, 0, 1) = 1 /\ Bits(v, 1, 1) = i /\ Bits(v, 2, 2) = r /\ Bits(v, 4, 4) = t
<1>1. i \in Nat /\ i < 2 /\ r \in Nat /\ r < 4 /\ t \in Nat /\ t < 16
      /\ v = 1 + 2 * i + 4 * r + 16 * t /\ v \in Nat
  BY DEF Configured
<1>2. v \div 1 = v /\ v \div 2 = i + 2 * r + 8 * t /\ v \div 4 = r + 4 * t /\ v \div 16 = t
  BY <1>1
<1>3. v % 2 = 1 /\ (i + 2 * r + 8 * t) % 2 = i /\ (r + 4 * t) % 4 = r /\ t % 16 = t
  BY <1>1
<1> QED BY <1>2, <1>3, Powers DEF Bits

LEMMA TypeCodes == \A t \in BufferType : TypeCode[t] \in 0..6
  BY DEF TypeCode, BufferType

(* A quarter turn after another: the physical place of a logical pixel. *)
LEMMA PlaceIs ==
  ASSUME turns \in 0..3, getRotation = turns,
         NEW x \in 0..(Width(bb) - 1), NEW y \in 0..(Height(bb) - 1)
  PROVE  /\ PhysicalCoordinates(bb, x, y) = Place(<<x, y>>)
         /\ Place(<<x, y>>) \in Surface
<1>1. W \in Nat /\ H \in Nat
  BY SizeAssumption, SideInt
<1>2. bb.w = W /\ bb.h = H /\ bb.rot = turns
  BY DEF bb
<1>3. CASE turns = 0
  <2>1. Width(bb) = W /\ Height(bb) = H
    BY <1>2, <1>3 DEF Width, Height, Turned
  <2>2. PhysicalCoordinates(bb, x, y) = <<x, y>> /\ Place(<<x, y>>) = <<x, y>>
    BY <1>2, <1>3 DEF PhysicalCoordinates, Place
  <2> QED BY <1>1, <2>1, <2>2 DEF Surface
<1>4. CASE turns = 1
  <2>1. Width(bb) = H /\ Height(bb) = W
    BY <1>2, <1>4 DEF Width, Height, Turned
  <2>2. /\ PhysicalCoordinates(bb, x, y) = <<W - y - 1, x>>
        /\ Place(<<x, y>>) = <<W - y - 1, x>>
    BY <1>2, <1>4 DEF PhysicalCoordinates, Place, Quarter
  <2>3. W - y - 1 \in 0..(W - 1) /\ x \in 0..(H - 1)
    BY <1>1, <2>1
  <2> QED BY <2>2, <2>3 DEF Surface
<1>5. CASE turns = 2
  <2>1. Width(bb) = W /\ Height(bb) = H
    BY <1>2, <1>5 DEF Width, Height, Turned
  <2>2. /\ PhysicalCoordinates(bb, x, y) = <<W - x - 1, H - y - 1>>
        /\ Place(<<x, y>>) = <<W - x - 1, H - y - 1>>
    BY <1>2, <1>5 DEF PhysicalCoordinates, Place, Quarter
  <2>3. W - x - 1 \in 0..(W - 1) /\ H - y - 1 \in 0..(H - 1)
    BY <1>1, <2>1
  <2> QED BY <2>2, <2>3 DEF Surface
<1>6. CASE turns = 3
  <2>1. Width(bb) = H /\ Height(bb) = W
    BY <1>2, <1>6 DEF Width, Height, Turned
  <2>2. /\ PhysicalCoordinates(bb, x, y) = <<y, H - x - 1>>
        /\ Place(<<x, y>>) = <<W - (W - y - 1) - 1, H - x - 1>>
    BY <1>2, <1>6 DEF PhysicalCoordinates, Place, Quarter
  <2>3. y \in 0..(W - 1) /\ H - x - 1 \in 0..(H - 1) /\ W - (W - y - 1) - 1 = y
    BY <1>1, <2>1
  <2> QED BY <2>2, <2>3 DEF Surface
<1> QED BY <1>3, <1>4, <1>5, <1>6

-----------------------------------------------------------------------------
(* The inductive invariant.  The configuration byte is what was asked for; *)
(* every pixel that was set holds the luminance it was given, mirrored     *)
(* while the buffer is inverted.                                           *)
Inverted == (use.inverse + flips) % 2

ConfigInv ==
  /\ use \in Uses
  /\ turns \in 0..3 /\ flips \in Nat /\ flips <= use.inversions
  /\ Configured(config, Inverted, turns, TypeCode[use.type])

MeantInv ==
  \A p \in DOMAIN meant :
    p \in Surface /\ meant[p] \in Int /\ Holds(data, Inverted, p, meant[p])

BlitbufferInv == ConfigInv /\ MemoryFits(data) /\ MeantInv

SoundUses == \A u \in Uses : SoundUse(u)

LEMMA UseIs ==
  ASSUME ConfigInv
  PROVE  /\ use \in Use /\ Inverted \in 0..1 /\ (use.inversions = 0 => Inverted = use.inverse)
         /\ getInverse = Inverted /\ getRotation = turns /\ getType = TypeCode[use.type]
         /\ Field(0, 1) = 1
<1>1. use \in Use /\ use.inverse \in 0..1 /\ flips \in Nat /\ use.inversions \in Nat
  BY UsesAssumption DEF ConfigInv, Use
<1>2. Inverted \in 0..1 /\ (use.inversions = 0 => Inverted = use.inverse)
  BY <1>1 DEF ConfigInv, Inverted
<1>3. /\ Bits(config, 0, 1) = 1 /\ Bits(config, 1, 1) = Inverted /\ Bits(config, 2, 2) = turns
      /\ Bits(config, 4, 4) = TypeCode[use.type]
  BY ConfigFields DEF ConfigInv
<1> QED BY <1>1, <1>2, <1>3 DEF getInverse, getRotation, getType, Field

(* What depends on the use of the buffer alone stays as it is. *)
LEMMA UseKept ==
  ASSUME use' = use
  PROVE  /\ \A x, y : Address(x, y)' = Address(x, y)
         /\ \A x : PixelType(x)' = PixelType(x)
         /\ Zero' = Zero /\ Tolerance' = Tolerance /\ Value' = Value /\ Pitch' = Pitch
<1>1. Size' = Size /\ Zero' = Zero /\ Tolerance' = Tolerance /\ Value' = Value
  BY DEF Size, Zero, Tolerance, Value
<1>2. Pitch' = Pitch
  BY <1>1 DEF Pitch
<1>3. \A x, y : Address(x, y)' = Address(x, y)
  BY <1>1, <1>2 DEF Address
<1>4. \A x : PixelType(x)' = PixelType(x)
  BY DEF PixelType
<1> QED BY <1>1, <1>2, <1>3, <1>4

LEMMA HoldsPrime ==
  ASSUME use' = use, NEW p
  PROVE  Holds(data, Inverted, p, meant[p])' <=> Holds(data', Inverted', p, meant'[p])
  BY UseKept DEF Holds, Held, At

LEMMA FitsPrime ==
  ASSUME use' = use
  PROVE  MemoryFits(data)' <=> MemoryFits(data')
  BY UseKept DEF MemoryFits

LEMMA PixelsInit ==
  ASSUME BlitbufferInit
  PROVE  BlitbufferInv
<1>1. use \in Use /\ use \in Uses
  BY UsesAssumption DEF BlitbufferInit
<1>2. use.inverse \in 0..1 /\ use.inversions \in Nat /\ use.type \in BufferType
  BY <1>1 DEF Use
<1>3. TypeCode[use.type] \in 0..6
  BY <1>2, TypeCodes
<1>4. Inverted = use.inverse
  BY <1>2 DEF BlitbufferInit, Inverted
<1>5. Configured(config, Inverted, turns, TypeCode[use.type])
  BY <1>2, <1>3, <1>4 DEF BlitbufferInit, Configured
<1>6. ConfigInv
  BY <1>1, <1>2, <1>5 DEF BlitbufferInit, ConfigInv
<1>7. DOMAIN data = {} /\ DOMAIN meant = {}
  BY DEF BlitbufferInit
<1> QED BY <1>6, <1>7 DEF BlitbufferInv, MemoryFits, MeantInv

LEMMA SetPixelKeeps ==
  ASSUME SoundUses, BlitbufferInv,
         NEW x \in 0..(Width(bb) - 1), NEW y \in 0..(Height(bb) - 1), setPixel(x, y)
  PROVE  BlitbufferInv'
<1>1. use' = use /\ config' = config /\ turns' = turns /\ flips' = flips
  BY DEF setPixel
<1>2. ConfigInv /\ MemoryFits(data) /\ MeantInv /\ SoundUse(use)
  BY DEF BlitbufferInv, SoundUses, ConfigInv
<1>3. /\ use \in Use /\ Inverted \in 0..1 /\ (use.inversions = 0 => Inverted = use.inverse)
      /\ getInverse = Inverted /\ getRotation = turns
  BY <1>2, UseIs
<1>4. ConfigInv' /\ Inverted' = Inverted
  BY <1>1, <1>2 DEF ConfigInv, Inverted
<1> DEFINE P == Place(<<x, y>>)
           i == P[1]
           j == P[2]
<1>5. PhysicalCoordinates(bb, x, y) = P /\ P \in Surface
  BY <1>2, <1>3, PlaceIs DEF ConfigInv
<1>6. P = <<i, j>> /\ i \in 0..(W - 1) /\ j \in 0..(H - 1)
  BY <1>5 DEF Surface
<1> HIDE DEF P
<1>7. PICK raw \in Raw :
        LET c == Upright(Inverted, Read(raw))
        IN  /\ data' = Set(data, Address(i, j), ValueIn(data, i, j, c))
            /\ meant' = [q \in DOMAIN meant \cup {P} |-> IF q = P THEN Level(raw) ELSE meant[q]]
  BY <1>3, <1>5 DEF setPixel, Upright, Read, Level, Set, ValueIn, SetValue, Stored, At, P
<1> DEFINE c == Upright(Inverted, Read(raw))
           v == ValueIn(data, i, j, c)
<1>8. c \in ColourOf(use.source) /\ Luminance(c) = Righted(Inverted, Level(raw)) /\ Level(raw) \in Int
  BY <1>2, <1>3, ReadColour
<1> HIDE DEF c
<1>9. /\ v \in Value
      /\ Holds(data', Inverted, P, Level(raw))
      /\ \A p \in Surface : \A k : p # P /\ Holds(data, Inverted, p, k) => Holds(data', Inverted, p, k)
  <2>1. data' = Set(data, Address(i, j), v)
    BY <1>7 DEF c
  <2> HIDE DEF i, j
  <2> QED BY <1>2, <1>3, <1>6, <1>8, <2>1, SetHolds
<1>10. MemoryFits(data)'
  <2>1. Address(i, j) \in 0..(Pitch * H - 1)
    BY <1>3, <1>6, AddressWithin
  <2>2. data' = Set(data, Address(i, j), v)
    BY <1>7 DEF c
  <2> HIDE DEF v, i, j
  <2>3. MemoryFits(data')
    BY <1>2, <1>9, <2>1, <2>2, SetFits
  <2> QED BY <1>1, <2>3, FitsPrime
<1>11. MeantInv'
  <2>1. SUFFICES ASSUME NEW p \in DOMAIN meant'
                 PROVE  p \in Surface /\ meant'[p] \in Int /\ Holds(data', Inverted', p, meant'[p])
    BY <1>1, HoldsPrime DEF MeantInv, Surface
  <2>2. CASE p = P
    BY <1>4, <1>5, <1>7, <1>8, <1>9, <2>2
  <2>3. CASE p # P
    <3>1. p \in DOMAIN meant /\ meant'[p] = meant[p]
      BY <1>7, <2>3
    <3> QED BY <1>2, <1>4, <1>9, <2>3, <3>1 DEF MeantInv
  <2> QED BY <2>2, <2>3
<1> QED BY <1>4, <1>10, <1>11 DEF BlitbufferInv

LEMMA RotateKeeps ==
  ASSUME BlitbufferInv, NEW degree \in {90, -90}, rotate(degree)
  PROVE  BlitbufferInv'
<1>1. use' = use /\ data' = data /\ flips' = flips /\ meant' = meant
  BY DEF rotate
<1>2. ConfigInv /\ MemoryFits(data) /\ MeantInv
  BY DEF BlitbufferInv
<1>3. turns \in 0..3 /\ getRotation = turns /\ Field(2, 2) = turns
      /\ Configured(config, Inverted, turns, TypeCode[use.type])
  BY <1>2, UseIs DEF ConfigInv, getRotation
<1> DEFINE r == ((degree + 90 * turns) % 360) \div 90
<1>4. turns' = r /\ r \in 0..3
  <2>1. turns' = (turns + (degree \div 90)) % 4
    BY DEF rotate
  <2>2. turns = 0 \/ turns = 1 \/ turns = 2 \/ turns = 3
    BY <1>3
  <2>3. CASE degree = 90
    <3>1. degree \div 90 = 1
      BY <2>3
    <3> QED BY <2>1, <2>2, <2>3, <3>1
  <2>4. CASE degree = -90
    <3>1. degree \div 90 = -1
      BY <2>4
    <3> QED BY <2>1, <2>2, <2>4, <3>1
  <2> QED BY <2>3, <2>4
<1>5. config' = config + (r - turns) * 4
  BY <1>3, Powers DEF rotate, SetField
<1> HIDE DEF r
<1>6. Inverted' = Inverted
  BY <1>1 DEF Inverted
<1>7. Configured(config', Inverted, r, TypeCode[use.type])
  BY <1>3, <1>4, <1>5 DEF Configured
<1>8. ConfigInv'
  BY <1>1, <1>2, <1>4, <1>6, <1>7 DEF ConfigInv
<1>9. MemoryFits(data)' /\ MeantInv'
  BY <1>1, <1>2, <1>6, FitsPrime, HoldsPrime DEF MeantInv, Surface
<1> QED BY <1>8, <1>9 DEF BlitbufferInv

LEMMA InvertKeeps ==
  ASSUME BlitbufferInv, invert
  PROVE  BlitbufferInv'
<1>1. use' = use /\ data' = data /\ turns' = turns /\ flips' = flips + 1
      /\ flips < use.inversions /\ meant' = [p \in DOMAIN meant |-> Mirrored(meant[p])]
  BY DEF invert
<1>2. ConfigInv /\ MemoryFits(data) /\ MeantInv
  BY DEF BlitbufferInv
<1>3. /\ getInverse = Inverted /\ Field(1, 1) = Inverted /\ Inverted \in 0..1 /\ use \in Use
      /\ Configured(config, Inverted, turns, TypeCode[use.type])
  BY <1>2, UseIs DEF ConfigInv, getInverse
<1>4. Inverted' = 1 - Inverted
  <2>1. use.inverse \in 0..1 /\ flips \in Nat
    BY <1>2, <1>3 DEF ConfigInv, Use
  <2> QED BY <1>1, <2>1 DEF Inverted
<1>5. config' = config + (((Inverted + 1) % 2) - Inverted) * 2
  BY <1>3, Powers DEF invert, SetField
<1>6. Configured(config', 1 - Inverted, turns, TypeCode[use.type])
  <2> DEFINE n == Inverted
             t == TypeCode[use.type]
  <2>1. (n + 1) % 2 = 1 - n
    BY <1>3
  <2> HIDE DEF n
  <2>2. n \in 0..1 /\ 1 - n \in 0..1 /\ config' = config + (1 - n - n) * 2
    BY <1>3, <1>5, <2>1 DEF n
  <2>3. n \in 0..1 /\ turns \in 0..3 /\ t \in 0..6 /\ config = 1 + 2 * n + 4 * turns + 16 * t
    BY <1>3 DEF Configured, n
  <2> HIDE DEF t
  <2>4. config' = 1 + 2 * (1 - n) + 4 * turns + 16 * t
    BY <2>2, <2>3
  <2>5. Configured(config', 1 - n, turns, t)
    BY <2>2, <2>3, <2>4 DEF Configured
  <2> QED BY <2>5 DEF n, t
<1>7. ConfigInv'
  <2>1. flips' \in Nat /\ flips' <= use.inversions
    BY <1>1, <1>2, <1>3 DEF ConfigInv, Use
  <2> QED BY <1>1, <1>2, <1>4, <1>6, <2>1 DEF ConfigInv
<1>8. MemoryFits(data)'
  BY <1>1, <1>2, FitsPrime
<1>9. ASSUME NEW p \in DOMAIN meant
      PROVE  meant'[p] \in Int /\ Righted(Inverted', meant'[p]) = Righted(Inverted, meant[p])
  <2>1. meant[p] \in Int /\ meant'[p] = Mirrored(meant[p])
    BY <1>1, <1>2 DEF MeantInv
  <2>2. Mirrored(meant[p]) \in Int /\ Mirrored(Mirrored(meant[p])) = meant[p]
    BY <2>1, MirrorTwice
  <2>3. (Inverted = 0 /\ Inverted' = 1) \/ (Inverted = 1 /\ Inverted' = 0)
    BY <1>3, <1>4
  <2> QED BY <2>1, <2>2, <2>3 DEF Righted
<1>10. MeantInv'
  <2>1. SUFFICES ASSUME NEW p \in DOMAIN meant'
                 PROVE  p \in Surface /\ meant'[p] \in Int /\ Holds(data', Inverted', p, meant'[p])
    BY <1>1, HoldsPrime DEF MeantInv, Surface
  <2>2. p \in DOMAIN meant
    BY <1>1
  <2>3. p \in Surface /\ Holds(data, Inverted, p, meant[p])
    BY <1>2, <2>2 DEF MeantInv
  <2> QED BY <1>1, <1>9, <2>2, <2>3 DEF Holds
<1> QED BY <1>7, <1>8, <1>10 DEF BlitbufferInv

-----------------------------------------------------------------------------
(* What is seen of a pixel is what it holds, mirrored when the buffer is   *)
(* inverted.                                                               *)
LEMMA InvFaithful ==
  ASSUME BlitbufferInv
  PROVE  PixelsKept
<1>1. ConfigInv /\ MemoryFits(data) /\ MeantInv
  BY DEF BlitbufferInv
<1>2. /\ use \in Use /\ Inverted \in 0..1 /\ getInverse = Inverted /\ getRotation = turns
      /\ getType = TypeCode[use.type] /\ Field(0, 1) = 1
  BY <1>1, UseIs
<1>3. BlitbufferTypeOK
  BY <1>1, <1>2 DEF BlitbufferTypeOK, MemoryFits, Inverted
<1>4. Tolerance \in {1, 2, 8, 17}
  BY <1>2 DEF Tolerance, Use, BufferType, RGB
<1>5. ASSUME NEW p \in DOMAIN meant
      PROVE  Displayed(p) - meant[p] \in (-1000 * Tolerance)..(1000 * Tolerance)
  <2> DEFINE c == Held(data, p)
             l == meant[p]
  <2>1. l \in Int /\ c \in Steady(PixelType(p[1])) /\ Within(Luminance(c), Righted(Inverted, l), Tolerance)
    BY <1>1 DEF MeantInv, Holds
  <2>2. PixelType(p[1]) \in ColorType
    BY <1>2 DEF PixelType, Use, BufferType, ColorType, Grey, RGB
  <2>3. Luminance(c) \in Nat /\ Luminance(Invert(c)) = Mirrored(Luminance(c))
    BY <2>1, <2>2, InvertSteady
  <2>4. Displayed(p) = Luminance(IF Inverted = 1 THEN Invert(c) ELSE c)
    BY <1>2 DEF Displayed, Held, Stored, At
  <2> HIDE DEF c, l
  <2>5. CASE Inverted = 1
    <3>1. Displayed(p) = White - Luminance(c)
      BY <2>3, <2>4, <2>5 DEF Mirrored
    <3>2. Within(Luminance(c), White - l, Tolerance)
      BY <2>1, <2>5 DEF Righted, Mirrored
    <3>3. Displayed(p) - l \in (-1000 * Tolerance)..(1000 * Tolerance)
      BY <1>4, <2>1, <2>3, <3>1, <3>2 DEF Within, White
    <3> QED BY <3>3 DEF l
  <2>6. CASE Inverted # 1
    <3>1. Displayed(p) = Luminance(c)
      BY <2>4, <2>6
    <3>2. Within(Luminance(c), l, Tolerance)
      BY <2>1, <2>6 DEF Righted
    <3>3. Displayed(p) - l \in (-1000 * Tolerance)..(1000 * Tolerance)
      BY <1>4, <2>1, <2>3, <3>1, <3>2 DEF Within
    <3> QED BY <3>3 DEF l
  <2> QED BY <2>5, <2>6
<1> QED BY <1>3, <1>5 DEF PixelsKept, Faithful

(* Whatever is set, turned and inverted, in a buffer of any size: a pixel  *)
(* keeps its place and its luminance, in every use whose conversions are   *)
(* right (blitbuffer.lua:237-241).                                         *)
THEOREM PixelsKeptHolds ==
  ASSUME SoundUses
  PROVE  BlitbufferSpec => []PixelsKept
<1>1. BlitbufferInit => BlitbufferInv
  BY PixelsInit
<1>2. BlitbufferInv /\ [BlitbufferNext]_blitbufferVars => BlitbufferInv'
  <2>1. SUFFICES ASSUME BlitbufferInv, [BlitbufferNext]_blitbufferVars
                 PROVE  BlitbufferInv'
    OBVIOUS
  <2>2. ASSUME NEW x \in 0..(Width(bb) - 1), NEW y \in 0..(Height(bb) - 1), setPixel(x, y)
        PROVE  BlitbufferInv'
    BY <2>1, <2>2, SetPixelKeeps
  <2>3. ASSUME NEW degree \in {90, -90}, rotate(degree)
        PROVE  BlitbufferInv'
    BY <2>1, <2>3, RotateKeeps
  <2>4. ASSUME invert
        PROVE  BlitbufferInv'
    BY <2>1, <2>4, InvertKeeps
  <2>5. ASSUME UNCHANGED blitbufferVars
        PROVE  BlitbufferInv'
    <3>1. use' = use /\ config' = config /\ data' = data /\ turns' = turns /\ flips' = flips
          /\ meant' = meant
      BY <2>5 DEF blitbufferVars
    <3>2. Inverted' = Inverted
      BY <3>1 DEF Inverted
    <3> QED BY <2>1, <3>1, <3>2, FitsPrime, HoldsPrime
            DEF BlitbufferInv, ConfigInv, MeantInv, Surface
  <2> QED BY <2>1, <2>2, <2>3, <2>4, <2>5 DEF BlitbufferNext
<1>3. BlitbufferInv => PixelsKept
  BY InvFaithful
<1> QED BY <1>1, <1>2, <1>3, PTL DEF BlitbufferSpec
=============================================================================
