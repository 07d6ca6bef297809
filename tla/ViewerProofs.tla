---------------------------- MODULE ViewerProofs ----------------------------
(***************************************************************************)
(* Proofs about Viewer, for every number of connections and devices, every *)
(* size of screen, desktop and wire, and every choice of options.          *)
(***************************************************************************)
EXTENDS Viewer, GeometryLemmas, SequenceTheorems, FiniteSetTheorems

(* What the types of TypeOK rest on: the thread has a client except while  *)
(* connecting, it handles input only if there is some, and a device that   *)
(* poll() reported readable still has its event.                           *)
Consistent ==
  /\ pc \in {"connect", "connect failed"} \/ client # 0
  /\ pc = "input" => input_queue # <<>>
  /\ \A k \in Keyboard : <<k, "IN">> \in ready => device[k] # <<>>

IInv == TypeOK /\ TimerMatchesDamage /\ Consistent

-----------------------------------------------------------------------------
(* The operators of the event loop. *)

LEMMA OrdersType ==
  ASSUME fds \subseteq Fd
  PROVE  Orders(fds) \subseteq Seq(Fd)
<1>1. IsFiniteSet(fds)
  BY DescriptorAssumption, FS_Subset
<1>2. Cardinality(fds) \in Nat
  BY <1>1, FS_CardinalityType
<1>3. ASSUME NEW s \in [1..Cardinality(fds) -> fds]
      PROVE  s \in Seq(Fd)
  <2>1. s \in [1..Cardinality(fds) -> Fd]
    OBVIOUS
  <2> QED BY <1>2, <2>1
<1> QED BY <1>3 DEF Orders

LEMMA TimerRecord == \A t \in Timer : Seen(t) \in Timer /\ Seen(t).id = t.id
BY DEF Timer, Seen

LEMMA SeenTimers ==
  ASSUME timers \in Seq(Timer),
         NEW seen, seen = [i \in 1..Len(timers) |-> Seen(timers[i])]
  PROVE  /\ seen \in Seq(Timer) /\ Len(seen) = Len(timers)
         /\ \A i \in 1..Len(timers) : seen[i].id = timers[i].id
<1>1. Len(timers) \in Nat /\ \A i \in 1..Len(timers) : timers[i] \in Timer
  BY ElementOfSeq
<1>2. \A i \in 1..Len(timers) : Seen(timers[i]) \in Timer /\ Seen(timers[i]).id = timers[i].id
  BY <1>1, TimerRecord
<1>3. seen \in [1..Len(timers) -> Timer]
  BY <1>2
<1>4. seen \in Seq(Timer) /\ Len(seen) = Len(timers)
  BY <1>1, <1>3
<1> QED BY <1>2, <1>4

(* Removing the only element leaves nothing.                               *)
LEMMA RemoveOnly ==
  ASSUME NEW s \in Seq(Timer), Len(s) = 1
  PROVE  RemoveAt(s, 1) = <<>>
<1>1. SubSeq(s, 1, 1 - 1) = <<>>
  BY SubSeqEmpty
<1>2. SubSeq(s, 1 + 1, Len(s)) = <<>>
  BY SubSeqEmpty
<1>3. <<>> \in Seq(Timer) /\ <<>> \o <<>> = <<>>
  BY ConcatEmptySeq, EmptySeq
<1> QED BY <1>1, <1>2, <1>3 DEF RemoveAt

-----------------------------------------------------------------------------
(* Rectangles. *)

LEMMA BoundingBoxType ==
  ASSUME NEW a \in DamageArea, NEW b \in DamageArea
  PROVE  BoundingBox(a, b) \in DamageArea
BY DEF BoundingBox, DamageArea, Lesser, Greater, Rect

LEMMA RectsType ==
  ASSUME NEW r \in Rects
  PROVE  r \in DamageArea /\ r # None /\ Pixels(r) \subseteq DesktopPixels
<1>1. r \in DamageArea /\ r # None
  BY RectsAssumption, NameAssumption DEF DamageArea
<1>2. Width(Desktop) \in Int /\ Height(Desktop) \in Int
  BY ScreenAssumption, SizeTypes, SideInt
<1>3. r.x + r.w <= Width(Desktop) /\ r.y + r.h <= Height(Desktop)
  BY RectsAssumption
<1>4. Pixels(r) \subseteq DesktopPixels
  BY <1>1, <1>2, <1>3 DEF Pixels, DesktopPixels, Rect, DamageArea
<1> QED BY <1>1, <1>4

LEMMA AreaType ==
  ASSUME NEW r \in DamageArea
  PROVE  r.w * r.h \in Nat
<1>1. r.w \in Nat /\ r.h \in Nat
  BY DEF DamageArea
<1>2. \A m, n \in Nat : m * n \in Nat
  OBVIOUS
<1> QED BY <1>1, <1>2

-----------------------------------------------------------------------------
(* The steps of the main loop and of connecting. *)

LEMMA InitHolds == Init => IInv
<1> SUFFICES ASSUME Init PROVE IInv
  OBVIOUS
<1>1. \A S : <<>> \in Seq(S)
  BY EmptySeq
<1>2. LoopTypeOK /\ pc \in Running
  BY <1>1, DescriptorAssumption DEF Init, LoopTypeOK, Running
<1>3. /\ wire \in [Connection -> Seq(Token)] /\ buffered \in [Connection -> Nat]
      /\ peer \in [Connection -> PeerState] /\ device \in [Keyboard -> Seq(KeyEvent)]
      /\ input_queue \in Seq(KeyEvent)
  BY <1>1 DEF Init, PeerState
<1>4. TypeOK
  <2>0. 0 \in 0..Connections
    <3>1. Connections \in Nat
      BY DescriptorAssumption
    <3> QED BY <3>1
  <2>1. client \in 0..Connections /\ connected \in BOOLEAN
    BY <2>0 DEF Init
  <2>2. damage \in DamageArea \cup {None} /\ refresh_full_ctr \in Nat
    BY DEF Init
  <2>3. asked \in BOOLEAN /\ sending \in BOOLEAN /\ unplugged \subseteq Keyboard
    BY DEF Init
  <2>4. stale \subseteq DesktopPixels /\ unshown \subseteq Int \X Int
    BY DEF Init
  <2> QED BY <1>2, <1>3, <2>1, <2>2, <2>3, <2>4 DEF TypeOK
<1>5. TimerMatchesDamage /\ Consistent
  BY DEF Init, TimerMatchesDamage, Consistent
<1> QED BY <1>4, <1>5 DEF IInv

LEMMA ConnectStep == IInv /\ connect => IInv'
<1> SUFFICES ASSUME IInv, connect PROVE IInv'
  OBVIOUS
<1> USE DEF IInv
<1>1. client + 1 \in Connection
  BY DescriptorAssumption DEF TypeOK, connect, Connection
<1>2. LoopTypeOK'
  <2>1. client + 1 \in Fd
    BY <1>1, DescriptorAssumption
  <2> QED BY <2>1 DEF TypeOK, LoopTypeOK, connect, register_fd
<1>3. peer' \in [Connection -> PeerState]
  BY DEF TypeOK, connect, PeerState
<1>4. client' \in 0..Connections
  BY <1>1 DEF connect, Connection
<1>5. TypeOK'
  BY <1>2, <1>3, <1>4 DEF TypeOK, connect, Running, inputVars
<1>6. TimerMatchesDamage'
  BY DEF TimerMatchesDamage, connect, Live, Running
<1>7. Consistent'
  BY <1>1 DEF Consistent, connect, inputVars, Connection
<1> QED BY <1>5, <1>6, <1>7

LEMMA MainStep ==
  IInv /\ (connectFails \/ waitForEvent \/ loopReturned \/ handleInput) => IInv'
<1> USE DEF IInv, damageVars, serverVars, inputVars, mainVars
<1>1. ASSUME IInv, connectFails PROVE IInv'
  BY <1>1 DEF connectFails, TypeOK, LoopTypeOK, TimerMatchesDamage, Consistent, Crash, Live, Running
<1>2. ASSUME IInv, waitForEvent PROVE IInv'
  BY <1>2 DEF waitForEvent, EnterLoop, TypeOK, LoopTypeOK, TimerMatchesDamage, Consistent, LoopPc, Live, Running
<1>3. ASSUME IInv, loopReturned PROVE IInv'
  BY <1>3 DEF loopReturned, TypeOK, LoopTypeOK, TimerMatchesDamage, Consistent, LoopPc, Live, Running, Crash
<1>4. ASSUME IInv, handleInput PROVE IInv'
  <2>1. Tail(input_queue) \in Seq(KeyEvent)
    BY <1>4, HeadTailProperties DEF TypeOK, Consistent, handleInput
  <2> QED
    BY <1>4, <2>1 DEF handleInput, TypeOK, LoopTypeOK, TimerMatchesDamage, Consistent, LoopPc, Live, Running, Exit
<1> QED BY <1>1, <1>2, <1>3, <1>4

-----------------------------------------------------------------------------
(* The steps of the event loop. *)

(* A list of timers keeps its relation to the damage if neither its length *)
(* nor the names in it change.                                             *)
LEMMA SameNames ==
  ASSUME IInv, damage' = damage, Live' => Live,
         timers' \in Seq(Timer), Len(timers') = Len(timers),
         \A i \in 1..Len(timers) : timers'[i].id = timers[i].id
  PROVE  TimerMatchesDamage'
<1>1. timers = <<>> => timers' = <<>>
  BY EmptySeq
<1>2. Len(timers) = 1 => timers'[1].id = timers[1].id
  OBVIOUS
<1> QED BY <1>1, <1>2 DEF IInv, TimerMatchesDamage

LEMMA IterateStep ==
  ASSUME IInv, Iterate, UNCHANGED <<damageVars, serverVars, inputVars, mainVars>>
  PROVE  IInv'
<1> USE DEF IInv, damageVars, serverVars, inputVars, mainVars
<1>1. timers \in Seq(Timer) /\ fds \subseteq Fd
  BY DEF TypeOK, LoopTypeOK
<1>2. timers' = [i \in 1..Len(timers) |-> Seen(timers[i])]
  BY DEF Iterate
<1>3. /\ timers' \in Seq(Timer) /\ Len(timers') = Len(timers)
      /\ \A i \in 1..Len(timers) : timers'[i].id = timers[i].id
  BY <1>1, <1>2, SeenTimers
<1>4. poll_fds' \in Seq(Fd) \cup {NoCache}
  BY <1>1, OrdersType DEF Iterate, check_poll_fds, TypeOK, LoopTypeOK
<1>5. TypeOK'
  BY <1>3, <1>4 DEF Iterate, TypeOK, LoopTypeOK, Running, LoopPc
<1>6. TimerMatchesDamage'
  <2>1. Live' => Live
    BY DEF Iterate, Live, Running, LoopPc
  <2> QED BY <1>3, <2>1, SameNames
<1>7. Consistent'
  BY DEF Iterate, Consistent
<1> QED BY <1>5, <1>6, <1>7

(* poll() reports descriptors that are registered, and a device as         *)
(* readable only if an event waits in it.                                  *)
LEMMA PollableType ==
  ASSUME IInv
  PROVE  /\ Pollable \subseteq Fd \X Event
         /\ \A k \in Keyboard : <<k, "IN">> \in Pollable => device[k] # <<>>
<1>1. fds \subseteq Fd
  BY DEF IInv, TypeOK, LoopTypeOK
<1>2. Pollable \subseteq fds \X Event
  BY DEF Pollable
<1>3. ASSUME NEW k \in Keyboard, <<k, "IN">> \in Pollable
      PROVE  device[k] # <<>>
  <2>1. "IN" \in DeviceEvents(k)
    BY <1>3 DEF Pollable
  <2> QED BY <2>1 DEF DeviceEvents
<1> QED BY <1>1, <1>2, <1>3

LEMMA LoopStep == IInv /\ (loopStep \/ signal) => IInv'
<1> SUFFICES ASSUME IInv, loopStep \/ signal PROVE IInv'
  OBVIOUS
<1> USE DEF IInv, damageVars, serverVars, inputVars, mainVars
<1>0. UNCHANGED <<damageVars, serverVars, inputVars, mainVars>>
  BY DEF loopStep, signal
<1>1. CASE LeaveLoop
  BY <1>0, <1>1 DEF LeaveLoop, TypeOK, LoopTypeOK, TimerMatchesDamage, Consistent, LoopPc, Live, Running
<1>2. CASE Iterate
  BY <1>0, <1>2, IterateStep
<1>3. CASE SkipTimer
  BY <1>0, <1>3 DEF SkipTimer, TypeOK, LoopTypeOK, TimerMatchesDamage, Consistent, Live
<1>4. CASE EndTimers
  BY <1>0, <1>4 DEF EndTimers, TypeOK, LoopTypeOK, TimerMatchesDamage, Consistent, LoopPc, LoopError,
                    Live, Running, Crash
<1>5. CASE PollEvents(Pollable)
  BY <1>0, <1>5, PollableType
  DEF PollEvents, TypeOK, LoopTypeOK, TimerMatchesDamage, Consistent, LoopPc, Live, Running
<1>6. CASE PollTimeout(Pollable) \/ PollInterrupted(Pollable)
  BY <1>0, <1>6 DEF PollTimeout, PollInterrupted, TypeOK, LoopTypeOK, TimerMatchesDamage, Consistent,
                    LoopPc, Live, Running
<1> QED BY <1>1, <1>2, <1>3, <1>4, <1>5, <1>6 DEF loopStep, signal

LEMMA ClockStep == IInv /\ clock => IInv'
<1> SUFFICES ASSUME IInv, clock PROVE IInv'
  OBVIOUS
<1> USE DEF IInv, damageVars, serverVars, inputVars, mainVars
<1>1. timers \in Seq(Timer)
  BY DEF TypeOK, LoopTypeOK
<1>2. PICK i \in 1..Len(timers) : timers' = [timers EXCEPT ![i].state = "past"]
  BY DEF clock, TimePasses
<1> DEFINE late == [timers[i] EXCEPT !.state = "past"]
<1>3. late \in Timer /\ late.id = timers[i].id
  <2>1. timers[i] \in Timer
    BY <1>1, <1>2, ElementOfSeq
  <2> QED BY <2>1 DEF Timer
<1>4. timers' = [timers EXCEPT ![i] = late]
  BY <1>2
<1> HIDE DEF late
<1>5. /\ timers' \in Seq(Timer) /\ Len(timers') = Len(timers)
      /\ \A j \in 1..Len(timers) : timers'[j].id = timers[j].id
  BY <1>1, <1>2, <1>3, <1>4, ExceptSeq
<1>6. TypeOK' /\ Consistent'
  BY <1>5 DEF clock, TimePasses, TypeOK, LoopTypeOK, Consistent
<1>7. TimerMatchesDamage'
  BY <1>5, SameNames DEF clock, TimePasses, Live
<1> QED BY <1>6, <1>7

-----------------------------------------------------------------------------
(* Damage and refresh. *)

(* After updateFromRFB there is damage and exactly one timer for it.       *)
LEMMA UpdateEffect ==
  ASSUME IInv, Live, NEW r \in Rects, updateFromRFB(r)
  PROVE  /\ damage' \in DamageArea /\ damage' # None
         /\ timers' \in Seq(Timer) /\ Len(timers') = 1 /\ timers'[1].id = TIMER_REFRESH
<1> USE DEF IInv
<1>1. r \in DamageArea
  BY RectsType
<1>2. damage' \in DamageArea
  BY <1>1, BoundingBoxType DEF updateFromRFB, TypeOK
<1>3. damage' # None
  BY <1>2, NameAssumption DEF DamageArea
<1>4. timers \in Seq(Timer)
  BY DEF TypeOK, LoopTypeOK
<1>5. CASE timer_running(TIMER_REFRESH)
  <2>1. Len(timers) = 1 /\ timers[1].id = TIMER_REFRESH
    <3>1. PICK i \in 1..Len(timers) : timers[i].id = TIMER_REFRESH
      BY <1>5 DEF timer_running
    <3>2. timers # <<>>
      BY <3>1, EmptySeq
    <3> QED BY <3>2 DEF TimerMatchesDamage
  <2>2. timers' = timers
    BY <1>5 DEF updateFromRFB
  <2> QED BY <1>2, <1>3, <1>4, <2>1, <2>2
<1>6. CASE ~timer_running(TIMER_REFRESH)
  <2>1. timers = <<>>
    BY <1>6 DEF timer_running, TimerMatchesDamage
  <2>2. NewTimer(TIMER_REFRESH) \in Timer /\ NewTimer(TIMER_REFRESH).id = TIMER_REFRESH
    BY NameAssumption DEF NewTimer, Timer
  <2>3. timers' = Append(timers, NewTimer(TIMER_REFRESH))
    BY <1>6 DEF updateFromRFB, register_timer
  <2>4. Len(timers) = 0
    BY <2>1
  <2> HIDE DEF NewTimer
  <2>5. /\ timers' \in Seq(Timer) /\ Len(timers') = 1
        /\ timers'[1] = NewTimer(TIMER_REFRESH)
    BY <1>4, <2>2, <2>3, <2>4, AppendProperties
  <2> QED BY <1>2, <1>3, <2>2, <2>5
<1> QED BY <1>5, <1>6

(* blitFrom writes places with integer coordinates.                        *)
LEMMA WrittenType ==
  ASSUME NEW r
  PROVE  Written(r) \subseteq Int \X Int
<1>1. Screen.w \in Int /\ Screen.h \in Int /\ Screen.rot \in {0, 1, 2, 3}
  BY ScreenAssumption, SideInt DEF BufferOf, Rotation
<1>2. ASSUME NEW p \in Pixels(BlitRect(Screen, Desktop, r))
      PROVE  PhysicalCoordinates(Screen, p[1], p[2]) \in Int \X Int
  <2>1. p[1] \in Int /\ p[2] \in Int
    BY DEF Pixels
  <2> QED BY <1>1, <2>1 DEF PhysicalCoordinates
<1> QED BY <1>2 DEF Written

(* When the refresh timer expires, there is damage, and no other timer.    *)
LEMMA ExpiredWithDamage ==
  ASSUME IInv, TimerExpired(TIMER_REFRESH)
  PROVE  damage \in DamageArea /\ damage # None /\ Len(timers) = 1 /\ pos = 1
<1>1. Live /\ pos \in Nat \ {0} /\ pos <= Len(timers)
  BY DEF IInv, TypeOK, LoopTypeOK, TimerExpired, Live, Running, LoopPc
<1>2. timers # <<>>
  BY <1>1, EmptySeq
<1>3. damage # None /\ Len(timers) = 1
  BY <1>1, <1>2 DEF IInv, TimerMatchesDamage
<1>4. pos = 1
  BY <1>1, <1>3
<1>5. damage \in DamageArea
  BY <1>3 DEF IInv, TypeOK
<1> QED BY <1>3, <1>4, <1>5

LEMMA RefreshStep == IInv /\ refreshTimerFunc => IInv'
<1> SUFFICES ASSUME IInv, refreshTimerFunc PROVE IInv'
  OBVIOUS
<1> USE DEF IInv, serverVars, inputVars, mainVars
<1>1. damage \in DamageArea /\ damage # None /\ Len(timers) = 1 /\ pos = 1
  BY ExpiredWithDamage DEF refreshTimerFunc
<1>2. timers' = <<>>
  BY <1>1, RemoveOnly DEF refreshTimerFunc, RemoveTimer, TypeOK, LoopTypeOK
<1>3. refresh_full_ctr' \in Nat
  <2>1. damage.w * damage.h \in Nat
    BY <1>1, AreaType
  <2>2. refresh_full_ctr' = refresh_full_count(damage.w * damage.h)
    BY <1>1 DEF refreshTimerFunc
  <2> QED BY <2>1, <2>2 DEF TypeOK, refresh_full_count
<1>4. unshown' \subseteq Int \X Int
  BY <1>1, WrittenType DEF refreshTimerFunc, TypeOK
<1>5. stale' \subseteq DesktopPixels
  BY <1>1 DEF refreshTimerFunc, TypeOK
<1>6. timers' \in Seq(Timer)
  BY <1>2, EmptySeq
<1>7. /\ damage' = None
      /\ UNCHANGED <<pc, fds, poll_fds, pos, running, ready, serverVars, inputVars, mainVars>>
  BY <1>1 DEF refreshTimerFunc
<1>8. TypeOK'
  BY <1>3, <1>4, <1>5, <1>6, <1>7 DEF TypeOK, LoopTypeOK
<1>9. TimerMatchesDamage' /\ Consistent'
  BY <1>2, <1>7 DEF TimerMatchesDamage, Consistent
<1> QED BY <1>8, <1>9

-----------------------------------------------------------------------------
(* Messages and the callbacks of descriptors. *)

LEMMA MessageStep == IInv /\ messagePart => IInv'
<1> SUFFICES ASSUME IInv, messagePart PROVE IInv'
  OBVIOUS
<1> USE DEF IInv, inputVars, mainVars
<1> DEFINE t == Head(wire[client])
<1>1. pc = "message" /\ Live /\ wire[client] # <<>>
  BY DEF messagePart, Live, Running
<1>2. client \in Connection
  <2>1. client # 0 /\ client \in 0..Connections /\ Connections \in Nat
    BY <1>1, DescriptorAssumption DEF TypeOK, Consistent
  <2> QED BY <2>1 DEF Connection
<1>3. wire[client] \in Seq(Token)
  BY <1>2 DEF TypeOK
<1>4. t \in Token /\ Tail(wire[client]) \in Seq(Token)
  BY <1>1, <1>3, HeadTailProperties
<1>5. wire' \in [Connection -> Seq(Token)]
  BY <1>4 DEF messagePart, TypeOK
<1>6. buffered' \in [Connection -> Nat]
  <2>1. PICK n \in ReadAhead : buffered' = [buffered EXCEPT ![client] = n - 1]
    BY DEF messagePart
  <2>2. buffered[client] \in Nat /\ Len(wire[client]) \in Nat
    BY <1>2, <1>3, LenProperties DEF TypeOK
  <2>3. n - 1 \in Nat
    BY <2>2 DEF ReadAhead
  <2> QED BY <2>1, <2>3 DEF TypeOK
<1>7. asked' \in BOOLEAN
  BY <1>4 DEF messagePart, TypeOK, Token
<1>8. /\ pc' \in {"message", "message failed", "top", "dispatch"}
      /\ ready' \subseteq ready
  BY <1>1 DEF messagePart, Dispatched
<1>9. /\ UNCHANGED <<fds, poll_fds, pos, running, refresh_full_ctr, unshown, peer, sending>>
      /\ UNCHANGED <<inputVars, mainVars>>
  BY DEF messagePart
<1>10. CASE t.rect = None
  <2>1. UNCHANGED <<damage, timers, stale>>
    BY <1>10 DEF messagePart
  <2>2. TypeOK'
    BY <2>1, <1>5, <1>6, <1>7, <1>8, <1>9 DEF TypeOK, LoopTypeOK, Running, LoopPc, Crash
  <2>3. TimerMatchesDamage'
    BY <2>1, <1>1 DEF TimerMatchesDamage
  <2>4. Consistent'
    BY <1>1, <1>8, <1>9 DEF Consistent
  <2> QED BY <2>2, <2>3, <2>4
<1>11. CASE t.rect # None
  <2>1. t.rect \in Rects
    BY <1>4, <1>11 DEF Token
  <2>2. updateFromRFB(t.rect) /\ stale' = stale \cup Pixels(t.rect)
    BY <1>11 DEF messagePart
  <2> HIDE DEF t
  <2>3. /\ damage' \in DamageArea /\ damage' # None
        /\ timers' \in Seq(Timer) /\ Len(timers') = 1 /\ timers'[1].id = TIMER_REFRESH
    BY <1>1, <2>1, <2>2, UpdateEffect
  <2>4. stale' \subseteq DesktopPixels
    BY <2>1, <2>2, RectsType DEF TypeOK
  <2>5. TypeOK'
    BY <2>3, <2>4, <1>5, <1>6, <1>7, <1>8, <1>9 DEF TypeOK, LoopTypeOK, Running, LoopPc, Crash
  <2>6. TimerMatchesDamage'
    BY <2>3 DEF TimerMatchesDamage
  <2>7. Consistent'
    BY <1>1, <1>8, <1>9 DEF Consistent
  <2> QED BY <2>5, <2>6, <2>7
<1> QED BY <1>10, <1>11

LEMMA MessageFailsStep == IInv /\ messageFails => IInv'
BY DEF IInv, messageFails, damageVars, serverVars, inputVars, mainVars,
       TypeOK, LoopTypeOK, TimerMatchesDamage, Consistent, Live, Running, Crash

LEMMA SocketStep ==
  ASSUME IInv, NEW c \in Connection, socketRead(c) \/ socketLost(c)
  PROVE  IInv'
<1> USE DEF IInv, damageVars, serverVars, inputVars, mainVars
<1>1. CASE socketRead(c)
  BY <1>1 DEF socketRead, Dispatching, TypeOK, LoopTypeOK, TimerMatchesDamage, Consistent, LoopPc, Live, Running
<1>2. CASE socketLost(c)
  <2>1. pc = "dispatch"
    BY <1>2 DEF socketLost, Dispatching
  <2>2. /\ pc' \in {"top", "dispatch", "connection lost"} /\ ready' \subseteq ready
        /\ connected' \in BOOLEAN
        /\ UNCHANGED <<fds, poll_fds, timers, pos, running, damageVars, serverVars, inputVars, client>>
    BY <1>2 DEF socketLost, Dispatched, TypeOK
  <2> QED BY <2>1, <2>2 DEF TypeOK, LoopTypeOK, TimerMatchesDamage, Consistent, LoopPc, Live, Running, Exit
<1> QED BY <1>1, <1>2

LEMMA InputStep ==
  ASSUME IInv, NEW k \in Keyboard, inputRead(k) \/ inputLost(k)
  PROVE  IInv'
<1> USE DEF IInv, damageVars, serverVars, inputVars, mainVars
<1>1. CASE inputRead(k)
  <2>1. pc = "dispatch" /\ <<k, "IN">> \in ready
    BY <1>1 DEF inputRead, Dispatching
  <2>2. /\ pc' \in {"top", "dispatch", "input read failed"} /\ ready' \subseteq ready
        /\ UNCHANGED <<fds, poll_fds, timers, pos, damageVars, serverVars, unplugged, mainVars>>
    BY <1>1 DEF inputRead, Dispatched
  <2>3. CASE k \in unplugged
    BY <1>1, <2>1, <2>2, <2>3 DEF inputRead, TypeOK, LoopTypeOK, TimerMatchesDamage, Consistent, LoopPc,
                                  Live, Running, Crash
  <2>4. CASE k \notin unplugged
    <3>1. device[k] \in Seq(KeyEvent) /\ device[k] # <<>>
      BY <2>1 DEF TypeOK, Consistent
    <3>2. Head(device[k]) \in KeyEvent /\ Tail(device[k]) \in Seq(KeyEvent)
      BY <3>1, HeadTailProperties
    <3>3. /\ input_queue' = Append(input_queue, Head(device[k]))
          /\ device' = [device EXCEPT ![k] = Tail(@)]
          /\ running' = FALSE /\ ready' = ready \ {<<k, "IN">>}
          /\ pc' \in {"top", "dispatch"}
      BY <1>1, <2>4 DEF inputRead, abort_loop, Dispatched
    <3>4. input_queue' \in Seq(KeyEvent)
      BY <3>2, <3>3, AppendProperties DEF TypeOK
    <3>5. device' \in [Keyboard -> Seq(KeyEvent)]
      BY <3>2, <3>3 DEF TypeOK
    <3>6. \A j \in Keyboard : <<j, "IN">> \in ready' => device'[j] # <<>>
      BY <3>3 DEF TypeOK, Consistent
    <3>7. TypeOK'
      BY <2>2, <3>3, <3>4, <3>5 DEF TypeOK, LoopTypeOK, LoopPc, Running
    <3>8. TimerMatchesDamage' /\ Consistent'
      BY <2>1, <2>2, <3>3, <3>6 DEF TimerMatchesDamage, Consistent, LoopPc, Live, Running
    <3> QED BY <3>7, <3>8
  <2> QED BY <2>3, <2>4
<1>2. CASE inputLost(k)
  <2>1. pc = "dispatch"
    BY <1>2 DEF inputLost, Dispatching
  <2>2. /\ pc' \in {"top", "nil poll_fds"} /\ ready' \subseteq ready /\ poll_fds' = NoCache
        /\ UNCHANGED <<fds, timers, pos, running, damageVars, serverVars, inputVars, mainVars>>
    BY <1>2 DEF inputLost, DispatchedStale
  <2> QED BY <2>1, <2>2 DEF TypeOK, LoopTypeOK, TimerMatchesDamage, Consistent, LoopPc, LoopError,
                            Live, Running, Crash
<1> QED BY <1>1, <1>2

-----------------------------------------------------------------------------
(* The environment. *)

(* A token on the wire changes nothing else.                               *)
LEMMA DeliverStep ==
  ASSUME IInv, NEW t \in Token, Deliver(t), asked' \in BOOLEAN, sending' \in BOOLEAN
  PROVE  IInv'
<1> USE DEF IInv, loopVars, damageVars, inputVars, mainVars
<1>1. client \in Connection
  <2>1. client # 0 /\ client \in 0..Connections /\ Connections \in Nat
    BY DescriptorAssumption DEF Deliver, TypeOK
  <2> QED BY <2>1 DEF Connection
<1>2. Append(wire[client], t) \in Seq(Token)
  BY <1>1, AppendProperties DEF TypeOK
<1>3. wire' \in [Connection -> Seq(Token)]
  BY <1>2 DEF Deliver, TypeOK
<1>4. UNCHANGED <<loopVars, damageVars, buffered, peer, inputVars, mainVars>>
  BY DEF Deliver
<1>5. TypeOK'
  BY <1>3, <1>4 DEF TypeOK, LoopTypeOK
<1>6. TimerMatchesDamage' /\ Consistent'
  BY <1>4 DEF TimerMatchesDamage, Consistent, Live
<1> QED BY <1>5, <1>6

LEMMA ServerStep ==
  IInv /\ (serverBegins \/ serverContinues(TRUE) \/ serverContinues(FALSE) \/ serverRings) => IInv'
<1>1. ASSUME IInv, serverBegins PROVE IInv'
  <2>1. PICK r \in Rects, last \in BOOLEAN :
          Deliver([rect |-> r, last |-> last]) /\ asked' = FALSE /\ sending' = ~last
    BY <1>1 DEF serverBegins
  <2>2. [rect |-> r, last |-> last] \in Token
    BY DEF Token
  <2> QED BY <1>1, <2>1, <2>2, DeliverStep
<1>2. ASSUME IInv, NEW last \in BOOLEAN, serverContinues(last) PROVE IInv'
  <2>1. PICK r \in Rects : Deliver([rect |-> r, last |-> last])
    BY <1>2 DEF serverContinues
  <2>2. [rect |-> r, last |-> last] \in Token
    BY DEF Token
  <2>3. asked' \in BOOLEAN /\ sending' \in BOOLEAN
    BY <1>2 DEF serverContinues, IInv, TypeOK
  <2> QED BY <1>2, <2>1, <2>2, <2>3, DeliverStep
<1>3. ASSUME IInv, serverRings PROVE IInv'
  <2>1. Bell \in Token
    BY DEF Bell, Token
  <2>2. asked' \in BOOLEAN /\ sending' \in BOOLEAN /\ Deliver(Bell)
    BY <1>3 DEF serverRings, IInv, TypeOK
  <2> QED BY <1>3, <2>1, <2>2, DeliverStep
<1> QED BY <1>1, <1>2, <1>3

LEMMA FailureStep == IInv /\ (peerCloses \/ keyboardRemoved) => IInv'
<1> USE DEF IInv, loopVars, damageVars, serverVars, inputVars, mainVars
<1>1. ASSUME IInv, peerCloses PROVE IInv'
  BY <1>1 DEF peerCloses, TypeOK, LoopTypeOK, TimerMatchesDamage, Consistent, Live, PeerState
<1>2. ASSUME IInv, keyboardRemoved PROVE IInv'
  BY <1>2 DEF keyboardRemoved, TypeOK, LoopTypeOK, TimerMatchesDamage, Consistent, Live
<1> QED BY <1>1, <1>2

LEMMA KeyStep == IInv /\ keyPressed => IInv'
<1> SUFFICES ASSUME IInv, keyPressed PROVE IInv'
  OBVIOUS
<1> USE DEF IInv, loopVars, damageVars, serverVars, inputVars, mainVars
<1>1. PICK k \in Keyboard, e \in KeyEvent : device' = [device EXCEPT ![k] = Append(@, e)]
  BY DEF keyPressed
<1>2. UNCHANGED <<loopVars, damageVars, serverVars, input_queue, unplugged, mainVars>>
  BY DEF keyPressed
<1>3. Append(device[k], e) \in Seq(KeyEvent) /\ Append(device[k], e) # <<>>
  BY AppendProperties DEF TypeOK
<1>4. device' \in [Keyboard -> Seq(KeyEvent)]
  BY <1>1, <1>3 DEF TypeOK
<1>5. TypeOK'
  BY <1>2, <1>4 DEF TypeOK, LoopTypeOK
<1>6. Consistent'
  BY <1>1, <1>2, <1>3 DEF Consistent, TypeOK
<1>7. TimerMatchesDamage'
  BY <1>2 DEF TimerMatchesDamage, Live
<1> QED BY <1>5, <1>6, <1>7

-----------------------------------------------------------------------------
(* Theorems. *)

LEMMA NextHolds == IInv /\ [Next]_vars => IInv'
<1> SUFFICES ASSUME IInv, [Next]_vars PROVE IInv'
  OBVIOUS
<1>1. CASE Thread
  <2>1. CASE connect
    BY <2>1, ConnectStep
  <2>2. CASE connectFails \/ waitForEvent \/ loopReturned \/ handleInput
    BY <2>2, MainStep
  <2>3. CASE loopStep
    BY <2>3, LoopStep
  <2>4. CASE refreshTimerFunc
    BY <2>4, RefreshStep
  <2>5. CASE messagePart
    BY <2>5, MessageStep
  <2>6. CASE messageFails
    BY <2>6, MessageFailsStep
  <2>7. CASE \E c \in Connection : socketRead(c) \/ socketLost(c)
    BY <2>7, SocketStep
  <2>8. CASE \E k \in Keyboard : inputRead(k) \/ inputLost(k)
    BY <2>8, InputStep
  <2> QED BY <1>1, <2>1, <2>2, <2>3, <2>4, <2>5, <2>6, <2>7, <2>8 DEF Thread
<1>2. CASE Environment
  <2>1. CASE serverBegins \/ serverContinues(TRUE) \/ serverContinues(FALSE) \/ serverRings
    BY <2>1, ServerStep
  <2>2. CASE peerCloses \/ keyboardRemoved
    BY <2>2, FailureStep
  <2>3. CASE keyPressed
    BY <2>3, KeyStep
  <2>4. CASE clock
    BY <2>4, ClockStep
  <2>5. CASE signal
    BY <2>5, LoopStep
  <2> QED BY <1>2, <2>1, <2>2, <2>3, <2>4, <2>5 DEF Environment
<1>3. CASE UNCHANGED vars
  BY <1>3 DEF IInv, TypeOK, LoopTypeOK, TimerMatchesDamage, Consistent, Live,
              vars, loopVars, damageVars, serverVars, inputVars, mainVars
<1> QED BY <1>1, <1>2, <1>3 DEF Next

LEMMA Inductive == Spec => []IInv
BY InitHolds, NextHolds, PTL DEF Spec

(* Every variable keeps its type.                                          *)
THEOREM TypeCorrect == Spec => []TypeOK
<1>1. IInv => TypeOK
  BY DEF IInv
<1> QED BY <1>1, Inductive, PTL

(* Damage is pending exactly while one refresh timer is in the list        *)
(* (vncviewer.lua:101, 128-131).                                           *)
THEOREM TimerMatches == Spec => []TimerMatchesDamage
<1>1. IInv => TimerMatchesDamage
  BY DEF IInv
<1> QED BY <1>1, Inductive, PTL

(* The refresh callback never runs without damage: there is no such race   *)
(* as vncviewer.lua:72-74 suspects.                                        *)
THEOREM NeverNil == Spec => []NoNilRefresh
<1>1. IInv => NoNilRefresh
  BY ExpiredWithDamage DEF NoNilRefresh
<1> QED BY <1>1, Inductive, PTL

-----------------------------------------------------------------------------
(* The event loop never runs out of things to wait for and never returns   *)
(* without an input event, whatever fails around it.                       *)

(* The flag `running` of the loop is cleared only together with the        *)
(* arrival of an event, set before the loop is entered with an empty       *)
(* queue, and the queue is not touched before the loop has returned.       *)
Served ==
  /\ pc \in {"connect", "connect failed"} \/ fds # {}
  /\ pc \in LoopPc \cup {"message"} /\ ~running => input_queue # <<>>
  /\ pc = "returned" => input_queue # <<>>
  /\ NoInternalError

LoopInv == IInv /\ Served

LEMMA ServedNext == LoopInv /\ Next => Served'
<1> SUFFICES ASSUME LoopInv, Next PROVE Served'
  OBVIOUS
<1> USE DEF Served, NoInternalError, LoopPc, loopVars, damageVars, serverVars, inputVars, mainVars
<1>1. Served /\ running \in BOOLEAN /\ input_queue \in Seq(KeyEvent)
  BY DEF LoopInv, IInv, TypeOK, LoopTypeOK
<1>2. CASE connect \/ connectFails \/ waitForEvent \/ loopReturned \/ handleInput
  <2>1. CASE connect
    BY <1>1, <2>1 DEF connect, register_fd
  <2>2. CASE connectFails
    BY <1>1, <2>2 DEF connectFails
  <2>3. CASE waitForEvent
    BY <1>1, <2>3 DEF waitForEvent, EnterLoop
  <2>4. CASE loopReturned
    BY <1>1, <2>4 DEF loopReturned
  <2>5. CASE handleInput
    BY <1>1, <2>5 DEF handleInput
  <2> QED BY <1>2, <2>1, <2>2, <2>3, <2>4, <2>5
<1>3. CASE loopStep \/ signal
  <2>0. UNCHANGED <<fds, running, input_queue>>
    BY <1>3 DEF loopStep, signal, LeaveLoop, Iterate, SkipTimer, EndTimers, PollEvents, PollTimeout,
                PollInterrupted
  <2>1. CASE LeaveLoop
    BY <1>1, <2>0, <2>1 DEF LeaveLoop
  <2>2. CASE Iterate \/ SkipTimer
    BY <1>1, <2>0, <2>2 DEF Iterate, SkipTimer
  <2>3. CASE EndTimers
    <3>1. pc = "timers" /\ fds # {} /\ UNCHANGED <<fds, running, input_queue>>
      BY <1>1, <2>0, <2>3 DEF EndTimers
    <3>2. CASE running
      <4>1. pc' = "poll"
        BY <2>3, <3>1, <3>2 DEF EndTimers
      <4> QED BY <3>1, <3>2, <4>1
    <3>3. CASE ~running
      <4>1. pc' = "returned" /\ input_queue # <<>>
        BY <1>1, <2>3, <3>1, <3>3 DEF EndTimers
      <4> QED BY <3>1, <4>1
    <3> QED BY <3>2, <3>3
  <2>4. CASE PollEvents(Pollable) \/ PollTimeout(Pollable) \/ PollInterrupted(Pollable)
    BY <1>1, <2>0, <2>4 DEF PollEvents, PollTimeout, PollInterrupted
  <2> QED BY <1>3, <2>1, <2>2, <2>3, <2>4 DEF loopStep, signal
<1>4. CASE refreshTimerFunc
  <2>1. damage # None
    BY <1>4, ExpiredWithDamage DEF LoopInv, refreshTimerFunc
  <2>2. UNCHANGED <<pc, fds, running, input_queue>>
    BY <1>4, <2>1 DEF refreshTimerFunc
  <2> QED BY <1>1, <2>2
<1>5. CASE messagePart \/ messageFails
  <2>1. /\ pc = "message" /\ pc' \in {"message", "message failed", "top", "dispatch"}
        /\ UNCHANGED <<fds, running, input_queue>>
    BY <1>5 DEF messagePart, messageFails, Dispatched
  <2> QED BY <1>1, <2>1
<1>6. CASE \E c \in Connection : socketRead(c) \/ socketLost(c)
  <2>1. /\ pc = "dispatch" /\ pc' \in {"message", "top", "dispatch", "connection lost"}
        /\ UNCHANGED <<fds, running, input_queue>>
    BY <1>6 DEF socketRead, socketLost, Dispatching, Dispatched
  <2> QED BY <1>1, <2>1
<1>7. ASSUME NEW k \in Keyboard, inputRead(k) \/ inputLost(k)
      PROVE  Served'
  <2>1. CASE inputRead(k) /\ k \notin unplugged
    <3>1. /\ pc = "dispatch" /\ pc' \in {"top", "dispatch"} /\ UNCHANGED fds
          /\ input_queue' = Append(input_queue, Head(device[k])) /\ <<k, "IN">> \in ready
      BY <2>1 DEF inputRead, Dispatching, Dispatched
    <3>2. Head(device[k]) \in KeyEvent
      BY <3>1, HeadTailProperties DEF LoopInv, IInv, TypeOK, Consistent
    <3>3. input_queue' # <<>>
      BY <1>1, <3>1, <3>2, AppendProperties
    <3> QED BY <1>1, <3>1, <3>3
  <2>2. CASE inputLost(k) \/ (inputRead(k) /\ k \in unplugged)
    <3>1. /\ pc = "dispatch" /\ pc' \in {"top", "nil poll_fds", "input read failed"}
          /\ UNCHANGED <<fds, running, input_queue>>
      BY <2>2 DEF inputRead, inputLost, Dispatching, DispatchedStale
    <3> QED BY <1>1, <3>1
  <2> QED BY <1>7, <2>1, <2>2
<1>8. CASE Environment /\ ~signal
  <2>1. UNCHANGED <<pc, fds, running, input_queue>>
    BY <1>8 DEF Environment, serverBegins, serverContinues, serverRings, Deliver, peerCloses, keyPressed,
                keyboardRemoved, clock, TimePasses
  <2> QED BY <1>1, <2>1
<1> QED BY <1>2, <1>3, <1>4, <1>5, <1>6, <1>7, <1>8 DEF Next, Thread, Environment

(* loop() never fails for want of something to wait for, waitForEvent      *)
(* never finds its queue empty after it, and no timer runs without damage  *)
(* (eventloop.lua:207-210, input_kindle.lua:44, vncviewer.lua:76).         *)
THEOREM NoInternalErrorHolds == Spec => []NoInternalError
<1>1. Init => LoopInv
  BY InitHolds DEF Init, LoopInv, Served, LoopPc, NoInternalError
<1>2. LoopInv /\ [Next]_vars => LoopInv'
  <2>1. ASSUME LoopInv, UNCHANGED vars PROVE Served'
    BY <2>1 DEF LoopInv, Served, NoInternalError, vars, loopVars, inputVars
  <2> QED BY <2>1, NextHolds, ServedNext DEF LoopInv
<1>3. LoopInv => NoInternalError
  BY DEF LoopInv, Served
<1> QED BY <1>1, <1>2, <1>3, PTL DEF Spec

-----------------------------------------------------------------------------
(* The program ends only for a cause.                                      *)

(* What poll() has reported stays true until it is dispatched: only        *)
(* registered descriptors are in it, a connection has failed once an error *)
(* was reported for it, and a device has gone.                             *)
Reported ==
  /\ ready \subseteq fds \X Event
  /\ fds \cap Connection \subseteq 1..client
  /\ \A c \in Connection, event \in {"ERR", "HUP"} : <<c, event>> \in ready => peer[c] # "open"
  /\ \A k \in Keyboard, event \in {"ERR", "HUP"} : <<k, event>> \in ready => k \in unplugged

(* Without -reconnecting there is one connection and no way back.          *)
OneConnection ==
  ~reconnecting =>
    IF client = 0 THEN pc \in {"connect", "connect failed"}
    ELSE client = 1 /\ connected /\ pc # "connect"

CauseInv == LoopInv /\ Reported /\ OneConnection /\ EndsOnlyForCause

LEMMA PollableReported ==
  ASSUME CauseInv
  PROVE  /\ Pollable \subseteq fds \X Event
         /\ \A c \in Connection, event \in {"ERR", "HUP"} :
              <<c, event>> \in Pollable => peer[c] # "open"
         /\ \A k \in Keyboard, event \in {"ERR", "HUP"} :
              <<k, event>> \in Pollable => k \in unplugged
<1>1. Pollable \subseteq fds \X Event
  BY DEF Pollable
<1>2. ASSUME NEW c \in Connection, NEW event \in {"ERR", "HUP"}, <<c, event>> \in Pollable
      PROVE  peer[c] # "open"
  <2>1. c \notin Keyboard
    BY DescriptorAssumption
  <2>2. event \in SocketEvents(c)
    BY <1>2, <2>1 DEF Pollable
  <2> QED BY <2>2 DEF SocketEvents
<1>3. ASSUME NEW k \in Keyboard, NEW event \in {"ERR", "HUP"}, <<k, event>> \in Pollable
      PROVE  k \in unplugged
  <2>1. event \in DeviceEvents(k)
    BY <1>3 DEF Pollable
  <2> QED BY <2>1 DEF DeviceEvents
<1> QED BY <1>1, <1>2, <1>3

(* A step that reports nothing new and ends nothing changes none of this.  *)
LEMMA Uneventful ==
  ASSUME CauseInv, ready' \subseteq ready, UNCHANGED <<fds, client, connected, peer>>,
         unplugged \subseteq unplugged', pc # "connect", pc' # "connect",
         pc \in Running, pc' \in Running
  PROVE  (Reported /\ OneConnection /\ EndsOnlyForCause)'
<1>1. Reported'
  BY DEF CauseInv, Reported
<1>2. OneConnection'
  BY DEF CauseInv, OneConnection, Running, LoopPc
<1>3. EndsOnlyForCause'
  BY DEF EndsOnlyForCause
<1> QED BY <1>1, <1>2, <1>3

LEMMA CauseMain ==
  ASSUME CauseInv, connect \/ connectFails \/ waitForEvent \/ loopReturned \/ handleInput,
         NoInternalError'
  PROVE  (Reported /\ OneConnection /\ EndsOnlyForCause)'
<1> USE DEF damageVars, serverVars, inputVars, mainVars
<1>1. Reported /\ OneConnection /\ EndsOnlyForCause /\ client \in 0..Connections
      /\ peer \in [Connection -> PeerState] /\ Connections \in Nat
  BY DescriptorAssumption DEF CauseInv, LoopInv, IInv, TypeOK
<1>2. CASE connect
  <2>1. /\ client' = client + 1 /\ connected' = TRUE /\ pc = "connect" /\ pc' = "main"
        /\ peer' = [peer EXCEPT ![client + 1] = "open"]
        /\ fds' = fds \cup {client + 1} /\ UNCHANGED <<ready, unplugged>>
    BY <1>2 DEF connect, register_fd
  <2>2. \A event \in Event : <<client + 1, event>> \notin ready
    <3>1. client + 1 \notin 1..client
      BY <1>1
    <3>2. client + 1 \in Connection
      BY <1>1, <1>2 DEF connect, Connection
    <3> QED BY <1>1, <3>1, <3>2 DEF Reported
  <2>3. Reported'
    <3>1. ready' \subseteq fds' \X Event
      BY <1>1, <2>1 DEF Reported
    <3>2. fds' \cap Connection \subseteq 1..client'
      BY <1>1, <2>1 DEF Reported, Connection
    <3>3. \A c \in Connection, event \in {"ERR", "HUP"} : <<c, event>> \in ready' => peer'[c] # "open"
      BY <1>1, <2>1, <2>2 DEF Reported, Event
    <3>4. \A k \in Keyboard, event \in {"ERR", "HUP"} : <<k, event>> \in ready' => k \in unplugged'
      BY <1>1, <2>1 DEF Reported
    <3> QED BY <3>1, <3>2, <3>3, <3>4 DEF Reported
  <2>4. OneConnection'
    BY <1>1, <2>1 DEF OneConnection
  <2>5. EndsOnlyForCause'
    BY <2>1 DEF EndsOnlyForCause, Running
  <2> QED BY <2>3, <2>4, <2>5
<1>3. CASE connectFails
  BY <1>1, <1>3 DEF connectFails, Reported, OneConnection, EndsOnlyForCause
<1>4. CASE waitForEvent
  BY <1>1, <1>4 DEF waitForEvent, EnterLoop, Reported, OneConnection, EndsOnlyForCause, Running, LoopPc
<1>5. CASE loopReturned
  BY <1>1, <1>5 DEF loopReturned, Reported, OneConnection, EndsOnlyForCause, Running, NoInternalError
<1>6. CASE handleInput
  BY <1>1, <1>6 DEF handleInput, Reported, OneConnection, EndsOnlyForCause, Running
<1> QED BY <1>2, <1>3, <1>4, <1>5, <1>6

LEMMA CauseLoop ==
  ASSUME CauseInv, loopStep \/ signal, NoInternalError'
  PROVE  (Reported /\ OneConnection /\ EndsOnlyForCause)'
<1> USE DEF damageVars, serverVars, inputVars, mainVars
<1>1. UNCHANGED <<fds, client, connected, peer, unplugged>>
  BY DEF loopStep, signal, LeaveLoop, Iterate, SkipTimer, EndTimers, PollEvents, PollTimeout,
         PollInterrupted
<1>2. CASE PollEvents(Pollable)
  <2>1. ready' = Pollable /\ pc = "poll" /\ pc' = "dispatch"
    BY <1>2 DEF PollEvents
  <2>2. Reported'
    BY <1>1, <2>1, PollableReported DEF CauseInv, Reported
  <2>3. OneConnection' /\ EndsOnlyForCause'
    BY <1>1, <2>1 DEF CauseInv, OneConnection, EndsOnlyForCause, Running, LoopPc
  <2> QED BY <2>2, <2>3
<1>3. CASE ~PollEvents(Pollable)
  <2>1. /\ ready' = ready /\ pc \in {"top", "timers", "poll"}
        /\ pc' \in {"top", "timers", "poll", "returned", "nothing to wait for"}
    BY <1>3 DEF loopStep, signal, LeaveLoop, Iterate, SkipTimer, EndTimers, PollTimeout, PollInterrupted
  <2>2. pc \in Running /\ pc' \in Running /\ pc # "connect" /\ pc' # "connect"
    BY <2>1 DEF NoInternalError, Running, LoopPc
  <2> QED BY <1>1, <2>1, <2>2, Uneventful
<1> QED BY <1>2, <1>3

LEMMA CauseCallbacks ==
  ASSUME CauseInv, NoInternalError',
         \/ refreshTimerFunc \/ messagePart \/ messageFails
         \/ \E c \in Connection : socketRead(c) \/ socketLost(c)
         \/ \E k \in Keyboard : inputRead(k) \/ inputLost(k)
  PROVE  (Reported /\ OneConnection /\ EndsOnlyForCause)'
<1> USE DEF damageVars, serverVars, inputVars, mainVars
<1>1. Reported /\ OneConnection /\ EndsOnlyForCause
  BY DEF CauseInv
<1>2. CASE refreshTimerFunc
  <2>1. damage # None
    BY <1>2, ExpiredWithDamage DEF CauseInv, LoopInv, refreshTimerFunc
  <2>2. pc = "timers" /\ UNCHANGED <<pc, ready, fds, client, connected, peer, unplugged>>
    BY <1>2, <2>1 DEF refreshTimerFunc, TimerExpired
  <2> QED BY <2>2, Uneventful DEF Running, LoopPc
<1>3. CASE messagePart \/ messageFails
  <2>1. /\ pc = "message" /\ ready' \subseteq ready
        /\ pc' \in {"message", "top", "dispatch"} \/ (pc' = "message failed" /\ peer[client] # "open")
        /\ UNCHANGED <<fds, client, connected, peer, unplugged>>
    BY <1>3 DEF messagePart, messageFails, Dispatched
  <2>2. CASE pc' \in {"message", "top", "dispatch"}
    BY <2>1, <2>2, Uneventful DEF Running, LoopPc
  <2>3. CASE pc' = "message failed" /\ peer[client] # "open"
    BY <1>1, <2>1, <2>3 DEF Reported, OneConnection, EndsOnlyForCause
  <2> QED BY <2>1, <2>2, <2>3
<1>4. ASSUME NEW c \in Connection, socketRead(c)
      PROVE  (Reported /\ OneConnection /\ EndsOnlyForCause)'
  <2>1. /\ pc = "dispatch" /\ pc' = "message"
        /\ UNCHANGED <<ready, fds, client, connected, peer, unplugged>>
    BY <1>4 DEF socketRead, Dispatching
  <2> QED BY <2>1, Uneventful DEF Running, LoopPc
<1>5. ASSUME NEW c \in Connection, socketLost(c)
      PROVE  (Reported /\ OneConnection /\ EndsOnlyForCause)'
  <2>1. PICK event \in {"ERR", "HUP"} :
          /\ pc = "dispatch" /\ <<c, event>> \in ready /\ ready' \subseteq ready
          /\ UNCHANGED <<fds, client, peer, unplugged>>
          /\ IF reconnecting THEN pc' \in {"top", "dispatch"}
             ELSE pc' = "connection lost" /\ UNCHANGED connected
    BY <1>5 DEF socketLost, Dispatching, Dispatched
  <2>2. Reported'
    BY <1>1, <2>1 DEF Reported
  <2>3. CASE reconnecting
    BY <2>1, <2>2, <2>3 DEF OneConnection, EndsOnlyForCause, Running, LoopPc
  <2>4. CASE ~reconnecting
    <3>1. client = 1
      BY <1>1, <2>1, <2>4 DEF OneConnection
    <3>2. c = client
      <4>1. c \in fds \cap Connection
        BY <1>1, <2>1 DEF Reported
      <4>2. c \in 1..1
        BY <1>1, <3>1, <4>1 DEF Reported
      <4> QED BY <3>1, <4>2
    <3>3. peer[client] # "open"
      BY <1>1, <2>1, <3>2 DEF Reported
    <3> QED BY <1>1, <2>1, <2>2, <2>4, <3>3 DEF OneConnection, EndsOnlyForCause
  <2> QED BY <2>3, <2>4
<1>6. ASSUME NEW k \in Keyboard, inputRead(k) \/ inputLost(k)
      PROVE  (Reported /\ OneConnection /\ EndsOnlyForCause)'
  <2>1. /\ pc = "dispatch" /\ ready' \subseteq ready
        /\ UNCHANGED <<fds, client, connected, peer, unplugged>>
        /\ pc' \in {"top", "dispatch"}
           \/ (pc' \in {"input read failed", "nil poll_fds"} /\ k \in unplugged)
    <3>1. CASE inputRead(k)
      BY <3>1 DEF inputRead, Dispatching, Dispatched
    <3>2. CASE inputLost(k)
      BY <1>1, <3>2 DEF inputLost, Dispatching, DispatchedStale, Reported
    <3> QED BY <1>6, <3>1, <3>2
  <2>2. CASE pc' \in {"top", "dispatch"}
    BY <2>1, <2>2, Uneventful DEF Running, LoopPc
  <2>3. CASE pc' \notin {"top", "dispatch"}
    BY <1>1, <2>1, <2>3 DEF Reported, OneConnection, EndsOnlyForCause
  <2> QED BY <2>2, <2>3
<1> QED BY <1>2, <1>3, <1>4, <1>5, <1>6

LEMMA CauseEnvironment ==
  ASSUME CauseInv, Environment, ~signal
  PROVE  (Reported /\ OneConnection /\ EndsOnlyForCause)'
<1> USE DEF loopVars, damageVars, serverVars, inputVars, mainVars
<1>1. Reported /\ OneConnection /\ EndsOnlyForCause /\ peer \in [Connection -> PeerState]
  BY DEF CauseInv, LoopInv, IInv, TypeOK
<1>2. /\ pc \in Running /\ UNCHANGED <<pc, ready, fds, client, connected>>
      /\ unplugged \subseteq unplugged'
      /\ \A c \in Connection : peer[c] # "open" => peer'[c] # "open"
  <2>1. CASE peerCloses
    BY <1>1, <2>1 DEF peerCloses, Live
  <2>2. CASE ~peerCloses
    BY <2>2 DEF Environment, serverBegins, serverContinues, serverRings, Deliver, keyPressed,
                keyboardRemoved, clock, TimePasses, Live
  <2> QED BY <2>1, <2>2
<1>3. Reported'
  BY <1>1, <1>2 DEF Reported
<1>4. OneConnection' /\ EndsOnlyForCause'
  BY <1>1, <1>2 DEF OneConnection, EndsOnlyForCause
<1> QED BY <1>3, <1>4

(* The program ends because the user quits or no connection could be made, *)
(* or because the server has closed the one it has or a device has gone,   *)
(* and for no other reason (vncviewer.lua:284-320, input_kindle.lua:13-46, *)
(* eventloop.lua:203-241).                                                 *)
THEOREM EndsOnlyForCauseHolds == Spec => []EndsOnlyForCause
<1>1. Init => CauseInv
  <2>1. Init => LoopInv
    BY InitHolds DEF Init, LoopInv, Served, LoopPc, NoInternalError
  <2>2. Init => Reported /\ OneConnection /\ EndsOnlyForCause
    BY DescriptorAssumption DEF Init, Reported, OneConnection, EndsOnlyForCause, Running
  <2> QED BY <2>1, <2>2 DEF CauseInv
<1>2. ASSUME CauseInv, [Next]_vars PROVE CauseInv'
  <2>1. LoopInv'
    <3>1. ASSUME UNCHANGED vars PROVE Served'
      BY <1>2, <3>1 DEF CauseInv, LoopInv, Served, NoInternalError, vars, loopVars, inputVars
    <3> QED BY <1>2, <3>1, NextHolds, ServedNext DEF CauseInv, LoopInv
  <2>2. NoInternalError'
    BY <2>1 DEF LoopInv, Served
  <2>3. (Reported /\ OneConnection /\ EndsOnlyForCause)'
    <3>1. CASE UNCHANGED vars
      BY <1>2, <3>1 DEF CauseInv, Reported, OneConnection, EndsOnlyForCause,
                        vars, loopVars, serverVars, inputVars, mainVars
    <3>2. CASE Thread
      BY <1>2, <2>2, <3>2, CauseMain, CauseLoop, CauseCallbacks DEF Thread
    <3>3. CASE Environment
      BY <1>2, <2>2, <3>3, CauseLoop, CauseEnvironment
    <3> QED BY <1>2, <3>1, <3>2, <3>3 DEF Next
  <2> QED BY <2>1, <2>3 DEF CauseInv
<1>3. CauseInv => EndsOnlyForCause
  BY DEF CauseInv
<1> QED BY <1>1, <1>2, <1>3, PTL DEF Spec

-----------------------------------------------------------------------------
(***************************************************************************)
(* What is on the screen: pending damage covers whatever is out of date,   *)
(* the panel shows what was written, and the viewer is an implementation   *)
(* of ScreenMirror.                                                        *)
(***************************************************************************)
ScreenInv == IInv /\ StaleCovered /\ PanelCurrent

-----------------------------------------------------------------------------
(* Pixels. *)

LEMMA PixelPair ==
  ASSUME NEW r, NEW p \in Pixels(r)
  PROVE  p = <<p[1], p[2]>> /\ p[1] \in Int /\ p[2] \in Int
BY DEF Pixels

LEMMA PixelIn ==
  ASSUME NEW r \in DamageArea, NEW i \in Int, NEW j \in Int
  PROVE  <<i, j>> \in Pixels(r) <=> r.x <= i /\ i < r.x + r.w /\ r.y <= j /\ j < r.y + r.h
BY DEF Pixels, DamageArea

(* The bounding box covers both rectangles.                                *)
LEMMA BoundingBoxCovers ==
  ASSUME NEW a \in DamageArea, NEW b \in DamageArea
  PROVE  Pixels(a) \cup Pixels(b) \subseteq Pixels(BoundingBox(a, b))
<1> DEFINE c == BoundingBox(a, b)
<1>1. c \in DamageArea
  BY BoundingBoxType
<1>2. /\ c.x = Lesser(a.x, b.x) /\ c.y = Lesser(a.y, b.y)
      /\ c.w = Greater(a.x + a.w, b.x + b.w) - Lesser(a.x, b.x)
      /\ c.h = Greater(a.y + a.h, b.y + b.h) - Lesser(a.y, b.y)
  BY DEF BoundingBox, Rect
<1> HIDE DEF c
<1>3. ASSUME NEW p \in Pixels(a) \cup Pixels(b)
      PROVE  p \in Pixels(c)
  <2>1. p = <<p[1], p[2]>> /\ p[1] \in Int /\ p[2] \in Int
    BY PixelPair
  <2> DEFINE i == p[1]  j == p[2]
  <2> HIDE DEF i, j
  <2>2. i \in Int /\ j \in Int /\ p = <<i, j>>
    BY <2>1 DEF i, j
  <2>3. \/ a.x <= i /\ i < a.x + a.w /\ a.y <= j /\ j < a.y + a.h
        \/ b.x <= i /\ i < b.x + b.w /\ b.y <= j /\ j < b.y + b.h
    BY <2>2, PixelIn
  <2>4. /\ a.x \in Nat /\ a.y \in Nat /\ a.w \in Nat /\ a.h \in Nat
        /\ b.x \in Nat /\ b.y \in Nat /\ b.w \in Nat /\ b.h \in Nat
    BY DEF DamageArea
  <2>5. c.x <= i /\ i < c.x + c.w /\ c.y <= j /\ j < c.y + c.h
    BY <1>2, <2>2, <2>3, <2>4 DEF Lesser, Greater
  <2> QED BY <1>1, <2>2, <2>5, PixelIn
<1> QED BY <1>3 DEF c

(* blitFrom copies every visible pixel of the damage.                      *)
LEMMA VisibleBlitted ==
  ASSUME NEW r \in DamageArea, NEW p \in Visible, p \in Pixels(r)
  PROVE  p \in Pixels(BlitRect(Screen, Desktop, r))
<1>1. p = <<p[1], p[2]>> /\ p[1] \in Int /\ p[2] \in Int
  BY PixelPair
<1> DEFINE i == p[1]  j == p[2]
<1> HIDE DEF i, j
<1>2. i \in Int /\ j \in Int /\ p = <<i, j>>
  BY <1>1 DEF i, j
<1>3. r.x <= i /\ i < r.x + r.w /\ r.y <= j /\ j < r.y + r.h
  BY <1>2, PixelIn
<1>4. /\ Width(Screen) \in Int /\ Height(Screen) \in Int
      /\ Width(Desktop) \in Int /\ Height(Desktop) \in Int
  BY ScreenAssumption, SizeTypes, SideInt
<1>5. /\ <<i, j>> \in Pixels(Rect(0, 0, Width(Desktop), Height(Desktop)))
      /\ <<i, j>> \in Pixels(Rect(0, 0, Width(Screen), Height(Screen)))
  BY <1>2 DEF Visible, DesktopPixels
<1>6. /\ 0 <= i /\ i < Width(Desktop) /\ 0 <= j /\ j < Height(Desktop)
      /\ i < Width(Screen) /\ j < Height(Screen)
  BY <1>2, <1>4, <1>5, PixelOf
<1>7. InBoth(Screen, Desktop, r, i, j)
  BY <1>3, <1>6 DEF InBoth
<1>8. r \in DamageRect
  BY DEF DamageArea, DamageRect
<1> QED BY <1>2, <1>7, <1>8, ScreenAssumption, BlitPixels

(* What blitFrom writes, the refresh that follows shows, be it a partial   *)
(* one of the same rectangle or a full one.                                *)
LEMMA ShowsRegion ==
  ASSUME NEW s \in DamageRect, NEW i \in Int, NEW j \in Int,
         InBoth(Screen, Desktop, s, i, j)
  PROVE  /\ OnPanel(Screen, RefreshRect(Screen, s))
         /\ PhysicalCoordinates(Screen, i, j) \in Pixels(RefreshRect(Screen, s))
<1>1. <<i, j>> \in Pixels(BlitRect(Screen, Desktop, s))
  BY ScreenAssumption, BlitPixels
<1>2. PhysicalCoordinates(Screen, i, j) \in Pixels(RefreshRect(Screen, s))
  BY <1>1, ScreenAssumption, RefreshCovers
<1>3. /\ s.x \in Nat /\ s.y \in Nat /\ s.w \in Nat /\ s.h \in Nat
      /\ Width(Screen) \in Int /\ Height(Screen) \in Int
  BY ScreenAssumption, SizeTypes, SideInt DEF DamageRect
<1>4. 0 < s.w /\ 0 < s.h /\ s.x < Width(Screen) /\ s.y < Height(Screen)
  BY <1>3 DEF InBoth
<1> QED BY <1>2, <1>4, ScreenAssumption, RefreshOnPanel

LEMMA WrittenShown ==
  ASSUME NEW r \in DamageArea, NEW full \in BOOLEAN
  PROVE  Written(r) \subseteq ShownRegion(full, r)
<1> DEFINE screen == Rect(0, 0, Width(Screen), Height(Screen))
           s == IF full THEN screen ELSE r
<1>1. r \in DamageRect
  BY DEF DamageArea, DamageRect
<1>2. /\ Width(Screen) \in Int /\ 0 <= Width(Screen)
      /\ Height(Screen) \in Int /\ 0 <= Height(Screen)
  <2>1. Width(Screen) \in Side /\ Height(Screen) \in Side
    BY ScreenAssumption, SizeTypes
  <2> HIDE DEF screen, s
  <2> QED BY <2>1, SideInt
<1>3. s \in DamageRect
  BY <1>1, <1>2 DEF Rect, DamageRect
<1>4. ASSUME NEW p \in Pixels(BlitRect(Screen, Desktop, r))
      PROVE  PhysicalCoordinates(Screen, p[1], p[2]) \in ShownRegion(full, r)
  <2>1. p = <<p[1], p[2]>> /\ p[1] \in Int /\ p[2] \in Int
    BY PixelPair
  <2>2. InBoth(Screen, Desktop, r, p[1], p[2])
    BY <1>1, <2>1, ScreenAssumption, BlitPixels
  <2>3. InBoth(Screen, Desktop, screen, p[1], p[2])
    BY <1>2, <2>1, <2>2 DEF InBoth, Rect
  <2>4. InBoth(Screen, Desktop, s, p[1], p[2])
    BY <2>2, <2>3
  <2> HIDE DEF s
  <2>5. /\ OnPanel(Screen, RefreshRect(Screen, s))
        /\ PhysicalCoordinates(Screen, p[1], p[2]) \in Pixels(RefreshRect(Screen, s))
    BY <1>3, <2>1, <2>4, ShowsRegion
  <2> QED BY <2>5 DEF ShownRegion, OnPanel, s
<1> QED BY <1>4 DEF Written

-----------------------------------------------------------------------------
(* Steps. *)

(* Only connecting, refreshing and receiving touch the damage or the       *)
(* pixels, and nothing happens once the program has ended.                 *)
LEMMA OtherSteps ==
  ASSUME Next
  PROVE  /\ Live
         /\ connect \/ refreshTimerFunc \/ messagePart \/ UNCHANGED <<damage, stale, unshown>>
<1> USE DEF loopVars, damageVars, serverVars, inputVars, mainVars, Live, Running, LoopPc
<1>1. CASE connect \/ refreshTimerFunc \/ messagePart
  BY <1>1 DEF connect, refreshTimerFunc, TimerExpired, messagePart
<1>2. CASE connectFails \/ waitForEvent \/ loopReturned \/ handleInput \/ messageFails
  BY <1>2 DEF connectFails, waitForEvent, loopReturned, handleInput, messageFails
<1>3. CASE loopStep \/ signal
  BY <1>3 DEF loopStep, signal, LeaveLoop, Iterate, SkipTimer, EndTimers, PollEvents, PollTimeout,
              PollInterrupted
<1>4. CASE \E c \in Connection : socketRead(c) \/ socketLost(c)
  BY <1>4 DEF socketRead, socketLost, Dispatching
<1>5. CASE \E k \in Keyboard : inputRead(k) \/ inputLost(k)
  BY <1>5 DEF inputRead, inputLost, Dispatching
<1>6. CASE serverBegins \/ serverContinues(TRUE) \/ serverContinues(FALSE) \/ serverRings
  BY <1>6 DEF serverBegins, serverContinues, serverRings, Deliver
<1>7. CASE peerCloses \/ keyPressed \/ keyboardRemoved \/ clock
  BY <1>7 DEF peerCloses, keyPressed, keyboardRemoved, clock
<1> QED BY <1>1, <1>2, <1>3, <1>4, <1>5, <1>6, <1>7 DEF Next, Thread, Environment

(* A refresh brings every visible pixel up to date and shows all it wrote. *)
LEMMA RefreshEffect ==
  ASSUME ScreenInv, refreshTimerFunc
  PROVE  /\ damage # None /\ damage' = None
         /\ stale' \cap Visible = {} /\ unshown' = {} /\ UNCHANGED pc
<1>1. damage \in DamageArea /\ damage # None
  BY ExpiredWithDamage DEF ScreenInv, refreshTimerFunc
<1> DEFINE full == do_refresh_full(damage.w * damage.h)
<1>2. /\ damage' = None /\ UNCHANGED pc
      /\ stale' = stale \ Pixels(BlitRect(Screen, Desktop, damage))
      /\ unshown' = (unshown \cup Written(damage)) \ ShownRegion(full, damage)
  BY <1>1 DEF refreshTimerFunc
<1>3. stale' \cap Visible = {}
  <2>1. stale \cap Visible \subseteq Pixels(damage)
    BY <1>1 DEF ScreenInv, StaleCovered
  <2>2. \A p \in Visible : p \in Pixels(damage) => p \in Pixels(BlitRect(Screen, Desktop, damage))
    BY <1>1, VisibleBlitted
  <2> QED BY <1>2, <2>1, <2>2
<1>4. full \in BOOLEAN
  BY DEF do_refresh_full
<1> HIDE DEF full
<1>5. unshown' = {}
  BY <1>1, <1>2, <1>4, WrittenShown DEF ScreenInv, PanelCurrent
<1> QED BY <1>1, <1>2, <1>3, <1>5

(* A rectangle that arrives becomes part of the damage.                    *)
LEMMA MessageEffect ==
  ASSUME ScreenInv, messagePart, damage' = damage => stale' # stale
  PROVE  /\ damage' \in DamageArea /\ damage' # None /\ UNCHANGED unshown
         /\ stale \subseteq stale'
         /\ stale' \cap Visible \subseteq Pixels(damage')
<1> DEFINE t == Head(wire[client])
<1>1. t.rect # None /\ UNCHANGED unshown
  BY DEF messagePart
<1>2. client \in Connection
  <2>1. client # 0 /\ client \in 0..Connections /\ Connections \in Nat
    BY DescriptorAssumption DEF ScreenInv, IInv, TypeOK, Consistent, messagePart
  <2> QED BY <2>1 DEF Connection
<1>3. t \in Token
  BY <1>2, HeadTailProperties DEF ScreenInv, IInv, TypeOK, messagePart
<1>4. t.rect \in Rects
  BY <1>1, <1>3 DEF Token
<1>5. updateFromRFB(t.rect) /\ stale' = stale \cup Pixels(t.rect)
  BY <1>1 DEF messagePart
<1> HIDE DEF t
<1>6. t.rect \in DamageArea
  BY <1>4, RectsType
<1>7. damage' \in DamageArea /\ damage' # None
  <2>1. Live
    BY DEF messagePart, Live, Running
  <2> QED BY <1>4, <1>5, <2>1, UpdateEffect DEF ScreenInv
<1>8. CASE damage = None
  <2>1. damage' = t.rect
    BY <1>5, <1>8 DEF updateFromRFB
  <2>2. stale \cap Visible = {}
    BY <1>8 DEF ScreenInv, StaleCovered
  <2> QED BY <1>1, <1>5, <1>7, <2>1, <2>2
<1>9. CASE damage # None
  <2>1. damage \in DamageArea
    BY <1>9 DEF ScreenInv, IInv, TypeOK
  <2>2. damage' = BoundingBox(damage, t.rect)
    BY <1>5, <1>9 DEF updateFromRFB
  <2>3. Pixels(damage) \cup Pixels(t.rect) \subseteq Pixels(damage')
    BY <1>6, <2>1, <2>2, BoundingBoxCovers
  <2>4. stale \cap Visible \subseteq Pixels(damage)
    BY <1>9 DEF ScreenInv, StaleCovered
  <2> QED BY <1>1, <1>5, <1>7, <2>3, <2>4
<1> QED BY <1>8, <1>9

LEMMA ScreenNext == ScreenInv /\ [Next]_vars => ScreenInv'
<1> SUFFICES ASSUME ScreenInv, [Next]_vars PROVE ScreenInv'
  OBVIOUS
<1>1. IInv'
  BY NextHolds DEF ScreenInv
<1>2. CASE UNCHANGED <<damage, stale, unshown>>
  BY <1>1, <1>2 DEF ScreenInv, StaleCovered, PanelCurrent
<1>3. CASE connect
  BY <1>1, <1>3 DEF ScreenInv, StaleCovered, PanelCurrent, connect
<1>4. CASE refreshTimerFunc
  BY <1>1, <1>4, RefreshEffect DEF ScreenInv, StaleCovered, PanelCurrent
<1>5. CASE messagePart
  <2>1. UNCHANGED unshown
    BY <1>5 DEF messagePart
  <2>2. CASE damage' = damage => stale' # stale
    BY <1>1, <1>5, <2>1, <2>2, MessageEffect DEF ScreenInv, StaleCovered, PanelCurrent
  <2>3. CASE ~(damage' = damage => stale' # stale)
    BY <1>2, <2>1, <2>3
  <2> QED BY <2>2, <2>3
<1>6. CASE UNCHANGED vars
  BY <1>2, <1>6 DEF vars, damageVars
<1> QED BY <1>2, <1>3, <1>4, <1>5, <1>6, OtherSteps

LEMMA ScreenInductive == Spec => []ScreenInv
<1>1. Init => ScreenInv
  BY InitHolds DEF Init, ScreenInv, StaleCovered, PanelCurrent
<1> QED BY <1>1, ScreenNext, PTL DEF Spec

-----------------------------------------------------------------------------
(* Theorems. *)

(* A visible pixel that is out of date lies in the pending damage          *)
(* (vncviewer.lua:116-126), so that the next refresh brings it.            *)
THEOREM StaleCoveredHolds == Spec => []StaleCovered
<1>1. ScreenInv => StaleCovered
  BY DEF ScreenInv
<1> QED BY <1>1, ScreenInductive, PTL

(* Whatever blitFrom writes to the screen memory, the refresh that follows *)
(* shows on the panel, under every rotation (vncviewer.lua:87-100).        *)
THEOREM PanelCurrentHolds == Spec => []PanelCurrent
<1>1. ScreenInv => PanelCurrent
  BY DEF ScreenInv
<1> QED BY <1>1, ScreenInductive, PTL

(* The viewer implements the abstract mirror, liveness aside.              *)
THEOREM MirrorSafetyHolds == Spec => MirrorSafety
<1>1. Init => Mirror!Init
  BY DEF Init, Mirror!Init, Live, Running
<1>2. ScreenInv /\ [Next]_vars => [Mirror!Next]_(Mirror!vars)
  <2> SUFFICES ASSUME ScreenInv, [Next]_vars PROVE [Mirror!Next]_(Mirror!vars)
    OBVIOUS
  <2> USE DEF Mirror!Next, Mirror!vars
  <2>1. CASE UNCHANGED vars
    BY <2>1 DEF vars, damageVars, loopVars, Live
  <2>2. CASE Next /\ UNCHANGED <<damage, stale, unshown>>
    <3>1. Live
      BY <2>2, OtherSteps
    <3>2. CASE Live'
      BY <2>2, <3>1, <3>2
    <3>3. CASE ~Live'
      <4>1. (stale \cap Visible)' = (stale \cap Visible) \cup {} /\ {} \in SUBSET Visible
        BY <2>2 DEF Visible, DesktopPixels
      <4>2. (damage # None)' = (damage # None)
        BY <2>2
      <4>3. Live' = FALSE
        BY <3>3 DEF Live
      <4>4. \E S \in SUBSET Visible : (stale \cap Visible)' = (stale \cap Visible) \cup S
        BY <4>1
      <4>5. (damage # None)' \in {damage # None, TRUE}
        BY <4>2
      <4> QED BY <3>1, <4>3, <4>4, <4>5 DEF Mirror!Stop
    <3> QED BY <3>2, <3>3
  <2>3. CASE connect
    BY <2>3 DEF connect, Mirror!Reconnect, Live, Running
  <2>4. CASE refreshTimerFunc
    <3>1. Live
      BY <2>4 DEF refreshTimerFunc, TimerExpired, Live, Running, LoopPc
    <3> QED BY <2>4, <3>1, RefreshEffect DEF Mirror!Show, Live
  <2>5. CASE messagePart /\ (damage' = damage => stale' # stale)
    <3>1. Live
      BY <2>5 DEF messagePart, Live, Running
    <3>2. /\ damage' # None
          /\ (stale \cap Visible)' = (stale \cap Visible) \cup ((stale' \ stale) \cap Visible)
      BY <2>5, MessageEffect DEF Visible, DesktopPixels
    <3>3. (stale' \ stale) \cap Visible \in SUBSET Visible
      OBVIOUS
    <3>4. CASE Live'
      BY <3>1, <3>2, <3>3, <3>4 DEF Mirror!Change
    <3>5. CASE ~Live'
      <4>1. Live' = FALSE
        BY <3>5 DEF Live
      <4>2. \E S \in SUBSET Visible : (stale \cap Visible)' = (stale \cap Visible) \cup S
        BY <3>2, <3>3
      <4>3. (damage # None)' \in {damage # None, TRUE}
        BY <3>2
      <4> QED BY <3>1, <4>1, <4>2, <4>3 DEF Mirror!Stop
    <3> QED BY <3>4, <3>5
  <2>6. CASE messagePart /\ ~(damage' = damage => stale' # stale)
    BY <2>2, <2>6 DEF messagePart, Next, Thread
  <2> QED BY <2>1, <2>2, <2>3, <2>4, <2>5, <2>6, OtherSteps
<1>3. Mirror!Safety <=> Mirror!Init /\ [][Mirror!Next]_(Mirror!vars)
  BY DEF Mirror!Safety
<1> QED BY <1>1, <1>2, <1>3, ScreenInductive, PTL DEF Spec, MirrorSafety
=============================================================================
