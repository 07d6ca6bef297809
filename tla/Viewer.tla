------------------------------- MODULE Viewer -------------------------------
(***************************************************************************)
(* vncviewer.lua with the two input functions it drives: connecting, the   *)
(* socket callbacks, the accumulation of damage by updateFromRFB, the      *)
(* refresh timer, the forwarding of keys and the reconnect loop.  All of   *)
(* it runs on one thread, inside the loop of EventLoop.                    *)
(*                                                                         *)
(* Around it: the VNC server and the network, the input devices, and       *)
(* libvncclient, of which one call of HandleRFBServerMessage takes one     *)
(* message, rectangle by rectangle, and waits for whatever part of it has  *)
(* not arrived.                                                            *)
(***************************************************************************)
EXTENDS EventLoop, Geometry

CONSTANTS Keyboard,          \* input devices (/dev/input/event*)
          Connections,       \* how often the program may connect (a bound)
          Screen, Desktop,   \* fb.bb and rfbFramebuffer, as buffers [w, h, rot]
          Rects,             \* the rectangles the server may send
          WireSize,          \* rectangles that may be under way (a bound)
          KernelQueue,       \* events that may wait in a device (a bound)
          None,              \* no damage; no rectangle
          TIMER_REFRESH,     \* the name of the refresh timer
          Word,              \* the modulus of bit.rshift's argument (2^32)
          fullEvery256th,    \* refresh_full_every_256th_pxup
          reconnecting,      \* -reconnecting was given
          Unsolicited,       \* the server may send messages nobody asked for
          FailingInput,      \* input devices may disappear
          FailingPeer        \* the server may close or reset a connection

Connection == 1..Connections

ASSUME ScreenAssumption ==
  Screen \in BufferOf(Side, Side) /\ Desktop \in BufferOf(Side, Side)

(* libvncclient rejects a rectangle that leaves the desktop.               *)
ASSUME RectsAssumption ==
  /\ Rects \subseteq [x : Nat, y : Nat, w : Nat, h : Nat]
  /\ \A r \in Rects : r.x + r.w <= Width(Desktop) /\ r.y + r.h <= Height(Desktop)

ASSUME DescriptorAssumption ==
  /\ Connections \in Nat
  /\ Keyboard \cap Connection = {}
  /\ Keyboard \cup Connection \subseteq Fd
  /\ IsFiniteSet(Fd)

ASSUME NameAssumption ==
  /\ TIMER_REFRESH \in TimerId
  /\ None \notin [x : Nat, y : Nat, w : Nat, h : Nat]
  /\ NoCache \notin Seq(Fd)

ASSUME NumberAssumption ==
  /\ WireSize \in Nat /\ KernelQueue \in Nat
  /\ Word \in Nat \ {0} /\ fullEvery256th \in Nat
  /\ {reconnecting, Unsolicited, FailingInput, FailingPeer} \subseteq BOOLEAN

VARIABLES client,    \* the current connection; 0 before the first
          connected, \* `running` of the current pass through the main loop
          damage,    \* update_x1 .. update_y2 as a rectangle, or None
          refresh_full_ctr,
          input_queue,
          wire,      \* per connection, what arrived and was not processed
          buffered,  \* per connection, how much of it libvncclient has read
          peer,      \* per connection, the state of the server's end
          asked,     \* an update request is waiting at the server
          sending,   \* the server is in the middle of an update message
          device,    \* per keyboard, the events waiting in the kernel
          unplugged, \* the keyboards that have disappeared
          stale,     \* desktop pixels received and not yet on the screen
          unshown    \* screen memory written and not yet on the panel

damageVars == <<damage, refresh_full_ctr, stale, unshown>>
serverVars == <<wire, buffered, peer, asked, sending>>
inputVars  == <<input_queue, device, unplugged>>
mainVars   == <<client, connected>>
vars == <<loopVars, damageVars, serverVars, inputVars, mainVars>>

(* What travels on a connection: rectangles of update messages, and the    *)
(* messages that are no updates (bell, cut text).                          *)
Token == [rect : Rects, last : BOOLEAN] \cup {[rect |-> None, last |-> TRUE]}
Bell == [rect |-> None, last |-> TRUE]

(* What handleInput tells apart: the key that quits and all others.        *)
KeyEvent == {"key", "home"}

PeerState == {"none", "open", "closed", "reset"}

Running == LoopPc \cup {"connect", "main", "input", "message"}
Crash == LoopError \cup {"nil update", "no input events", "input read failed",
                         "message failed", "connect failed"}
Exit == {"quit", "connection lost"}

DamageArea == [x : Nat, y : Nat, w : Nat, h : Nat]
DesktopPixels == Pixels(Rect(0, 0, Width(Desktop), Height(Desktop)))
Visible == DesktopPixels \cap Pixels(Rect(0, 0, Width(Screen), Height(Screen)))

(* The loop, the devices, the connections and the damage have their forms, *)
(* and the thread is at one of its waiting places or has ended.            *)
TypeOK ==
  /\ LoopTypeOK
  /\ pc \in Running \cup Crash \cup Exit
  /\ client \in 0..Connections
  /\ connected \in BOOLEAN
  /\ damage \in DamageArea \cup {None}
  /\ refresh_full_ctr \in Nat
  /\ input_queue \in Seq(KeyEvent)
  /\ wire \in [Connection -> Seq(Token)]
  /\ buffered \in [Connection -> Nat]
  /\ peer \in [Connection -> PeerState]
  /\ asked \in BOOLEAN /\ sending \in BOOLEAN
  /\ device \in [Keyboard -> Seq(KeyEvent)]
  /\ unplugged \subseteq Keyboard
  /\ stale \subseteq DesktopPixels
  /\ unshown \subseteq Int \X Int

Init ==
  /\ fds = Keyboard /\ poll_fds = NoCache /\ timers = <<>>
  /\ pos = 1 /\ running = TRUE /\ ready = {}
  /\ pc = "connect"
  /\ client = 0 /\ connected = FALSE
  /\ damage = None /\ refresh_full_ctr = 0
  /\ stale = {} /\ unshown = {}
  /\ input_queue = <<>>
  /\ wire = [c \in Connection |-> <<>>]
  /\ buffered = [c \in Connection |-> 0]
  /\ peer = [c \in Connection |-> "none"]
  /\ asked = FALSE /\ sending = FALSE
  /\ device = [k \in Keyboard |-> <<>>]
  /\ unplugged = {}

-----------------------------------------------------------------------------
(* Damage and refresh. *)

Greater(a, b) == IF a >= b THEN a ELSE b

BoundingBoxOfSizes(a, b) ==  \* mutant: the larger of the sizes instead of the far corner
  LET x1 == Lesser(a.x, b.x)
      y1 == Lesser(a.y, b.y)
  IN  Rect(x1, y1, Greater(a.w, b.w), Greater(a.h, b.h))

(* The bounding box of two rectangles. *)
BoundingBox(a, b) ==
  LET x1 == Lesser(a.x, b.x)
      y1 == Lesser(a.y, b.y)
  IN  Rect(x1, y1, Greater(a.x + a.w, b.x + b.w) - x1, Greater(a.y + a.h, b.y + b.h) - y1)

updateFromRFBTwice(r) ==  \* mutant: the timer is registered without a check
  /\ damage' = IF damage = None THEN r ELSE BoundingBox(damage, r)
  /\ register_timer(TIMER_REFRESH)

updateFromRFBPostponing(r) ==  \* mutant: the unregister_timer of line 108 is restored
  /\ damage' = IF damage = None THEN r ELSE BoundingBox(damage, r)
  /\ timers' = Append(SelectSeq(timers, LAMBDA t : t.id # TIMER_REFRESH),
                      NewTimer(TIMER_REFRESH))

(* The effect of GotFrameBufferUpdate for rectangle r; called after the    *)
(* pixels of r have been stored in rfbFramebuffer.                         *)
updateFromRFB(r) ==
  /\ damage' = IF damage = None THEN r ELSE BoundingBox(damage, r)
  /\ IF timer_running(TIMER_REFRESH) THEN UNCHANGED timers
     ELSE register_timer(TIMER_REFRESH)

FullThreshold ==
  ((Width(Screen) * Height(Screen) * fullEvery256th) % Word) \div 256

(* Whether a refresh of n pixels is to be a full one. *)
do_refresh_full(n) == fullEvery256th # 0 /\ refresh_full_ctr + n >= FullThreshold

refresh_full_count(n) ==
  IF fullEvery256th = 0 THEN refresh_full_ctr
  ELSE IF do_refresh_full(n) THEN 0 ELSE refresh_full_ctr + n

PanelPixels == Pixels(Rect(0, 0, Screen.w, Screen.h))

ShownRegionLogical(full, r) ==  \* mutant: the region in logical coordinates
  IF full THEN PanelPixels ELSE Pixels(r)

(* The driver shows a region that lies on the panel and refuses any other; *)
(* without coordinates, refresh covers the whole screen.                   *)
ShownRegion(full, r) ==
  LET region == RefreshRect(Screen, IF full THEN Rect(0, 0, Width(Screen), Height(Screen)) ELSE r)
  IN  IF /\ region.x >= 0 /\ region.x + region.w <= Screen.w
         /\ region.y >= 0 /\ region.y + region.h <= Screen.h
      THEN Pixels(region) ELSE {}

(* The physical places blitFrom writes. *)
Written(r) ==
  {PhysicalCoordinates(Screen, p[1], p[2]) : p \in Pixels(BlitRect(Screen, Desktop, r))}

refreshTimerFunc ==
  /\ TimerExpired(TIMER_REFRESH)
  /\ IF damage = None
     THEN pc' = "nil update" /\ UNCHANGED <<timers, damageVars>>
     ELSE LET area == damage.w * damage.h IN
          /\ stale' = stale \ Pixels(BlitRect(Screen, Desktop, damage))
          /\ unshown' = (unshown \cup Written(damage)) \ ShownRegion(do_refresh_full(area), damage)
          /\ refresh_full_ctr' = refresh_full_count(area)
          /\ damage' = None
          /\ RemoveTimer(timers)
          /\ UNCHANGED pc
  /\ UNCHANGED <<fds, poll_fds, pos, running, ready, serverVars, inputVars, mainVars>>
-----------------------------------------------------------------------------
(* Connecting, and the main loop. *)

(* rfbInitClient succeeds: a new client, a new framebuffer, a request for  *)
(* the whole desktop, and the socket joins the poll set.  Nothing of the   *)
(* old connection is undone: neither its descriptor nor pending damage.    *)
connect ==
  /\ pc = "connect" /\ client < Connections
  /\ client' = client + 1
  /\ connected' = TRUE
  /\ peer' = [peer EXCEPT ![client + 1] = "open"]
  /\ asked' = TRUE /\ sending' = FALSE
  /\ stale' = {}
  /\ register_fd(client + 1)
  /\ pc' = "main"
  /\ UNCHANGED <<timers, pos, running, ready, damage, refresh_full_ctr, unshown,
                 wire, buffered, inputVars>>

connectFails ==
  /\ pc = "connect"
  /\ pc' = "connect failed"
  /\ UNCHANGED <<fds, poll_fds, timers, pos, running, ready, damageVars, serverVars,
                 inputVars, mainVars>>

(* The head of the main loop: reconnect, wait for input, or use what is    *)
(* already in the queue.                                                   *)
waitForEvent ==
  /\ pc = "main"
  /\ IF ~connected THEN pc' = "connect" /\ UNCHANGED running
     ELSE IF input_queue = <<>> THEN EnterLoop
     ELSE pc' = "input" /\ UNCHANGED running
  /\ UNCHANGED <<fds, poll_fds, timers, pos, ready, damageVars, serverVars, inputVars, mainVars>>

(* loop() has returned to waitForEvent. *)
loopReturned ==
  /\ pc = "returned"
  /\ pc' = IF input_queue = <<>> THEN "no input events" ELSE "input"
  /\ UNCHANGED <<fds, poll_fds, timers, pos, running, ready, damageVars, serverVars,
                 inputVars, mainVars>>

(* handleInput with the oldest event. *)
handleInput ==
  /\ pc = "input"
  /\ input_queue' = Tail(input_queue)
  /\ pc' = IF Head(input_queue) = "home" THEN "quit" ELSE "main"
  /\ UNCHANGED <<fds, poll_fds, timers, pos, running, ready, damageVars, serverVars,
                 device, unplugged, mainVars>>

-----------------------------------------------------------------------------
(* The callbacks of a connection c.  Each closure of the main loop handles *)
(* messages of the current client, whatever connection it was made for.    *)

socketRead(c) ==
  /\ Dispatching(<<c, "IN">>)
  /\ pc' = "message"
  /\ UNCHANGED <<fds, poll_fds, timers, pos, running, ready, damageVars, serverVars,
                 inputVars, mainVars>>

socketLost(c) ==
  \E event \in {"ERR", "HUP"} :
    /\ Dispatching(<<c, event>>)
    /\ IF reconnecting
       THEN /\ connected' = (connected /\ c # client)
            /\ Dispatched(<<c, event>>)
       ELSE pc' = "connection lost" /\ UNCHANGED <<connected, ready>>
    /\ UNCHANGED <<fds, poll_fds, timers, pos, running, damageVars, serverVars, inputVars, client>>

(* What the library reads from the socket when its buffer is empty: at     *)
(* least a token, perhaps everything that has arrived.                     *)
ReadAheadNothing ==  \* mutant: a message is handled before anything has arrived
  IF buffered[client] > 0 THEN {buffered[client]} ELSE 0..Len(wire[client])
ReadAhead ==
  IF buffered[client] > 0 THEN {buffered[client]} ELSE 1..Len(wire[client])

(* The dispatch entry whose callback is running. *)
Current == CHOOSE c \in ready : \A d \in ready \ {c} : Before(c, d)

(* HandleRFBServerMessage takes the next part of a message.  A rectangle   *)
(* is stored and reported; after the last one the library asks for the     *)
(* next update, which fails if the connection was reset.                   *)
messagePart ==
  /\ pc = "message" /\ wire[client] # <<>>
  /\ LET t == Head(wire[client]) IN
       /\ wire' = [wire EXCEPT ![client] = Tail(@)]
       /\ \E n \in ReadAhead : buffered' = [buffered EXCEPT ![client] = n - 1]
       /\ IF t.rect = None
          THEN UNCHANGED <<damage, timers, stale>>
          ELSE updateFromRFB(t.rect) /\ stale' = stale \cup Pixels(t.rect)
       /\ asked' = (asked \/ (t.rect # None /\ t.last /\ peer[client] # "reset"))
       /\ IF ~t.last THEN UNCHANGED <<pc, ready>>
          ELSE IF t.rect # None /\ peer[client] = "reset"
               THEN pc' = "message failed" /\ UNCHANGED ready
          ELSE Dispatched(Current)
  /\ UNCHANGED <<fds, poll_fds, pos, running, refresh_full_ctr, unshown, peer, sending,
                 inputVars, mainVars>>

messageFailsUnnoticed ==  \* mutant: no assert around HandleRFBServerMessage
  /\ pc = "message" /\ wire[client] = <<>> /\ peer[client] # "open"
  /\ Dispatched(Current)
  /\ UNCHANGED <<fds, poll_fds, timers, pos, running, damageVars, serverVars,
                 inputVars, mainVars>>

(* The connection ends where a message was expected. *)
messageFails ==
  /\ pc = "message" /\ wire[client] = <<>> /\ peer[client] # "open"
  /\ pc' = "message failed"
  /\ UNCHANGED <<fds, poll_fds, timers, pos, running, ready, damageVars, serverVars,
                 inputVars, mainVars>>

-----------------------------------------------------------------------------
(* The callbacks of an input device k (input_kindle.lua). *)

inputRead(k) ==
  /\ Dispatching(<<k, "IN">>)
  /\ IF k \in unplugged
     THEN pc' = "input read failed" /\ UNCHANGED <<running, ready, input_queue, device>>
     ELSE /\ input_queue' = Append(input_queue, Head(device[k]))
          /\ device' = [device EXCEPT ![k] = Tail(@)]
          /\ abort_loop
          /\ Dispatched(<<k, "IN">>)
  /\ UNCHANGED <<fds, poll_fds, timers, pos, damageVars, serverVars, unplugged, mainVars>>

(* input.err and input.hup unregister the device, which invalidates the    *)
(* array the loop is working on.  fds keeps the entry here: see the note   *)
(* on unregister_fd in the README.                                         *)
inputLost(k) ==
  \E event \in {"ERR", "HUP"} :
    /\ Dispatching(<<k, event>>)
    /\ poll_fds' = NoCache
    /\ DispatchedStale(<<k, event>>)
    /\ UNCHANGED <<fds, timers, pos, running, damageVars, serverVars, inputVars, mainVars>>

-----------------------------------------------------------------------------
(* poll(), which reports the state of every registered descriptor. *)

SocketEvents(c) ==
  (IF Len(wire[c]) > buffered[c] \/ peer[c] # "open" THEN {"IN"} ELSE {})
    \cup (IF peer[c] = "reset" THEN {"ERR", "HUP"} ELSE {})

DeviceEvents(k) ==
  (IF device[k] # <<>> THEN {"IN"} ELSE {})
    \cup (IF k \in unplugged THEN {"ERR", "HUP"} ELSE {})

Pollable ==
  {e \in fds \X Event :
     e[2] \in IF e[1] \in Keyboard THEN DeviceEvents(e[1]) ELSE SocketEvents(e[1])}

loopStep ==
  /\ \/ LeaveLoop
     \/ Iterate
     \/ SkipTimer
     \/ EndTimers
     \/ PollEvents(Pollable)
     \/ PollTimeout(Pollable)
  /\ UNCHANGED <<damageVars, serverVars, inputVars, mainVars>>

signal ==
  /\ PollInterrupted(Pollable)
  /\ UNCHANGED <<damageVars, serverVars, inputVars, mainVars>>

-----------------------------------------------------------------------------
(* The environment. *)

Live == pc \in Running

Deliver(t) ==
  /\ Live /\ client # 0 /\ peer[client] = "open" /\ Len(wire[client]) < WireSize
  /\ wire' = [wire EXCEPT ![client] = Append(@, t)]
  /\ UNCHANGED <<loopVars, damageVars, buffered, peer, inputVars, mainVars>>

(* The server sends an update only on request. *)
serverBegins ==
  /\ asked /\ ~sending
  /\ \E r \in Rects, last \in BOOLEAN :
       Deliver([rect |-> r, last |-> last]) /\ asked' = FALSE /\ sending' = ~last

serverContinues(last) ==
  /\ sending
  /\ \E r \in Rects : Deliver([rect |-> r, last |-> last])
  /\ sending' = ~last
  /\ UNCHANGED asked

serverRings == Unsolicited /\ ~sending /\ Deliver(Bell) /\ UNCHANGED <<asked, sending>>

peerCloses ==
  /\ Live /\ FailingPeer
  /\ \E c \in Connection, s \in {"closed", "reset"} :
       /\ peer[c] \in {"open", "closed"} /\ peer[c] # s
       /\ peer' = [peer EXCEPT ![c] = s]
  /\ UNCHANGED <<loopVars, damageVars, wire, buffered, asked, sending, inputVars, mainVars>>

keyPressed ==
  /\ Live
  /\ \E k \in Keyboard \ unplugged, e \in KeyEvent :
       /\ Len(device[k]) < KernelQueue
       /\ device' = [device EXCEPT ![k] = Append(@, e)]
  /\ UNCHANGED <<loopVars, damageVars, serverVars, input_queue, unplugged, mainVars>>

keyboardRemoved ==
  /\ Live /\ FailingInput
  /\ \E k \in Keyboard \ unplugged : unplugged' = unplugged \cup {k}
  /\ UNCHANGED <<loopVars, damageVars, serverVars, input_queue, device, mainVars>>

clock ==
  /\ Live /\ TimePasses
  /\ UNCHANGED <<damageVars, serverVars, inputVars, mainVars>>

-----------------------------------------------------------------------------
(* The program's one thread, and everything around it. *)

Thread ==
  \/ connect \/ connectFails \/ waitForEvent \/ loopReturned \/ handleInput
  \/ loopStep \/ refreshTimerFunc \/ messagePart \/ messageFails
  \/ \E c \in Connection : socketRead(c) \/ socketLost(c)
  \/ \E k \in Keyboard : inputRead(k) \/ inputLost(k)

Environment ==
  serverBegins \/ serverContinues(TRUE) \/ serverContinues(FALSE) \/ serverRings
    \/ peerCloses \/ keyPressed \/ keyboardRemoved \/ clock \/ signal

Next == Thread \/ Environment

Spec == Init /\ [][Next]_vars

(* The operating system runs the thread and the clock, and a server that   *)
(* has begun an update message ends it: its rectangles are finitely many.  *)
Fairness ==
  /\ WF_vars(Thread)
  /\ WF_vars(clock)
  /\ SF_vars(serverContinues(TRUE))

FairSpec == Spec /\ Fairness

-----------------------------------------------------------------------------
(* Safety. *)

(* refreshTimerFunc never runs without damage: the race that the comment   *)
(* at vncviewer.lua:72-74 suspects does not exist.                         *)
NoNilRefresh == TimerExpired(TIMER_REFRESH) => damage # None

(* While the program runs, damage is pending exactly if one refresh timer  *)
(* is in the list of the event loop: none is lost, and never a second one. *)
TimerMatchesDamage ==
  Live => IF damage = None THEN timers = <<>>
          ELSE Len(timers) = 1 /\ timers[1].id = TIMER_REFRESH

(* Whatever visible pixel was received and is not yet on the screen lies   *)
(* inside the pending rectangle, so that the next refresh brings it.       *)
StaleCovered ==
  stale \cap Visible \subseteq IF damage = None THEN {} ELSE Pixels(damage)

(* Between callbacks the panel shows all that was written to the screen    *)
(* memory: partial or full, the refreshed region covers the blitted one.   *)
PanelCurrent == unshown = {}

(* The program ends only for the reasons it has: the user quits, or the    *)
(* connection or a device fails.  It never dies of an internal error.      *)
NoInternalError == pc \notin {"nothing to wait for", "nil update", "no input events"}

(* The program ends because it could not connect or the user quits;        *)
(* otherwise the server has closed the connection, or a device has gone.   *)
EndsOnlyForCause ==
  \/ pc \in Running \cup {"connect failed", "quit"}
  \/ pc \in {"message failed", "connection lost"} /\ peer[client] # "open"
  \/ pc \in {"input read failed", "nil poll_fds"} /\ unplugged # {}

-----------------------------------------------------------------------------
(* Liveness. *)

(* A visible pixel that was received gets to the screen, however many      *)
(* updates follow: later damage does not postpone the refresh.             *)
DamageShown == \A p \in Visible : p \in stale ~> (p \notin stale \/ ~Live)

(* Input is read from every device, whatever the server sends, and every   *)
(* event read is handled.                                                  *)
InputRead == \A k \in Keyboard : device[k] # <<>> ~> (device[k] = <<>> \/ ~Live)

(* Every event that was read is taken from the queue and handled.          *)
InputHandled == input_queue # <<>> ~> (input_queue = <<>> \/ ~Live)

(* A key that is pressed is read and handled, whatever the server sends: the*)
(* loop serves the device, ends, and begins again (input_kindle.lua:13-46).*)
InputServed == InputRead /\ InputHandled

(* Without -reconnecting, a lost connection ends the program, whatever it  *)
(* was doing: the last messages are processed and the end of file noticed. *)
LossNoticed ==
  ~reconnecting => (client # 0 /\ peer[client] # "open" ~> ~Live)

-----------------------------------------------------------------------------
(* What the documentation says and the code does not do. *)

(* vncviewer.lua:219-220: with -reconnecting, "always try to reconnect     *)
(* when we get connection errors".                                         *)
AlwaysReconnects ==
  reconnecting => pc \notin {"message failed", "connection lost"}

(* input_kindle.lua:22 and 27: a device that fails is closed, and the      *)
(* program goes on with the others.                                        *)
InputLossSurvived == pc # "nil poll_fds"

UpdateWaiting ==
  client # 0 /\ \E i \in 1..Len(wire[client]) : wire[client][i].rect # None

(* vncviewer.lua:198-200: the screen is refreshed some time after an       *)
(* update was received.  An update that has arrived is taken up.           *)
UpdatesTaken == UpdateWaiting ~> (~UpdateWaiting \/ ~Live)

-----------------------------------------------------------------------------
(* The viewer implements ScreenMirror. *)

Mirror == INSTANCE ScreenMirror
            WITH Pixel     <- Visible,
                 behind    <- stale \cap Visible,
                 scheduled <- damage # None,
                 alive     <- Live

(* Its steps are steps of the mirror.                                      *)
MirrorSafety == Mirror!Safety

(* And every refresh the mirror schedules happens.                         *)
MirrorSpec == Mirror!Spec
=============================================================================
