------------------------------- MODULE InputSDL -------------------------------
(***************************************************************************)
(* ffi/input_SDL.lua in the place of the input devices: SDL has no         *)
(* descriptor to poll, so waitForEvent registers a timer whose callback,   *)
(* input.poller, takes what SDL has and registers the next one, until      *)
(* there was something.  The loop is EventLoop's; of the viewer there is   *)
(* the socket, whose messages may register the refresh timer.              *)
(***************************************************************************)
EXTENDS EventLoop

CONSTANTS Sock,     \* client.sock
          Waiting,  \* bound: events that may wait in SDL
          Refresh, Poller  \* the timers

ASSUME SDLAssumption ==
  Fd = {Sock} /\ TimerId = {Refresh, Poller} /\ Refresh # Poller /\ Waiting \in Nat

VARIABLES sdl,          \* the events SDL_PollEvent will return
          input_queue,
          is_in_touch

inputSDLVars == <<loopVars, sdl, input_queue, is_in_touch>>

(* MOTION along either axis; OTHER stands for every type poller ignores.   *)
SDLEvent == {"KEYDOWN", "KEYUP", "MOTION", "BUTTONUP", "BUTTONDOWN", "QUIT", "OTHER"}

(* What genEmuEvent puts in the queue for an event.                        *)
Emulated(event, touching) ==
  CASE event \in {"KEYDOWN", "KEYUP"} -> <<"key">>
    [] event = "MOTION" /\ touching -> <<"position", "report">>
    [] event = "BUTTONUP" -> <<"release", "report">>
    [] event = "BUTTONDOWN" -> <<"touch", "position", "report">>
    [] OTHER -> <<>>

InputSDLInit ==
  /\ fds = {Sock} /\ poll_fds = NoCache /\ timers = <<>>
  /\ pos = 1 /\ running = TRUE /\ ready = {}
  /\ pc = "wait"
  /\ sdl = <<>> /\ input_queue = <<>> /\ is_in_touch = FALSE

-----------------------------------------------------------------------------
(* The head of waitForEvent: wait, or hand out the oldest event.           *)
waitForInput ==
  /\ pc = "wait"
  /\ IF input_queue = <<>>
     THEN register_timer(Poller) /\ EnterLoop /\ UNCHANGED input_queue
     ELSE input_queue' = Tail(input_queue) /\ UNCHANGED <<timers, running, pc>>
  /\ UNCHANGED <<fds, poll_fds, pos, ready, sdl, is_in_touch>>

loopEnded ==
  /\ pc = "returned"
  /\ pc' = "wait"
  /\ UNCHANGED <<fds, poll_fds, timers, pos, running, ready, sdl, input_queue, is_in_touch>>

pollerRegistering ==  \* mutant: poller registers its successor in any case
  /\ TimerExpired(Poller)
  /\ RemoveTimer(Append(timers, NewTimer(Poller)))
  /\ IF sdl = <<>> THEN UNCHANGED running ELSE abort_loop
  /\ sdl' = <<>>
  /\ UNCHANGED <<pc, fds, poll_fds, pos, ready, input_queue, is_in_touch>>

(* input.poller: without an event, once more; with events, all of them at  *)
(* once, and loop() is to return although they may have been of no use.    *)
poller ==
  /\ TimerExpired(Poller)
  /\ IF sdl = <<>>
     THEN /\ RemoveTimer(Append(timers, NewTimer(Poller)))
          /\ UNCHANGED <<pc, running, input_queue, is_in_touch>>
     ELSE LET Take(state, event) ==
                [touching |-> event = "BUTTONDOWN" \/ (state.touching /\ event # "BUTTONUP"),
                 queue |-> state.queue \o Emulated(event, state.touching)]
              end == FoldLeft(Take, [touching |-> is_in_touch, queue |-> input_queue], sdl)
          IN  /\ input_queue' = end.queue /\ is_in_touch' = end.touching
              /\ IF Contains(sdl, "QUIT")
                 THEN pc' = "forced to quit" /\ UNCHANGED <<timers, running>>
                 ELSE abort_loop /\ RemoveTimer(timers) /\ UNCHANGED pc
  /\ sdl' = <<>>
  /\ UNCHANGED <<fds, poll_fds, pos, ready>>

(* refreshTimerFunc, and the socket's read callback with updateFromRFB.    *)
refreshRuns ==
  /\ TimerExpired(Refresh)
  /\ RemoveTimer(timers)
  /\ UNCHANGED <<pc, fds, poll_fds, pos, running, ready, sdl, input_queue, is_in_touch>>

messageRead ==
  /\ Dispatching(<<Sock, "IN">>)
  /\ IF timer_running(Refresh) THEN UNCHANGED timers
     ELSE register_timer(Refresh) \/ UNCHANGED timers
  /\ Dispatched(<<Sock, "IN">>)
  /\ UNCHANGED <<fds, poll_fds, pos, running, sdl, input_queue, is_in_touch>>

Rest == UNCHANGED <<sdl, input_queue, is_in_touch>>

userActs ==
  /\ Len(sdl) < Waiting
  /\ \E event \in SDLEvent : sdl' = Append(sdl, event)
  /\ UNCHANGED <<loopVars, input_queue, is_in_touch>>

(* Only poller stops the loop, which leaves it after the timers.           *)
InputSDLNext ==
  \/ waitForInput \/ loopEnded \/ poller \/ refreshRuns \/ messageRead \/ userActs
  \/ (Iterate \/ SkipTimer \/ EndTimers \/ TimePasses) /\ Rest
  \/ (PollEvents({<<Sock, "IN">>}) \/ PollTimeout({}) \/ PollInterrupted({})) /\ Rest

InputSDLSpec == InputSDLInit /\ [][InputSDLNext]_inputSDLVars

-----------------------------------------------------------------------------
Pollers == Cardinality({i \in 1..Len(timers) : timers[i].id = Poller})

(* input_SDL.lua:76-82 and :28-31: every call of waitForEvent registers a  *)
(* poller and every fruitless poller another, yet they do not multiply and *)
(* are not lost: there is one while loop() has to go on, and none when it  *)
(* is about to return, so SDL is asked at a steady rate.                   *)
OnePoller ==
  /\ pc \in LoopPc \ {"returned"} => Pollers = (IF running THEN 1 ELSE 0)
  /\ pc \in {"wait", "returned"} => Pollers = 0
=============================================================================
