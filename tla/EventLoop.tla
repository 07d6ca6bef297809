------------------------------ MODULE EventLoop ------------------------------
(***************************************************************************)
(* ffi/eventloop.lua: the table of file descriptors, the cached array for  *)
(* poll(), the list of timers and the loop that serves both, one step per  *)
(* place where a callback may run or the thread may wait.                  *)
(*                                                                         *)
(* The callbacks belong to the modules that register them.  An action here *)
(* is the loop's part of a step; the composing module conjoins what the    *)
(* callback does.                                                          *)
(*                                                                         *)
(* Time is abstract.  A timer is "armed" until its moment, "past" from     *)
(* then on, and "due" once an iteration of the loop has read the clock     *)
(* (eventloop.lua:181) after that moment: a timer whose moment comes later *)
(* in the same iteration waits for the next one.  Moments come in any      *)
(* order, so every choice of delays is covered.  No descriptor of the      *)
(* program has a write callback, so POLLOUT is never asked for and never   *)
(* answered.                                                               *)
(***************************************************************************)
EXTENDS Integers, FiniteSets, SequencesExt

CONSTANTS Fd,       \* the descriptors that may be registered
          TimerId,  \* the names of timers
          NoCache   \* poll_fds = nil

VARIABLES pc,        \* where the thread is
          fds,       \* the registered descriptors
          poll_fds,  \* the cached order of descriptors, or NoCache
          timers,    \* the list of timers, head first
          pos,       \* the place of `timer` in the list during a traversal
          running,   \* the loop's own flag, cleared by abort_loop
          ready      \* what poll() reported and has not been dispatched yet

loopVars == <<pc, fds, poll_fds, timers, pos, running, ready>>

Event == {"IN", "ERR", "HUP"}
Timer == [id : TimerId, state : {"armed", "past", "due"}]

(* The places of the thread inside loop(), and the errors loop() raises.   *)
LoopPc == {"top", "timers", "poll", "dispatch", "returned"}
LoopError == {"nothing to wait for", "nil poll_fds"}

LoopTypeOK ==
  /\ fds \subseteq Fd
  /\ poll_fds \in Seq(Fd) \cup {NoCache}
  /\ timers \in Seq(Timer)
  /\ pos \in Nat \ {0}
  /\ running \in BOOLEAN
  /\ ready \subseteq Fd \X Event

-----------------------------------------------------------------------------
(* The interface used by the rest of the program. *)

register_fd(fd) ==
  /\ fd \notin fds
  /\ fds' = fds \cup {fd}
  /\ poll_fds' = NoCache

NewTimer(id) == [id |-> id, state |-> "armed"]
register_timer(id) == timers' = Append(timers, NewTimer(id))

timer_running(id) == \E i \in 1..Len(timers) : timers[i].id = id

abort_loop_ignored == running' = TRUE  \* mutant: the flag is not cleared
abort_loop == running' = FALSE

-----------------------------------------------------------------------------
(* loop(). *)

EnterLoop == running' = TRUE /\ pc' = "top"

LeaveLoop ==
  /\ pc = "top" /\ ~running
  /\ pc' = "returned"
  /\ UNCHANGED <<fds, poll_fds, timers, pos, running, ready>>

(* check_poll_fds: pairs() visits the table in no particular order. *)
Orders(S) == {s \in [1..Cardinality(S) -> S] : IsInjective(s)}
check_poll_fds == poll_fds' \in IF poll_fds = NoCache THEN Orders(fds) ELSE {poll_fds}

(* Reading the clock decides which timers this iteration finds expired. *)
SeenLate(t) == t  \* mutant: no timer is ever found expired
Seen(t) == IF t.state = "past" THEN [t EXCEPT !.state = "due"] ELSE t

Iterate ==
  /\ pc = "top" /\ running
  /\ check_poll_fds
  /\ timers' = [i \in 1..Len(timers) |-> Seen(timers[i])]
  /\ pos' = 1
  /\ pc' = "timers"
  /\ UNCHANGED <<fds, running, ready>>

SkipTimer ==
  /\ pc = "timers" /\ pos <= Len(timers) /\ timers[pos].state # "due"
  /\ pos' = pos + 1
  /\ UNCHANGED <<pc, fds, poll_fds, timers, running, ready>>

(* The callback of timer `id` is about to run; afterwards, the timer is    *)
(* taken out of the list, which the callback may have extended.            *)
TimerExpired(id) ==
  /\ pc = "timers" /\ pos <= Len(timers)
  /\ timers[pos].state = "due" /\ timers[pos].id = id

RemoveTimer(list) == timers' = RemoveAt(list, pos)

(* All timers looked at: stop, fail, or wait in poll(). *)
EndTimers ==
  /\ pc = "timers" /\ pos > Len(timers)
  /\ pc' = IF ~running THEN "returned"
           ELSE IF timers = <<>> /\ fds = {} THEN "nothing to wait for"
           ELSE "poll"
  /\ UNCHANGED <<fds, poll_fds, timers, pos, running, ready>>

(* poll() answers with the events of the descriptors in its array ...      *)
PollEvents(events) ==
  /\ pc = "poll" /\ events # {}
  /\ ready' = events
  /\ pc' = "dispatch"
  /\ UNCHANGED <<fds, poll_fds, timers, pos, running>>

PollTimeoutReturns(events) ==  \* mutant: loop() returns when poll() times out
  /\ pc = "poll" /\ events = {}
  /\ \E i \in 1..Len(timers) : timers[i].state = "past"
  /\ pc' = "returned"
  /\ UNCHANGED <<fds, poll_fds, timers, pos, running, ready>>

(* ... or times out at the moment of the earliest timer ... *)
PollTimeout(events) ==
  /\ pc = "poll" /\ events = {}
  /\ \E i \in 1..Len(timers) : timers[i].state = "past"
  /\ pc' = "top"
  /\ UNCHANGED <<fds, poll_fds, timers, pos, running, ready>>

(* ... or is interrupted by a signal, which the loop ignores. *)
PollInterrupted(events) ==
  /\ pc = "poll" /\ events = {}
  /\ pc' = "top"
  /\ UNCHANGED <<fds, poll_fds, timers, pos, running, ready>>

(* Dispatch goes through the array slot by slot and through the events of  *)
(* a slot in the order POLLIN, POLLERR, POLLHUP.                           *)
Slot(fd) == CHOOSE i \in 1..Len(poll_fds) : poll_fds[i] = fd
Rank == [IN |-> 1, ERR |-> 2, HUP |-> 3]
Before(c, d) == Slot(c[1]) < Slot(d[1]) \/ (c[1] = d[1] /\ Rank[c[2]] < Rank[d[2]])

Dispatching(c) ==
  /\ pc = "dispatch" /\ c \in ready
  /\ \A d \in ready \ {c} : Before(c, d)

(* A callback has returned and left the array valid. *)
Dispatched(c) ==
  /\ ready' = ready \ {c}
  /\ pc' = IF ready \ {c} = {} THEN "top" ELSE "dispatch"

(* A callback has returned and invalidated the array: the loop goes on to  *)
(* index poll_fds unless this was the last check of the last slot.         *)
DispatchedStale(c) ==
  /\ ready' = ready \ {c}
  /\ pc' = IF c[2] = "HUP" /\ Slot(c[1]) = Len(poll_fds) THEN "top" ELSE "nil poll_fds"

(* The moment of an armed timer comes. *)
TimePasses ==
  /\ \E i \in 1..Len(timers) :
       /\ timers[i].state = "armed"
       /\ timers' = [timers EXCEPT ![i].state = "past"]
  /\ UNCHANGED <<pc, fds, poll_fds, pos, running, ready>>
=============================================================================
