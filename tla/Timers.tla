-------------------------------- MODULE Timers --------------------------------
(***************************************************************************)
(* The timers of ffi/eventloop.lua in the detail EventLoop leaves out: the *)
(* linked list, the moments as seconds and microseconds, the clock, and    *)
(* the time poll() is told to wait.                                        *)
(*                                                                         *)
(* The cells of the list are numbered in the order of their registration.  *)
(* A callback may register a timer, as input.poller does, or none; none of *)
(* the program's callbacks unregisters one.  A descriptor is always        *)
(* registered, so the error for "nothing to wait for" and the flag         *)
(* `running` stay with EventLoop.                                          *)
(***************************************************************************)
EXTENDS Integers, FiniteSets

CONSTANTS Milli,      \* microseconds in a millisecond (1000)
          Thousand,   \* milliseconds in a second (1000)
          Delays,     \* milliseconds a timer may be registered for
          MaxTimers,  \* bound: timers registered in a behaviour
          Start,      \* the time of day when the program starts
          Horizon     \* bound: the last time of day looked at

Second == Milli * Thousand

ASSUME ClockAssumption ==
  /\ Milli \in Nat \ {0} /\ Thousand \in Nat \ {0}
  /\ Delays \subseteq Nat /\ MaxTimers \in Nat
  /\ Start \in Nat /\ Start >= Second /\ Horizon \in Nat  \* not the second 0 of the epoch

Cell == 1..MaxTimers
Nil == 0
Timeval == [sec : Nat, usec : 0..Second]

VARIABLES clock,     \* the time of day in microseconds
          head,      \* `timers`: the first cell, or Nil
          next, tv,  \* the fields of the cells
          timer, prev,  \* the cursor of loop() and the cell before it
          now,       \* what loop() last read from the clock
          up_to,     \* the earliest moment this iteration has seen; sec = 0: none
          place,     \* top, scan, wait (in poll())
          duration,  \* poll_duration in milliseconds; -1: no limit
          made,      \* history: how many timers were registered
          pending,   \* history: the registered ones that have not run
          moment     \* history: when each of them is to run, in microseconds

timersVars == <<clock, head, next, tv, timer, prev, now, up_to, place, duration,
                made, pending, moment>>

TimersInit ==
  /\ clock = Start /\ head = Nil
  /\ next = [c \in Cell |-> Nil] /\ tv = [c \in Cell |-> [sec |-> 0, usec |-> 0]]
  /\ timer = Nil /\ prev = Nil
  /\ now = [sec |-> 0, usec |-> 0] /\ up_to = [sec |-> 0, usec |-> 0]
  /\ place = "top" /\ duration = -1
  /\ made = 0 /\ pending = {} /\ moment = [c \in Cell |-> 0]

gettimeofday == [sec |-> clock \div Second, usec |-> clock % Second]

NotBefore(a, b) == a.sec > b.sec \/ (a.sec = b.sec /\ a.usec >= b.usec)

-----------------------------------------------------------------------------
(* Registering. *)

(* The moment `ms` milliseconds from now.  Whole seconds are taken off     *)
(* while more than one is left, and one carry is enough for the rest.      *)
inMs(ms) ==
  LET seconds == IF ms > Thousand THEN (ms - 1) \div Thousand ELSE 0
      usec == gettimeofday.usec + (ms - seconds * Thousand) * Milli
  IN  IF usec > Second THEN [sec |-> gettimeofday.sec + seconds + 1, usec |-> usec - Second]
      ELSE [sec |-> gettimeofday.sec + seconds, usec |-> usec]

(* The cells met from `first` on, following the links in `links`: those in *)
(* every set that has `first` and is closed under the links.               *)
Closed(S, first, links) ==
  (first # Nil => first \in S) /\ \A c \in S : links[c] # Nil => links[c] \in S
Listed(first, links) == {c \in Cell : \A S \in SUBSET Cell : Closed(S, first, links) => c \in S}

(* Cell made + 1 is put at the end of the list.                            *)
append ==
  IF head = Nil THEN head' = made + 1 /\ UNCHANGED next
  ELSE LET tail == CHOOSE c \in Listed(head, next) : next[c] = Nil
       IN  next' = [next EXCEPT ![tail] = made + 1] /\ UNCHANGED head

(* What a registration leaves in the fields that are no links. *)
registered(ms) ==
  /\ made' = made + 1
  /\ tv' = [tv EXCEPT ![made + 1] = inMs(ms)]
  /\ moment' = [moment EXCEPT ![made + 1] = clock + ms * Milli]

-----------------------------------------------------------------------------
(* loop(). *)

iterate ==
  /\ place = "top"
  /\ now' = gettimeofday
  /\ up_to' = [up_to EXCEPT !.sec = 0]
  /\ timer' = head /\ prev' = Nil
  /\ place' = "scan"
  /\ UNCHANGED <<clock, head, next, tv, duration, made, pending, moment>>

AtTimer == place = "scan" /\ timer # Nil

unlinkStale(first, links) ==  \* mutant: the next cell is looked up before the callback
  /\ head' = IF prev = Nil THEN next[timer] ELSE first
  /\ next' = IF prev = Nil THEN links ELSE [links EXCEPT ![prev] = next[timer]]
  /\ timer' = next[timer]

(* Taking the timer out, with the links its callback has left.             *)
unlink(first, links) ==
  /\ head' = IF prev = Nil THEN links[timer] ELSE first
  /\ next' = IF prev = Nil THEN links ELSE [links EXCEPT ![prev] = links[timer]]
  /\ timer' = links[timer]

(* An expired timer: its callback registers none ... *)
runTimer ==
  /\ AtTimer /\ NotBefore(now, tv[timer])
  /\ unlink(head, next)
  /\ pending' = pending \ {timer}
  /\ UNCHANGED <<clock, tv, prev, now, up_to, place, duration, made, moment>>

(* ... or one, which is at the end of the list when the timer is taken out. *)
runTimerRegistering(ms) ==
  /\ AtTimer /\ NotBefore(now, tv[timer]) /\ made < MaxTimers
  /\ LET tail == CHOOSE c \in Listed(head, next) : next[c] = Nil
     IN  unlink(head, [next EXCEPT ![tail] = made + 1])
  /\ registered(ms)
  /\ pending' = (pending \ {timer}) \cup {made + 1}
  /\ UNCHANGED <<clock, prev, now, up_to, place, duration>>

EarlierBySeconds(a, b) == a.sec < b.sec  \* mutant: microseconds are not compared
Earlier(a, b) == a.sec < b.sec \/ (a.sec = b.sec /\ a.usec < b.usec)

skipTimer ==
  /\ AtTimer /\ ~NotBefore(now, tv[timer])
  /\ up_to' = IF up_to.sec = 0 \/ Earlier(tv[timer], up_to) THEN tv[timer] ELSE up_to
  /\ prev' = timer /\ timer' = next[timer]
  /\ UNCHANGED <<clock, head, next, tv, now, place, duration, made, pending, moment>>

(* The wait in whole milliseconds: the sum is positive, and passing it to  *)
(* poll() cuts the fraction off.                                           *)
poll_duration ==
  IF up_to.sec = 0 THEN -1
  ELSE (up_to.usec - now.usec + (up_to.sec - now.sec) * Second) \div Milli + 1

endScan ==
  /\ place = "scan" /\ timer = Nil
  /\ duration' = poll_duration
  /\ place' = "wait"
  /\ UNCHANGED <<clock, head, next, tv, timer, prev, now, up_to, made, pending, moment>>

(* poll() comes back: at its end, for a signal, or with an event whose     *)
(* callback registers no timer ...                                         *)
pollReturns ==
  /\ place = "wait"
  /\ place' = "top"
  /\ UNCHANGED <<clock, head, next, tv, timer, prev, now, up_to, duration, made, pending, moment>>

(* ... or one, as updateFromRFB does.                                      *)
pollReturnsRegistering(ms) ==
  /\ place = "wait" /\ made < MaxTimers
  /\ append
  /\ registered(ms)
  /\ pending' = pending \cup {made + 1}
  /\ place' = "top"
  /\ UNCHANGED <<clock, timer, prev, now, up_to, duration>>

tick ==
  /\ clock < Horizon
  /\ clock' = clock + 1
  /\ UNCHANGED <<head, next, tv, timer, prev, now, up_to, place, duration, made,
                 pending, moment>>

TimersNext ==
  \/ iterate \/ runTimer \/ skipTimer \/ endScan \/ pollReturns \/ tick
  \/ \E ms \in Delays : runTimerRegistering(ms) \/ pollReturnsRegistering(ms)

TimersSpec == TimersInit /\ [][TimersNext]_timersVars

-----------------------------------------------------------------------------
(* The list holds the timers that have been registered and have not run,   *)
(* in the order of their registration: a timer taken out behind the cursor *)
(* takes none of those its callback appended with it.                      *)
ListMatches ==
  /\ Listed(head, next) = pending
  /\ \A c \in pending : next[c] # Nil => next[c] > c

(* A timer's moment is the one asked for, to the microsecond.              *)
Ticks(m) == m.sec * Second + m.usec
MomentsExact == \A c \in pending : Ticks(tv[c]) = moment[c]

(* No timer is found expired before its moment.                            *)
NeverEarly == AtTimer /\ NotBefore(now, tv[timer]) => moment[timer] <= clock

(* eventloop.lua:52-98 and :183-201: the list, its moments and the test    *)
(* for expiry, whose carry uses > where >= is meant, do what a set of      *)
(* timers would.                                                           *)
TimersExact == ListMatches /\ MomentsExact /\ NeverEarly

(* eventloop.lua:53-55, "this is needed to properly calculate times": when *)
(* loop() waits, no timer it should have run is left behind, and the wait  *)
(* ends at most a millisecond after the earliest moment and not before it, *)
(* counted from the time read before the callbacks ran: a slow callback    *)
(* delays the next timer by as much as it took, and by no more.            *)
SleepFits ==
  place = "wait" =>
    IF pending = {} THEN duration = -1
    ELSE LET end == Ticks(now) + duration * Milli IN
         /\ \A c \in pending : Ticks(now) < moment[c] /\ end <= moment[c] + Milli
         /\ \E c \in pending : moment[c] <= end
=============================================================================
