------------------------------- MODULE PollEvent -------------------------------
(***************************************************************************)
(* lib/poll-event.c: descriptors and deadlines are registered, poll_block  *)
(* waits for the first of them, and all are forgotten when it returns.     *)
(* Times are small integers and IntMax is the longest wait that poll takes.*)
(***************************************************************************)
EXTENDS Integers, FiniteSets

CONSTANTS
  Fds,                      \* descriptors
  IntMax,                   \* INT_MAX, in milliseconds
  MaxTime,                  \* bound on the time
  Delays                    \* arguments of poll_timer_wait

ASSUME TimeAssumption ==
  /\ IntMax \in Nat \ {0} /\ MaxTime \in Nat
  /\ IsFiniteSet(Fds) /\ Delays \subseteq Int

VARIABLES
  now,                      \* ts_msec()
  waiters,                  \* descriptors in the list of waiters
  timeout_when,
  ready,                    \* descriptors on which an event is pending
  polling,                  \* "idle", "poll" (in poll) or "returned"
  start,                    \* when poll_block was called
  until,                    \* when the present call of poll gives up
  retval,                   \* what time_poll returned; Failed: -errno
  deadlines                 \* those registered since poll_block returned

pollVars == <<now, waiters, timeout_when, ready, polling, start, until, retval,
              deadlines>>

Never == MaxTime + IntMax + 1   \* LLONG_MAX
AtOnce == -1                    \* LLONG_MIN
Failed == -1

Least(a, b) == IF a <= b THEN a ELSE b

-----------------------------------------------------------------------------
PollTypeOK ==
  /\ now \in 0..MaxTime /\ start \in 0..MaxTime
  /\ waiters \subseteq Fds /\ ready \subseteq Fds
  /\ timeout_when \in AtOnce..Never
  /\ polling \in {"idle", "poll", "returned"}
  /\ until \in 0..(MaxTime + IntMax)
  /\ retval \in Failed..Cardinality(Fds)
  /\ deadlines \subseteq AtOnce..MaxTime

PollInit ==
  /\ now = 0 /\ waiters = {} /\ timeout_when = Never /\ ready = {}
  /\ polling = "idle" /\ start = 0 /\ until = 0 /\ retval = 0 /\ deadlines = {}

PollFdWait(fd) ==
  /\ polling = "idle" /\ fd \notin waiters
  /\ waiters' = waiters \cup {fd}
  /\ UNCHANGED <<now, timeout_when, ready, polling, start,
                 until, retval, deadlines>>

PollCancel(fd) ==
  /\ polling = "idle" /\ fd \in waiters
  /\ waiters' = waiters \ {fd}
  /\ UNCHANGED <<now, timeout_when, ready, polling, start,
                 until, retval, deadlines>>

EarlierOf(when) == Least(when, timeout_when)

PollTimerWait(msec) ==
  LET when == IF msec <= 0 THEN AtOnce ELSE now + msec
  IN /\ polling = "idle" /\ when <= MaxTime
     /\ timeout_when' = EarlierOf(when)
     /\ deadlines' = deadlines \cup {when}
     /\ UNCHANGED <<now, waiters, ready, polling, start, until, retval>>

\* Mutation of TimeLeft: as if no time had passed since poll_block was called.
TimeLeftOfStart ==
  IF now >= timeout_when THEN 0 ELSE Least(timeout_when - start, IntMax)

\* What is left is computed anew for each call of poll.
TimeLeft ==
  IF now >= timeout_when THEN 0 ELSE Least(timeout_when - now, IntMax)

PollBlock ==
  /\ polling = "idle"
  /\ polling' = "poll" /\ start' = now /\ until' = now + TimeLeft
  /\ UNCHANGED <<now, waiters, timeout_when, ready, retval, deadlines>>

Forget == waiters' = {} /\ timeout_when' = Never

\* poll returns events, or 0 when its time is up, and poll_block returns.
Returns ==
  /\ polling = "poll" /\ (ready \cap waiters # {} \/ now >= until)
  /\ retval' = Cardinality(ready \cap waiters)
  /\ Forget
  /\ polling' = "returned"
  /\ UNCHANGED <<now, ready, start, until, deadlines>>

\* Any other error: poll_block says so and goes on as it does without.
Fails ==
  /\ polling = "poll"
  /\ retval' = Failed
  /\ Forget
  /\ polling' = "returned"
  /\ UNCHANGED <<now, ready, start, until, deadlines>>

\* EINTR: the loop of time_poll goes round.
Interrupted ==
  /\ polling = "poll" /\ until' = now + TimeLeft
  /\ UNCHANGED <<now, waiters, timeout_when, ready, polling, start,
                 retval, deadlines>>

\* The caller handles what is ready and registers for its next turn.
Handle ==
  /\ polling = "returned" /\ polling' = "idle"
  /\ ready' = {} /\ deadlines' = {}
  /\ UNCHANGED <<now, waiters, timeout_when, start, until, retval>>

Tick ==
  /\ now < MaxTime /\ now' = now + 1
  /\ UNCHANGED <<waiters, timeout_when, ready, polling, start,
                 until, retval, deadlines>>

EventOn(fd) ==
  /\ fd \notin ready /\ ready' = ready \cup {fd}
  /\ UNCHANGED <<now, waiters, timeout_when, polling, start,
                 until, retval, deadlines>>

PollNext ==
  \/ \E fd \in Fds : PollFdWait(fd) \/ PollCancel(fd) \/ EventOn(fd)
  \/ \E msec \in Delays : PollTimerWait(msec)
  \/ PollBlock \/ Returns \/ Fails \/ Interrupted \/ Handle \/ Tick

PollSpec ==
  PollInit /\ [][PollNext]_pollVars /\ WF_pollVars(Returns) /\ WF_pollVars(Tick)

-----------------------------------------------------------------------------
Earliest(when) == when \in deadlines /\ \A d \in deadlines : when <= d

\* With neither event nor error poll_block returns no earlier than the earliest deadline of its
\* turn, or after the longest wait that poll takes: deadlines of earlier turns
\* are forgotten.
NotEarly ==
  polling = "returned" /\ retval = 0 =>
    \/ \E d \in deadlines : Earliest(d) /\ now >= d
    \/ now - start >= IntMax

\* A deadline ends the wait although signals interrupt it again and again.
WakesInTime ==
  \A when \in 1..MaxTime :
    (polling = "poll" /\ when \in deadlines) ~> (polling # "poll" \/ now < when)

\* poll_block returns at the earliest deadline that was registered: not before
\* it, unless poll fails, and not later, however often a signal interrupts poll.
DeadlineKept == [](PollTypeOK /\ NotEarly) /\ WakesInTime
=============================================================================
