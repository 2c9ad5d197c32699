-------------------------------- MODULE FlowClock ---------------------------------
(***************************************************************************)
(* The timeouts of compact.c and the clock they are compared with:         *)
(* ts_msec() is a long long, soft_timeout an int, so that a deadline is    *)
(* cut to the width of an int when it is stored and not when it is read.   *)
(* One node's flows, touched by the other threads also while timer_event   *)
(* is between reading the clock and walking the table.                     *)
(***************************************************************************)
EXTENDS Integers

CONSTANTS
  Flows,
  INTERVAL,                 \* SOFT_TIMEOUT_INTERVAL
  HALF,                     \* the values of an int are -HALF..HALF - 1 (2^31)
  MaxNow                    \* bound: the clock

ASSUME WidthAssumption == HALF \in Nat \ {0} /\ INTERVAL \in 1..(HALF - 1) /\ MaxNow \in Nat

VARIABLES
  now,                      \* ts_msec()
  soft,                     \* soft_timeout of each flow that is known, else Unknown
  touched,                  \* when each flow was last used
  sweep                     \* the now of timer_event, while it runs

clockVars == <<now, soft, touched, sweep>>

Unknown == -HALF - 1        \* no int
NotRunning == -1

\* Mutation of Deadline: one millisecond short.
DeadlineShort(t) == ((t + INTERVAL - 1 + HALF) % (2 * HALF)) - HALF

Deadline(t) == ((t + INTERVAL + HALF) % (2 * HALF)) - HALF

Known == {f \in Flows : soft[f] # Unknown}

ClockInit ==
  /\ now = 0 /\ sweep = NotRunning
  /\ soft = [f \in Flows |-> Unknown] /\ touched = [f \in Flows |-> 0]

Tick == now < MaxNow /\ now' = now + 1 /\ UNCHANGED <<soft, touched, sweep>>

\* build_sflow_by_hash, build_rflow_by_hash, touch_sflow, touch_rflow
Touch(f) ==
  /\ soft' = [soft EXCEPT ![f] = Deadline(now)]
  /\ touched' = [touched EXCEPT ![f] = now]
  /\ UNCHANGED <<now, sweep>>

TimerStart == sweep = NotRunning /\ sweep' = now /\ UNCHANGED <<now, soft, touched>>

TimerEvent ==
  /\ sweep # NotRunning
  /\ soft' = [f \in Flows |-> IF sweep < soft[f] THEN soft[f] ELSE Unknown]
  /\ sweep' = NotRunning
  /\ UNCHANGED <<now, touched>>

ClockNext == Tick \/ (\E f \in Flows : Touch(f)) \/ TimerStart \/ TimerEvent

ClockSpec == ClockInit /\ [][ClockNext]_clockVars

-----------------------------------------------------------------------------
Forgotten(f) == soft[f] # Unknown /\ soft'[f] = Unknown

\* "SOFT_TIMEOUT_INTERVAL (10*1000) // in msec": a flow is forgotten only when it
\* was not used for that long.
ForgetsIdleOnly == \A f \in Flows : Forgotten(f) => now - touched[f] >= INTERVAL

\* A pass of timer_event leaves no flow that was idle for the interval when the
\* pass read the clock: its id comes back.
ForgetsEveryIdle ==
  sweep # NotRunning /\ sweep' = NotRunning =>
    \A f \in Flows : soft'[f] # Unknown => touched[f] + INTERVAL > sweep

\* A pass of timer_event forgets the flows that were idle, at any time, and no
\* other while the deadlines that are stored fit an int.
ForgottenInTime ==
  [][ForgetsEveryIdle /\ (now < HALF - INTERVAL => ForgetsIdleOnly)]_clockVars
=============================================================================
