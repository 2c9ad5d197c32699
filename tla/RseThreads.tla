------------------------------- MODULE RseThreads --------------------------------
(***************************************************************************)
(* The receiving sessions of split.c, cut where a thread can be preempted: *)
(* recv_udp runs the handlers, which find the session under rse_lock and   *)
(* use it afterwards under its own lock; proc_timer in the main loop frees *)
(* an idle session under rse_lock alone.                                   *)
(*                                                                         *)
(* One peer.  A thread may be preempted for any time, so a session may     *)
(* become idle at any moment; what was expired when proc_timer read the    *)
(* clock is in the variable main.  After undefined behaviour (fault) the   *)
(* process stops.                                                          *)
(***************************************************************************)
EXTENDS Integers

CONSTANT NumSess            \* bound: sessions created

NumAssumption == NumSess \in Nat \ {0}

VARIABLES
  sess,                     \* the rse_t objects
  table,                    \* rse[k->mac]
  udp,                      \* recv_udp: pc, session, kind of frame
  main,                     \* the main loop
  fault                     \* the undefined behaviour met, if any

vars == <<sess, table, udp, main, fault>>

Sessions == 1..NumSess

None == 0                   \* the NULL pointer

\* reset_rse's session; held says that recv_udp has its lock.
NewSession == [mem |-> "live", idle |-> FALSE, held |-> FALSE]

Unused == [NewSession EXCEPT !.mem = "unused"]

UdpOut == [pc |-> "out", se |-> None, data |-> FALSE]

MainOut == [pc |-> "out", now |-> {}]

Init ==
  /\ sess = [s \in Sessions |-> Unused] /\ table = None
  /\ udp = UdpOut /\ main = MainOut /\ fault = "none"

\* proc_timer has rse_lock from its test to the freeing.
TableFree == main.pc # "free"

\* A step of recv_udp on its session, which may have been freed.
OnSession(new, pc) ==
  IF sess[udp.se].mem = "freed"
  THEN fault' = "freed session" /\ UNCHANGED <<sess, udp>>
  ELSE /\ sess' = [sess EXCEPT ![udp.se] = new]
       /\ udp' = IF pc = "out" THEN UdpOut ELSE [udp EXCEPT !.pc = pc]
       /\ UNCHANGED fault

-----------------------------------------------------------------------------
\* get_rse under rse_lock: proc_data (data) creates a session that is not there,
\* proc_ack_req and proc_patch leave.
GetRse ==
  /\ udp.pc = "out" /\ TableFree
  /\ \E data \in BOOLEAN :
       udp' = IF table # None THEN [pc |-> "refresh", se |-> table, data |-> data]
              ELSE IF data THEN [UdpOut EXCEPT !.pc = "create", !.data = TRUE]
              ELSE UdpOut
  /\ UNCHANGED <<sess, table, main, fault>>

AfterGet == IF udp.data THEN "clear" ELSE "lock"

Refresh ==
  /\ udp.pc = "refresh"
  /\ OnSession([sess[udp.se] EXCEPT !.idle = FALSE], AfterGet)
  /\ UNCHANGED <<table, main>>

\* create_rse, which is called by this thread only: no session to replace.
CreateRse ==
  /\ udp.pc = "create" /\ TableFree
  /\ \E s \in Sessions :
       /\ sess[s].mem = "unused" /\ \A r \in 1..(s - 1) : sess[r].mem # "unused"
       /\ sess' = [sess EXCEPT ![s] = NewSession]
       /\ table' = s
       /\ udp' = [udp EXCEPT !.pc = AfterGet, !.se = s]
  /\ UNCHANGED <<main, fault>>

\* clr_all_bits, before the lock is taken
Clear == udp.pc = "clear" /\ OnSession(sess[udp.se], "lock") /\ UNCHANGED <<table, main>>

Lock ==
  /\ udp.pc = "lock"
  /\ OnSession([sess[udp.se] EXCEPT !.held = TRUE], "work")
  /\ UNCHANGED <<table, main>>

\* Slices are copied, the message is submitted, an acknowledgement sent.
WorkAndUnlock ==
  /\ udp.pc = "work"
  /\ OnSession([sess[udp.se] EXCEPT !.held = FALSE], "out")
  /\ UNCHANGED <<table, main>>

-----------------------------------------------------------------------------
\* The idle deadline of a session passes.
IdleExpires(s) ==
  /\ sess[s].mem = "live" /\ ~sess[s].idle
  /\ sess' = [sess EXCEPT ![s].idle = TRUE]
  /\ UNCHANGED <<table, udp, main, fault>>

TimerStart ==
  /\ main.pc = "out"
  /\ main' = [pc |-> "test", now |-> {s \in Sessions : sess[s].idle}]
  /\ UNCHANGED <<sess, table, udp, fault>>

TimerTest ==
  /\ main.pc = "test"
  /\ main' = IF table # None /\ sess[table].idle /\ table \in main.now
             THEN [main EXCEPT !.pc = "free"] ELSE MainOut
  /\ UNCHANGED <<sess, table, udp, fault>>

TimerFree ==
  /\ main.pc = "free"
  /\ sess' = [sess EXCEPT ![table].mem = "freed"]
  /\ table' = None /\ main' = MainOut
  /\ UNCHANGED <<udp, fault>>

Udp == GetRse \/ Refresh \/ CreateRse \/ Clear \/ Lock \/ WorkAndUnlock

Main == TimerStart \/ TimerTest \/ TimerFree

Next == fault = "none" /\ (Udp \/ Main \/ \E s \in Sessions : IdleExpires(s))

Spec == Init /\ [][Next]_vars

-----------------------------------------------------------------------------
\* A session that lives is in the table: none is lost by proc_timer or create_rse.
LiveInTable == \A s \in Sessions : sess[s].mem = "live" => table = s

=============================================================================
