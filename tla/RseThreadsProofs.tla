--------------------------- MODULE RseThreadsProofs ---------------------------
(***************************************************************************)
(* Proofs about RseThreads for any number of sessions: whatever the order  *)
(* in which recv_udp and proc_timer are preempted, no receiving session is *)
(* lost and none is freed twice.                                           *)
(***************************************************************************)
EXTENDS RseThreads, TLAPS

SessionType ==
  [mem : {"unused", "live", "freed"}, idle : BOOLEAN, held : BOOLEAN]

\* recv_udp has a session where it works on one.
UdpType ==
  \/ udp \in [pc : {"out", "create"}, se : {None}, data : BOOLEAN]
  \/ udp \in [pc : {"refresh", "clear", "lock", "work"}, se : Sessions, data : BOOLEAN]

TypeInv ==
  /\ sess \in [Sessions -> SessionType]
  /\ table \in Sessions \cup {None}
  /\ UdpType
  /\ main \in [pc : {"out", "test", "free"}, now : SUBSET Sessions]

\* The table holds the session that lives, if there is one.
TableLive == table # None => sess[table].mem = "live"

\* proc_timer frees the session of the table that it found idle.
FreesLive == main.pc = "free" => table # None

\* Nobody but recv_udp creates: the table it found empty stays so.
CreatesAlone == udp.pc = "create" => table = None

IInv == TypeInv /\ LiveInTable /\ TableLive /\ FreesLive /\ CreatesAlone

LEMMA InitInv ==
  ASSUME NumAssumption
  PROVE  Init => IInv
<1> SUFFICES ASSUME Init PROVE IInv
  OBVIOUS
<1>1. Unused \in SessionType /\ Unused.mem = "unused"
  <2>1. NewSession \in SessionType
    BY DEF NewSession, SessionType
  <2>2. ASSUME NEW r \in SessionType
        PROVE  [r EXCEPT !.mem = "unused"] \in SessionType
               /\ [r EXCEPT !.mem = "unused"].mem = "unused"
    BY DEF SessionType
  <2> QED BY <2>1, <2>2 DEF Unused
<1>2. sess = [s \in Sessions |-> Unused] /\ table = None /\ udp = UdpOut /\ main = MainOut
  BY DEF Init
<1>3. sess \in [Sessions -> SessionType]
  BY <1>1, <1>2 DEF SessionType
<1>4. UdpType /\ main \in [pc : {"out", "test", "free"}, now : SUBSET Sessions]
  BY <1>2 DEF UdpType, UdpOut, MainOut
<1>5. \A s \in Sessions : sess[s].mem = "unused"
  BY <1>1, <1>2
<1> QED BY <1>2, <1>3, <1>4, <1>5
     DEF IInv, TypeInv, LiveInTable, TableLive, FreesLive, CreatesAlone, UdpOut, MainOut

\* A step of recv_udp on the session it has moves no session in or out of the
\* table.
LEMMA OnSessionInv ==
  ASSUME NumAssumption, IInv, NEW new \in SessionType, NEW pc, udp.se \in Sessions,
         pc \in {"out", "clear", "lock", "work"},
         new.mem = sess[udp.se].mem, OnSession(new, pc), UNCHANGED <<table, main>>
  PROVE  IInv'
<1> USE DEF IInv, TypeInv
<1>1. CASE UNCHANGED <<sess, udp>>
  BY <1>1 DEF UdpType, LiveInTable, TableLive, FreesLive, CreatesAlone
<1>2. CASE /\ sess' = [sess EXCEPT ![udp.se] = new]
           /\ udp' = IF pc = "out" THEN UdpOut ELSE [udp EXCEPT !.pc = pc]
  <2>1. sess' \in [Sessions -> SessionType]
    BY <1>2
  <2>2. \A s \in Sessions : sess'[s].mem = sess[s].mem
    BY <1>2
  <2>3. UdpType' /\ udp'.pc # "create"
    BY <1>2 DEF UdpType, UdpOut
  <2>4. LiveInTable' /\ TableLive'
    BY <2>2 DEF LiveInTable, TableLive
  <2> QED BY <2>1, <2>3, <2>4 DEF FreesLive, CreatesAlone
<1> QED BY <1>1, <1>2 DEF OnSession

LEMMA GetRseInv ==
  ASSUME NumAssumption, IInv, GetRse
  PROVE  IInv'
<1> USE DEF IInv, TypeInv
<1>1. UNCHANGED <<sess, table, main>>
  BY DEF GetRse
<1>2. UdpType' /\ (udp'.pc = "create" => table = None)
  <2>1. PICK data \in BOOLEAN :
          udp' = IF table # None THEN [pc |-> "refresh", se |-> table, data |-> data]
                 ELSE IF data THEN [UdpOut EXCEPT !.pc = "create", !.data = TRUE]
                 ELSE UdpOut
    BY DEF GetRse
  <2> QED BY <2>1 DEF UdpType, UdpOut
<1> QED BY <1>1, <1>2 DEF LiveInTable, TableLive, FreesLive, CreatesAlone

\* The new session is the only one that lives.
LEMMA CreateRseInv ==
  ASSUME NumAssumption, IInv, CreateRse
  PROVE  IInv'
<1> USE DEF IInv, TypeInv
<1>1. PICK s \in Sessions :
        /\ sess[s].mem = "unused" /\ sess' = [sess EXCEPT ![s] = NewSession]
        /\ table' = s /\ udp' = [udp EXCEPT !.pc = AfterGet, !.se = s]
  BY DEF CreateRse
<1>2. table = None /\ UNCHANGED main /\ main.pc # "free"
  BY DEF CreateRse, CreatesAlone, TableFree
<1>3. s # None
  BY DEF NumAssumption, Sessions, None
<1>4. \A r \in Sessions : sess[r].mem # "live"
  BY <1>2 DEF LiveInTable, NumAssumption, Sessions, None
<1>5. sess' \in [Sessions -> SessionType] /\ UdpType' /\ udp'.pc # "create"
  BY <1>1 DEF SessionType, NewSession, UdpType, AfterGet
<1>6. LiveInTable' /\ TableLive'
  BY <1>1, <1>4 DEF LiveInTable, TableLive, NewSession
<1> QED BY <1>1, <1>2, <1>5, <1>6 DEF FreesLive, CreatesAlone

LEMMA UdpInv ==
  ASSUME NumAssumption, IInv, Udp
  PROVE  IInv'
<1>0. udp.pc \in {"refresh", "clear", "lock", "work"} =>
        udp.se \in Sessions /\ sess[udp.se] \in SessionType
  BY DEF IInv, TypeInv, UdpType
<1>1. CASE GetRse
  BY <1>1, GetRseInv
<1>2. CASE CreateRse
  BY <1>2, CreateRseInv
<1>3. CASE Refresh
  <2> DEFINE new == [sess[udp.se] EXCEPT !.idle = FALSE]
  <2>1. udp.se \in Sessions /\ new \in SessionType /\ new.mem = sess[udp.se].mem
    BY <1>0, <1>3 DEF Refresh, SessionType
  <2>2. OnSession(new, AfterGet) /\ UNCHANGED <<table, main>>
    BY <1>3 DEF Refresh
  <2> HIDE DEF new
  <2> QED BY <2>1, <2>2, OnSessionInv DEF AfterGet
<1>4. CASE Clear
  BY <1>0, <1>4, OnSessionInv DEF Clear
<1>5. CASE Lock
  <2> DEFINE new == [sess[udp.se] EXCEPT !.held = TRUE]
  <2>1. udp.se \in Sessions /\ new \in SessionType /\ new.mem = sess[udp.se].mem
    BY <1>0, <1>5 DEF Lock, SessionType
  <2>2. OnSession(new, "work") /\ UNCHANGED <<table, main>>
    BY <1>5 DEF Lock
  <2> HIDE DEF new
  <2> QED BY <2>1, <2>2, OnSessionInv
<1>6. CASE WorkAndUnlock
  <2> DEFINE new == [sess[udp.se] EXCEPT !.held = FALSE]
  <2>1. udp.se \in Sessions /\ new \in SessionType /\ new.mem = sess[udp.se].mem
    BY <1>0, <1>6 DEF WorkAndUnlock, SessionType
  <2>2. OnSession(new, "out") /\ UNCHANGED <<table, main>>
    BY <1>6 DEF WorkAndUnlock
  <2> HIDE DEF new
  <2> QED BY <2>1, <2>2, OnSessionInv
<1> QED BY <1>1, <1>2, <1>3, <1>4, <1>5, <1>6 DEF Udp

\* A session of which the deadline passes is where it was.
LEMMA IdleExpiresInv ==
  ASSUME NumAssumption, IInv, NEW s \in Sessions, IdleExpires(s)
  PROVE  IInv'
<1> USE DEF IInv, TypeInv
<1>1. sess' = [sess EXCEPT ![s].idle = TRUE] /\ UNCHANGED <<table, udp, main>>
  BY DEF IdleExpires
<1>2. sess' \in [Sessions -> SessionType] /\ \A r \in Sessions : sess'[r].mem = sess[r].mem
  BY <1>1 DEF SessionType
<1> QED BY <1>1, <1>2 DEF UdpType, LiveInTable, TableLive, FreesLive, CreatesAlone

\* The session is freed and leaves the table in one step under rse_lock.
LEMMA MainInv ==
  ASSUME NumAssumption, IInv, Main
  PROVE  IInv'
<1> USE DEF IInv, TypeInv
<1>1. CASE TimerStart
  BY <1>1 DEF TimerStart, UdpType, LiveInTable, TableLive, FreesLive, CreatesAlone
<1>2. CASE TimerTest
  <2>1. UNCHANGED <<sess, table, udp>>
    BY <1>2 DEF TimerTest
  <2>2. main' \in [pc : {"out", "test", "free"}, now : SUBSET Sessions]
    BY <1>2 DEF TimerTest, MainOut
  <2>3. FreesLive'
    BY <1>2 DEF TimerTest, MainOut, FreesLive
  <2> QED BY <2>1, <2>2, <2>3 DEF UdpType, LiveInTable, TableLive, CreatesAlone
<1>3. CASE TimerFree
  <2>1. /\ table \in Sessions /\ table' = None /\ main' = MainOut /\ UNCHANGED udp
        /\ sess' = [sess EXCEPT ![table].mem = "freed"]
    BY <1>3 DEF TimerFree, FreesLive
  <2>2. sess' \in [Sessions -> SessionType]
    BY <2>1 DEF SessionType
  <2>3. \A s \in Sessions : sess'[s].mem = IF s = table THEN "freed" ELSE sess[s].mem
    BY <2>1 DEF SessionType
  <2>4. LiveInTable'
    BY <2>3 DEF LiveInTable
  <2> QED BY <2>1, <2>2, <2>4 DEF UdpType, TableLive, FreesLive, CreatesAlone, MainOut
<1> QED BY <1>1, <1>2, <1>3 DEF Main

LEMMA NextInv ==
  ASSUME NumAssumption
  PROVE  IInv /\ [Next]_vars => IInv'
<1> SUFFICES ASSUME IInv, [Next]_vars PROVE IInv'
  OBVIOUS
<1>1. CASE UNCHANGED vars
  BY <1>1 DEF IInv, TypeInv, UdpType, LiveInTable, TableLive, FreesLive, CreatesAlone, vars
<1> QED BY <1>1, UdpInv, MainInv, IdleExpiresInv DEF Next

LEMMA Inductive ==
  ASSUME NumAssumption
  PROVE  Spec => []IInv
BY InitInv, NextInv, PTL DEF Spec

\* proc_timer and create_rse lose no session: one that lives is in the table,
\* where the timer finds it, wherever the two threads stand.
THEOREM NoneLost ==
  ASSUME NumAssumption
  PROVE  Spec => []LiveInTable
<1>1. IInv => LiveInTable
  BY DEF IInv
<1> QED BY <1>1, Inductive, PTL

\* What proc_timer is about to free lives.
AboutToFree == main.pc = "free" => table # None /\ sess[table].mem = "live"

\* No session is freed twice, and no null pointer, although the session's own
\* lock is not taken (proc_timer).
THEOREM FreedOnce ==
  ASSUME NumAssumption
  PROVE  Spec => []AboutToFree
<1>1. IInv => AboutToFree
  BY DEF IInv, AboutToFree, FreesLive, TableLive
<1> QED BY <1>1, Inductive, PTL
=============================================================================
