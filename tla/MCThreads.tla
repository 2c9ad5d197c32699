------------------------------ MODULE MCThreads ------------------------------
(***************************************************************************)
(* The threads of a node step by step, for TLC: on the sending sessions of *)
(* split, on its receiving sessions, and on the flow table of compaction.  *)
(* The three share no state, so that each behaviour follows one of them.   *)
(***************************************************************************)
EXTENDS SplitThreads, TLC

CONSTANTS recv_tun, recv_unsplit      \* the threads of test.c

VARIABLES
  which,                                                    \* the one followed
  rsess, rtable, udp, main, rfault,                         \* RseThreads
  pool, head, tail, empty, flow, flows, rindex, owner, tun, timer, ack, asked,
  crossed, ffault                                           \* FlowThreads

R == INSTANCE RseThreads WITH
  NumSess <- 3, sess <- rsess, table <- rtable, fault <- rfault

\* As many ids as keys, so that get_id comes for the last id and, while one is on
\* its way back, for none; and fewer than flows, so that ids are given again.
F == INSTANCE FlowThreads WITH
  Keys <- {"k1", "k2"}, NumIds <- 2, NumFlows <- 3, table <- flows, fault <- ffault

ASSUME R!NumAssumption /\ F!NumsAssumption

rseVars == <<rsess, rtable, udp, main, rfault>>
flowVars == <<pool, head, tail, empty, flow, flows, rindex, owner, tun, timer, ack,
              asked, crossed, ffault>>

ThreadsInit == which \in {"sse", "rse", "flow"} /\ Init /\ R!Init /\ F!Init

\* SplitThreads says itself where it stops; the others end at their bounds.
ThreadsNext ==
  \/ which = "sse" /\ Next /\ UNCHANGED <<which, rseVars, flowVars>>
  \/ which = "rse" /\ R!Next /\ UNCHANGED <<which, vars, flowVars>>
  \/ which = "flow" /\ F!Next /\ UNCHANGED <<which, vars, rseVars>>
  \/ which # "sse" /\ UNCHANGED <<which, vars, rseVars, flowVars>>

ThreadsSpec ==
  ThreadsInit /\ [][ThreadsNext]_<<which, vars, rseVars, flowVars>>

\* recv_tun and recv_unsplit call upper_send alike.
SendersAlike == Permutations(Senders)

-----------------------------------------------------------------------------
\* What the threads share keeps its shape: the objects of a sending session are
\* of their types, a receiving session that lives is in its table (split.c), and
\* the table of flows, sflow_rindex and the id pool agree (compact.c, idpool.c).
TablesSound == TypeOK /\ R!LiveInTable /\ F!FlowTablesSound
=============================================================================
