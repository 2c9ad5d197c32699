-------------------------------- MODULE PktList --------------------------------
(***************************************************************************)
(* The list through which xmit_compress hands packets to recv_tun, at the  *)
(* level of its pointers: xmit_compress links the packets it builds, the   *)
(* loop of recv_tun sends, unlinks and frees each.  The nodes are malloc's *)
(* and come back from free with the pointers they had.                     *)
(***************************************************************************)
EXTENDS ListOps, FiniteSets

CONSTANT Null

ASSUME HeapAssumption ==
  Heads # {} /\ Heads \cap Elems = {} /\ Null \notin Nodes

\* struct list pkt_list of recv_tun
PktListHead == CHOOSE l \in Heads : TRUE

VARIABLES
  heap,             \* the pointers
  alloc,            \* the nodes that are allocated
  turn,             \* what xmit_compress built in this turn
  built,            \* the packets of this turn
  sent,             \* those that upper_send was called with
  pkt               \* the iterator of the loop; Null outside it

pktVars == <<heap, alloc, turn, built, sent, pkt>>

PktInit ==
  /\ heap = [next |-> [n \in Nodes |-> n], prev |-> [n \in Nodes |-> n]]
  /\ alloc = {} /\ built = <<>> /\ sent = <<>>
  /\ turn = "one" /\ pkt = Null

Empty == ListInit(heap, PktListHead)

Push(a, e) == ListPushBack(a, PktListHead, e)

\* xmit_compress returns, and LIST_FOR_EACH_SAFE starts with the first packet.
Hand(a, s, kind) ==
  /\ heap' = a
  /\ alloc' = alloc \cup {s[i] : i \in DOMAIN s}
  /\ built' = s /\ sent' = <<>>
  /\ turn' = kind
  /\ pkt' = ListFront(a, PktListHead)

\* One packet: the IP packet as it is, or build_cpkt for TCP and UDP.
XmitOne(e) == Hand(Push(Empty, e), <<e>>, "one")

\* Mutation of XmitRequest: the packet is linked by two functions.
XmitRequestTwice(c, e) ==
  Hand(Push(Push(Push(Empty, c), e), e), <<c, e>>, "request")

\* build_ctl, then the packet.
XmitRequest(c, e) == Hand(Push(Push(Empty, c), e), <<c, e>>, "request")

\* build_cpkt for a fragment: list_push_back at the end of its branch, and
\* again at the end of the function.
XmitFragment(e) == Hand(Push(Push(Empty, e), e), <<e>>, "fragment")

\* No id was left for a new flow: nothing was built.
XmitNothing == Hand(Empty, <<>>, "one")

XmitCompress ==
  /\ pkt = Null
  /\ \/ XmitNothing
     \/ \E e \in Elems \ alloc : XmitOne(e) \/ XmitFragment(e)
     \/ \E c, e \in Elems \ alloc : c # e /\ XmitRequest(c, e)

\* upper_send, list_remove, free; the next node was read before.
LoopBody ==
  /\ pkt \in alloc
  /\ sent' = Append(sent, pkt)
  /\ heap' = ListRemove(heap, pkt)
  /\ alloc' = alloc \ {pkt}
  /\ pkt' = heap.next[pkt]
  /\ UNCHANGED <<turn, built>>

LoopEnd ==
  /\ pkt = PktListHead
  /\ pkt' = Null
  /\ UNCHANGED <<heap, alloc, turn, built, sent>>

\* The iterator is at a node that was freed: what follows is undefined, and
\* nothing is said of it.
UseAfterFree == pkt \in Elems \ alloc /\ UNCHANGED pktVars

PktNext == XmitCompress \/ LoopBody \/ LoopEnd \/ UseAfterFree

PktSpec == PktInit /\ [][PktNext]_pktVars

-----------------------------------------------------------------------------
\* When the loop ends each packet of this turn was sent once and in order, and
\* its node given back: the list is empty and nothing leaks.
TurnComplete ==
  pkt = Null => sent = built /\ alloc = {} /\ ListIsEmpty(heap, PktListHead)

\* Freeing the node it is at does not lead the loop of recv_tun astray, but
\* for a fragment.
OthersSafe == turn # "fragment" /\ pkt \in Elems => pkt \in alloc

\* The loop of recv_tun sends and frees each packet of a call once, and goes on
\* at a node that is allocated.
PacketsSafe == TurnComplete /\ OthersSafe
=============================================================================
