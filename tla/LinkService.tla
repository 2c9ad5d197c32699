----------------------------- MODULE LinkService -----------------------------
(***************************************************************************)
(* What the split layer promises its caller, whatever the link does:       *)
(* messages are taken in order, only the oldest unresolved one is in       *)
(* progress, each is resolved exactly once, either confirmed, and then it  *)
(* has reached the peer's upper layer, or dropped after the retries.       *)
(***************************************************************************)
EXTENDS Naturals, Sequences

CONSTANT NumMsgs            \* messages are numbered 1..NumMsgs as accepted

VARIABLES
  accepted,                 \* how many messages upper_send has taken
  queue,                    \* accepted and unresolved, oldest first
  submitted,                \* handed to the peer's upper layer at least once
  confirmed,                \* resolved: the sender saw the acknowledgement
  dropped                   \* resolved: given up

vars == <<accepted, queue, submitted, confirmed, dropped>>

Init ==
  /\ accepted = 0
  /\ queue = <<>>
  /\ submitted = {} /\ confirmed = {} /\ dropped = {}

\* The caller hands over the next message.
Accept ==
  /\ accepted < NumMsgs
  /\ accepted' = accepted + 1
  /\ queue' = Append(queue, accepted + 1)
  /\ UNCHANGED <<submitted, confirmed, dropped>>

\* The oldest unresolved message reaches the peer's upper layer.
Submit ==
  /\ queue # <<>>
  /\ submitted' = submitted \cup {Head(queue)}
  /\ UNCHANGED <<accepted, queue, confirmed, dropped>>

\* The oldest message is resolved as arrived: it must have been submitted.
Confirm ==
  /\ queue # <<>>
  /\ Head(queue) \in submitted
  /\ queue' = Tail(queue)
  /\ confirmed' = confirmed \cup {Head(queue)}
  /\ UNCHANGED <<accepted, submitted, dropped>>

\* The oldest message is given up; it may or may not have arrived.
Drop ==
  /\ queue # <<>>
  /\ queue' = Tail(queue)
  /\ dropped' = dropped \cup {Head(queue)}
  /\ UNCHANGED <<accepted, submitted, confirmed>>

Next == Accept \/ Submit \/ Confirm \/ Drop

Spec == Init /\ [][Next]_vars
=============================================================================
