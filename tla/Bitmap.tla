--------------------------------- MODULE Bitmap ----------------------------------
(***************************************************************************)
(* The bitmap of a receiving session (split.c): which slices of a message  *)
(* of n have come, as words of W bits.  It decides whether the message is  *)
(* complete and which slices an ACKP asks for.                             *)
(***************************************************************************)
EXTENDS Integers, Sequences, SequencesExt

CONSTANTS
  W,                        \* bits in a word: 32
  MAX_SLICE_NUM             \* 27 with LINK_MTU 1000; no multiple of W

ASSUME WAssumption ==
  W \in Nat \ {0} /\ MAX_SLICE_NUM \in Nat \ {0} /\ MAX_SLICE_NUM % W # 0

VARIABLES
  bitmap,                   \* the words, each the set of its bits
  rse_n_slices,             \* slices of the message
  received,                 \* the slices that were copied since it began
  ack,                      \* the type of the frame that send_ack builds, if any
  missing, next_k           \* its data so far, and where its search goes on

bitmapVars == <<bitmap, rse_n_slices, received, ack, missing, next_k>>

BITMAP32_SIZE == (MAX_SLICE_NUM + W - 1) \div W

WordsOf == 0..(BITMAP32_SIZE - 1)

BitmapTypeOK ==
  /\ bitmap \in [WordsOf -> SUBSET (0..(W - 1))]
  /\ rse_n_slices \in 1..MAX_SLICE_NUM /\ received \subseteq 0..rse_n_slices
  /\ ack \in {"none", "listing", "ACKP", "ACKA"}
  /\ missing \in Seq(0..(MAX_SLICE_NUM - 1)) /\ next_k \in 0..MAX_SLICE_NUM

Cleared == [x \in WordsOf |-> {}]

SetBit(map, b) == [map EXCEPT ![b \div W] = @ \cup {b % W}]

Holds(map, b) == b % W \in map[b \div W]

\* find_first_zero, whose loop ends at the first bit that is 0 or at max.
FindFirstZero(map, from, max) ==
  LET open == {i \in from..(max - 1) : ~Holds(map, i)}
  IN IF open = {} THEN -1 ELSE CHOOSE i \in open : \A j \in open : i <= j

\* Mutation of TestAllBitsSet: the words before the last are not looked at.
TestAllBitsSetLast(map, n) == n % W # 0 => map[n \div W] = 0..((n % W) - 1)

\* The words that n fills, and the rest as a mask, if there is one.
TestAllBitsSet(map, n) ==
  /\ \A i \in 0..((n \div W) - 1) : map[i] = 0..(W - 1)
  /\ n % W # 0 => map[n \div W] = 0..((n % W) - 1)

-----------------------------------------------------------------------------
BitmapInit ==
  /\ bitmap = Cleared /\ rse_n_slices \in 1..MAX_SLICE_NUM /\ received = {}
  /\ ack = "none" /\ missing = <<>> /\ next_k = 0

\* proc_data starts a session over, for a message of any number of slices.
Start(n) ==
  /\ ack = "none"
  /\ bitmap' = Cleared /\ rse_n_slices' = n /\ received' = {}
  /\ UNCHANGED <<ack, missing, next_k>>

\* cp_slice_to_rse, which refuses a number above n_slices.
CpSlice(seq) ==
  /\ ack = "none" /\ seq <= rse_n_slices
  /\ bitmap' = SetBit(bitmap, seq) /\ received' = received \cup {seq}
  /\ UNCHANGED <<rse_n_slices, ack, missing, next_k>>

SendAck ==
  /\ ack = "none"
  /\ ack' = IF TestAllBitsSet(bitmap, rse_n_slices) THEN "ACKA" ELSE "listing"
  /\ missing' = <<>> /\ next_k' = 0
  /\ UNCHANGED <<bitmap, rse_n_slices, received>>

\* The loop of send_ack: each search starts after the last slice found.  An ACKP
\* of no slices is not sent.
ListNext ==
  LET result == FindFirstZero(bitmap, next_k, rse_n_slices)
  IN /\ ack = "listing"
     /\ IF result < 0
        THEN ack' = (IF next_k = 0 THEN "none" ELSE "ACKP") /\ UNCHANGED <<missing, next_k>>
        ELSE missing' = Append(missing, result) /\ next_k' = result + 1 /\ UNCHANGED ack
     /\ UNCHANGED <<bitmap, rse_n_slices, received>>

AckSent ==
  /\ ack \in {"ACKP", "ACKA"} /\ ack' = "none"
  /\ UNCHANGED <<bitmap, rse_n_slices, received, missing, next_k>>

BitmapNext ==
  \/ \E n \in 1..MAX_SLICE_NUM : Start(n)
  \/ \E seq \in 0..MAX_SLICE_NUM : CpSlice(seq)
  \/ SendAck \/ ListNext \/ AckSent

BitmapSpec == BitmapInit /\ [][BitmapNext]_bitmapVars

-----------------------------------------------------------------------------
Whole == 0..(rse_n_slices - 1)

\* A message is taken for complete only if every slice of it has come (the test
\* before put_upper_recv_list), and one of which just those have is complete.
CompleteExact ==
  /\ TestAllBitsSet(bitmap, rse_n_slices) => Whole \subseteq received
  /\ received = Whole => TestAllBitsSet(bitmap, rse_n_slices)

\* An ACKP asks for the slices that have not come, at least one, each once and
\* in order, and for none that has; an ACKA says that all have.
AsksForMissing ==
  /\ ack = "ACKP" =>
       /\ missing # <<>> /\ ToSet(missing) = Whole \ received
       /\ \A i \in 1..(Len(missing) - 1) : missing[i] < missing[i + 1]
  /\ ack = "ACKA" => Whole \subseteq received

\* Where one word holds the map, as it does with 27 slices, the test is whether
\* the bits are those of the message and no other: the form it has in Split.
OneWordExact ==
  BITMAP32_SIZE = 1 => (TestAllBitsSet(bitmap, rse_n_slices) <=> received = Whole)

\* The words stand for the set of slices that have come, for the things that are
\* asked of them.
BitmapExact == BitmapTypeOK /\ CompleteExact /\ AsksForMissing
=============================================================================
