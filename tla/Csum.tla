---------------------------------- MODULE Csum ----------------------------------
(***************************************************************************)
(* lib/csum.c: the IP checksum of a header, built up word by word.  Words  *)
(* are integers below B, 65536 in the code; partial sums are kept below    *)
(* B * B.                                                                  *)
(***************************************************************************)
EXTENDS Integers, Sequences

CONSTANTS
  B,                        \* the number of values of a word
  N                         \* bound on the words of a header (code: 10)

ASSUME BAssumption == B \in Nat /\ B >= 4

ASSUME NAssumption == N \in 1..(B - 1)

VARIABLES
  partial,                  \* csum_continue's running sum
  words,                        \* words added so far
  total,                    \* what they add up to, with no bound
  check                     \* the last finished checksum

csumVars == <<partial, words, total, check>>

Word == 0..(B - 1)

NoCheck == -1

Complement(w) == (B - 1) - (w % B)

CsumAdd16(p, w) == (p + w) % (B * B)

\* Mutation of CsumFinish: the carries are dropped.
CsumFinishNoFold(p) == Complement(p % B)

\* Mutation of CsumFinish: an htons too many (its bytes are here two bits each).
CsumFinishSwapped(p) ==
  LET c == Complement((p % B) + (p \div B)) IN (c % 4) * 4 + c \div 4

CsumFinish(p) == Complement((p % B) + (p \div B))

-----------------------------------------------------------------------------
CsumTypeOK ==
  /\ partial \in 0..(B * B - 1)
  /\ words \in 0..N
  /\ total \in 0..(N * (B - 1))
  /\ check \in Word \cup {NoCheck}

CsumInit == partial = 0 /\ words = 0 /\ total = 0 /\ check = NoCheck

\* One word in the loop of csum_continue.
Continue(w) ==
  /\ words < N /\ check = NoCheck
  /\ partial' = CsumAdd16(partial, w)
  /\ words' = words + 1
  /\ total' = total + w
  /\ UNCHANGED check

\* csum of what was added; recv_tcp, recv_udp and recv_raw write it to the header.
Finish ==
  /\ words > 0 /\ check = NoCheck
  /\ check' = CsumFinish(partial)
  /\ UNCHANGED <<partial, words, total>>

CsumNext == (\E w \in Word : Continue(w)) \/ Finish

CsumSpec == CsumInit /\ [][CsumNext]_csumVars

-----------------------------------------------------------------------------
\* The sum of RFC 1071: the carries are added back until there are none.
OnesSum(s) == IF s = 0 THEN 0 ELSE ((s - 1) % (B - 1)) + 1

\* The verdict on a received header: csum returns 0 for those whose words, the
\* checksum among them, add up to all ones, and for no other.
ZeroMeansRight == check # NoCheck => (check = 0 <=> OnesSum(total) = B - 1)

\* The checksum that is computed lacks at most one carry.
AtMostOneCarryLost ==
  check # NoCheck => check - (B - 1 - OnesSum(total)) \in {0, 1}

=============================================================================
