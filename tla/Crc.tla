----------------------------------- MODULE Crc ----------------------------------
(***************************************************************************)
(* The checksums of lib/crc.c and what split.c protects with them: crc8    *)
(* the headers of frames and messages, crc16 each slice, crc32c the whole  *)
(* message.  The sender fills in the checksum, the link flips bits, and    *)
(* the receiver checks.                                                    *)
(*                                                                         *)
(* A byte or word is the set of its bits that are 1, so that exclusive or  *)
(* is the symmetric difference.  Whether damage is seen depends on the     *)
(* bits flipped and not on the content (FlipsDecide of DataProofs).        *)
(***************************************************************************)
EXTENDS Integers, Sequences, FiniteSets

CONSTANT
  Trials                    \* what is sent: [part, bytes], and the bounds of the link,
                            \* flips: bits anywhere; burst: bits in a run

Ones(width) == 0..(width - 1)

\* Slices and messages have any length.
TrialsAssumption ==
  \A t \in Trials :
    /\ t.part \in {"frm_hdr", "msg_hdr", "slice", "message"}
    /\ t.bytes \in Seq(SUBSET Ones(8))
    /\ Len(t.bytes) > 4
    /\ t.part = "frm_hdr" => Len(t.bytes) = 8
    /\ t.part = "msg_hdr" => Len(t.bytes) = 10
    /\ t.flips \in 0..3 /\ t.burst \in 0..8

VARIABLES
  trial,                    \* the one of this behaviour
  sent,                     \* the bytes with the checksum
  arrived,                  \* what the link makes of them
  verdict                   \* "none", "accepted" or "refused"

crcVars == <<trial, sent, arrived, verdict>>

Power == <<1, 2, 4, 8, 16, 32, 64, 128, 256, 512, 1024, 2048, 4096, 8192, 16384, 32768>>

Bits(n) == {b \in Ones(16) : (n \div Power[b + 1]) % 2 = 1}

Xor(a, b) == (a \ b) \cup (b \ a)

ShiftRight(w, k) == {b - k : b \in {x \in w : x >= k}}

Low(w) == w \cap Ones(8)

-----------------------------------------------------------------------------
(* lib/crc.c. *)

Crc8Table == <<
    \h00, \hF7, \hB9, \h4E, \h25, \hD2, \h9C, \h6B, \h4A, \hBD, \hF3, \h04, \h6F, \h98, \hD6, \h21,
    \h94, \h63, \h2D, \hDA, \hB1, \h46, \h08, \hFF, \hDE, \h29, \h67, \h90, \hFB, \h0C, \h42, \hB5,
    \h7F, \h88, \hC6, \h31, \h5A, \hAD, \hE3, \h14, \h35, \hC2, \h8C, \h7B, \h10, \hE7, \hA9, \h5E,
    \hEB, \h1C, \h52, \hA5, \hCE, \h39, \h77, \h80, \hA1, \h56, \h18, \hEF, \h84, \h73, \h3D, \hCA,
    \hFE, \h09, \h47, \hB0, \hDB, \h2C, \h62, \h95, \hB4, \h43, \h0D, \hFA, \h91, \h66, \h28, \hDF,
    \h6A, \h9D, \hD3, \h24, \h4F, \hB8, \hF6, \h01, \h20, \hD7, \h99, \h6E, \h05, \hF2, \hBC, \h4B,
    \h81, \h76, \h38, \hCF, \hA4, \h53, \h1D, \hEA, \hCB, \h3C, \h72, \h85, \hEE, \h19, \h57, \hA0,
    \h15, \hE2, \hAC, \h5B, \h30, \hC7, \h89, \h7E, \h5F, \hA8, \hE6, \h11, \h7A, \h8D, \hC3, \h34,
    \hAB, \h5C, \h12, \hE5, \h8E, \h79, \h37, \hC0, \hE1, \h16, \h58, \hAF, \hC4, \h33, \h7D, \h8A,
    \h3F, \hC8, \h86, \h71, \h1A, \hED, \hA3, \h54, \h75, \h82, \hCC, \h3B, \h50, \hA7, \hE9, \h1E,
    \hD4, \h23, \h6D, \h9A, \hF1, \h06, \h48, \hBF, \h9E, \h69, \h27, \hD0, \hBB, \h4C, \h02, \hF5,
    \h40, \hB7, \hF9, \h0E, \h65, \h92, \hDC, \h2B, \h0A, \hFD, \hB3, \h44, \h2F, \hD8, \h96, \h61,
    \h55, \hA2, \hEC, \h1B, \h70, \h87, \hC9, \h3E, \h1F, \hE8, \hA6, \h51, \h3A, \hCD, \h83, \h74,
    \hC1, \h36, \h78, \h8F, \hE4, \h13, \h5D, \hAA, \h8B, \h7C, \h32, \hC5, \hAE, \h59, \h17, \hE0,
    \h2A, \hDD, \h93, \h64, \h0F, \hF8, \hB6, \h41, \h60, \h97, \hD9, \h2E, \h45, \hB2, \hFC, \h0B,
    \hBE, \h49, \h07, \hF0, \h9B, \h6C, \h22, \hD5, \hF4, \h03, \h4D, \hBA, \hD1, \h26, \h68, \h9F>>

Crc16Table == <<
    \h0000, \hC0C1, \hC181, \h0140, \hC301, \h03C0, \h0280, \hC241,
    \hC601, \h06C0, \h0780, \hC741, \h0500, \hC5C1, \hC481, \h0440,
    \hCC01, \h0CC0, \h0D80, \hCD41, \h0F00, \hCFC1, \hCE81, \h0E40,
    \h0A00, \hCAC1, \hCB81, \h0B40, \hC901, \h09C0, \h0880, \hC841,
    \hD801, \h18C0, \h1980, \hD941, \h1B00, \hDBC1, \hDA81, \h1A40,
    \h1E00, \hDEC1, \hDF81, \h1F40, \hDD01, \h1DC0, \h1C80, \hDC41,
    \h1400, \hD4C1, \hD581, \h1540, \hD701, \h17C0, \h1680, \hD641,
    \hD201, \h12C0, \h1380, \hD341, \h1100, \hD1C1, \hD081, \h1040,
    \hF001, \h30C0, \h3180, \hF141, \h3300, \hF3C1, \hF281, \h3240,
    \h3600, \hF6C1, \hF781, \h3740, \hF501, \h35C0, \h3480, \hF441,
    \h3C00, \hFCC1, \hFD81, \h3D40, \hFF01, \h3FC0, \h3E80, \hFE41,
    \hFA01, \h3AC0, \h3B80, \hFB41, \h3900, \hF9C1, \hF881, \h3840,
    \h2800, \hE8C1, \hE981, \h2940, \hEB01, \h2BC0, \h2A80, \hEA41,
    \hEE01, \h2EC0, \h2F80, \hEF41, \h2D00, \hEDC1, \hEC81, \h2C40,
    \hE401, \h24C0, \h2580, \hE541, \h2700, \hE7C1, \hE681, \h2640,
    \h2200, \hE2C1, \hE381, \h2340, \hE101, \h21C0, \h2080, \hE041,
    \hA001, \h60C0, \h6180, \hA141, \h6300, \hA3C1, \hA281, \h6240,
    \h6600, \hA6C1, \hA781, \h6740, \hA501, \h65C0, \h6480, \hA441,
    \h6C00, \hACC1, \hAD81, \h6D40, \hAF01, \h6FC0, \h6E80, \hAE41,
    \hAA01, \h6AC0, \h6B80, \hAB41, \h6900, \hA9C1, \hA881, \h6840,
    \h7800, \hB8C1, \hB981, \h7940, \hBB01, \h7BC0, \h7A80, \hBA41,
    \hBE01, \h7EC0, \h7F80, \hBF41, \h7D00, \hBDC1, \hBC81, \h7C40,
    \hB401, \h74C0, \h7580, \hB541, \h7700, \hB7C1, \hB681, \h7640,
    \h7200, \hB2C1, \hB381, \h7340, \hB101, \h71C0, \h7080, \hB041,
    \h5000, \h90C1, \h9181, \h5140, \h9301, \h53C0, \h5280, \h9241,
    \h9601, \h56C0, \h5780, \h9741, \h5500, \h95C1, \h9481, \h5440,
    \h9C01, \h5CC0, \h5D80, \h9D41, \h5F00, \h9FC1, \h9E81, \h5E40,
    \h5A00, \h9AC1, \h9B81, \h5B40, \h9901, \h59C0, \h5880, \h9841,
    \h8801, \h48C0, \h4980, \h8941, \h4B00, \h8BC1, \h8A81, \h4A40,
    \h4E00, \h8EC1, \h8F81, \h4F40, \h8D01, \h4DC0, \h4C80, \h8C41,
    \h4400, \h84C1, \h8581, \h4540, \h8701, \h47C0, \h4680, \h8641,
    \h8201, \h42C0, \h4380, \h8341, \h4100, \h81C1, \h8081, \h4040>>

\* High and low half of each entry.
Crc32Table == <<
    <<\h0000, \h0000>>, <<\hF26B, \h8303>>, <<\hE13B, \h70F7>>, <<\h1350, \hF3F4>>,
    <<\hC79A, \h971F>>, <<\h35F1, \h141C>>, <<\h26A1, \hE7E8>>, <<\hD4CA, \h64EB>>,
    <<\h8AD9, \h58CF>>, <<\h78B2, \hDBCC>>, <<\h6BE2, \h2838>>, <<\h9989, \hAB3B>>,
    <<\h4D43, \hCFD0>>, <<\hBF28, \h4CD3>>, <<\hAC78, \hBF27>>, <<\h5E13, \h3C24>>,
    <<\h105E, \hC76F>>, <<\hE235, \h446C>>, <<\hF165, \hB798>>, <<\h030E, \h349B>>,
    <<\hD7C4, \h5070>>, <<\h25AF, \hD373>>, <<\h36FF, \h2087>>, <<\hC494, \hA384>>,
    <<\h9A87, \h9FA0>>, <<\h68EC, \h1CA3>>, <<\h7BBC, \hEF57>>, <<\h89D7, \h6C54>>,
    <<\h5D1D, \h08BF>>, <<\hAF76, \h8BBC>>, <<\hBC26, \h7848>>, <<\h4E4D, \hFB4B>>,
    <<\h20BD, \h8EDE>>, <<\hD2D6, \h0DDD>>, <<\hC186, \hFE29>>, <<\h33ED, \h7D2A>>,
    <<\hE727, \h19C1>>, <<\h154C, \h9AC2>>, <<\h061C, \h6936>>, <<\hF477, \hEA35>>,
    <<\hAA64, \hD611>>, <<\h580F, \h5512>>, <<\h4B5F, \hA6E6>>, <<\hB934, \h25E5>>,
    <<\h6DFE, \h410E>>, <<\h9F95, \hC20D>>, <<\h8CC5, \h31F9>>, <<\h7EAE, \hB2FA>>,
    <<\h30E3, \h49B1>>, <<\hC288, \hCAB2>>, <<\hD1D8, \h3946>>, <<\h23B3, \hBA45>>,
    <<\hF779, \hDEAE>>, <<\h0512, \h5DAD>>, <<\h1642, \hAE59>>, <<\hE429, \h2D5A>>,
    <<\hBA3A, \h117E>>, <<\h4851, \h927D>>, <<\h5B01, \h6189>>, <<\hA96A, \hE28A>>,
    <<\h7DA0, \h8661>>, <<\h8FCB, \h0562>>, <<\h9C9B, \hF696>>, <<\h6EF0, \h7595>>,
    <<\h417B, \h1DBC>>, <<\hB310, \h9EBF>>, <<\hA040, \h6D4B>>, <<\h522B, \hEE48>>,
    <<\h86E1, \h8AA3>>, <<\h748A, \h09A0>>, <<\h67DA, \hFA54>>, <<\h95B1, \h7957>>,
    <<\hCBA2, \h4573>>, <<\h39C9, \hC670>>, <<\h2A99, \h3584>>, <<\hD8F2, \hB687>>,
    <<\h0C38, \hD26C>>, <<\hFE53, \h516F>>, <<\hED03, \hA29B>>, <<\h1F68, \h2198>>,
    <<\h5125, \hDAD3>>, <<\hA34E, \h59D0>>, <<\hB01E, \hAA24>>, <<\h4275, \h2927>>,
    <<\h96BF, \h4DCC>>, <<\h64D4, \hCECF>>, <<\h7784, \h3D3B>>, <<\h85EF, \hBE38>>,
    <<\hDBFC, \h821C>>, <<\h2997, \h011F>>, <<\h3AC7, \hF2EB>>, <<\hC8AC, \h71E8>>,
    <<\h1C66, \h1503>>, <<\hEE0D, \h9600>>, <<\hFD5D, \h65F4>>, <<\h0F36, \hE6F7>>,
    <<\h61C6, \h9362>>, <<\h93AD, \h1061>>, <<\h80FD, \hE395>>, <<\h7296, \h6096>>,
    <<\hA65C, \h047D>>, <<\h5437, \h877E>>, <<\h4767, \h748A>>, <<\hB50C, \hF789>>,
    <<\hEB1F, \hCBAD>>, <<\h1974, \h48AE>>, <<\h0A24, \hBB5A>>, <<\hF84F, \h3859>>,
    <<\h2C85, \h5CB2>>, <<\hDEEE, \hDFB1>>, <<\hCDBE, \h2C45>>, <<\h3FD5, \hAF46>>,
    <<\h7198, \h540D>>, <<\h83F3, \hD70E>>, <<\h90A3, \h24FA>>, <<\h62C8, \hA7F9>>,
    <<\hB602, \hC312>>, <<\h4469, \h4011>>, <<\h5739, \hB3E5>>, <<\hA552, \h30E6>>,
    <<\hFB41, \h0CC2>>, <<\h092A, \h8FC1>>, <<\h1A7A, \h7C35>>, <<\hE811, \hFF36>>,
    <<\h3CDB, \h9BDD>>, <<\hCEB0, \h18DE>>, <<\hDDE0, \hEB2A>>, <<\h2F8B, \h6829>>,
    <<\h82F6, \h3B78>>, <<\h709D, \hB87B>>, <<\h63CD, \h4B8F>>, <<\h91A6, \hC88C>>,
    <<\h456C, \hAC67>>, <<\hB707, \h2F64>>, <<\hA457, \hDC90>>, <<\h563C, \h5F93>>,
    <<\h082F, \h63B7>>, <<\hFA44, \hE0B4>>, <<\hE914, \h1340>>, <<\h1B7F, \h9043>>,
    <<\hCFB5, \hF4A8>>, <<\h3DDE, \h77AB>>, <<\h2E8E, \h845F>>, <<\hDCE5, \h075C>>,
    <<\h92A8, \hFC17>>, <<\h60C3, \h7F14>>, <<\h7393, \h8CE0>>, <<\h81F8, \h0FE3>>,
    <<\h5532, \h6B08>>, <<\hA759, \hE80B>>, <<\hB409, \h1BFF>>, <<\h4662, \h98FC>>,
    <<\h1871, \hA4D8>>, <<\hEA1A, \h27DB>>, <<\hF94A, \hD42F>>, <<\h0B21, \h572C>>,
    <<\hDFEB, \h33C7>>, <<\h2D80, \hB0C4>>, <<\h3ED0, \h4330>>, <<\hCCBB, \hC033>>,
    <<\hA24B, \hB5A6>>, <<\h5020, \h36A5>>, <<\h4370, \hC551>>, <<\hB11B, \h4652>>,
    <<\h65D1, \h22B9>>, <<\h97BA, \hA1BA>>, <<\h84EA, \h524E>>, <<\h7681, \hD14D>>,
    <<\h2892, \hED69>>, <<\hDAF9, \h6E6A>>, <<\hC9A9, \h9D9E>>, <<\h3BC2, \h1E9D>>,
    <<\hEF08, \h7A76>>, <<\h1D63, \hF975>>, <<\h0E33, \h0A81>>, <<\hFC58, \h8982>>,
    <<\hB215, \h72C9>>, <<\h407E, \hF1CA>>, <<\h532E, \h023E>>, <<\hA145, \h813D>>,
    <<\h758F, \hE5D6>>, <<\h87E4, \h66D5>>, <<\h94B4, \h9521>>, <<\h66DF, \h1622>>,
    <<\h38CC, \h2A06>>, <<\hCAA7, \hA905>>, <<\hD9F7, \h5AF1>>, <<\h2B9C, \hD9F2>>,
    <<\hFF56, \hBD19>>, <<\h0D3D, \h3E1A>>, <<\h1E6D, \hCDEE>>, <<\hEC06, \h4EED>>,
    <<\hC38D, \h26C4>>, <<\h31E6, \hA5C7>>, <<\h22B6, \h5633>>, <<\hD0DD, \hD530>>,
    <<\h0417, \hB1DB>>, <<\hF67C, \h32D8>>, <<\hE52C, \hC12C>>, <<\h1747, \h422F>>,
    <<\h4954, \h7E0B>>, <<\hBB3F, \hFD08>>, <<\hA86F, \h0EFC>>, <<\h5A04, \h8DFF>>,
    <<\h8ECE, \hE914>>, <<\h7CA5, \h6A17>>, <<\h6FF5, \h99E3>>, <<\h9D9E, \h1AE0>>,
    <<\hD3D3, \hE1AB>>, <<\h21B8, \h62A8>>, <<\h32E8, \h915C>>, <<\hC083, \h125F>>,
    <<\h1449, \h76B4>>, <<\hE622, \hF5B7>>, <<\hF572, \h0643>>, <<\h0719, \h8540>>,
    <<\h590A, \hB964>>, <<\hAB61, \h3A67>>, <<\hB831, \hC993>>, <<\h4A5A, \h4A90>>,
    <<\h9E90, \h2E7B>>, <<\h6CFB, \hAD78>>, <<\h7FAB, \h5E8C>>, <<\h8DC0, \hDD8F>>,
    <<\hE330, \hA81A>>, <<\h115B, \h2B19>>, <<\h020B, \hD8ED>>, <<\hF060, \h5BEE>>,
    <<\h24AA, \h3F05>>, <<\hD6C1, \hBC06>>, <<\hC591, \h4FF2>>, <<\h37FA, \hCCF1>>,
    <<\h69E9, \hF0D5>>, <<\h9B82, \h73D6>>, <<\h88D2, \h8022>>, <<\h7AB9, \h0321>>,
    <<\hAE73, \h67CA>>, <<\h5C18, \hE4C9>>, <<\h4F48, \h173D>>, <<\hBD23, \h943E>>,
    <<\hF36E, \h6F75>>, <<\h0105, \hEC76>>, <<\h1255, \h1F82>>, <<\hE03E, \h9C81>>,
    <<\h34F4, \hF86A>>, <<\hC69F, \h7B69>>, <<\hD5CF, \h889D>>, <<\h27A4, \h0B9E>>,
    <<\h79B7, \h37BA>>, <<\h8BDC, \hB4B9>>, <<\h988C, \h474D>>, <<\h6AE7, \hC44E>>,
    <<\hBE2D, \hA0A5>>, <<\h4C46, \h23A6>>, <<\h5F16, \hD052>>, <<\hAD7D, \h5351>>>>

Word32(halves) == {16 + b : b \in Bits(halves[1])} \cup Bits(halves[2])

\* Mutation of Entry: a wrong digit in crc8_table.
EntryDigit(alg, n) ==
  CASE alg = "crc8" -> Bits(IF n = 91 THEN Crc8Table[n + 1] + 1 ELSE Crc8Table[n + 1])
    [] alg = "crc16" -> Bits(Crc16Table[n + 1])
    [] alg = "crc32" -> Word32(Crc32Table[n + 1])

Entry(alg, n) ==
  CASE alg = "crc8" -> Bits(Crc8Table[n + 1])
    [] alg = "crc16" -> Bits(Crc16Table[n + 1])
    [] alg = "crc32" -> Word32(Crc32Table[n + 1])

\* The byte as an index.
Number(byte) ==
  LET V(i) == IF i \in byte THEN Power[i + 1] ELSE 0
  IN V(0) + V(1) + V(2) + V(3) + V(4) + V(5) + V(6) + V(7)

Algs == {"crc8", "crc16", "crc32"}

Table == [alg \in Algs |-> [byte \in SUBSET Ones(8) |-> Entry(alg, Number(byte))]]

CrcByte(alg, crc, byte) == Xor(ShiftRight(crc, 8), Table[alg][Xor(Low(crc), byte)])

\* The register after each byte.
Crc(alg, from, s) ==
  LET crc[k \in 0..Len(s)] == IF k = 0 THEN from ELSE CrcByte(alg, crc[k - 1], s[k]) IN crc

-----------------------------------------------------------------------------
(* split.c.  The field of the checksum is the last bytes of a part; that of *)
(* a message lies in the header, and is not covered.                        *)

Alg == [frm_hdr |-> "crc8", msg_hdr |-> "crc8", slice |-> "crc16", message |-> "crc32"]

FieldLen == [frm_hdr |-> 2, msg_hdr |-> 1, slice |-> 2, message |-> 4]

Body(p, s) == 1..(Len(s) - FieldLen[p])

Width(alg) == CASE alg = "crc8" -> 8 [] alg = "crc16" -> 16 [] alg = "crc32" -> 32

\* Mutation of Covered: the field is not set to ones.
CoveredUnset(p, s) ==
  [i \in 1..(Len(s) - (IF p = "message" THEN FieldLen[p] ELSE 0)) |-> s[i]]

\* What the checksum is computed over: the field holds 0xff or 0xffff.
Covered(p, s) ==
  [i \in 1..(Len(s) - (IF p = "message" THEN FieldLen[p] ELSE 0)) |->
     IF i \in Body(p, s) THEN s[i] ELSE IF p = "frm_hdr" /\ i = 8 THEN {} ELSE Ones(8)]

\* csum8, csum16, csum32
Complemented(alg, crc) == IF alg = "crc32" THEN Ones(32) \ crc ELSE crc

CsumOf(p, s) ==
  Complemented(Alg[p], Crc(Alg[p], Ones(Width(Alg[p])), Covered(p, s))[Len(Covered(p, s))])

\* len2, and the checksum as it lies in the bytes, low byte first.
Built(p, s) == IF p = "msg_hdr" THEN [s EXCEPT ![7] = s[5], ![8] = s[6]] ELSE s

ByteOf(w, k) == Low(ShiftRight(w, 8 * k))

Filled(p, s) ==
  LET csum == CsumOf(p, Built(p, s))
  IN [i \in DOMAIN s |->
        IF i \in Body(p, s) THEN Built(p, s)[i]
        ELSE ByteOf(csum, i - (Len(s) - FieldLen[p]) - 1)]

\* csum_save, which has eight bits for a frame.
Saved(p, s) ==
  LET w == UNION {{8 * k + b : b \in s[Len(s) - FieldLen[p] + k + 1]} : k \in Ones(FieldLen[p])}
  IN IF p = "frm_hdr" THEN Low(w) ELSE w

\* lower_put; proc_data and the other handlers; cp_slice_to_rse; proc_data and
\* proc_patch for a message that is complete.
Accepts(p, s) ==
  /\ p = "msg_hdr" => s[5] = s[7] /\ s[6] = s[8]
  /\ Saved(p, s) = CsumOf(p, s)

-----------------------------------------------------------------------------
Positions == 0..(8 * Len(sent) - 1)

Flip(s, bits) ==
  [i \in DOMAIN s |-> Xor(s[i], {b \in Ones(8) : 8 * (i - 1) + b \in bits})]

CrcInit ==
  /\ trial \in Trials
  /\ sent = Filled(trial.part, trial.bytes)
  /\ arrived = sent
  /\ verdict = "none"

Flips ==
  UNION {{8 * (i - 1) + b : b \in Xor(sent[i], arrived[i])} : i \in DOMAIN sent}

\* The link flips some bits, or some in a run.
Scattered ==
  /\ verdict = "none"
  /\ Cardinality(Flips) < trial.flips
  /\ \E a \in Positions : (\A b \in Flips : b < a) /\ arrived' = Flip(arrived, {a})
  /\ UNCHANGED <<trial, sent, verdict>>

Burst ==
  /\ verdict = "none" /\ arrived = sent /\ trial.burst > 0
  /\ \E a \in Positions : \E more \in SUBSET (1..(trial.burst - 1)) :
       arrived' = Flip(sent, {a} \cup {a + d : d \in more})
  /\ UNCHANGED <<trial, sent, verdict>>

Check ==
  /\ verdict = "none"
  /\ verdict' = IF Accepts(trial.part, arrived) THEN "accepted" ELSE "refused"
  /\ UNCHANGED <<trial, sent, arrived>>

CrcNext == Scattered \/ Burst \/ Check

CrcSpec == CrcInit /\ [][CrcNext]_crcVars

-----------------------------------------------------------------------------
BodyAsSent == \A i \in Body(trial.part, sent) : arrived[i] = sent[i]

\* The handlers refuse ("csum err") what the link has damaged: with some bits
\* flipped anywhere, what passes has the fields that were sent.
FlipsRefused ==
  verdict = "accepted" /\ Cardinality(Flips) <= trial.flips => BodyAsSent

\* The same of a run of bits no longer than the checksum, as a disturbance of the
\* line leaves it, where it does not reach into the checksum.
InField ==
  \A i \in DOMAIN sent \ Body(trial.part, sent) : arrived[i] = sent[i]

InRun ==
  \E a \in Positions : Flips \subseteq a..(a + Width(Alg[trial.part]) - 1)

BurstRefused == verdict = "accepted" /\ InField /\ InRun => BodyAsSent

\* What arrives as it was sent is accepted: sender and receiver agree on the
\* bytes that a checksum covers and on what its field holds meanwhile.
SentIsAccepted == verdict = "refused" => arrived # sent

\* Damage to a frame is refused, and what arrives as it was sent is accepted
\* (lower_put and the handlers).
ChecksumsGuard == FlipsRefused /\ BurstRefused /\ SentIsAccepted

-----------------------------------------------------------------------------
(* The polynomials, bit by bit: the reference for the tables.  The lowest  *)
(* bit of a word is that of the highest power.                             *)

Poly(alg) ==
  CASE alg = "crc8" -> {7, 6, 4, 2, 0}
    [] alg = "crc16" -> {15, 2, 0}
    [] alg = "crc32" -> {28, 27, 26, 25, 23, 22, 20, 19, 18, 14, 13, 11, 10, 9, 8, 6, 0}

Mirrored(alg) == {Width(alg) - 1 - e : e \in Poly(alg)}

Turn(alg, w) ==
  IF 0 \in w THEN Xor(ShiftRight(w, 1), Mirrored(alg)) ELSE ShiftRight(w, 1)

EightTurns(alg, w) ==
  LET T(x) == Turn(alg, x) IN T(T(T(T(T(T(T(T(w))))))))

\* rest divides s: what is left after each byte.
Divides(alg, s, rest) ==
  /\ rest[0] = Ones(Width(alg))
  /\ \A k \in 1..Len(s) : rest[k] = EightTurns(alg, Xor(rest[k - 1], s[k]))

\* The tables of crc.c are those of x^8 + x^7 + x^6 + x^4 + x^2 + 1, of
\* x^16 + x^15 + x^2 + 1 and of CRC-32C ("Returns the updated CRC-32C value"):
\* the register is what a division bit by bit leaves, in what was sent and checked.
TablesDivide ==
  verdict # "none" /\ arrived = sent =>
    LET alg == Alg[trial.part]
        s == Covered(trial.part, sent)
    IN Divides(alg, s, Crc(alg, Ones(Width(alg)), s))

=============================================================================
