------------------------------ MODULE MCCrc32 ------------------------------
(***************************************************************************)
(* Digests every byte string over Alphabet of at most MaxLen bytes with    *)
(* the table-driven loop, and compares the running value with the          *)
(* reference definition of the CRC: the remainder modulo the reflected     *)
(* polynomial 0xEDB88320, one bit at a time.                               *)
(***************************************************************************)
EXTENDS Crc32

CONSTANTS Alphabet, MaxLen

VARIABLES message, crc
vars == <<message, crc>>

Init == message = <<>> /\ crc = CrcInit

Digest(b) ==
  /\ Len(message) < MaxLen
  /\ message' = Append(message, b)
  /\ crc' = CrcFold(crc, <<b>>)

Next == \E b \in Alphabet : Digest(b)

Spec == Init /\ [][Next]_vars

-----------------------------------------------------------------------------
\* 0xEDB88320
Polynomial == {5, 8, 9, 15, 19, 20, 21, 23, 24, 26, 27, 29, 30, 31}

ReferenceBit(w) ==
  IF 0 \in w THEN Xor(ShiftRight(w, 1), Polynomial) ELSE ShiftRight(w, 1)

ReferenceByte(w, b) ==
  LET shifted[n \in 0 .. 8] ==
        IF n = 0 THEN Xor(w, BitsOf(b)) ELSE ReferenceBit(shifted[n - 1])
  IN  shifted[8]

\* The running value is what dividing the message by the polynomial bit by
\* bit gives: every entry of CRC32_TABLE and the shift in the loop of
\* read_complete (bootloader.rs:670-674) are right.
MatchesPolynomial == crc = FoldLeft(ReferenceByte, CrcInit, message)

\* A message followed by the four bytes the bootloader sends for it leaves the
\* same residue whatever the message (0xDEBB20E3 before the final xor): the
\* reply is least significant byte first, which is what a host checks.
SelfChecking ==
  CrcFold(crc, CrcBytes(crc)) = CrcFold(CrcInit, CrcBytes(CrcInit))

=============================================================================
