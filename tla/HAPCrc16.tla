------------------------------ MODULE HAPCrc16 ------------------------------
(***************************************************************************)
(* The CRC-16 of HAPCrc16: polynomial 0x1021, most significant bit first.   *)
(* What the eight shifts of one byte do is a table here, computed once; the *)
(* source shifts every time.                                                *)
(***************************************************************************)
EXTENDS Integers, Sequences, TLC

\* The function f itself; TLC computes it once, as a table.
Table(f) == CHOOSE g \in {f} : g = f

Polynomial == 4129
CrcInit    == 65535   \* kHAPCrc16Init

BitOf(n, k) == (n \div 2 ^ k) % 2
Xor(a, b) ==
  LET sum[k \in 0 .. 16] ==
        IF k = 0 THEN 0
        ELSE 2 ^ (k - 1) * ((BitOf(a, k - 1) + BitOf(b, k - 1)) % 2) + sum[k - 1]
  IN  sum[16]

ShiftedOut(crc) ==
  IF crc >= 32768 THEN Xor((2 * crc) % 65536, Polynomial) ELSE 2 * crc

EightShifts ==
  Table([b \in 0 .. 255 |->
           LET shifted[n \in 0 .. 8] ==
                 IF n = 0 THEN 256 * b ELSE ShiftedOut(shifted[n - 1])
           IN  shifted[8]])

WithByte(crc, byte) ==
  Xor(256 * (crc % 256), EightShifts[Xor(crc \div 256, byte)])

Crc16Update(start, bytes) ==
  LET crc[k \in 0 .. Len(bytes)] ==
        IF k = 0 THEN start ELSE WithByte(crc[k - 1], bytes[k])
  IN  crc[Len(bytes)]
=============================================================================
