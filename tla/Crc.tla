---------------------------------- MODULE Crc ----------------------------------
(***************************************************************************)
(* Bytes, buffers and the CRC_A of crc.rs and vec.rs.  Of this module and  *)
(* of those that extend it: a parser returns the set of what it accepts,   *)
(* one value or none for an error, and so does a serialiser that may run   *)
(* out of buffer.                                                          *)
(***************************************************************************)
EXTENDS Naturals, Sequences

CONSTANT FrameCapacity     \* bytes a FrameVec holds (256 without alloc)

ASSUME FrameCapacityAssumption == FrameCapacity \in Nat

Word == 0..65535

\* Is the bit set in n?  The bit, if there is reason to set it.
Has(n, bit)          == (n \div bit) % 2 = 1
Flag(condition, bit) == IF condition THEN bit ELSE 0

\* Exclusive or; TLC does not tabulate what rests on the operators of Bitwise.
Exor[a, b \in Word] ==
    IF a = 0 \/ b = 0 THEN a + b
    ELSE 2 * Exor[a \div 2, b \div 2] + Flag(a % 2 # b % 2, 1)

HighNibble(byte) == byte \div 16
LowNibble(byte)  == byte % 16

\* try_push() and try_extend() of a FrameVec.
Buffered(bytes) == {b \in {bytes} : Len(b) <= FrameCapacity}

-----------------------------------------------------------------------------
\* The inner loop of crc_a(): n more shifts of the register.
Shifted[crc \in Word, n \in 0..8] ==
    IF n = 0 THEN crc
    ELSE Shifted[IF Has(crc, 1) THEN Exor[crc \div 2, \h8408] ELSE crc \div 2, n - 1]

\* The loop is linear: the high byte moves down unchanged and what becomes of
\* the low byte is tabulated, which is all that keeps TLC fast.
Table == [low \in 0..255 |-> Shifted[low, 8]]

\* crc_a(): the register after data, low byte first.
CrcA(data) ==
    LET \* The register after bytes i to j, in halves to keep the recursion flat.
        after[crc \in Word, i \in Nat, j \in Nat] ==
          CASE i > j -> crc
            [] i = j -> Exor[crc \div 256, Table[Exor[crc % 256, data[i]]]]
            [] i < j -> LET mid == (i + j) \div 2
                        IN  after[after[crc, i, mid], mid + 1, j]
        crc == after[\h6363, 1, Len(data)]
    IN  <<crc % 256, crc \div 256>>

\* append_crc_a().
AppendCrc(data) == Buffered(data \o CrcA(data))

\* Mutant: the CRC is cut off and not compared.
SplitCrcUnchecked(frame) ==
    IF Len(frame) < 2 THEN {} ELSE {SubSeq(frame, 1, Len(frame) - 2)}

\* split_crc_a().
SplitCrc(frame) ==
    IF Len(frame) < 2 THEN {}
    ELSE LET data == SubSeq(frame, 1, Len(frame) - 2)
         IN  {d \in {data} : frame = d \o CrcA(d)}
=============================================================================
