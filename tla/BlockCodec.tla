------------------------------ MODULE BlockCodec ------------------------------
(***************************************************************************)
(* Blocks as bytes (block.rs, pcb.rs): the PCB, an optional CID and NAD    *)
(* and the payload.  An option is a sequence of at most one byte.          *)
(***************************************************************************)
EXTENDS Blocks, Crc

\* A block on its way: struct Block with what module Blocks leaves out.
Enveloped(block, cid, nad) ==
    [kind |-> "Block", block |-> block, cid |-> cid, nad |-> nad]

TypeCode == [I |-> 0, R |-> 2, S |-> 3]

\* u8::from(Pcb), its CID and NAD bits set by to_bytes_without_crc().
PcbByte(e) == 64 * TypeCode[e.block.type] + 2 + e.block.number
                + Flag(e.block.type = "R", 32)
                + Flag(e.block.chaining \/ e.block.subtype = "Nak", 16)
                + Flag(e.block.subtype = "Wtx", 48)
                + Flag(e.cid # <<>>, 8) + Flag(e.nad # <<>>, 4)

\* Mutant: bit 5 of an R-Block is not looked at.
ParsePcbLax(byte) ==
    {b \in [type : {"I", "R", "S"}, number : {byte % 2}, chaining : BOOLEAN,
            subtype : Subtype, payload : {<<>>}] :
        /\ Has(byte, 2)
        /\ TypeCode[b.type] = byte \div 64
        /\ b.chaining = (b.type = "I" /\ Has(byte, 16))
        /\ \/ b.type = "I" /\ b.subtype = "None" /\ ~ Has(byte, 32)
           \/ b.type = "R" /\ b.subtype = IF Has(byte, 16) THEN "Nak" ELSE "Ack"
           \/ b.type = "S" /\ b.subtype = "Deselect" /\ (byte \div 16) % 4 = 0
           \/ b.type = "S" /\ b.subtype = "Wtx" /\ (byte \div 16) % 4 = 3}

\* Pcb::try_from(): the block that begins with this byte, still without payload.
ParsePcb(byte) ==
    {b \in [type : {"I", "R", "S"}, number : {byte % 2}, chaining : BOOLEAN,
            subtype : Subtype, payload : {<<>>}] :
        /\ Has(byte, 2)
        /\ TypeCode[b.type] = byte \div 64
        /\ b.chaining = (b.type = "I" /\ Has(byte, 16))
        /\ \/ /\ b.type = "I" /\ b.subtype = "None"
              /\ ~ Has(byte, 32)
           \/ /\ b.type = "R" /\ b.subtype = IF Has(byte, 16) THEN "Nak" ELSE "Ack"
              /\ Has(byte, 32)
           \/ /\ b.type = "S" /\ b.subtype = "Deselect"
              /\ (byte \div 16) % 4 = 0
           \/ /\ b.type = "S" /\ b.subtype = "Wtx"
              /\ (byte \div 16) % 4 = 3}

\* to_bytes_without_crc() and to_vec().
BlockBytes(e) == Buffered(<<PcbByte(e)>> \o e.cid \o e.nad \o e.block.payload)
BlockToVec(e) == UNION {AppendCrc(data) : data \in BlockBytes(e)}

\* Block::from_crc_verified().  The upper bits of the CID byte are dropped; a
\* NAD goes with a CID and an I-Block only.
ParseBlock(data) ==
    IF data = <<>> THEN {}
    ELSE LET cids   == IF Has(data[1], 8) THEN 1 ELSE 0
             nads   == IF Has(data[1], 4) THEN 1 ELSE 0
             length == 1 + cids + nads
             cid    == [i \in 1..cids |-> LowNibble(data[2])]
             nad    == [i \in 1..nads |-> data[2 + cids]]
         IN  {Enveloped([b EXCEPT !.payload = payload], cid, nad) :
                b \in {p \in ParsePcb(data[1]) :
                         /\ Len(data) >= length
                         /\ cids = 1 => cid[1] <= 14
                         /\ nads = 1 => p.type = "I" /\ cids = 1},
                payload \in Buffered(SubSeq(data, length + 1, Len(data)))}

\* Block::try_from().
ParseBlockFrame(raw) == UNION {ParseBlock(data) : data \in SplitCrc(raw)}
=============================================================================
