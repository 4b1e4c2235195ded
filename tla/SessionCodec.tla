----------------------------- MODULE SessionCodec -----------------------------
(***************************************************************************)
(* What opens a session as bytes: RATS, ATS and PPS (rats.rs, ats.rs,      *)
(* pps.rs).                                                                *)
(***************************************************************************)
EXTENDS Blocks, Crc, FiniteSets

\* Fsdi and Fsci, and what fsd() and fsc() make of them.
SizeCode == 0..8

FrameSize(code) == <<16, 24, 32, 40, 48, 64, 96, 128, 256>>[code + 1]

Cid == 0..14

RatsByte(rats) == 16 * rats.fsdi + rats.cid

\* RatsParam::try_from().
ParseRats(byte) == [fsdi : SizeCode \cap {HighNibble(byte)},
                    cid  : Cid \cap {LowNibble(byte)}]

-----------------------------------------------------------------------------
\* struct Ats: a field that is not sent has the default of the standard.
InterfaceByte == {"ta", "tb", "tc"}

Fwi  == 0..14
Sfgi == 0..14

\* Ta and Tc drop the bits they do not know.
TaBits(byte) == byte - Flag(Has(byte, 8), 8)
TcBits(byte) == byte % 4

AtsType == [fsci : SizeCode, sends : SUBSET InterfaceByte, ta : Byte, fwi : Fwi,
            sfgi : Sfgi, tc : 0..3, historical : Seq(Byte)]

CidSupported(ats) == Has(ats.tc, 2)

Sent(ats, field, byte) == IF field \in ats.sends THEN <<byte>> ELSE <<>>

\* Ats::to_bytes(): TL is the length in one byte.
AtsBytes(ats) ==
    LET t0   == ats.fsci + Flag("ta" \in ats.sends, 16)
                  + Flag("tb" \in ats.sends, 32) + Flag("tc" \in ats.sends, 64)
        rest == <<t0>> \o Sent(ats, "ta", ats.ta)
                  \o Sent(ats, "tb", 16 * ats.fwi + ats.sfgi)
                  \o Sent(ats, "tc", ats.tc) \o ats.historical
    IN  Buffered(<<(Len(rest) + 1) % 256>> \o rest)

\* Mutant: a field that is not sent is zero.
NoDefault == [ta |-> 0, tb |-> 0, tc |-> 0]

\* Ta::default(), Tb::default() (FWI is 4), Tc::default() (CID supported).
Default == [ta |-> 0, tb |-> \h40, tc |-> 2]

\* Format::try_from(): the interface bytes that T0 announces.
Announced(t0) ==
    {f \in InterfaceByte : Has(t0, [ta |-> 16, tb |-> 32, tc |-> 64][f])}

\* Ats::from_crc_verified(): TL alone, or T0 and the fields it announces.
ParseAts(body) ==
    IF body = <<>> \/ body[1] # Len(body) THEN {}
    ELSE LET t0       == IF Len(body) > 1 THEN body[2] ELSE 2
             sends    == Announced(t0)
             at       == [ta |-> 3,
                          tb |-> 3 + Cardinality({"ta"} \cap sends),
                          tc |-> 3 + Cardinality({"ta", "tb"} \cap sends)]
             field(f) == IF f \in sends THEN body[at[f]] ELSE Default[f]
             end      == IF Len(body) > 1 THEN 2 + Cardinality(sends) ELSE 1
         IN  IF end > Len(body) THEN {}
             ELSE [fsci       : SizeCode \cap {LowNibble(t0)},
                   sends      : {sends},
                   ta         : {TaBits(field("ta"))},
                   fwi        : Fwi \cap {HighNibble(field("tb"))},
                   sfgi       : Sfgi \cap {LowNibble(field("tb"))},
                   tc         : {TcBits(field("tc"))},
                   historical : Buffered(SubSeq(body, end + 1, Len(body)))]

-----------------------------------------------------------------------------
PpsBytes(p) == <<\hd0 + p.cid, \h11, 4 * p.dsi + p.dri>>

\* Dxi: the divisors 1, 2, 4 and 8.
Dxi == 0..3

\* PpsParam::from_crc_verified(): PPS1 is there if PPS0 says so.
ParsePps(data) ==
    LET pps1 == IF Len(data) = 3 /\ data[2] = \h11 THEN {data[3]}
                ELSE IF Len(data) = 2 /\ data[2] # \h11 THEN {0}
                ELSE {}
    IN  UNION {[cid : Cid \cap {LowNibble(data[1])},
                dsi : Dxi \cap {(rates \div 4) % 4},
                dri : Dxi \cap {rates % 4}] : rates \in pps1}

\* PpsResp::from_crc_verified(): the upper half is not looked at.
ParsePpss(data) == IF Len(data) = 1 THEN Cid \cap {LowNibble(data[1])} ELSE {}
=============================================================================
