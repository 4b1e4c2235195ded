---------------------------- MODULE SelectionCodec ----------------------------
(***************************************************************************)
(* The values of anticollision and selection as bytes (atqa.rs, sak.rs,    *)
(* anticol_select.rs).  UidCl is the four bytes of its cascade level,      *)
(* UidCl::Next the one that begins with the cascade tag.                   *)
(***************************************************************************)
EXTENDS Crc

AtqaBytes(a) == <<64 * a.uid_size + a.slots, a.coding % 16>>

\* AtqA::try_from(): three sizes, five numbers of slots.
ParseAtqa(bytes) ==
    IF Len(bytes) # 2 THEN {}
    ELSE [uid_size : 0..2 \cap {bytes[1] \div 64},
          slots    : {1, 2, 4, 8, 16} \cap {bytes[1] % 32},
          coding   : {LowNibble(bytes[2])}]

-----------------------------------------------------------------------------
SakByte(s) == Flag(~ s.uid_complete, 4) + Flag(s.iso14443_4_compliant, 32)

\* Sak::from_raw() and Sak::from_crc_verified().
SakFromRaw(byte) == [uid_complete         |-> ~ Has(byte, 4),
                     iso14443_4_compliant |-> Has(byte, 32)]

ParseSak(data) == IF Len(data) = 1 THEN {SakFromRaw(data[1])} ELSE {}

-----------------------------------------------------------------------------
\* The check byte of a cascade level, as uid_bcc_for_level() and
\* Cascade::raw() compute it.
Bcc(part) == Exor[Exor[part[1], part[2]], Exor[part[3], part[4]]]

WithBcc(part) == Append(part, Bcc(part))

\* UidCl::try_from().
ParseUidCl(bytes) ==
    IF Len(bytes) = 5 THEN {part \in {SubSeq(bytes, 1, 4)} : bytes[5] = Bcc(part)}
                      ELSE {}

\* SEL_CL1 to SEL_CL3, and Cascade::check_sel().
Sel(level)    == \h93 + 2 * level
IsSel(byte)   == byte \in {Sel(level) : level \in 0..2}
LevelOf(byte) == (byte - \h93) \div 2

\* NVB: how many bytes and bits of the frame are valid.
NvbAnticollision == \h20
NvbSelect        == \h70

ParseNvb(byte) ==
    {nvb \in {byte} : HighNibble(nvb) \in 2..7 /\ LowNibble(nvb) \in 0..7}

\* Cascade::raw().
CascadeRaw(level, nvb, part) == <<Sel(level), nvb>> \o WithBcc(part)
=============================================================================
