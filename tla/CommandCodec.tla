----------------------------- MODULE CommandCodec -----------------------------
(***************************************************************************)
(* Command and Answer (mod.rs): what a program that has only the bytes of  *)
(* a frame makes of it, without knowing what either side waits for.  The   *)
(* command-line parser is such a program (example/cli_parser.rs).          *)
(***************************************************************************)
EXTENDS BlockCodec, SelectionCodec, SessionCodec

AntiCollision(level, nvb, part) ==
    [kind |-> "Anticollision", level |-> level, nvb |-> nvb, uid |-> part]

Select(level, part) == [kind |-> "Select", level |-> level, uid |-> part]

Rats(rats) == [kind |-> "Rats", rats |-> rats]
Pps(pps)   == [kind |-> "Pps", pps |-> pps]

\* Command::to_vec().
CommandToVec(c) ==
    CASE c.kind = "Reqa"          -> Buffered(<<\h26>>)
      [] c.kind = "Wupa"          -> Buffered(<<\h52>>)
      [] c.kind = "Anticollision" -> Buffered(CascadeRaw(c.level, c.nvb, c.uid))
      [] c.kind = "Select"        -> AppendCrc(CascadeRaw(c.level, NvbSelect, c.uid))
      [] c.kind = "Hlta"          -> AppendCrc(<<\h50, 0>>)
      [] c.kind = "Rats"          -> AppendCrc(<<\he0, RatsByte(c.rats)>>)
      [] c.kind = "Pps"           -> AppendCrc(PpsBytes(c.pps))
      [] c.kind = "Block"         -> BlockToVec(c)

\* Command::to_frame().
FormatOf(c) == CASE c.kind \in {"Reqa", "Wupa"} -> "Short"
                 [] c.kind = "Anticollision"    -> "BitOriented"
                 [] OTHER                       -> "Standard"

-----------------------------------------------------------------------------
\* The arm of SELECT, which is anticollision if NVB is below 40 bits.
ParseCascade(data) ==
    {IF nvb = NvbSelect THEN Select(LevelOf(data[1]), part)
                        ELSE AntiCollision(LevelOf(data[1]), nvb, part) :
        nvb \in ParseNvb(data[2]), part \in ParseUidCl(SubSeq(data, 3, 7))}

\* Command::parse_standard().
ParseStandard(data) ==
    CASE data = <<\h50, 0>>                     -> {[kind |-> "Hlta"]}
      [] Len(data) = 2 /\ data[1] = \he0        -> {Rats(r) : r \in ParseRats(data[2])}
      [] Len(data) = 7 /\ IsSel(data[1])        -> ParseCascade(data)
      [] data # <<>> /\ HighNibble(data[1]) = 13 -> {Pps(p) : p \in ParsePps(data)}
      [] OTHER                                  -> ParseBlock(data)

\* raw is the frame, protected what stands for it if it carries a CRC.
ParseCommand(raw, protected) ==
    CASE raw = <<\h26>> -> {[kind |-> "Reqa"]}
      [] raw = <<\h52>> -> {[kind |-> "Wupa"]}
      [] Len(raw) = 2 /\ IsSel(raw[1]) ->
           {AntiCollision(LevelOf(raw[1]), nvb, <<0, 0, 0, 0>>) :
              nvb \in ParseNvb(raw[2])}
      [] OTHER -> UNION {ParseStandard(data) : data \in protected}

\* Command::from_crc_verified() and Command::try_from(), as the option
\* --no-crc of the command-line parser chooses.
CommandFrom(raw, noCrc) ==
    ParseCommand(raw, IF noCrc THEN {raw} ELSE SplitCrc(raw))

\* Block::from_crc_verified() and Block::try_from(), with the option --block.
BlockFrom(raw, noCrc) == IF noCrc THEN ParseBlock(raw) ELSE ParseBlockFrame(raw)

-----------------------------------------------------------------------------
\* Answers, as the card means them.
AtqaAnswer(a)    == [kind |-> "Atqa", atqa |-> a]
UidAnswer(part)  == [kind |-> "UidBcc", uid |-> part]
SakAnswer(s)     == [kind |-> "Sak", sak |-> s]
AtsAnswer(ats)   == [kind |-> "Ats", ats |-> ats]
PpssAnswer(cid)  == [kind |-> "Ppss", cid |-> cid]

\* parse_answer() and parse_answer_crc_verified(); no answer to HLTA is parsed.
AnswerFrom(c, raw, noCrc) ==
    LET protected == IF noCrc THEN {raw} ELSE SplitCrc(raw)
    IN  CASE c.kind \in {"Reqa", "Wupa"} -> {AtqaAnswer(a) : a \in ParseAtqa(raw)}
          [] c.kind = "Anticollision" -> {UidAnswer(u) : u \in ParseUidCl(raw)}
          [] c.kind = "Select" ->
               {SakAnswer(s) : s \in UNION {ParseSak(d) : d \in protected}}
          [] c.kind = "Rats" ->
               {AtsAnswer(a) : a \in UNION {ParseAts(d) : d \in protected}}
          [] c.kind = "Pps" ->
               {PpssAnswer(n) : n \in UNION {ParsePpss(d) : d \in protected}}
          [] c.kind = "Block" -> UNION {ParseBlock(d) : d \in protected}
=============================================================================
