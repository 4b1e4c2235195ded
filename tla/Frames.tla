-------------------------------- MODULE Frames --------------------------------
(***************************************************************************)
(* Reader and card down to the bytes.  Every frame the reader's code       *)
(* builds (activation.rs, pcd.rs) is put on the air with or without the    *)
(* help of a chip that computes CRC_A, may be garbled, and is read by the  *)
(* handler the card is in (picc.rs), and back.  The other models begin     *)
(* where this one ends: with frames that are understood or refused.        *)
(***************************************************************************)
EXTENDS CommandCodec, Wire

CONSTANTS Configurations,  \* what reader and card are set up with
          Strangers,       \* the UIDs of other cards in the field
          ForeignData,     \* what other readers may send to the card
          Garbling,        \* how noise may change a byte
          MaxGarbledLength \* the longest frame that noise may hit

VARIABLES conf,            \* the setup: CRC_A in hardware, RATS, UID and ATS
          reader,          \* the reader's activation and session
          card,            \* the card's
          turn,            \* who is at work, or which way the frame travels
          air,             \* the last frame on the air, as a sequence
          said,            \* what its sender meant
          heard,           \* what its receiver took it for: one thing or none
          garbled          \* was it hit by noise?

vars == <<conf, reader, card, turn, air, said, heard, garbled>>

ASSUME FramesAssumption ==
    /\ \A c \in Configurations :
          /\ c.readerHw \in BOOLEAN /\ c.cardHw \in BOOLEAN
          /\ c.fsdi \in 0..8 /\ c.cid \in Cid
          /\ Len(c.uid) \in {4, 7, 10}
          /\ c.ats.fsci \in 0..8
    /\ ForeignData \subseteq Seq(Byte)
    /\ Garbling \subseteq Byte /\ MaxGarbledLength \in Nat

Nothing == [kind |-> "Silence"]
Unknown == [kind |-> "Unknown"]

-----------------------------------------------------------------------------
(* The transceivers, as the traits describe them: with hardware CRC_A they *)
(* append it to a standard frame, and check and strip it.                  *)

Framed(format, data) == [format |-> format, bytes |-> data]

Standard(hw, data) ==
    {Framed("Standard", bytes) :
        bytes \in IF hw THEN {data \o CrcA(data)} ELSE AppendCrc(data)}

Delivered(hw, frame) ==
    IF hw /\ frame.format = "Standard" THEN SplitCrc(frame.bytes) ELSE {frame.bytes}

\* Picc::strip_crc().
StripCrc(hw, raw) == IF hw THEN {raw} ELSE SplitCrc(raw)

OnAirLength(hw, raw) == IF hw THEN Len(raw) + 2 ELSE Len(raw)

-----------------------------------------------------------------------------
(* The reader.                                                             *)

\* Mutant: the epilogue is forgotten in the overhead.
MaxInfWithoutCrc(frameSize, cid) == frameSize - (1 + Len(cid))

\* The payload bytes of one I-Block: frame size less PCB, CID and CRC.
MaxInf(frameSize, cid) == frameSize - (1 + Len(cid) + 2)

\* Payload that reads like a SELECT.
Payload(n) == [i \in 1..n |-> \h93]

\* I-Blocks of one byte and of a whole frame, chained or not, and R(ACK).
BlocksOf(frameSize, cid) ==
    LET full == Payload(MaxInf(frameSize, cid))
    IN  {IBlock(n, FALSE, p) : n \in Bit, p \in {Payload(1), full}}
          \cup {IBlock(n, TRUE, full) : n \in Bit}
          \cup {RBlock(n, "Ack") : n \in Bit}

ReaderBlocks ==
    BlocksOf(FrameSize(reader.ats[1].fsci), <<conf.cid>>)
      \cup {RBlock(n, "Nak") : n \in Bit}
      \cup {SBlock("Wtx", <<1>>), SBlock("Deselect", <<>>)}

\* S-Blocks are echoed; the response to a presence check is empty.
CardBlocks(heardBlock) ==
    IF heardBlock.type = "S" THEN {heardBlock}
    ELSE BlocksOf(card.fsd, card.cid) \cup {IBlock(n, FALSE, <<>>) : n \in Bit}

\* What do_activate(), connect() and the session send at this stage; HLTA is
\* sent by the application, through Command::to_frame().
Commands ==
    CASE reader.stage = "Request"     -> {Plain("Reqa"), Plain("Wupa")}
      [] reader.stage = "Anticollide" -> {LevelFrame("Anticollision", reader.level)}
      [] reader.stage = "Select"      -> {Select(reader.level, reader.uid)}
      [] reader.stage = "Selected"    ->
           {Rats([fsdi |-> conf.fsdi, cid |-> conf.cid])}
             \cup {c \in {Plain("Hlta")} : ~ conf.readerHw}
      [] reader.stage = "Session"     ->
           {Pps([cid |-> conf.cid, dsi |-> 2, dri |-> 1])}
             \cup {Enveloped(b, <<conf.cid>>, <<>>) : b \in ReaderBlocks}
      [] OTHER -> {}

\* Command::to_frame() with the bytes of to_vec().
ToFrame(c) == {Framed(FormatOf(c), bytes) : bytes \in CommandToVec(c)}

\* do_anticollision(), do_select(), connect(), pps() and transceive_block()
\* put their bytes together themselves.
AnticollisionFrame(level) ==
    {Framed("BitOriented", <<Sel(level), NvbAnticollision>>)}

SelectFrame(level, uid) ==
    Standard(conf.readerHw, <<Sel(level), NvbSelect>> \o WithBcc(uid))

RatsFrame(rats) == Standard(conf.readerHw, <<\he0, RatsByte(rats)>>)

PpsFrame(pps) == Standard(conf.readerHw, PpsBytes(pps))

ReaderBlockFrame(e) ==
    UNION {Standard(conf.readerHw, data) : data \in BlockBytes(e)}

CommandFrame(c) ==
    CASE c.kind \in {"Reqa", "Wupa", "Hlta"} -> ToFrame(c)
      [] c.kind = "Anticollision" -> AnticollisionFrame(c.level)
      [] c.kind = "Select"        -> SelectFrame(c.level, c.uid)
      [] c.kind = "Rats"          -> RatsFrame(c.rats)
      [] c.kind = "Pps"           -> PpsFrame(c.pps)
      [] c.kind = "Block"         -> ReaderBlockFrame(c)

\* parse_block_response(): a block above the frame size of the RATS is refused.
TooLong(raw) == OnAirLength(conf.readerHw, raw) > FrameSize(conf.fsdi)

\* The answer is parsed as each of these calls expects it.
ReaderTakes(raw) ==
    IF reader.asked = "Block" /\ TooLong(raw) THEN {}
    ELSE AnswerFrom([kind |-> reader.asked], raw, conf.readerHw)

\* The call of the reader goes on to its next command.
After(answer) ==
    CASE answer.kind = "Atqa"   -> [reader EXCEPT !.stage = "Anticollide"]
      [] answer.kind = "UidBcc" -> [reader EXCEPT !.stage = "Select", !.uid = answer.uid]
      [] answer.kind = "Sak"    ->
           IF answer.sak.uid_complete THEN [reader EXCEPT !.stage = "Selected"]
           ELSE IF reader.level < 2
                THEN [reader EXCEPT !.stage = "Anticollide", !.level = @ + 1]
                ELSE [reader EXCEPT !.stage = "Closed"]
      [] answer.kind = "Ats"    -> [reader EXCEPT !.stage = "Session",
                                                  !.ats = <<answer.ats>>]
      [] answer.kind = "Ppss"   -> reader
      [] answer.kind = "Block"  -> IF IsDeselect(answer.block)
                                   THEN [reader EXCEPT !.stage = "Closed"]
                                   ELSE reader

-----------------------------------------------------------------------------
(* The card.                                                               *)

HandleIdle(raw) == {Plain("Reqa") : r \in {<<\h26>>} \cap {raw}}
                     \cup {Plain("Wupa") : r \in {<<\h52>>} \cap {raw}}

\* handle_ready(): the UID of a SELECT is not looked at, nor its BCC.
HandleReady(raw) ==
    CASE Len(raw) < 2 \/ raw[1] # Sel(card.level) -> {}
      [] Len(raw) = 2 -> {LevelFrame("Anticollision", card.level)}
      [] OTHER -> {LevelFrame("Select", card.level) :
                     data \in {d \in StripCrc(conf.cardHw, raw) :
                                 raw[2] = NvbSelect /\ Len(d) = 7}}

HandleActive(raw) ==
    UNION {CASE data = <<\h50, 0>> -> {Plain("Hlta")}
             [] Len(data) = 2 /\ data[1] = \he0 -> {Rats(r) : r \in ParseRats(data[2])}
             [] OTHER -> {} : data \in StripCrc(conf.cardHw, raw)}

\* handle_pps().
HandlePps(raw) ==
    UNION {{Pps(p) : p \in ParsePps(data)} : data \in StripCrc(conf.cardHw, raw)}

\* parse_block().
CardParsesBlock(raw) ==
    IF OnAirLength(conf.cardHw, raw) > FrameSize(conf.ats.fsci) THEN {}
    ELSE UNION {ParseBlock(data) : data \in StripCrc(conf.cardHw, raw)}

\* receive_command(): what begins with the upper half of PPSS is a PPS.
HandleCommand(raw) == IF raw # <<>> /\ HighNibble(raw[1]) = 13
                      THEN HandlePps(raw) ELSE CardParsesBlock(raw)

CardTakes(raw) == CASE card.place = "Idle"     -> HandleIdle(raw)
                    [] card.place = "Ready"    -> HandleReady(raw)
                    [] card.place = "Active"   -> HandleActive(raw)
                    [] card.place = "Protocol" -> HandleCommand(raw)
                    [] card.place = "Halted"   -> {}

\* Mutant: the code of the frame size is taken for the size.
SessionFsdAsCode(rats) == rats.fsdi

SessionFsd(rats) == FrameSize(rats.fsdi)

\* Mutant: the CID of the RATS is used whatever the ATS says.
SessionCidAsProposed(rats) == <<rats.cid>>

\* A card without CID support has none (handle_active).
SessionCid(rats) == IF CidSupported(conf.ats) THEN <<rats.cid>> ELSE <<>>

CardAfter(c) ==
    CASE c.kind \in {"Reqa", "Wupa"} -> [card EXCEPT !.place = "Ready"]
      [] c.kind = "Select" ->
           IF IsLastLevel(conf.uid, card.level)
           THEN [card EXCEPT !.place = "Active"]
           ELSE [card EXCEPT !.level = @ + 1]
      [] c.kind = "Rats" -> [card EXCEPT !.place = "Protocol",
                                         !.fsd = SessionFsd(c.rats),
                                         !.cid = SessionCid(c.rats)]
      [] c.kind = "Hlta" \/ (c.kind = "Block" /\ IsDeselect(c.block)) ->
           [card EXCEPT !.place = "Halted"]
      [] OTHER -> card

\* PiccConfig::atqa() of a card with one slot.
Atqa == [uid_size |-> CascadeLevels(conf.uid) - 1, slots |-> 1, coding |-> 0]

\* The card's answers to c; any block it may send answers a block.
Answers(c) ==
    CASE c.kind \in {"Reqa", "Wupa"} -> {AtqaAnswer(Atqa)}
      [] c.kind = "Anticollision" -> {UidAnswer(UidPart(conf.uid, card.level))}
      [] c.kind = "Select" ->
           {SakAnswer([uid_complete |-> IsLastLevel(conf.uid, card.level),
                       iso14443_4_compliant |-> TRUE])}
      [] c.kind = "Rats" -> {AtsAnswer(conf.ats)}
      [] c.kind = "Pps"  -> {PpssAnswer(c.pps.cid)}
      [] c.kind = "Hlta" -> {Nothing}
      [] c.kind = "Block" -> {Enveloped(b, card.cid, <<>>) : b \in CardBlocks(c.block)}

\* send_atqa(), handle_ready(), send_sak(), send_ats(), handle_pps() and
\* send_block(): Standard() is their choice by hw_crc.
AnswerFrame(a) ==
    CASE a.kind = "Silence" -> {}
      [] a.kind = "Atqa"    -> {Framed("Short", AtqaBytes(a.atqa))}
      [] a.kind = "UidBcc"  -> {Framed("BitOriented", WithBcc(a.uid))}
      [] a.kind = "Sak"     -> Standard(conf.cardHw, <<SakByte(a.sak)>>)
      [] a.kind = "Ats"     -> UNION {Standard(conf.cardHw, data) : data \in AtsBytes(a.ats)}
      [] a.kind = "Ppss"    -> Standard(conf.cardHw, <<\hd0 + a.cid>>)
      [] a.kind = "Block"   -> UNION {Standard(conf.cardHw, data) : data \in BlockBytes(a)}

-----------------------------------------------------------------------------
ReaderType == [stage : {"Request", "Anticollide", "Select", "Selected", "Session",
                        "Closed"},
               level : 0..2,
               uid   : Seq(Byte),              \* what the level answered
               ats   : {<<>>} \cup [1..1 -> AtsType],
               asked : STRING]                 \* the kind of the last command

CardType == [place : {"Idle", "Ready", "Active", "Protocol", "Halted"},
             level : 0..2,
             fsd   : {FrameSize(code) : code \in 0..8},
             cid   : {<<>>} \cup [1..1 -> Cid]]

Init == /\ conf \in Configurations
        /\ reader = [stage |-> "Request", level |-> 0, uid |-> <<>>, ats |-> <<>>,
                     asked |-> "None"]
        /\ card = [place |-> "Idle", level |-> 0, fsd |-> 256, cid |-> <<>>]
        /\ turn = "Reader"
        /\ air = <<>> /\ said = Nothing /\ heard = {} /\ garbled = FALSE

Transmit(meaning, frame) == /\ air' = <<frame>>
                            /\ said' = meaning
                            /\ heard' = {}
                            /\ garbled' = FALSE

ReaderSays == /\ turn = "Reader"
              /\ turn' = "ToCard"
              /\ \E c \in Commands : \E f \in CommandFrame(c) :
                    /\ Transmit(c, f)
                    /\ reader' = [reader EXCEPT !.asked = c.kind]
              /\ UNCHANGED <<conf, card>>

CardHears == /\ turn = "ToCard"
             /\ turn' = "Card"
             /\ heard' = UNION {CardTakes(raw) : raw \in Delivered(conf.cardHw, air[1])}
             /\ UNCHANGED <<conf, reader, card, air, said, garbled>>

\* What was not taken is not answered.
CardSays == /\ turn = "Card" /\ said # Unknown
            /\ turn' = "ToReader"
            /\ \E c \in heard :
                  /\ card' = CardAfter(c)
                  /\ \E a \in Answers(c) : \E f \in AnswerFrame(a) : Transmit(a, f)
            /\ UNCHANGED <<conf, reader>>

\* Another card in the field is heard in the anticollision instead.
StrangerSays ==
    /\ turn = "Card"
    /\ turn' = "ToReader"
    /\ \E c \in heard, uid \in Strangers :
          LET part == UidPart(uid, card.level)
          IN  /\ c.kind = "Anticollision" /\ card.level < CascadeLevels(uid)
              /\ Transmit(UidAnswer(part), Framed("BitOriented", WithBcc(part)))
    /\ UNCHANGED <<conf, reader, card>>

\* A call that gets no answer it understands fails.
ReaderHears ==
    /\ turn = "ToReader"
    /\ turn' = "Reader"
    /\ heard' = UNION {ReaderTakes(raw) : raw \in Delivered(conf.readerHw, air[1])}
    /\ reader' = IF heard' = {} THEN [reader EXCEPT !.stage = "Closed"]
                 ELSE After(CHOOSE answer \in heard' : TRUE)
    /\ UNCHANGED <<conf, card, air, said, garbled>>

\* Another reader sends to the card instead.
ForeignSays ==
    /\ turn = "Reader" /\ reader.stage \in {"Selected", "Session"}
    /\ said.kind \in {"Sak", "Ats"} /\ ~ garbled
    /\ card.place \in {"Active", "Protocol"}
    /\ turn' = "ToCard"
    /\ \E data \in ForeignData : \E f \in Standard(FALSE, data) : Transmit(Unknown, f)
    /\ reader' = [reader EXCEPT !.stage = "Closed"]
    /\ UNCHANGED <<conf, card>>

\* Noise changes one byte of a frame.
Garble ==
    /\ turn \in {"ToCard", "ToReader"}
    /\ ~ garbled /\ said # Unknown
    /\ Len(air[1].bytes) <= MaxGarbledLength
    /\ garbled' = TRUE
    /\ \E i \in DOMAIN air[1].bytes, bits \in Garbling :
          air' = [air EXCEPT ![1].bytes[i] = Exor[@, bits]]
    /\ UNCHANGED <<conf, reader, card, turn, said, heard>>

Next == ReaderSays \/ CardHears \/ CardSays \/ StrangerSays \/ ReaderHears
          \/ ForeignSays \/ Garble

Spec == Init /\ [][Next]_vars

-----------------------------------------------------------------------------
TypeOK == /\ conf \in Configurations
          /\ reader \in ReaderType /\ card \in CardType
          /\ \A i \in DOMAIN air : air[i].bytes \in Seq(Byte)
          /\ Cardinality(heard) <= 1

-----------------------------------------------------------------------------
\* What a receiver makes of a frame: the card does not look at the UID of a
\* SELECT.
Understood(meaning) == IF meaning.kind = "Select"
                       THEN {LevelFrame("Select", meaning.level), meaning}
                       ELSE {meaning}

WasHeard == turn \in {"Reader", "Card"} /\ said \notin {Nothing, Unknown}

\* A frame that arrives as it was sent is understood as it was meant, whatever
\* mixture of hardware and software CRC the two ends use, whatever frame sizes
\* they announced and whether there is a CID: no frame is refused, above all
\* not for its length, or read as another command (handle_idle to
\* receive_command, transceive_block).
IntactIsUnderstood ==
    WasHeard /\ ~ garbled =>
        \E meaning \in Understood(said) : heard = {meaning}

\* A frame with a garbled byte is refused or does no harm: only an ATQA,
\* which carries no check, is taken for another (split_crc_a, do_anticollision).
GarbledIsRefused ==
    WasHeard /\ garbled /\ said.kind # "Atqa" => heard \subseteq Understood(said)

\* "A card without CID support ignores the CID proposed in RATS and never
\* sends one" (picc.rs:434-435), as the reader that parsed the ATS sees it; a
\* CID that is sent is the one of the RATS.
CidAsAnnounced ==
    turn = "ToReader" /\ said.kind = "Block" /\ said.cid # <<>> =>
        CidSupported(reader.ats[1]) /\ said.cid = <<conf.cid>>

\* A program that has only the bytes, with or without their CRC, reads every
\* command and every answer as the two ends do (Command::try_from,
\* from_crc_verified, parse_answer, Block::try_from; example/cli_parser.rs),
\* and Command::to_vec builds the bytes that the sessions build on their own.
Plainly(meaning) == IF meaning.kind = "Anticollision"
                    THEN AntiCollision(meaning.level, NvbAnticollision, <<0, 0, 0, 0>>)
                    ELSE meaning

ParsersAgree ==
    turn \in {"ToCard", "ToReader"} /\ said # Unknown /\ ~ garbled =>
        LET bytes == air[1].bytes
            data  == IF air[1].format = "Standard" THEN SubSeq(bytes, 1, Len(bytes) - 2)
                                                   ELSE bytes
        IN  /\ turn = "ToCard" =>
                 /\ CommandFrom(bytes, FALSE) = {Plainly(said)}
                 /\ CommandFrom(data, TRUE) = {Plainly(said)}
                 /\ said.kind # "Anticollision" => CommandToVec(said) = {bytes}
            /\ turn = "ToReader" =>
                 /\ AnswerFrom([kind |-> reader.asked], bytes, FALSE) = {said}
                 /\ AnswerFrom([kind |-> reader.asked], data, TRUE) = {said}
            /\ said.kind = "Block" =>
                 BlockFrom(bytes, FALSE) = {said} /\ BlockFrom(data, TRUE) = {said}

\* Whatever another reader sends, a card that is selected or in a session takes
\* it for nothing but what the same bytes are without any context
\* (handle_active, receive_command, Command::parse_standard): no block reads
\* like a command of the activation, and the other way round.
OneReading ==
    turn = "Card" /\ said = Unknown =>
        heard \subseteq UNION {CommandFrom(raw, conf.cardHw) :
                               raw \in Delivered(conf.cardHw, air[1])}

\* "Returns when the UID is fully selected (state is `Active`)"
\* (picc.rs:191): the UIDs named in the SELECTs a card answers are its own.
SelectedByUid ==
    turn = "Card" /\ said.kind = "Select" /\ heard # {} =>
        said.uid = UidPart(conf.uid, card.level)
=============================================================================
