-------------------------------- MODULE Wire --------------------------------
(***************************************************************************)
(* What travels between reader and card: the frames of both layers, parsed *)
(* or not, and how an APDU is cut into chained I-Blocks.                   *)
(***************************************************************************)
EXTENDS Blocks

\* Frames other than blocks.  "Noise" is whatever the receiver refuses to
\* parse: a bad CRC, a wrong length, a bad PCB, a frame above the frame size.
\* "Silence" is what a transceiver error or timeout delivers.
FrameKind == {"Reqa", "Wupa", "Atqa", "Anticollision", "UidBcc", "Select",
              "Sak", "Hlta", "Rats", "Ats", "Pps", "Ppss", "Noise", "Silence"}

\* level is the cascade level of SEL, complete the UID-complete bit of SAK, uid
\* the four bytes of a cascade level (a wrong BCC is noise).  The card does not
\* look at the UID of a SELECT.
BlockFrame(b)           == [kind |-> "Block", block |-> b]
Plain(kind)             == [kind |-> kind]
LevelFrame(kind, level) == [kind |-> kind, level |-> level]
UidFrame(part)          == [kind |-> "UidBcc", uid |-> part]
SakFrame(complete)      == [kind |-> "Sak", complete |-> complete]

Frame == [kind : {"Block"}, block : Block]
           \cup [kind : FrameKind \ {"Anticollision", "UidBcc", "Select", "Sak"}]
           \cup [kind : {"UidBcc"}, uid : [1..4 -> Byte]]
           \cup [kind : {"Anticollision", "Select"}, level : 0..2]
           \cup [kind : {"Sak"}, complete : BOOLEAN]

Carries(f, type) == f.kind = "Block" /\ f.block.type = type

\* The cascade levels of a UID of 4, 7 or 10 bytes.
CascadeLevels(uid)      == (Len(uid) - 1) \div 3
IsLastLevel(uid, level) == level + 1 >= CascadeLevels(uid)

CascadeTag == \h88

\* uid_bcc_for_level(): three bytes behind the tag, at the last level four.
UidPart(uid, level) ==
    IF IsLastLevel(uid, level)
    THEN SubSeq(uid, Len(uid) - 3, Len(uid))
    ELSE <<CascadeTag>> \o SubSeq(uid, 3 * level + 1, 3 * level + 3)

\* An APDU from offset on, in chunks of at most maxInf bytes.
ChunkEnd(apdu, offset, maxInf) ==
    IF offset + maxInf < Len(apdu) THEN offset + maxInf ELSE Len(apdu)

\* Is there more after the chunk at offset?
MoreToSend(apdu, offset, maxInf) == ChunkEnd(apdu, offset, maxInf) < Len(apdu)

Chunk(number, apdu, offset, maxInf) ==
    IBlock(number, MoreToSend(apdu, offset, maxInf),
           SubSeq(apdu, offset + 1, ChunkEnd(apdu, offset, maxInf)))
=============================================================================
