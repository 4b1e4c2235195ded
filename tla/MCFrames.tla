------------------------------ MODULE MCFrames ------------------------------
(* Frames with every mixture of hardware and software CRC and the ends of  *)
(* the frame sizes; the cards differ in UID size and in the ATS.           *)
EXTENDS Frames

\* One ATS with all interface bytes and a CID, one without CID support, one
\* that leaves the interface bytes out.
FullAts(fsci) ==
    [fsci |-> fsci, sends |-> InterfaceByte, ta |-> \h77, fwi |-> 14, sfgi |-> 1,
     tc |-> 2, historical |-> <<1, 2>>]

NoCidAts(fsci) == [FullAts(fsci) EXCEPT !.sends = {"tc"}, !.tc = 0, !.ta = 0,
                                        !.fwi = 4, !.sfgi = 0]

BareAts(fsci) == [FullAts(fsci) EXCEPT !.sends = {}, !.ta = 0, !.fwi = 4,
                                       !.sfgi = 0, !.historical = <<>>]

Setup(readerHw, cardHw, fsdi, cid, uid, ats) ==
    [readerHw |-> readerHw, cardHw |-> cardHw, fsdi |-> fsdi, cid |-> cid,
     uid |-> uid, ats |-> ats]

Single == <<1, 2, 3, 4>>
Double == <<4, 5, 6, 7, 8, 9, 10>>
Triple == <<11, 12, 13, 14, 15, 16, 17, 18, 19, 20>>

MCConfigurations ==
    {Setup(r, c, fsd, 14, Single, FullAts(fsc)) :
        r \in BOOLEAN, c \in BOOLEAN, fsd \in {0, 8}, fsc \in {0, 8}}
      \cup {Setup(r, c, 8, 3, Double, NoCidAts(8)) : r \in BOOLEAN, c \in BOOLEAN}
      \cup {Setup(r, c, 2, 0, Triple, BareAts(1)) : r \in BOOLEAN, c \in BOOLEAN}

MCStrangers == {<<4, 5, 6, 99>>}

\* Every first byte, alone and with a few second ones.
MCForeignData == {<<b>> : b \in Byte} \cup {<<b, c>> : b \in Byte, c \in {0, \h20, \hff}}

\* One bit, or all of them.
Garblings == {2^n : n \in 0..7} \cup {255}
=============================================================================
