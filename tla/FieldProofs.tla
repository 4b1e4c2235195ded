----------------------------- MODULE FieldProofs -----------------------------
(***************************************************************************)
(* What holds of Field for every UID, every set of limits and any number   *)
(* of disturbed frames: the reader that has activated a card has activated *)
(* this one.                                                               *)
(***************************************************************************)
EXTENDS Field, PiccLemmas

-----------------------------------------------------------------------------
(* The UID and its parts.                                                  *)

LEMMA UidType ==
  /\ Uid \in Seq(Byte) /\ Len(Uid) \in Nat /\ Len(Uid) = 3 * CascadeLevels(Uid) + 1
  /\ CascadeLevels(Uid) \in 1..3 /\ \A i \in 1..Len(Uid) : Uid[i] \in Byte
BY PiccAssumption, CascadeOfUid, LenProperties, ElementOfSeq

\* Behind the cascade tag of a level are three bytes of the UID.
LEMMA TailOfPart ==
  ASSUME NEW level \in 0..2, ~ IsLastLevel(Uid, level),
         NEW m, NEW n, m = 3 * level + 1, n = 3 * level + 3
  PROVE  Tail(UidPart(Uid, level)) = SubSeq(Uid, m, n)
<1> DEFINE s == SubSeq(Uid, 3 * level + 1, 3 * level + 3)
           tag == <<CascadeTag>>
           t == tag \o s
<1>1. 3 * level + 3 <= Len(Uid)
  BY UidType DEF IsLastLevel
<1>2. s \in Seq(Byte) /\ Len(s) = 3
  BY UidType, <1>1, SubSeqProperties
<1>3. tag \in Seq(Byte) /\ Len(tag) = 1
  BY DEF CascadeTag, Byte
<1>4. UidPart(Uid, level) = t
  BY DEF UidPart
<1> HIDE DEF s, tag
<1>5. /\ t \in Seq(Byte) /\ Len(t) = Len(tag) + Len(s)
      /\ \A i \in 1..Len(tag) + Len(s) :
           t[i] = IF i <= Len(tag) THEN tag[i] ELSE s[i - Len(tag)]
  BY <1>2, <1>3, ConcatProperties
<1>6. Len(t) = 4 /\ \A i \in 1..3 : t[i + 1] = s[i]
  BY <1>2, <1>3, <1>5
<1>7. t # <<>>
  BY <1>5, <1>6, EmptySeq
<1> HIDE DEF t
<1>8. /\ Tail(t) \in Seq(Byte) /\ Len(Tail(t)) = 3
      /\ \A i \in 1..3 : Tail(t)[i] = t[i + 1]
  <2>1. /\ Tail(t) \in Seq(Byte) /\ Len(Tail(t)) = Len(t) - 1
        /\ \A i \in 1..Len(Tail(t)) : Tail(t)[i] = t[i + 1]
    BY <1>5, <1>7, HeadTailProperties
  <2>2. Len(Tail(t)) = 3
    BY <1>6, <2>1
  <2> QED BY <2>1, <2>2
<1>9. Tail(t) = s
  BY <1>2, <1>6, <1>8, SeqEqual
<1> QED BY <1>4, <1>9 DEF s

LEMMA LastPart ==
  ASSUME NEW level \in 0..2, IsLastLevel(Uid, level)
  PROVE  UidPart(Uid, level) = SubSeq(Uid, Len(Uid) - 3, Len(Uid))
BY DEF UidPart

\* build_activation() puts together what uid_bcc_for_level() took apart.
LEMMA BuildUidOfParts ==
  ASSUME NEW parts, Len(parts) = CascadeLevels(Uid),
         \A i \in 1..Len(parts) : parts[i] = UidPart(Uid, i - 1)
  PROVE  BuildUid(parts) = Uid
<1>1. CASE CascadeLevels(Uid) = 1
  <2>1. IsLastLevel(Uid, 0) /\ Len(Uid) = 4
    BY <1>1, UidType DEF IsLastLevel
  <2>2. parts[1] = SubSeq(Uid, 1, Len(Uid))
    BY <1>1, <2>1, LastPart
  <2> QED BY <1>1, <2>2, UidType, SubSeqFull DEF BuildUid
<1>2. CASE CascadeLevels(Uid) = 2
  <2>1. ~ IsLastLevel(Uid, 0) /\ IsLastLevel(Uid, 1) /\ Len(Uid) = 7
    BY <1>2, UidType DEF IsLastLevel
  <2>2. parts[1] = UidPart(Uid, 0) /\ parts[2] = UidPart(Uid, 1)
    BY <1>2
  <2>3. Tail(parts[1]) = SubSeq(Uid, 1, 3)
    <3>1. 1 = 3 * 0 + 1 /\ 3 = 3 * 0 + 3 /\ 0 \in 0..2
      OBVIOUS
    <3> QED BY <2>1, <2>2, <3>1, TailOfPart, Zenon
  <2>7. parts[2] = SubSeq(Uid, 4, 7)
    BY <2>1, <2>2, LastPart
  <2>4. SubSeq(Uid, 1, 3) \o SubSeq(Uid, 4, 7) = SubSeq(Uid, 1, 7)
    BY <2>1, UidType, ConcatAdjacentSubSeq
  <2>5. SubSeq(Uid, 1, 7) = Uid
    BY <2>1, UidType, SubSeqFull
  <2>6. BuildUid(parts) = Tail(parts[1]) \o parts[2]
    BY <1>2 DEF BuildUid
  <2> QED BY <2>3, <2>4, <2>5, <2>6, <2>7
<1>3. CASE CascadeLevels(Uid) = 3
  <2>1. /\ ~ IsLastLevel(Uid, 0) /\ ~ IsLastLevel(Uid, 1) /\ IsLastLevel(Uid, 2)
        /\ Len(Uid) = 10
    BY <1>3, UidType DEF IsLastLevel
  <2>2. /\ parts[1] = UidPart(Uid, 0) /\ parts[2] = UidPart(Uid, 1)
        /\ parts[3] = UidPart(Uid, 2)
    BY <1>3
  <2>3. Tail(parts[1]) = SubSeq(Uid, 1, 3)
    <3>1. 1 = 3 * 0 + 1 /\ 3 = 3 * 0 + 3 /\ 0 \in 0..2
      OBVIOUS
    <3> QED BY <2>1, <2>2, <3>1, TailOfPart, Zenon
  <2>4. Tail(parts[2]) = SubSeq(Uid, 4, 6)
    <3>1. 4 = 3 * 1 + 1 /\ 6 = 3 * 1 + 3 /\ 1 \in 0..2
      OBVIOUS
    <3> QED BY <2>1, <2>2, <3>1, TailOfPart, Zenon
  <2>5. parts[3] = SubSeq(Uid, 7, 10)
    BY <2>1, <2>2, LastPart
  <2>6. /\ SubSeq(Uid, 1, 3) \o SubSeq(Uid, 4, 6) = SubSeq(Uid, 1, 6)
        /\ SubSeq(Uid, 1, 6) \o SubSeq(Uid, 7, 10) = SubSeq(Uid, 1, 10)
    BY <2>1, UidType, ConcatAdjacentSubSeq
  <2>7. SubSeq(Uid, 1, 10) = Uid
    BY <2>1, UidType, SubSeqFull
  <2>8. BuildUid(parts) = (Tail(parts[1]) \o Tail(parts[2])) \o parts[3]
    <3>1. Len(parts) = 3 /\ Len(parts) # 1 /\ Len(parts) # 2
      BY <1>3
    <3>2. BuildUid(parts) = (Tail(parts[1]) \o Tail(parts[2])) \o parts[Len(parts)]
      BY <3>1, Zenon DEF BuildUid
    <3> QED BY <3>1, <3>2
  <2> QED BY <2>3, <2>4, <2>5, <2>6, <2>7, <2>8
<1> QED BY <1>1, <1>2, <1>3, UidType

-----------------------------------------------------------------------------
(* The air.                                                                *)

\* At most one frame in both directions together.
LEMMA HalfDuplex ==
  ASSUME NEW a, NEW b
  PROVE  /\ a \in Air /\ b \in Air /\ (a = <<>> \/ b = <<>>)
              => a \in Seq(Frame) /\ b \in Seq(Frame) /\ Len(a) + Len(b) <= 1
         /\ a \in Seq(Frame) /\ b \in Seq(Frame) /\ Len(a) + Len(b) <= 1
              => a \in Air /\ b \in Air /\ (a = <<>> \/ b = <<>>)
<1>1. ASSUME a \in Air, b \in Air, a = <<>> \/ b = <<>>
      PROVE  a \in Seq(Frame) /\ b \in Seq(Frame) /\ Len(a) + Len(b) <= 1
  <2>1. \A air \in Air : Len(air) \in Nat /\ Len(air) <= 1
    BY OneOnAir, AirIsSeq, LenProperties
  <2>2. Len(<<>>) = 0
    BY EmptySeq
  <2>3. Len(a) + Len(b) <= 1
    BY <1>1, <2>1, <2>2
  <2> QED BY <1>1, <2>3, AirIsSeq
<1>2. ASSUME a \in Seq(Frame), b \in Seq(Frame), Len(a) + Len(b) <= 1
      PROVE  a \in Air /\ b \in Air /\ (a = <<>> \/ b = <<>>)
  <2>1. /\ Len(a) \in Nat /\ Len(b) \in Nat
        /\ a # <<>> => Len(a) > 0
        /\ b # <<>> => Len(b) > 0
    BY <1>2, LenProperties, EmptySeq
  <2>2. a = <<>> \/ b = <<>>
    BY <1>2, <2>1
  <2>3. \A s \in Seq(Frame) : Len(s) = 1 => s = <<s[1]>> /\ s[1] \in Frame
    <3> SUFFICES ASSUME NEW s \in Seq(Frame), Len(s) = 1
                 PROVE  s = <<s[1]>> /\ s[1] \in Frame
      OBVIOUS
    <3>1. s[1] \in Frame
      BY ElementOfSeq
    <3>2. <<s[1]>> \in Seq(Frame) /\ Len(<<s[1]>>) = 1 /\ <<s[1]>>[1] = s[1]
      BY <3>1
    <3>3. \A i \in 1..Len(s) : s[i] = <<s[1]>>[i]
      BY <3>2
    <3> QED BY <3>1, <3>2, <3>3, SeqEqual
  <2>4. /\ Len(a) > 0 => Len(a) = 1
        /\ Len(b) > 0 => Len(b) = 1
    <3>1. \A m, n \in Nat : m + n <= 1 => (m > 0 => m = 1) /\ (n > 0 => n = 1)
      OBVIOUS
    <3> QED BY <1>2, <2>1, <3>1
  <2> QED BY <1>2, <2>1, <2>2, <2>3, <2>4 DEF Air
<1> QED BY <1>1, <1>2

-----------------------------------------------------------------------------
(* The reader.                                                             *)

LEMMA ScanFields ==
  ASSUME NEW s \in ScanType
  PROVE  /\ s.phase \in {"Idle"} \cup ScanWaiting /\ s.level \in 0..2
         /\ s.parts \in Seq([1..4 -> Byte]) /\ s.result \in {"None", "Ok", "Err"}
         /\ s.uid \in Seq(Byte)
BY DEF ScanType

LEMMA ScanSendsEffect ==
  ASSUME NEW phase \in ScanWaiting, NEW level \in 0..2,
         NEW parts \in Seq([1..4 -> Byte]), NEW f, ScanSends(phase, level, parts, f)
  PROVE  /\ scan' \in ScanType /\ scan'.phase = phase /\ scan'.level = level
         /\ scan'.parts = parts /\ scan'.result = "None" /\ toPicc' = <<f>>
<1>1. <<>> \in Seq(Byte)
  OBVIOUS
<1> QED BY <1>1 DEF ScanSends, ScanType

LEMMA ScanReturnsEffect ==
  ASSUME NEW result \in {"Ok", "Err"}, NEW uid \in Seq(Byte), ScanReturns(result, uid)
  PROVE  /\ scan' \in ScanType /\ scan'.phase = "Idle" /\ scan'.result = result
         /\ scan'.uid = uid /\ toPicc' = toPicc
<1>1. <<>> \in Seq([1..4 -> Byte])
  OBVIOUS
<1> QED BY <1>1 DEF ScanReturns, ScanType

\* The parts of the levels below n.
PartsBelow(parts, n) ==
    /\ parts \in Seq([1..4 -> Byte]) /\ Len(parts) = n
    /\ \A i \in 1..n : parts[i] = UidPart(Uid, i - 1)

LEMMA NextPart ==
  ASSUME NEW parts, NEW level \in 0..2, PartsBelow(parts, level)
  PROVE  PartsBelow(Append(parts, UidPart(Uid, level)), level + 1)
<1> DEFINE part == UidPart(Uid, level)
           more == Append(parts, part)
<1>1. part \in [1..4 -> Byte]
  BY UidPartType
<1> HIDE DEF part
<1>2. /\ more \in Seq([1..4 -> Byte]) /\ Len(more) = level + 1
      /\ \A i \in 1..level : more[i] = parts[i]
      /\ more[level + 1] = part
  BY <1>1, AppendProperties DEF PartsBelow
<1> HIDE DEF more
<1>3. ASSUME NEW i \in 1..level + 1
      PROVE  more[i] = UidPart(Uid, i - 1)
  <2>1. CASE i = level + 1
    <3>1. i - 1 = level
      BY <2>1
    <3> QED BY <1>2, <2>1, <3>1 DEF part
  <2>2. CASE i \in 1..level
    BY <1>2, <2>2 DEF PartsBelow
  <2> QED BY <2>1, <2>2
<1> QED BY <1>2, <1>3 DEF PartsBelow, more, part

LEMMA PartsInCascade ==
  ASSUME NEW s \in ScanType,
         s.phase \in {"Anticollision", "Select"}
  PROVE  /\ Len(s.parts) = s.level + (IF s.phase = "Select" THEN 1 ELSE 0)
            /\ (\A i \in DOMAIN s.parts : s.parts[i] = UidPart(Uid, i - 1))
         <=> IF s.phase = "Select" THEN PartsBelow(s.parts, s.level + 1)
                                   ELSE PartsBelow(s.parts, s.level)
<1>1. s.parts \in Seq([1..4 -> Byte]) /\ s.level \in 0..2
  BY ScanFields
<1>2. DOMAIN s.parts = 1..Len(s.parts) /\ Len(s.parts) \in Nat
  BY <1>1, LenProperties
<1>3. s.level + 0 = s.level
  BY <1>1
<1> QED BY <1>1, <1>2, <1>3 DEF PartsBelow

\* The reader goes on with the frame of a level, having the parts before it.
GoesOn == /\ scan'.result = "None" /\ InCascade'
          /\ toPicc' = <<LevelFrame(scan'.phase, scan'.level)>>
          /\ scan'.level < CascadeLevels(Uid)
          /\ PartsOfUid' /\ LevelsAgree'

LEMMA ReaderHearsEffect ==
  ASSUME TypeOK, PartsOfUid, NEW f \in Frame, Answered(f), ScanHears(f),
         picc' = picc
  PROVE  /\ scan.phase # "Idle" /\ scan' \in ScanType
         /\ \/ GoesOn
            \/ /\ scan'.phase = "Idle" /\ toPicc' = toPicc
               /\ scan'.result = "Ok" => scan'.uid = Uid /\ CardSelected
<1>1. scan \in ScanType /\ scan.level \in 0..2 /\ CascadeLevels(Uid) \in 1..3
  BY ScanFields, UidType DEF TypeOK
<1>2. {"Request", "Anticollision", "Select"} = ScanWaiting
  BY DEF ScanWaiting
<1>3. CASE RequestAnswered(f)
  <2> DEFINE none == <<>>
  <2>1. PartsBelow(none, 0)
    BY DEF PartsBelow
  <2>2. none \in Seq([1..4 -> Byte]) /\ 0 \in 0..2 /\ "Anticollision" \in ScanWaiting
    BY <1>2
  <2>3. ScanSends("Anticollision", 0, none, LevelFrame("Anticollision", 0))
    BY <1>3 DEF RequestAnswered, Anticollide
  <2> HIDE DEF none
  <2>4. /\ scan' \in ScanType /\ scan'.phase = "Anticollision" /\ scan'.level = 0
        /\ scan'.parts = none /\ scan'.result = "None"
        /\ toPicc' = <<LevelFrame("Anticollision", 0)>>
    BY <2>2, <2>3, ScanSendsEffect
  <2>5. 0 < CascadeLevels(Uid)
    BY <1>1
  <2>6. PartsOfUid'
    BY <2>1, <2>4, <2>5, PartsInCascade DEF PartsOfUid
  <2>7. AtLevel(0)
    BY <1>3 DEF RequestAnswered, Answered
  <2>8. LevelsAgree'
    BY <2>4, <2>7 DEF LevelsAgree, AtLevel
  <2> QED BY <1>3, <2>4, <2>5, <2>6, <2>8 DEF RequestAnswered, GoesOn, InCascade
<1>4. CASE AnticollisionAnswered(f)
  <2> DEFINE parts == Append(scan.parts, f.uid)
  <2>1. scan.phase = "Anticollision" /\ f.uid = UidPart(Uid, scan.level)
    BY <1>4 DEF AnticollisionAnswered, Answered
  <2>2. PartsBelow(scan.parts, scan.level) /\ scan.level < CascadeLevels(Uid)
    BY <1>1, <2>1, PartsInCascade DEF PartsOfUid, InCascade
  <2>3. PartsBelow(parts, scan.level + 1)
    BY <1>1, <2>1, <2>2, NextPart
  <2>4. ScanSends("Select", scan.level, parts, LevelFrame("Select", scan.level))
    BY <1>4 DEF AnticollisionAnswered
  <2> HIDE DEF parts
  <2>5. /\ scan' \in ScanType /\ scan'.phase = "Select" /\ scan'.level = scan.level
        /\ scan'.parts = parts /\ scan'.result = "None"
        /\ toPicc' = <<LevelFrame("Select", scan.level)>>
    BY <1>1, <1>2, <2>3, <2>4, ScanSendsEffect DEF PartsBelow
  <2>6. PartsOfUid'
    BY <2>2, <2>3, <2>5, PartsInCascade DEF PartsOfUid
  <2> QED BY <2>1, <2>2, <2>5, <2>6 DEF GoesOn, InCascade, LevelsAgree
<1>5. CASE SelectAnswered(f)
  <2>1. /\ scan.phase = "Select" /\ f.complete = IsLastLevel(Uid, scan.level)
        /\ IF f.complete THEN CardSelected ELSE AtLevel(scan.level + 1)
    BY <1>5 DEF SelectAnswered, Answered
  <2>2. PartsBelow(scan.parts, scan.level + 1) /\ scan.level < CascadeLevels(Uid)
    BY <1>1, <2>1, PartsInCascade DEF PartsOfUid, InCascade
  <2>3. CASE f.complete /\ ScanReturns("Ok", BuildUid(scan.parts))
    <3>4. IsLastLevel(Uid, scan.level)
      BY <2>1, <2>3
    <3>1. scan.level + 1 = CascadeLevels(Uid)
      BY <1>1, <2>2, <3>4 DEF IsLastLevel
    <3>2. /\ Len(scan.parts) = CascadeLevels(Uid)
          /\ \A i \in 1..Len(scan.parts) : scan.parts[i] = UidPart(Uid, i - 1)
      BY <2>2, <3>1 DEF PartsBelow
    <3>3. BuildUid(scan.parts) = Uid /\ Uid \in Seq(Byte)
      BY <3>2, BuildUidOfParts, UidType
    <3> QED BY <2>1, <2>3, <3>3, ScanReturnsEffect
  <2>4. CASE /\ ~ f.complete /\ scan.level < 2
             /\ Anticollide(scan.level + 1, scan.parts)
    <3> DEFINE level == scan.level + 1
    <3>5. ~ IsLastLevel(Uid, scan.level)
      BY <2>1, <2>4
    <3>1. level \in 0..2 /\ level < CascadeLevels(Uid)
      BY <1>1, <2>4, <3>5 DEF IsLastLevel
    <3>2. /\ scan.parts \in Seq([1..4 -> Byte]) /\ PartsBelow(scan.parts, level)
          /\ ScanSends("Anticollision", level, scan.parts,
                       LevelFrame("Anticollision", level))
      BY <1>1, <2>2, <2>4, ScanFields DEF Anticollide
    <3>6. AtLevel(level)
      BY <2>1, <2>4
    <3> HIDE DEF level
    <3>3. /\ scan' \in ScanType /\ scan'.phase = "Anticollision" /\ scan'.level = level
          /\ scan'.parts = scan.parts /\ scan'.result = "None"
          /\ toPicc' = <<LevelFrame("Anticollision", level)>>
      BY <1>2, <3>1, <3>2, ScanSendsEffect
    <3>4. PartsOfUid'
      BY <3>1, <3>2, <3>3, PartsInCascade DEF PartsOfUid
    <3>7. LevelsAgree'
      BY <3>3, <3>6 DEF LevelsAgree, AtLevel
    <3> QED BY <2>1, <3>1, <3>3, <3>4, <3>7 DEF GoesOn, InCascade
  <2>5. CASE ScanReturns("Err", <<>>)
    <3>1. <<>> \in Seq(Byte)
      OBVIOUS
    <3> QED BY <2>1, <2>5, <3>1, ScanReturnsEffect
  <2> QED BY <1>5, <2>3, <2>4, <2>5 DEF SelectAnswered
<1>6. CASE Unanswered(f)
  <2>1. <<>> \in Seq(Byte) /\ scan.phase # "Idle"
    BY <1>6 DEF Unanswered, ScanWaiting
  <2> QED BY <1>6, <2>1, ScanReturnsEffect DEF Unanswered
<1> QED BY <1>3, <1>4, <1>5, <1>6 DEF ScanHears

-----------------------------------------------------------------------------
(* The card.                                                               *)

\* The frame the reader may have put on the air, as the card tells it apart.
LEMMA AskedKinds ==
  ASSUME NEW f, Asked(f)
  PROVE  /\ f.kind \in {"Reqa", "Wupa", "Noise", "Anticollision", "Select"}
         /\ f.kind \in {"Reqa", "Wupa"} => scan.phase = "Request"
         /\ f.kind = "Select" => scan.phase = "Select"
         /\ \A k \in {"Anticollision", "Select"} : \A n :
              f = LevelFrame(k, n) => scan.phase = k /\ scan.level = n
<1>1. ASSUME NEW k \in {"Anticollision", "Select"}, NEW n, f = LevelFrame(k, n)
      PROVE  scan.phase = k /\ scan.level = n
  <2>1. f.kind = k /\ f.level = n
    BY <1>1, FrameFields
  <2>2. f = LevelFrame(scan.phase, scan.level)
    BY <1>1, <2>1 DEF Asked
  <2>3. f.kind = scan.phase /\ f.level = scan.level
    BY <2>2, FrameFields
  <2> QED BY <2>1, <2>3
<1>2. /\ f.kind \in {"Reqa", "Wupa", "Noise", "Anticollision", "Select"}
      /\ f.kind \in {"Reqa", "Wupa"} => scan.phase = "Request"
      /\ f.kind = "Select" => scan.phase = "Select"
  <2>1. CASE InCascade /\ f = LevelFrame(scan.phase, scan.level)
    <3>1. f.kind = scan.phase
      BY <2>1, FrameFields
    <3> QED BY <2>1, <3>1 DEF InCascade
  <2> QED BY <2>1 DEF Asked
<1> QED BY <1>1, <1>2

\* The card is still selected in whatever it does by itself, if it was, and
\* it enters no cascade.
LEMMA CardMoved ==
  ASSUME AirOfScan, LevelsAgree, PartsOfUid, ActivatedForGood, scan' = scan,
         toPicc' = toPicc, toPcd' = toPcd, CardSelected => CardSelected',
         picc'.call = "Activation" => picc'.state = "Idle"
  PROVE  AirOfScan' /\ LevelsAgree' /\ PartsOfUid' /\ ActivatedForGood'
<1>1. \A n : AtLevel(n)'
  BY DEF AtLevel
<1> QED BY <1>1 DEF AirOfScan, LevelsAgree, PartsOfUid, ActivatedForGood, InCascade,
                    Asked, Answered

LEMMA CardHearsEffect ==
  ASSUME TypeOK, CardCalls, LevelsAgree, NEW f \in Frame, Asked(f), PiccHears(f),
         toPcd = <<>>, toPicc' = <<>>, scan' = scan
  PROVE  /\ picc' \in PiccType /\ CardCalls' /\ LevelsAgree' /\ toPcd' \in Air
         /\ scan.phase # "Idle" => AirOfScan'
<1>1. picc \in PiccType /\ picc.level \in 0..2
  BY PiccFields DEF TypeOK
<1>2. /\ f.kind \in {"Reqa", "Wupa", "Noise", "Anticollision", "Select"}
      /\ f.kind \in {"Reqa", "Wupa"} => scan.phase = "Request"
      /\ f.kind = "Select" => scan.phase = "Select"
      /\ \A k \in {"Anticollision", "Select"} : \A n :
           f = LevelFrame(k, n) => scan.phase = k /\ scan.level = n
  BY AskedKinds
<1>3. toPcd' = <<>> => toPcd' \in Air /\ (scan.phase # "Idle" => AirOfScan')
  BY AirIsSeq DEF AirOfScan
<1>4. ASSUME NEW r, CallEnded(picc, r)
      PROVE  /\ picc' \in PiccType /\ CardCalls' /\ LevelsAgree' /\ toPcd' \in Air
             /\ scan.phase # "Idle" => AirOfScan'
  BY <1>3, <1>4 DEF CallEnded, CardCalls, LevelsAgree, AtLevel
<1>5. ASSUME NEW g \in Frame, toPcd' = <<g>>, Answered(g)'
      PROVE  toPcd' \in Air /\ (scan.phase # "Idle" => AirOfScan')
  <2>1. toPcd' \in Air /\ toPcd'[1] = g
    BY <1>5, AirIsSeq
  <2> QED BY <1>5, <2>1 DEF AirOfScan
<1>6. CASE ReceiveFails(f)
  BY <1>1, <1>4, <1>6, ReceiveFailsEffect
<1>7. CASE HearInIdle(f)
  <2>1. /\ picc' \in PiccType /\ CardCalls'
        /\ \/ toPcd' = toPcd
           \/ /\ f.kind \in {"Reqa", "Wupa"} /\ toPcd' = <<Plain("Atqa")>>
              /\ picc'.level = 0
        /\ f.kind \notin {"Reqa", "Wupa"} => picc'.state = "Idle"
    BY <1>1, <1>7, HearInIdleEffect DEF CardCalls
  <2>2. Plain("Atqa") \in Frame /\ Plain("Atqa").kind = "Atqa"
    BY FrameTypes, FrameFields DEF FrameKind
  <2>3. picc'.level = 0 => Answered(Plain("Atqa"))'
    BY <2>2 DEF Answered, AtLevel
  <2>4. LevelsAgree'
    BY <1>2, <2>1 DEF LevelsAgree, AtLevel
  <2> QED BY <1>3, <1>5, <2>1, <2>2, <2>3, <2>4
<1>8. CASE HearInReady(f)
  <2>1. /\ picc' \in PiccType /\ CardCalls'
        /\ picc.call = "Activation" /\ picc.state = "Ready"
    BY <1>1, <1>8, HearInReadyEffect DEF CardCalls, HearInReady
  <2>2. PICK uid \in Frame :
          /\ uid = UidFrame(UidPart(Uid, picc.level))
          /\ uid.kind = "UidBcc" /\ uid.uid = UidPart(Uid, picc.level)
    BY <1>1, UidPartType, FrameTypes, FrameFields
  <2>3. PICK sak \in Frame :
          /\ sak = SakFrame(IsLastLevel(Uid, picc.level))
          /\ sak.kind = "Sak" /\ sak.complete = IsLastLevel(Uid, picc.level)
    <3>1. IsLastLevel(Uid, picc.level) \in BOOLEAN
      BY DEF IsLastLevel
    <3> QED BY <3>1, FrameTypes, FrameFields
  <2>4. \/ toPcd' = toPcd /\ (picc'.call = "None" \/ picc'.level = picc.level)
        \/ toPcd' = <<uid>> /\ picc'.level = picc.level
        \/ /\ f = LevelFrame("Select", picc.level) /\ toPcd' = <<sak>>
           /\ IF IsLastLevel(Uid, picc.level)
              THEN picc'.call = "None" /\ picc'.state = "Active" /\ picc'.result = Ok
              ELSE picc'.level = picc.level + 1
    BY <1>1, <1>8, <2>2, <2>3, HearInReadyEffect
  <2>5. scan.phase = "Anticollision" => picc.level = scan.level
    BY <2>1 DEF LevelsAgree, AtLevel
  <2>6. CASE toPcd' = toPcd /\ (picc'.call = "None" \/ picc'.level = picc.level)
    <3>1. LevelsAgree'
      BY <2>5, <2>6 DEF LevelsAgree, AtLevel
    <3> QED BY <1>3, <2>1, <2>6, <3>1
  <2>7. CASE toPcd' = <<uid>> /\ picc'.level = picc.level
    <3>1. LevelsAgree'
      BY <2>5, <2>7 DEF LevelsAgree, AtLevel
    <3>2. Answered(uid)'
      BY <2>2, <2>5 DEF Answered
    <3> QED BY <1>5, <2>1, <2>7, <3>1, <3>2
  <2>8. CASE /\ f = LevelFrame("Select", picc.level) /\ toPcd' = <<sak>>
             /\ IF IsLastLevel(Uid, picc.level)
                THEN picc'.call = "None" /\ picc'.state = "Active" /\ picc'.result = Ok
                ELSE picc'.level = picc.level + 1
    <3>1. scan.phase = "Select" /\ scan.level = picc.level
      BY <1>2, <2>8
    <3>2. IF sak.complete THEN CardSelected' ELSE AtLevel(scan.level + 1)'
      BY <2>3, <2>8, <3>1 DEF CardSelected, AtLevel
    <3>3. sak.complete = IsLastLevel(Uid, scan.level)
      BY <2>3, <3>1
    <3>4. Answered(sak)'
      BY <2>3, <3>1, <3>2, <3>3 DEF Answered, AtLevel
    <3>5. LevelsAgree'
      BY <3>1 DEF LevelsAgree
    <3> QED BY <1>5, <2>1, <2>8, <3>4, <3>5
  <2> QED BY <2>4, <2>6, <2>7, <2>8
<1>9. CASE HearInActive(f)
  BY <1>1, <1>2, <1>4, <1>9, HearInActiveOther
<1>10. ~ (HearPps(f) \/ HearNoBlock(f) \/ HearCommandBlock(f) \/ HearAcknowledgement(f))
  BY DEF CardCalls, HearPps, HearNoBlock, HearCommandBlock, HearAcknowledgement
<1> QED BY <1>6, <1>7, <1>8, <1>9, <1>10 DEF PiccHears

-----------------------------------------------------------------------------
(* The invariant.                                                          *)

IInv == TypeOK /\ CardCalls /\ AirOfScan /\ LevelsAgree /\ PartsOfUid /\ ActivatedForGood

LEMMA FieldTypes ==
  TypeOK <=> /\ scan \in ScanType /\ picc \in PiccType
             /\ toPicc \in Air /\ toPcd \in Air
             /\ toPicc = <<>> \/ toPcd = <<>>
             /\ losses \in 0..MaxLosses
BY HalfDuplex DEF TypeOK

LEMMA InitIInv == Init => IInv
<1> SUFFICES ASSUME Init PROVE IInv
  OBVIOUS
<1>1. picc \in PiccType /\ picc.call = "None"
  <2>1. NewHandler("Picc", PiccLimits) \in Handler
    BY PiccAssumption, SessionStartType DEF Role
  <2>2. /\ "None" \in PiccCall /\ "Idle" \in PiccState /\ <<>> \in Seq(Byte)
        /\ 0 \in Nat /\ 0 \in 0..2
    BY DEF PiccCall, PiccState
  <2> QED BY <2>1, <2>2, PiccResults DEF Init, NewPicc, PiccType
<1>2. /\ scan \in ScanType /\ scan.phase = "Idle" /\ scan.result = "None"
  <2>1. <<>> \in Seq(Byte) /\ <<>> \in Seq([1..4 -> Byte]) /\ 0 \in 0..2
    OBVIOUS
  <2> QED BY <2>1 DEF Init, ScanInit, ScanType
<1>3. /\ toPicc = <<>> /\ toPcd = <<>> /\ losses \in 0..MaxLosses
  BY FieldAssumption DEF Init
<1>4. TypeOK
  BY <1>1, <1>2, <1>3, AirIsSeq, FieldTypes
<1> QED BY <1>1, <1>2, <1>3, <1>4
        DEF IInv, CardCalls, AirOfScan, LevelsAgree, PartsOfUid, InCascade, ActivatedForGood

LEMMA NextIInv ==
  ASSUME IInv, [Next]_vars
  PROVE  IInv'
<1>1. /\ TypeOK /\ CardCalls /\ AirOfScan /\ LevelsAgree /\ PartsOfUid /\ ActivatedForGood
      /\ scan \in ScanType /\ picc \in PiccType /\ toPicc \in Air /\ toPcd \in Air
      /\ toPicc = <<>> \/ toPcd = <<>>
      /\ losses \in 0..MaxLosses
  BY FieldTypes DEF IInv
<1>2. TypeOK' <=> /\ scan' \in ScanType /\ picc' \in PiccType
                  /\ toPicc' \in Air /\ toPcd' \in Air
                  /\ toPicc' = <<>> \/ toPcd' = <<>>
                  /\ losses' \in 0..MaxLosses
  BY HalfDuplex DEF TypeOK
<1>3. CASE UNCHANGED vars
  BY <1>1, <1>3 DEF vars, IInv, TypeOK, CardCalls, CardSelected, AirOfScan, LevelsAgree,
     AtLevel, PartsOfUid, ActivatedForGood, InCascade, Asked, Answered
<1>4. CASE Poll
  <2>1. PICK request \in {"Reqa", "Wupa"} : Activate(request)
    BY <1>4 DEF Poll
  <2>2. /\ scan.phase = "Idle" /\ picc' = picc /\ toPcd' = toPcd /\ losses' = losses
        /\ ScanSends("Request", 0, <<>>, Plain(request))
    BY <1>4, <2>1 DEF Poll, Activate
  <2>3. /\ Plain(request) \in Frame /\ Plain(request).kind = request
    BY FrameTypes, FrameFields DEF FrameKind
  <2>4. /\ scan' \in ScanType /\ scan'.phase = "Request" /\ scan'.result = "None"
        /\ toPicc' = <<Plain(request)>>
    <3>1. <<>> \in Seq([1..4 -> Byte]) /\ "Request" \in ScanWaiting /\ 0 \in 0..2
      BY DEF ScanWaiting
    <3> QED BY <2>2, <3>1, ScanSendsEffect
  <2>5. /\ toPicc' \in Air /\ toPicc'[1] = Plain(request) /\ toPcd' = <<>>
    BY <1>1, <2>2, <2>3, <2>4, AirIsSeq DEF AirOfScan
  <2>6. TypeOK'
    BY <1>1, <1>2, <2>2, <2>4, <2>5
  <2>7. CardCalls'
    BY <1>1, <2>2 DEF CardCalls
  <2>8. Asked(toPicc[1])'
    BY <2>3, <2>4, <2>5 DEF Asked
  <2>9. AirOfScan' /\ LevelsAgree' /\ PartsOfUid' /\ ActivatedForGood'
    BY <2>4, <2>5, <2>8 DEF AirOfScan, LevelsAgree, PartsOfUid, InCascade, ActivatedForGood
  <2> QED BY <2>6, <2>7, <2>9 DEF IInv
<1>5. CASE CardRuns
  <2>1. scan' = scan /\ toPicc' = toPicc /\ losses' = losses
    BY <1>5 DEF CardRuns, CardAwaitsActivation, CardAwaitsRats, CardStartsOver, CardStep
  <2>2. CASE WaitForActivation /\ (picc.state # "Active" \/ picc.result # Ok)
    <3>1. ~ CardSelected
      BY <2>2 DEF CardSelected
    <3>2. picc' \in PiccType /\ CardCalls' /\ toPcd' = toPcd /\ picc'.state = "Idle"
      BY <1>1, <2>2, WaitForActivationEffect DEF CardCalls
    <3>3. AirOfScan' /\ LevelsAgree' /\ PartsOfUid' /\ ActivatedForGood'
      BY <1>1, <2>1, <3>1, <3>2, CardMoved
    <3> QED BY <1>1, <1>2, <2>1, <3>2, <3>3 DEF IInv
  <2>3. CASE WaitForRats /\ picc.state = "Active" /\ picc.result = Ok
    <3>1. /\ picc' \in PiccType /\ CardCalls' /\ toPcd' = toPcd
          /\ CardSelected' /\ picc'.call = "Rats"
      BY <1>1, <2>3, WaitForRatsEffect DEF CardCalls, CardSelected
    <3>2. AirOfScan' /\ LevelsAgree' /\ PartsOfUid' /\ ActivatedForGood'
      BY <1>1, <2>1, <3>1, CardMoved
    <3> QED BY <1>1, <1>2, <2>1, <3>1, <3>2 DEF IInv
  <2> QED BY <1>5, <2>2, <2>3
          DEF CardRuns, CardAwaitsActivation, CardAwaitsRats, CardStartsOver
<1>6. CASE CardHears
  <2> PICK f : f = toPicc[1]
    OBVIOUS
  <2>1. /\ toPicc # <<>> /\ PiccHears(f) /\ toPicc' = <<>>
        /\ scan' = scan /\ losses' = losses
    BY <1>6 DEF CardHears
  <2>2. f \in Frame /\ Asked(f) /\ toPcd = <<>> /\ scan.phase # "Idle"
    BY <1>1, <2>1, AirIsSeq DEF AirOfScan
  <2>3. picc' \in PiccType /\ CardCalls' /\ LevelsAgree' /\ toPcd' \in Air /\ AirOfScan'
    BY <1>1, <2>1, <2>2, CardHearsEffect
  <2>4. scan.result # "Ok"
    BY <1>1, <2>2 DEF ActivatedForGood
  <2>5. PartsOfUid' /\ ActivatedForGood'
    BY <1>1, <2>1, <2>4 DEF PartsOfUid, InCascade, ActivatedForGood
  <2>6. TypeOK'
    BY <1>1, <1>2, <2>1, <2>3, AirIsSeq
  <2> QED BY <2>3, <2>5, <2>6 DEF IInv
<1>7. ASSUME NEW f \in Frame, Answered(f), ScanHears(f), toPicc = <<>>, toPcd' = <<>>,
             picc' = picc, losses' = losses
      PROVE  IInv'
  <2>1. CardCalls' /\ (CardSelected => CardSelected')
    BY <1>1, <1>7 DEF CardCalls, CardSelected
  <2>2. /\ scan' \in ScanType
        /\ \/ GoesOn
           \/ /\ scan'.phase = "Idle" /\ toPicc' = toPicc
              /\ scan'.result = "Ok" => scan'.uid = Uid /\ CardSelected
    BY <1>1, <1>7, ReaderHearsEffect
  <2>3. CASE GoesOn
    <3>1. PICK g \in Frame : g = LevelFrame(scan'.phase, scan'.level)
      <4>1. scan'.phase \in {"Anticollision", "Select"} /\ scan'.level \in 0..2
        BY <2>2, <2>3, ScanFields DEF GoesOn, InCascade
      <4> QED BY <4>1, FrameTypes
    <3>2. toPicc' = <<g>> /\ toPicc' \in Air /\ toPicc'[1] = g
      BY <2>3, <3>1, AirIsSeq DEF GoesOn
    <3>3. Asked(toPicc[1])'
      BY <2>3, <3>1, <3>2 DEF Asked, GoesOn
    <3>4. AirOfScan'
      BY <1>7, <2>3, <3>3 DEF AirOfScan, GoesOn, InCascade
    <3>5. LevelsAgree' /\ PartsOfUid' /\ ActivatedForGood'
      BY <2>3 DEF GoesOn, ActivatedForGood
    <3>6. TypeOK'
      BY <1>1, <1>2, <1>7, <2>2, <3>2, AirIsSeq
    <3> QED BY <2>1, <3>4, <3>5, <3>6 DEF IInv
  <2>4. CASE /\ scan'.phase = "Idle" /\ toPicc' = toPicc
             /\ scan'.result = "Ok" => scan'.uid = Uid /\ CardSelected
    <3>1. AirOfScan' /\ LevelsAgree' /\ PartsOfUid' /\ ActivatedForGood'
      BY <1>7, <2>1, <2>4 DEF AirOfScan, LevelsAgree, PartsOfUid, InCascade, ActivatedForGood
    <3>2. TypeOK'
      BY <1>1, <1>2, <1>7, <2>2, <2>4, AirIsSeq
    <3> QED BY <2>1, <3>1, <3>2 DEF IInv
  <2> QED BY <2>2, <2>3, <2>4
<1>8. CASE ReaderHearsFrame
  <2> PICK f : f = toPcd[1]
    OBVIOUS
  <2>1. /\ toPcd # <<>> /\ ScanHears(f) /\ toPcd' = <<>>
        /\ picc' = picc /\ losses' = losses
    BY <1>8 DEF ReaderHearsFrame
  <2>2. f \in Frame /\ Answered(f) /\ toPicc = <<>>
    BY <1>1, <2>1, AirIsSeq DEF AirOfScan
  <2> QED BY <1>7, <2>1, <2>2
<1>9. CASE TimesOut
  <2>1. Plain("Silence") \in Frame /\ Plain("Silence").kind = "Silence"
    BY FrameTypes, FrameFields DEF FrameKind
  <2>2. Answered(Plain("Silence"))
    BY <2>1 DEF Answered
  <2> QED BY <1>7, <1>9, <2>1, <2>2 DEF TimesOut
<1>10. CASE Disturb
  <2>1. /\ losses' \in 0..MaxLosses /\ scan' = scan /\ picc' = picc
        /\ \/ /\ toPicc # <<>> /\ toPicc' \in {<<>>, <<Plain("Noise")>>} /\ toPcd' = toPcd
           \/ /\ toPcd # <<>> /\ toPcd' \in {<<>>, <<Plain("Noise")>>} /\ toPicc' = toPicc
    BY <1>1, <1>10, FieldAssumption DEF Disturb
  <2>2. /\ Plain("Noise") \in Frame /\ Plain("Noise").kind = "Noise"
        /\ <<Plain("Noise")>>[1] = Plain("Noise")
    BY FrameTypes, FrameFields DEF FrameKind
  <2>3. TypeOK'
    BY <1>1, <1>2, <2>1, <2>2, AirIsSeq
  <2>4. Asked(Plain("Noise"))' /\ Answered(Plain("Noise"))'
    BY <2>2 DEF Asked, Answered
  <2>5. CardCalls' /\ LevelsAgree' /\ PartsOfUid' /\ ActivatedForGood'
    BY <1>1, <2>1 DEF CardCalls, LevelsAgree, AtLevel, PartsOfUid, InCascade, ActivatedForGood, CardSelected
  <2>6. scan.phase # "Idle"
    BY <1>1, <2>1 DEF AirOfScan
  <2>7. /\ toPicc' # <<>> => Asked(toPicc[1])'
        /\ toPcd' # <<>> => Answered(toPcd[1])'
    <3>1. toPicc' # <<>> /\ toPicc' = toPicc => Asked(toPicc[1])'
      BY <1>1, <2>1 DEF AirOfScan, Asked, InCascade
    <3>2. toPcd' # <<>> /\ toPcd' = toPcd => Answered(toPcd[1])'
      BY <1>1, <2>1 DEF AirOfScan, Answered, AtLevel, CardSelected
    <3>3. toPicc' = <<Plain("Noise")>> => Asked(toPicc[1])'
      BY <2>2, <2>4 DEF Asked
    <3>4. toPcd' = <<Plain("Noise")>> => Answered(toPcd[1])'
      BY <2>2, <2>4 DEF Answered
    <3> QED BY <2>1, <3>1, <3>2, <3>3, <3>4
  <2>8. AirOfScan'
    BY <2>1, <2>6, <2>7 DEF AirOfScan
  <2> QED BY <2>3, <2>5, <2>8 DEF IInv
<1> QED BY <1>3, <1>4, <1>5, <1>6, <1>8, <1>9, <1>10 DEF Next, Progress

\* Type correctness (TypeOK): reader and card keep their types and the air
\* carries one frame at a time, however many frames are disturbed.
THEOREM FieldTypeCorrect == Spec => []TypeOK
<1>1. IInv => TypeOK
  BY DEF IInv
<1> QED BY <1>1, InitIInv, NextIInv, PTL DEF Spec

\* ActivatesThisCard: whatever was lost or garbled before, an activation that
\* succeeds (activation.rs, do_activate and build_activation) has the whole
\* UID of the card, of any of the three sizes, and the card has selected
\* itself at its last level and waits for RATS (picc.rs, handle_ready).
THEOREM ActivatesThisCardAlways == Spec => []ActivatesThisCard
<1>1. IInv => ActivatesThisCard
  BY DEF IInv, ActivatedForGood, ActivatesThisCard, CardSelected
<1> QED BY <1>1, InitIInv, NextIInv, PTL DEF Spec
=============================================================================
