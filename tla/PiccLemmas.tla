------------------------------ MODULE PiccLemmas ------------------------------
(***************************************************************************)
(* What each step of the card does to its record and to the air.           *)
(***************************************************************************)
EXTENDS Picc, HandlerLemmas

-----------------------------------------------------------------------------
(* The record.                                                             *)

LEMMA PiccFields ==
  ASSUME NEW p \in PiccType
  PROVE  /\ p.ats \in BOOLEAN /\ p.call \in PiccCall /\ p.state \in PiccState
         /\ p.level \in 0..2 /\ p.handler \in Handler
         /\ p.lastSent \in {<<>>} \cup [1..1 -> Block]
         /\ p.response \in Seq(Byte) /\ p.offset \in Nat
         /\ p.iblock \in {<<>>} \cup [1..1 -> Block] /\ p.result \in PiccResult
BY DEF PiccType

LEMMA PiccResults ==
  /\ \A o \in Outcome : o \in PiccResult
  /\ Ok \in PiccResult /\ Fails("Other") \in PiccResult
  /\ Fails("Deselected") \in PiccResult
BY OutcomeTypes DEF PiccResult, Error

\* One block, or none.
LEMMA OneBlock ==
  /\ \A b \in Block : <<b>> \in [1..1 -> Block] /\ <<b>> # <<>> /\ <<b>>[1] = b
  /\ \A s \in {<<>>} \cup [1..1 -> Block] : s # <<>> => s[1] \in Block /\ s = <<s[1]>>
<1>1. ASSUME NEW b \in Block
      PROVE  <<b>> \in [1..1 -> Block] /\ <<b>> # <<>> /\ <<b>>[1] = b
  OBVIOUS
<1>2. ASSUME NEW s \in [1..1 -> Block]
      PROVE  s[1] \in Block /\ s = <<s[1]>>
  OBVIOUS
<1> QED BY <1>1, <1>2

LEMMA EndedFields ==
  ASSUME NEW p \in PiccType, NEW result \in PiccResult
  PROVE  LET q == Ended(p, result) IN
         /\ q \in PiccType
         /\ q.call = "None" /\ q.result = result /\ q.state = p.state
         /\ q.handler = p.handler /\ q.lastSent = p.lastSent
<1> DEFINE none == "None"
           empty == <<>>
           zero == 0
           q == [p EXCEPT !.call = none, !.response = empty, !.offset = zero,
                          !.iblock = empty, !.result = result]
<1>1. /\ none \in PiccCall /\ empty \in Seq(Byte) /\ zero \in Nat
      /\ empty \in {<<>>} \cup [1..1 -> Block]
  BY DEF PiccCall
<1>2. Ended(p, result) = q
  BY DEF Ended
<1> HIDE DEF none, empty, zero
<1>3. /\ q \in PiccType
      /\ q.call = none /\ q.result = result /\ q.state = p.state
      /\ q.handler = p.handler /\ q.lastSent = p.lastSent
  BY <1>1 DEF PiccType
<1> QED BY <1>2, <1>3 DEF none

LEMMA SavedFields ==
  ASSUME NEW p \in PiccType, NEW b \in Block
  PROVE  LET q == Saved(p, b) IN
         /\ q \in PiccType /\ q.lastSent = <<b>>
         /\ q.call = p.call /\ q.state = p.state /\ q.handler = p.handler
         /\ q.iblock = p.iblock /\ q.result = p.result
         /\ q.response = p.response /\ q.offset = p.offset
<1> DEFINE one == <<b>>
<1>1. one \in {<<>>} \cup [1..1 -> Block]
  BY OneBlock
<1>2. Saved(p, b) = [p EXCEPT !.lastSent = one]
  BY DEF Saved
<1> HIDE DEF one
<1>3. [p EXCEPT !.lastSent = one] \in PiccType
  BY <1>1 DEF PiccType
<1>4. LET q == [p EXCEPT !.lastSent = one] IN
      /\ q.lastSent = one
      /\ q.call = p.call /\ q.state = p.state /\ q.handler = p.handler
      /\ q.iblock = p.iblock /\ q.result = p.result
      /\ q.response = p.response /\ q.offset = p.offset
  BY DEF PiccType
<1> QED BY <1>2, <1>3, <1>4 DEF one

LEMMA HandlerField ==
  ASSUME NEW p \in PiccType, NEW h \in Handler
  PROVE  LET q == [p EXCEPT !.handler = h] IN
         /\ q \in PiccType /\ q.handler = h
         /\ q.call = p.call /\ q.state = p.state /\ q.lastSent = p.lastSent
         /\ q.iblock = p.iblock /\ q.result = p.result
         /\ q.level = p.level /\ q.ats = p.ats
         /\ q.response = p.response /\ q.offset = p.offset
BY DEF PiccType

LEMMA WithFields ==
  ASSUME picc \in PiccType, NEW h \in Handler
  PROVE  /\ With(h) \in PiccType /\ With(h).handler = h
         /\ With(h).call = picc.call /\ With(h).state = picc.state
         /\ With(h).lastSent = picc.lastSent /\ With(h).iblock = picc.iblock
         /\ With(h).result = picc.result /\ With(h).response = picc.response
         /\ With(h).offset = picc.offset
BY HandlerField DEF With

LEMMA StateField ==
  ASSUME NEW p \in PiccType, NEW state \in PiccState
  PROVE  LET q == [p EXCEPT !.state = state] IN
         /\ q \in PiccType /\ q.state = state
         /\ q.call = p.call /\ q.handler = p.handler /\ q.lastSent = p.lastSent
         /\ q.iblock = p.iblock /\ q.result = p.result
BY DEF PiccType

-----------------------------------------------------------------------------
(* Sending and returning.                                                  *)

\* The call ends with card p and a result, and nothing is sent.
CallEnded(p, result) ==
    /\ picc' \in PiccType /\ toPcd' = toPcd
    /\ picc'.call = "None" /\ picc'.result = result /\ picc'.state = p.state
    /\ picc'.handler = p.handler /\ picc'.lastSent = p.lastSent

LEMMA PiccReturnsEffect ==
  ASSUME NEW p \in PiccType, NEW result \in PiccResult, PiccReturns(p, result)
  PROVE  CallEnded(p, result)
<1>1. picc' = Ended(p, result) /\ toPcd' = toPcd
  BY DEF PiccReturns
<1> QED BY <1>1, EndedFields DEF CallEnded

LEMMA PiccSendsEffect ==
  ASSUME NEW f \in Frame, NEW p \in PiccType, NEW q \in PiccType, PiccSends(f, p, q)
  PROVE  \/ picc' = q /\ toPcd' = <<f>> /\ toPcd' \in Air
         \/ CallEnded(p, Fails("Other"))
BY PiccReturnsEffect, PiccResults DEF PiccSends, Air

LEMMA PiccSendsBlockEffect ==
  ASSUME NEW b \in Block, NEW p \in PiccType, NEW q \in PiccType,
         PiccSendsBlock(b, p, q)
  PROVE  \/ picc' = Saved(q, b) /\ toPcd' = <<BlockFrame(b)>> /\ toPcd' \in Air
         \/ CallEnded(Saved(p, b), Fails("Other"))
BY PiccSendsEffect, SavedFields, FrameTypes DEF PiccSendsBlock

-----------------------------------------------------------------------------
(* Activation.                                                             *)

LEMMA CascadeOfUid ==
  /\ CascadeLevels(Uid) \in 1..3
  /\ Len(Uid) = 3 * CascadeLevels(Uid) + 1
<1>1. Len(Uid) \in {4, 7, 10}
  BY PiccAssumption
<1>2. CASE Len(Uid) = 4
  BY <1>2 DEF CascadeLevels
<1>3. CASE Len(Uid) = 7
  BY <1>3 DEF CascadeLevels
<1>4. CASE Len(Uid) = 10
  BY <1>4 DEF CascadeLevels
<1> QED BY <1>1, <1>2, <1>3, <1>4

LEMMA ConcatType ==
  ASSUME NEW s \in Seq(Byte), NEW t \in Seq(Byte)
  PROVE  s \o t \in Seq(Byte) /\ Len(s \o t) = Len(s) + Len(t)
BY ConcatProperties

LEMMA UidPartType ==
  ASSUME NEW level \in 0..2
  PROVE  UidPart(Uid, level) \in [1..4 -> Byte]
<1>1. /\ Uid \in Seq(Byte) /\ Len(Uid) \in Nat /\ CascadeLevels(Uid) \in 1..3
      /\ Len(Uid) = 3 * CascadeLevels(Uid) + 1
  BY PiccAssumption, CascadeOfUid, LenProperties
<1>2. \A i \in 1..Len(Uid) : Uid[i] \in Byte
  BY <1>1, ElementOfSeq
<1>3. \A s \in Seq(Byte) : Len(s) = 4 => s \in [1..4 -> Byte]
  BY LenProperties
<1>4. CASE IsLastLevel(Uid, level)
  <2> DEFINE s == SubSeq(Uid, Len(Uid) - 3, Len(Uid))
  <2>1. s \in Seq(Byte) /\ Len(s) = 4
    BY <1>1, <1>2, SubSeqProperties
  <2> QED BY <1>3, <1>4, <2>1 DEF UidPart
<1>5. CASE ~ IsLastLevel(Uid, level)
  <2> DEFINE s == SubSeq(Uid, 3 * level + 1, 3 * level + 3)
             tag == <<CascadeTag>>
  <2>1. 3 * level + 3 <= Len(Uid)
    BY <1>1, <1>5 DEF IsLastLevel
  <2>2. s \in Seq(Byte) /\ Len(s) = 3
    BY <1>1, <1>2, <2>1, SubSeqProperties
  <2>3. tag \in Seq(Byte) /\ Len(tag) = 1
    BY DEF CascadeTag, Byte
  <2> HIDE DEF s, tag
  <2>4. tag \o s \in Seq(Byte) /\ Len(tag \o s) = Len(tag) + Len(s)
    BY <2>2, <2>3, ConcatType
  <2>5. tag \o s \in [1..4 -> Byte]
    <3>1. Len(tag) + Len(s) = 4
      BY <2>2, <2>3
    <3>2. tag \o s \in Seq(Byte) /\ Len(tag \o s) = 4
      BY <2>4, <3>1
    <3> QED BY <1>3, <3>2
  <2> QED BY <1>5, <2>5 DEF UidPart, s, tag
<1> QED BY <1>4, <1>5

\* An activation step keeps the handler and what was sent last.
ActivationKept ==
    picc'.handler = picc.handler /\ picc'.lastSent = picc.lastSent

LEMMA SelectedFields ==
  ASSUME NEW p \in PiccType
  PROVE  LET q == Selected(p) IN
         /\ q \in PiccType /\ q.handler = p.handler /\ q.lastSent = p.lastSent
         /\ IF IsLastLevel(Uid, p.level)
            THEN q.call = "None" /\ q.state = "Active" /\ q.result = Ok
            ELSE /\ q.call = p.call /\ q.state = p.state /\ q.level = p.level + 1
                 /\ q.result = p.result
<1>1. CASE IsLastLevel(Uid, p.level)
  <2> DEFINE active == "Active"
             zero == 0
             moved == [p EXCEPT !.state = active, !.level = zero]
  <2>1. active \in PiccState /\ zero \in 0..2
    BY DEF PiccState
  <2> HIDE DEF active, zero
  <2>2. /\ moved \in PiccType /\ moved.state = active
        /\ moved.handler = p.handler /\ moved.lastSent = p.lastSent
    BY <2>1 DEF PiccType
  <2> HIDE DEF moved
  <2>3. Selected(p) = Ended(moved, Ok)
    BY <1>1 DEF Selected, moved, active, zero
  <2> DEFINE ended == Ended(moved, Ok)
  <2>4. Ok \in PiccResult
    BY PiccResults
  <2>5. /\ ended \in PiccType /\ ended.call = "None" /\ ended.result = Ok
        /\ ended.state = moved.state /\ ended.handler = moved.handler
        /\ ended.lastSent = moved.lastSent
    BY <2>2, <2>4, EndedFields
  <2> HIDE DEF ended
  <2>6. /\ Selected(p) = ended
        /\ ended.state = "Active"
        /\ ended.handler = p.handler /\ ended.lastSent = p.lastSent
    BY <2>2, <2>3, <2>5 DEF active, ended
  <2> QED BY <1>1, <2>5, <2>6
<1>2. CASE ~ IsLastLevel(Uid, p.level)
  <2>1. p.level + 1 \in 0..2
    BY <1>2, PiccFields, CascadeOfUid DEF IsLastLevel
  <2>2. Selected(p) = [p EXCEPT !.level = p.level + 1]
    BY <1>2 DEF Selected
  <2> QED BY <1>2, <2>1, <2>2 DEF PiccType
<1> QED BY <1>1, <1>2

LEMMA WaitForActivationEffect ==
  ASSUME picc \in PiccType, WaitForActivation
  PROVE  /\ picc' \in PiccType /\ toPcd' = toPcd /\ ActivationKept
         /\ picc'.call = "Activation" /\ picc'.state = "Idle"
<1> DEFINE called == "Activation"
           idle == "Idle"
           zero == 0
<1>1. picc' = [picc EXCEPT !.call = called, !.state = idle, !.level = zero]
  BY DEF WaitForActivation, PiccWaits
<1>2. called \in PiccCall /\ idle \in PiccState /\ zero \in 0..2
  BY DEF PiccCall, PiccState
<1> HIDE DEF called, idle, zero
<1>3. /\ picc' \in PiccType /\ picc'.call = called /\ picc'.state = idle
      /\ picc'.handler = picc.handler /\ picc'.lastSent = picc.lastSent
  BY <1>1, <1>2 DEF PiccType
<1> QED BY <1>3 DEF WaitForActivation, PiccWaits, ActivationKept, called, idle

LEMMA HearInIdleEffect ==
  ASSUME picc \in PiccType, NEW f \in Frame, HearInIdle(f)
  PROVE  /\ picc' \in PiccType /\ toPcd' \in Air \cup {toPcd} /\ ActivationKept
         /\ \/ picc'.call = "Activation" /\ picc'.state \in {"Idle", "Ready"}
            \/ picc'.call = "None" /\ picc'.state = "Idle" /\ picc'.result.kind = "Err"
         /\ \/ toPcd' = toPcd
            \/ /\ f.kind \in {"Reqa", "Wupa"} /\ toPcd' = <<Plain("Atqa")>>
               /\ picc'.level = 0
         /\ f.kind \notin {"Reqa", "Wupa"} => picc'.state = "Idle"
<1> DEFINE ready == "Ready"
           zero == 0
           moved == [picc EXCEPT !.state = ready, !.level = zero]
<1>1. ready \in PiccState /\ zero \in 0..2
  BY DEF PiccState
<1> HIDE DEF ready, zero
<1>2. /\ moved \in PiccType /\ moved.state = ready /\ moved.call = picc.call
      /\ moved.level = zero
      /\ moved.handler = picc.handler /\ moved.lastSent = picc.lastSent
  BY <1>1 DEF PiccType
<1> HIDE DEF moved
<1>3. Plain("Atqa") \in Frame /\ Fails("Other").kind = "Err"
  BY FrameTypes, OutcomeKinds DEF FrameKind
<1>4. CASE f.kind \in {"Reqa", "Wupa"}
  <2>1. PiccSends(Plain("Atqa"), picc, moved)
    BY <1>4 DEF HearInIdle, moved, ready, zero
  <2>2. CASE picc' = moved /\ toPcd' = <<Plain("Atqa")>> /\ toPcd' \in Air
    BY <1>2, <1>4, <2>2 DEF HearInIdle, ActivationKept, ready, zero
  <2>3. CASE CallEnded(picc, Fails("Other"))
    BY <1>3, <1>4, <2>3 DEF HearInIdle, CallEnded, ActivationKept
  <2> QED BY <1>2, <1>3, <2>1, <2>2, <2>3, PiccSendsEffect
<1>5. CASE f.kind \notin {"Reqa", "Wupa"}
  BY <1>5 DEF PiccWaits, HearInIdle, ActivationKept
<1> QED BY <1>4, <1>5

LEMMA HearInReadyEffect ==
  ASSUME picc \in PiccType, NEW f \in Frame, HearInReady(f)
  PROVE  /\ picc' \in PiccType /\ toPcd' \in Air \cup {toPcd} /\ ActivationKept
         /\ \/ picc'.call = "Activation" /\ picc'.state = "Ready"
            \/ /\ picc'.call = "None" /\ picc'.state \in {"Ready", "Active"}
               /\ picc'.result.kind \in {"Ok", "Err"}
         /\ \/ /\ toPcd' = toPcd /\ picc'.state = "Ready"
               /\ picc'.call = "None" \/ picc'.level = picc.level
            \/ /\ f = LevelFrame("Anticollision", picc.level) \/ f.kind = "Noise"
               /\ toPcd' = <<UidFrame(UidPart(Uid, picc.level))>>
               /\ picc'.state = "Ready"
               /\ picc'.call = "Activation" /\ picc'.level = picc.level
            \/ /\ f = LevelFrame("Select", picc.level)
               /\ toPcd' = <<SakFrame(IsLastLevel(Uid, picc.level))>>
               /\ IF IsLastLevel(Uid, picc.level)
                  THEN picc'.call = "None" /\ picc'.state = "Active" /\ picc'.result = Ok
                  ELSE picc'.level = picc.level + 1
<1>1. /\ UidFrame(UidPart(Uid, picc.level)) \in Frame
      /\ SakFrame(IsLastLevel(Uid, picc.level)) \in Frame
  <2>1. UidPart(Uid, picc.level) \in [1..4 -> Byte]
    BY PiccFields, UidPartType
  <2>2. IsLastLevel(Uid, picc.level) \in BOOLEAN
    BY DEF IsLastLevel
  <2> QED BY <2>1, <2>2, FrameTypes
<1>6. Fails("Other").kind = "Err" /\ Ok.kind = "Ok"
  BY OutcomeKinds
<1>2. CASE /\ f = LevelFrame("Anticollision", picc.level) \/ f.kind = "Noise"
           /\ PiccSends(UidFrame(UidPart(Uid, picc.level)), picc, picc)
  BY <1>1, <1>2, <1>6, PiccSendsEffect DEF HearInReady, CallEnded, ActivationKept
<1>3. CASE /\ f = LevelFrame("Select", picc.level)
           /\ PiccSends(SakFrame(IsLastLevel(Uid, picc.level)), picc, Selected(picc))
  BY <1>1, <1>3, <1>6, SelectedFields, PiccSendsEffect DEF HearInReady, CallEnded, ActivationKept
<1>4. CASE PiccReturns(picc, Fails("Other"))
  BY <1>4, <1>6, PiccReturnsEffect, PiccResults DEF HearInReady, CallEnded, ActivationKept
<1>5. CASE PiccWaits(picc)
  BY <1>5 DEF PiccWaits, HearInReady, ActivationKept
<1> QED BY <1>2, <1>3, <1>4, <1>5 DEF HearInReady

LEMMA ReceiveFailsEffect ==
  ASSUME picc \in PiccType, NEW f, ReceiveFails(f)
  PROVE  CallEnded(picc, Fails("Other"))
BY PiccReturnsEffect, PiccResults DEF ReceiveFails

-----------------------------------------------------------------------------
(* RATS.                                                                   *)

LEMMA WaitForRatsEffect ==
  ASSUME picc \in PiccType, WaitForRats
  PROVE  /\ picc' \in PiccType /\ toPcd' = toPcd /\ ActivationKept
         /\ picc'.call = "Rats" /\ picc'.state = picc.state
         /\ picc'.result = picc.result
<1> DEFINE called == "Rats"
<1>1. picc' = [picc EXCEPT !.call = called]
  BY DEF WaitForRats, PiccWaits
<1>2. called \in PiccCall
  BY DEF PiccCall
<1> HIDE DEF called
<1>3. /\ picc' \in PiccType /\ picc'.call = called /\ picc'.state = picc.state
      /\ picc'.handler = picc.handler /\ picc'.lastSent = picc.lastSent
      /\ picc'.result = picc.result
  BY <1>1, <1>2 DEF PiccType
<1> QED BY <1>3 DEF WaitForRats, PiccWaits, ActivationKept, called

\* One frame decides: RATS opens the session, anything else ends the call.
LEMMA HearInActiveEffect ==
  ASSUME picc \in PiccType, picc.state = "Active", NEW f \in Frame, HearInActive(f)
  PROVE  /\ picc' \in PiccType /\ toPcd' \in Air \cup {toPcd}
         /\ picc'.call = "None" /\ picc'.lastSent = picc.lastSent
         /\ picc'.result.kind \in {"Ok", "Err"}
         /\ \/ /\ f.kind = "Rats"
               /\ picc'.handler = NewHandler("Picc", picc.handler.limits)
               /\ \/ picc'.state = "Protocol" /\ picc'.result = Ok
                  \/ picc'.state = "Active"
            \/ /\ f.kind # "Rats" /\ picc'.handler = picc.handler
               /\ picc'.state \in {"Active", "Halted"}
<1> DEFINE protocol == "Protocol"
           halted == "Halted"
           open == [Renewed(picc) EXCEPT !.state = protocol]
           shut == [picc EXCEPT !.state = halted]
<1>1. NewHandler("Picc", picc.handler.limits) \in Handler
  BY PiccFields, HandlerFields, SessionStartType DEF Role
<1>2. /\ Renewed(picc) \in PiccType /\ Renewed(picc).state = picc.state
      /\ Renewed(picc).handler = NewHandler("Picc", picc.handler.limits)
      /\ Renewed(picc).lastSent = picc.lastSent
  BY <1>1, HandlerField DEF Renewed
<1>3. protocol \in PiccState /\ halted \in PiccState
  BY DEF PiccState
<1> HIDE DEF protocol, halted
<1>4. /\ open \in PiccType /\ open.state = protocol
      /\ open.handler = Renewed(picc).handler /\ open.lastSent = picc.lastSent
      /\ shut \in PiccType /\ shut.state = halted
      /\ shut.handler = picc.handler /\ shut.lastSent = picc.lastSent
  BY <1>2, <1>3, StateField
<1> HIDE DEF open, shut
<1>5. Plain("Ats") \in Frame
  BY FrameTypes DEF FrameKind
<1>10. Ok.kind = "Ok" /\ Fails("Other").kind = "Err"
  BY OutcomeKinds
<1>6. CASE f.kind = "Rats" /\ PiccSends(Plain("Ats"), Renewed(picc), Ended(open, Ok))
  <2>1. /\ Ended(open, Ok) \in PiccType /\ Ended(open, Ok).call = "None"
        /\ Ended(open, Ok).result = Ok /\ Ended(open, Ok).state = protocol
        /\ Ended(open, Ok).handler = open.handler
        /\ Ended(open, Ok).lastSent = picc.lastSent
    BY <1>4, EndedFields, PiccResults
  <2> QED BY <1>2, <1>4, <1>5, <1>6, <1>10, <2>1, PiccSendsEffect DEF CallEnded, protocol
<1>7. CASE f.kind = "Rats" /\ PiccReturns(Renewed(picc), Fails("Other"))
  BY <1>2, <1>7, <1>10, PiccReturnsEffect, PiccResults DEF CallEnded
<1>8. CASE f.kind = "Hlta" /\ PiccReturns(shut, Fails("Other"))
  BY <1>4, <1>8, <1>10, PiccReturnsEffect, PiccResults DEF CallEnded, halted
<1>9. CASE f.kind # "Rats" /\ \E r \in {Ok, Fails("Other")} : PiccReturns(picc, r)
  BY <1>9, <1>10, PiccReturnsEffect, PiccResults DEF CallEnded
<1> QED BY <1>6, <1>7, <1>8, <1>9 DEF HearInActive, RatsResult, open, shut, protocol, halted

\* What is not for the active state ends the wait for RATS.
LEMMA HearInActiveOther ==
  ASSUME picc \in PiccType, NEW f, f.kind \notin {"Rats", "Hlta"}, HearInActive(f)
  PROVE  \E r \in {Ok, Fails("Other")} : CallEnded(picc, r)
BY PiccReturnsEffect, PiccResults DEF HearInActive, RatsResult

-----------------------------------------------------------------------------
(* A command and its response.                                             *)

LEMMA ReceiveCommandEffect ==
  ASSUME picc \in PiccType, ReceiveCommand
  PROVE  /\ picc' \in PiccType /\ toPcd' = toPcd
         /\ picc'.call = "Receive" /\ picc'.state = picc.state
         /\ picc'.handler = BeginExchange(picc.handler)
         /\ picc'.lastSent = picc.lastSent /\ picc'.result = picc.result
<1> DEFINE called == "Receive"
           h == BeginExchange(picc.handler)
<1>1. picc' = [picc EXCEPT !.call = called, !.handler = h]
  BY DEF ReceiveCommand, PiccWaits
<1>2. called \in PiccCall /\ h \in Handler
  BY PiccFields, SessionStartType DEF PiccCall
<1> HIDE DEF called, h
<1>3. /\ picc' \in PiccType /\ picc'.call = called /\ picc'.state = picc.state
      /\ picc'.handler = h /\ picc'.lastSent = picc.lastSent
      /\ picc'.result = picc.result
  BY <1>1, <1>2 DEF PiccType
<1> QED BY <1>3 DEF ReceiveCommand, PiccWaits, called, h

\* The call ends with an error.
CallFailed(p) == \E r \in PiccResult : r.kind = "Err" /\ CallEnded(p, r)

LEMMA Failures ==
  /\ Fails("Other").kind = "Err" /\ Fails("Deselected").kind = "Err"
  /\ \A p : CallEnded(p, Fails("Other")) => CallFailed(p)
  /\ \A p : CallEnded(p, Fails("Deselected")) => CallFailed(p)
BY OutcomeKinds, PiccResults DEF CallFailed

LEMMA HearPpsEffect ==
  ASSUME picc \in PiccType, NEW f \in Frame, HearPps(f)
  PROVE  LET counted == Counted(picc.handler) IN
         /\ picc.call = "Receive"
         /\ \/ /\ picc' = With(counted) /\ toPcd' = <<Plain("Ppss")>> /\ toPcd' \in Air
               /\ counted.counters.frames <= picc.handler.limits.max_frames
            \/ \E h \in Handler : SameSession(h, picc.handler) /\ CallFailed(With(h))
         /\ counted.chain = picc.handler.chain
<1> DEFINE step == NoteFrame(picc.handler)
<1>0. Counted(picc.handler).chain = picc.handler.chain
  BY PiccFields, NoteFrameEffect
<1>1. picc.handler \in Handler
  BY PiccFields
<1>2. /\ step.handler \in Handler /\ step.outcome \in PiccResult
      /\ With(step.handler) \in PiccType
  BY <1>1, NoteFrameType, WithFields, PiccResults DEF IsStep
<1>3. Plain("Ppss") \in Frame
  BY FrameTypes DEF FrameKind
<1>4. CASE step.outcome = Ok
  <2>1. /\ step.handler = Counted(picc.handler)
        /\ Counted(picc.handler).counters.frames <= picc.handler.limits.max_frames
        /\ SameSession(step.handler, picc.handler)
    BY <1>1, <1>4, NoteFrameEffect, StepFields
  <2>2. PiccSends(Plain("Ppss"), With(step.handler), With(step.handler))
    BY <1>4 DEF HearPps
  <2> HIDE DEF step
  <2>3. \/ /\ picc' = With(step.handler) /\ toPcd' = <<Plain("Ppss")>>
           /\ toPcd' \in Air
        \/ CallFailed(With(step.handler))
    BY <1>2, <1>3, <2>2, PiccSendsEffect, Failures
  <2> QED BY <1>0, <1>2, <2>1, <2>3 DEF HearPps
<1>5. CASE step.outcome # Ok
  <2>1. Failed(picc.handler, step)
    BY <1>1, <1>5, NoteFrameEffect, StepFields
  <2>2. PiccReturns(With(step.handler), step.outcome)
    BY <1>5 DEF HearPps
  <2> HIDE DEF step
  <2>3. CallEnded(With(step.handler), step.outcome)
    BY <1>2, <2>2, PiccReturnsEffect
  <2> QED BY <1>0, <1>2, <2>1, <2>3 DEF HearPps, Failed, CallFailed
<1> QED BY <1>0, <1>4, <1>5

LEMMA HearNoBlockEffect ==
  ASSUME picc \in PiccType, NEW f \in Frame, HearNoBlock(f)
  PROVE  /\ picc.call \in {"Receive", "Respond"} /\ f.kind # "Block"
         /\ \E h \in Handler : SameSession(h, picc.handler) /\ CallFailed(With(h))
<1> DEFINE step == NoteFrame(picc.handler)
           result == IF step.outcome = Ok THEN Fails("Other") ELSE step.outcome
<1>1. picc.handler \in Handler
  BY PiccFields
<1>2. /\ step.handler \in Handler /\ step.outcome \in PiccResult
      /\ With(step.handler) \in PiccType
  BY <1>1, NoteFrameType, WithFields, PiccResults DEF IsStep
<1>3. result \in PiccResult /\ result.kind = "Err" /\ SameSession(step.handler, picc.handler)
  <2>1. \/ step.outcome # Ok /\ Failed(picc.handler, step)
        \/ step.handler = Counted(picc.handler) /\ step.outcome = Ok
    BY <1>1, NoteFrameEffect, StepFields
  <2> QED BY <1>1, <1>2, <2>1, NoteFrameEffect, PiccResults, Failures DEF Failed
<1> HIDE DEF step, result
<1>4. CASE PiccReturns(picc, Fails("Other"))
  <2>1. CallFailed(picc)
    BY <1>4, PiccReturnsEffect, PiccResults, Failures
  <2>2. With(picc.handler) = picc
    BY DEF With, PiccType
  <2>3. SameSession(picc.handler, picc.handler)
    BY DEF SameSession
  <2> QED BY <1>1, <2>1, <2>2, <2>3 DEF HearNoBlock
<1>5. CASE PiccReturns(With(step.handler), result)
  <2>1. CallFailed(With(step.handler))
    BY <1>2, <1>3, <1>5, PiccReturnsEffect DEF CallFailed
  <2> QED BY <1>2, <1>3, <2>1 DEF HearNoBlock
<1> QED BY <1>4, <1>5 DEF HearNoBlock, step, result

\* b is kept and given to the transceiver, by a call that goes on as q or ends.
Said(b, q) == \/ picc' = Saved(q, b) /\ toPcd' = <<BlockFrame(b)>> /\ toPcd' \in Air
              \/ CallFailed(Saved(q, b))

\* A block that is said leaves the card well typed.
LEMMA SaidEffect ==
  ASSUME NEW b \in Block, NEW q \in PiccType, Said(b, q)
  PROVE  /\ picc' \in PiccType /\ toPcd' \in Air \cup {toPcd}
         /\ picc'.handler = q.handler /\ picc'.lastSent = <<b>>
         /\ picc'.state = q.state
         /\ \/ /\ picc'.call = q.call /\ picc'.iblock = q.iblock
               /\ picc'.result = q.result /\ toPcd' = <<BlockFrame(b)>>
               /\ picc'.response = q.response /\ picc'.offset = q.offset
            \/ /\ picc'.call = "None" /\ picc'.result.kind = "Err"
               /\ toPcd' = toPcd
<1>1. /\ Saved(q, b) \in PiccType /\ Saved(q, b).lastSent = <<b>>
      /\ Saved(q, b).call = q.call /\ Saved(q, b).state = q.state
      /\ Saved(q, b).handler = q.handler
      /\ Saved(q, b).iblock = q.iblock /\ Saved(q, b).result = q.result
      /\ Saved(q, b).response = q.response /\ Saved(q, b).offset = q.offset
  BY SavedFields
<1> QED BY <1>1 DEF Said, CallFailed, CallEnded

LEMMA DeselectBlock == SBlock("Deselect", <<>>) \in Block
BY BlockTypes DEF Subtype

LEMMA ReplyEffect ==
  ASSUME picc \in PiccType, NEW step, IsStep(step), step.outcome.kind = "Reply",
         PiccReplies(step)
  PROVE  \/ /\ ~ IsDeselect(step.outcome.block)
            /\ Said(step.outcome.block, With(step.handler))
         \/ /\ IsDeselect(step.outcome.block)
            /\ picc' \in PiccType /\ toPcd' \in Air \cup {toPcd}
            /\ picc'.call = "None" /\ picc'.result.kind = "Err"
            /\ \/ toPcd' = <<BlockFrame(SBlock("Deselect", <<>>))>> /\ picc'.state = "Halted"
               \/ toPcd' = toPcd /\ picc'.state = picc.state
            /\ picc'.handler = step.handler
            /\ picc'.lastSent = <<SBlock("Deselect", <<>>)>>
<1> DEFINE h == step.handler
           b == SBlock("Deselect", <<>>)
           halted == "Halted"
           shut == [With(h) EXCEPT !.state = halted]
           over == Ended(shut, Fails("Deselected"))
<1>1. /\ h \in Handler /\ With(h) \in PiccType /\ With(h).handler = h
      /\ With(h).state = picc.state
      /\ b \in Block /\ step.outcome.block \in Block
  BY WithFields, DeselectBlock, OutcomeFields DEF IsStep
<1>2. halted \in PiccState
  BY DEF PiccState
<1> HIDE DEF halted, b
<1>3. shut \in PiccType /\ shut.handler = h /\ shut.state = halted
  BY <1>1, <1>2, StateField
<1> HIDE DEF shut
<1>4. /\ over \in PiccType /\ over.call = "None" /\ over.handler = h
      /\ over.state = halted /\ over.result.kind = "Err"
  BY <1>3, EndedFields, PiccResults, Failures
<1> HIDE DEF over
<1>5. CASE IsDeselect(step.outcome.block)
  <2>1. PiccSendsBlock(b, With(h), over)
    BY <1>5 DEF PiccReplies, PiccDeselected, over, shut, halted, b
  <2>2. \/ picc' = Saved(over, b) /\ toPcd' = <<BlockFrame(b)>> /\ toPcd' \in Air
        \/ CallEnded(Saved(With(h), b), Fails("Other"))
    BY <1>1, <1>4, <2>1, PiccSendsBlockEffect
  <2>3. /\ Saved(over, b) \in PiccType /\ Saved(over, b).lastSent = <<b>>
        /\ Saved(over, b).call = "None" /\ Saved(over, b).handler = h
        /\ Saved(over, b).result.kind = "Err" /\ Saved(over, b).state = halted
        /\ Saved(With(h), b).lastSent = <<b>> /\ Saved(With(h), b).handler = h
        /\ Saved(With(h), b).state = picc.state
    BY <1>1, <1>4, SavedFields
  <2> QED BY <1>5, <2>2, <2>3, Failures DEF CallEnded, b, halted
<1>6. CASE ~ IsDeselect(step.outcome.block)
  <2>1. PiccSendsBlock(step.outcome.block, With(h), With(h))
    BY <1>6 DEF PiccReplies
  <2> QED BY <1>1, <1>6, <2>1, PiccSendsBlockEffect, Failures DEF Said
<1> QED BY <1>5, <1>6

\* A chunk of the response, numbered by the handler.
LEMMA SendsChunkEffect ==
  ASSUME NEW p \in PiccType, NEW data \in Seq(Byte), NEW offset \in 0..Len(data),
         PiccSendsChunk(p, data, offset)
  PROVE  \E b \in Block :
           /\ b = Chunk(p.handler.number, data, offset, PiccMaxInf)
           /\ b.type = "I" /\ b.number = p.handler.number
           /\ picc' \in PiccType /\ toPcd' \in Air \cup {toPcd}
           /\ picc'.lastSent = <<b>> /\ picc'.handler = p.handler
           /\ picc'.state = p.state
           /\ \/ /\ picc'.call = "Respond" /\ picc'.iblock = <<b>> /\ b.chaining
                 /\ picc'.result = p.result /\ toPcd' = <<BlockFrame(b)>>
                 /\ picc'.response = data /\ picc'.offset = offset
              \/ /\ picc'.call = "None" /\ picc'.result.kind \in {"Ok", "Err"}
                 /\ \/ picc'.result = Ok /\ toPcd' = <<BlockFrame(b)>>
                    \/ picc'.result.kind = "Err" /\ toPcd' = toPcd
<1> DEFINE b == Chunk(p.handler.number, data, offset, PiccMaxInf)
           called == "Respond"
           one == <<b>>
           more == [p EXCEPT !.call = called, !.response = data, !.offset = offset,
                             !.iblock = one]
           q == IF b.chaining THEN more ELSE Ended(p, Ok)
<1>1. b \in Block /\ b.type = "I" /\ b.number = p.handler.number
  BY ChunkType, PiccFields, HandlerFields, PiccAssumption
<1>2. PiccSendsBlock(b, p, q)
  BY DEF PiccSendsChunk
<1>10. b = Chunk(p.handler.number, data, offset, PiccMaxInf)
  OBVIOUS
<1> HIDE DEF b
<1>3. called \in PiccCall /\ one \in {<<>>} \cup [1..1 -> Block] /\ offset \in Nat
  BY <1>1, OneBlock DEF PiccCall
<1> HIDE DEF called, one
<1>4. /\ more \in PiccType /\ more.call = called /\ more.iblock = one
      /\ more.state = p.state /\ more.handler = p.handler /\ more.result = p.result
      /\ more.response = data /\ more.offset = offset
  BY <1>3 DEF PiccType
<1> HIDE DEF more
<1>5. /\ Ended(p, Ok) \in PiccType /\ Ended(p, Ok).call = "None"
      /\ Ended(p, Ok).result = Ok /\ Ended(p, Ok).state = p.state
      /\ Ended(p, Ok).handler = p.handler
  BY EndedFields, PiccResults
<1>6. /\ q \in PiccType /\ q.state = p.state /\ q.handler = p.handler
      /\ \/ /\ q.call = "Respond" /\ q.iblock = <<b>> /\ q.result = p.result
            /\ b.chaining /\ q.response = data /\ q.offset = offset
         \/ q.call = "None" /\ q.result = Ok /\ q.result.kind = "Ok"
  BY <1>4, <1>5, OutcomeKinds DEF called, one
<1> HIDE DEF q
<1>7. /\ Saved(q, b) \in PiccType /\ Saved(q, b).lastSent = <<b>>
      /\ Saved(q, b).state = p.state /\ Saved(q, b).handler = p.handler
      /\ Saved(q, b).call = q.call /\ Saved(q, b).iblock = q.iblock
      /\ Saved(q, b).result = q.result
      /\ Saved(q, b).response = q.response /\ Saved(q, b).offset = q.offset
      /\ Saved(p, b).lastSent = <<b>> /\ Saved(p, b).handler = p.handler
      /\ Saved(p, b).state = p.state
  BY <1>1, <1>6, SavedFields
<1>8. CASE picc' = Saved(q, b) /\ toPcd' = <<BlockFrame(b)>> /\ toPcd' \in Air
  BY <1>1, <1>6, <1>7, <1>8, <1>10
<1>9. CASE CallEnded(Saved(p, b), Fails("Other"))
  BY <1>1, <1>7, <1>9, <1>10, Failures DEF CallEnded
<1> QED BY <1>1, <1>2, <1>6, <1>8, <1>9, <1>10, PiccSendsBlockEffect

LEMMA SendResponseEffect ==
  ASSUME picc \in PiccType, NEW data \in Seq(Byte), SendResponse(data)
  PROVE  \/ PiccMaxInf = 0 /\ CallEnded(picc, Fails("Other"))
         \/ PiccMaxInf # 0 /\ PiccSendsChunk(picc, data, 0)
BY PiccReturnsEffect, PiccResults DEF SendResponse

\* What a block does to the card in receive_command() or send_response().
LEMMA HearBlockEffect ==
  ASSUME picc \in PiccType, picc.call = "Respond" => picc.iblock # <<>>,
         NEW f \in Frame, HearCommandBlock(f) \/ HearAcknowledgement(f)
  PROVE  LET step == ProcessReceived(picc.handler, f.block) IN
         /\ picc.call \in {"Receive", "Respond"} /\ f.kind = "Block" /\ f.block \in Block
         /\ IsStep(step) /\ With(step.handler) \in PiccType
         /\ \/ step.outcome.kind = "Reply" /\ PiccReplies(step)
            \/ /\ step.outcome.kind = "ChainingRetransmit"
               /\ \/ /\ picc.call = "Receive" /\ picc.lastSent # <<>>
                     /\ Said(picc.lastSent[1], With(step.handler))
                  \/ /\ picc.call = "Respond"
                     /\ Said(picc.iblock[1], With(step.handler))
            \/ /\ step.outcome.kind = "ChainingAck" /\ picc.call = "Respond"
               /\ \E offset \in 0..Len(picc.response) :
                    /\ offset = ChunkEnd(picc.response, picc.offset, PiccMaxInf)
                    /\ PiccSendsChunk(With(step.handler), picc.response, offset)
            \/ /\ step.outcome.kind = "Complete" /\ picc.call = "Receive"
               /\ CallEnded(With(step.handler), step.outcome)
            \/ /\ step.outcome.kind = "ChainingAck" => picc.call = "Receive"
               /\ step.outcome.kind = "Complete" => picc.call = "Respond"
               /\ step.outcome.kind # "Reply"
               /\ CallFailed(With(step.handler))
<1> DEFINE step == ProcessReceived(picc.handler, f.block)
<1>1. picc.call \in {"Receive", "Respond"} /\ f.kind = "Block" /\ f.block \in Block
  BY BlockOfFrame DEF HearCommandBlock, HearAcknowledgement
<1>2. /\ IsStep(step) /\ step.handler \in Handler /\ step.outcome \in PiccResult
      /\ With(step.handler) \in PiccType
  BY <1>1, PiccFields, ProcessReceivedType, WithFields, PiccResults DEF IsStep
<1>3. /\ picc.lastSent # <<>> => picc.lastSent[1] \in Block
      /\ picc.call = "Respond" => picc.iblock[1] \in Block
  BY PiccFields, OneBlock
<1>4. \A b \in Block : PiccSendsBlock(b, With(step.handler), With(step.handler)) =>
                         Said(b, With(step.handler))
  BY <1>2, PiccSendsBlockEffect, Failures DEF Said
<1>5. ASSUME picc.call = "Respond"
      PROVE  ChunkEnd(picc.response, picc.offset, PiccMaxInf) \in 0..Len(picc.response)
  BY PiccFields, PiccAssumption, LenProperties DEF ChunkEnd
<1>6. \A r \in PiccResult : PiccReturns(With(step.handler), r) =>
                            CallEnded(With(step.handler), r)
  BY <1>2, PiccReturnsEffect
<1>7. \A r \in PiccResult : r.kind = "Err" /\ PiccReturns(With(step.handler), r) =>
                            CallFailed(With(step.handler))
  BY <1>6 DEF CallFailed
<1>8. CASE HearCommandBlock(f)
  <2>1. picc.call = "Receive"
    BY <1>8 DEF HearCommandBlock
  <2> HIDE DEF step
  <2>2. \/ /\ step.outcome.kind \in {"Complete", "Err"}
           /\ PiccReturns(With(step.handler), step.outcome)
        \/ step.outcome.kind = "Reply" /\ PiccReplies(step)
        \/ /\ step.outcome.kind = "ChainingRetransmit" /\ picc.lastSent # <<>>
           /\ PiccSendsBlock(picc.lastSent[1], With(step.handler), With(step.handler))
        \/ /\ step.outcome.kind \in {"ChainingAck", "ChainingRetransmit"}
           /\ PiccReturns(With(step.handler), Fails("Other"))
    BY <1>8 DEF HearCommandBlock, step
  <2>3. step.outcome \in PiccResult /\ Fails("Other") \in PiccResult /\ Fails("Other").kind = "Err"
    BY <1>2, PiccResults, Failures
  <2> QED BY <1>1, <1>2, <1>3, <1>4, <1>6, <1>7, <2>1, <2>2, <2>3 DEF step
<1>9. CASE HearAcknowledgement(f)
  <2>1. picc.call = "Respond"
    BY <1>9 DEF HearAcknowledgement
  <2> DEFINE result == IF step.outcome.kind = "Err" THEN step.outcome ELSE Fails("Other")
  <2> HIDE DEF step
  <2>2. \/ /\ step.outcome.kind = "ChainingAck"
           /\ PiccSendsChunk(With(step.handler), picc.response,
                             ChunkEnd(picc.response, picc.offset, PiccMaxInf))
        \/ /\ step.outcome.kind = "ChainingRetransmit"
           /\ PiccSendsBlock(picc.iblock[1], With(step.handler), With(step.handler))
        \/ step.outcome.kind = "Reply" /\ PiccReplies(step)
        \/ /\ step.outcome.kind \in {"Complete", "Err"}
           /\ PiccReturns(With(step.handler), result)
    BY <1>9 DEF HearAcknowledgement, step
  <2>3. result \in PiccResult /\ result.kind = "Err"
    BY <1>2, PiccResults, Failures
  <2> HIDE DEF result
  <2> QED BY <1>1, <1>2, <1>3, <1>4, <1>5, <1>7, <2>1, <2>2, <2>3 DEF step
<1> QED BY <1>8, <1>9
=============================================================================
