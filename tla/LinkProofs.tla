------------------------------ MODULE LinkProofs ------------------------------
(***************************************************************************)
(* What holds of Link for every set of limits, commands and UIDs and any   *)
(* number of disturbed frames: reader and card keep their types, agree on  *)
(* block numbers and on the end of the session, and implement ApduChannel. *)
(* With limits and buffers that are large enough, what this protocol can   *)
(* recover fails no call.                                                  *)
(***************************************************************************)
EXTENDS LinkInvariants, PcdLemmas, PiccLemmas

-----------------------------------------------------------------------------
(* The card hears a frame.                                                 *)

LEMMA RoleOfStep ==
  ASSUME picc \in PiccType, NEW b \in Block
  PROVE  LET step == ProcessReceived(picc.handler, b) IN
         /\ picc.handler \in Handler /\ picc.handler.number \in Bit
         /\ step.handler \in Handler /\ step.handler.number \in Bit
         /\ step.handler.role = picc.handler.role
         /\ With(step.handler) \in PiccType
BY PiccFields, HandlerFields, ReceivedCounts, ProcessReceivedType, WithFields DEF IsStep

\* Outside a session the card answers with no block and opens none by itself.
LEMMA HeardOutside ==
  ASSUME picc \in PiccType, CardCalls, NEW f \in Frame, PiccHears(f),
         picc.state # "Protocol",
         picc.state = "Active" => f.kind \notin {"Rats", "Hlta"}
  PROVE  /\ picc' \in PiccType /\ CardCalls' /\ NotInSession'
         /\ picc'.handler = picc.handler
         /\ f.kind \notin {"Anticollision", "Select"} /\ picc.state \in {"Idle", "Ready"} =>
              picc'.state \in {"Idle", "Ready"}
         /\ \/ toPcd' = toPcd
            \/ /\ toPcd' \in Air /\ toPcd' # <<>>
               /\ toPcd'[1].kind \in {"Atqa", "UidBcc", "Sak"}
               /\ toPcd'[1].kind = "Atqa" => picc'.state \in {"Idle", "Ready"}
<1>1. \A r : CallEnded(picc, r) /\ r \in {Ok, Fails("Other")} =>
        /\ picc' \in PiccType /\ toPcd' = toPcd /\ picc'.call = "None"
        /\ picc'.result.kind # "Complete"
        /\ picc'.state = picc.state /\ picc'.handler = picc.handler
  BY OutcomeKinds DEF CallEnded
<1>2. picc.state \in PiccState /\ picc.level \in 0..2
  BY PiccFields
<1>3. CASE ReceiveFails(f)
  <2>1. picc.state \in {"Idle", "Ready", "Active"} /\ CallEnded(picc, Fails("Other"))
    BY <1>2, <1>3, ReceiveFailsEffect, PiccFields DEF ReceiveFails, CardCalls, PiccCall
  <2> QED BY <1>1, <2>1 DEF CardCalls, NotInSession
<1>4. CASE HearInIdle(f)
  <2>1. PICK g \in Frame : g = Plain("Atqa") /\ g.kind = "Atqa"
    BY FrameTypes, FrameFields DEF FrameKind
  <2>2. <<g>> \in Air /\ <<g>> # <<>> /\ <<g>>[1].kind = "Atqa"
    BY <2>1, AirIsSeq
  <2>3. /\ picc' \in PiccType /\ picc'.handler = picc.handler
        /\ picc'.call \in {"Activation", "None"} /\ picc'.state \in {"Idle", "Ready"}
        /\ toPcd' \in {toPcd, <<g>>}
    BY <1>4, <2>1, HearInIdleEffect DEF ActivationKept
  <2>4. CardCalls'
    BY <1>4, <2>3, HearInIdleEffect DEF CardCalls
  <2> QED BY <2>2, <2>3, <2>4 DEF NotInSession
<1>5. CASE HearInReady(f)
  <2>1. PICK uid \in Frame : uid = UidFrame(UidPart(Uid, picc.level)) /\ uid.kind = "UidBcc"
    BY <1>2, UidPartType, FrameTypes, FrameFields
  <2>2. PICK sak \in Frame : sak = SakFrame(IsLastLevel(Uid, picc.level)) /\ sak.kind = "Sak"
    <3>1. IsLastLevel(Uid, picc.level) \in BOOLEAN
      BY DEF IsLastLevel
    <3> QED BY <3>1, FrameTypes, FrameFields
  <2>3. /\ <<uid>> \in Air /\ <<uid>> # <<>> /\ <<uid>>[1].kind = "UidBcc"
        /\ <<sak>> \in Air /\ <<sak>> # <<>> /\ <<sak>>[1].kind = "Sak"
    BY <2>1, <2>2, AirIsSeq
  <2>4. /\ LevelFrame("Anticollision", picc.level).kind = "Anticollision"
        /\ LevelFrame("Select", picc.level).kind = "Select"
    BY FrameFields
  <2>5. /\ picc' \in PiccType /\ picc'.handler = picc.handler
        /\ \/ picc'.call = "Activation" /\ picc'.state = "Ready"
           \/ /\ picc'.call = "None" /\ picc'.state \in {"Ready", "Active"}
              /\ picc'.result.kind \in {"Ok", "Err"}
        /\ \/ toPcd' = toPcd /\ picc'.state = "Ready"
           \/ /\ f = LevelFrame("Anticollision", picc.level) \/ f.kind = "Noise"
              /\ toPcd' = <<uid>> /\ picc'.state = "Ready"
           \/ f = LevelFrame("Select", picc.level) /\ toPcd' = <<sak>>
    BY <1>5, <2>1, <2>2, HearInReadyEffect DEF ActivationKept
  <2>6. CardCalls' /\ NotInSession'
    BY <2>5 DEF CardCalls, NotInSession
  <2> QED BY <2>3, <2>4, <2>5, <2>6
<1>6. CASE HearInActive(f)
  <2>1. picc.state = "Active"
    BY <1>6 DEF HearInActive, CardCalls
  <2>2. \E r \in {Ok, Fails("Other")} : CallEnded(picc, r)
    BY <1>6, <2>1, HearInActiveOther
  <2> QED BY <1>1, <2>1, <2>2 DEF CardCalls, NotInSession
<1>7. picc.call \notin {"Receive", "Respond"}
  BY DEF CardCalls
<1> QED BY <1>3, <1>4, <1>5, <1>6, <1>7
        DEF PiccHears, HearPps, HearNoBlock, HearCommandBlock, HearAcknowledgement

\* In a session a frame that is no block ends the call or is a PPS.
LEMMA HeardNoBlock ==
  ASSUME picc \in PiccType, CardCalls, NEW f \in Frame, PiccHears(f),
         picc.state = "Protocol", f.kind # "Block"
  PROVE  /\ picc' \in PiccType /\ CardCalls' /\ picc'.state = "Protocol"
         /\ picc'.handler.role = picc.handler.role
         /\ picc'.handler.number = picc.handler.number
         /\ picc'.lastSent = picc.lastSent
         /\ \/ /\ picc'.call = "None" /\ picc'.result.kind = "Err" /\ toPcd' = toPcd
            \/ /\ picc.call = "Receive" /\ picc'.call = "Receive" /\ f.kind = "Pps"
               /\ picc'.handler.chain = picc.handler.chain
               /\ toPcd' \in Air /\ toPcd' # <<>> /\ toPcd'[1].kind = "Ppss"
<1>1. picc.call \in {"None", "Receive", "Respond"}
  BY PiccFields DEF CardCalls, PiccCall
<1>2. CASE ReceiveFails(f)
  <2>1. CallFailed(picc)
    BY <1>2, ReceiveFailsEffect, Failures
  <2> QED BY <2>1 DEF CallFailed, CallEnded, CardCalls
<1>3. ASSUME NEW h \in Handler, SameSession(h, picc.handler), CallFailed(With(h))
      PROVE  /\ picc' \in PiccType /\ CardCalls' /\ picc'.state = "Protocol"
             /\ picc'.handler.role = picc.handler.role
             /\ picc'.handler.number = picc.handler.number
             /\ picc'.lastSent = picc.lastSent
             /\ picc'.call = "None" /\ picc'.result.kind = "Err" /\ toPcd' = toPcd
  BY <1>3, WithFields DEF CallFailed, CallEnded, CardCalls, SameSession
<1>4. CASE HearPps(f)
  <2>1. CASE \E h \in Handler : SameSession(h, picc.handler) /\ CallFailed(With(h))
    BY <1>3, <2>1
  <2>2. CASE picc' = With(Counted(picc.handler)) /\ toPcd' = <<Plain("Ppss")>>
    <3>1. /\ Counted(picc.handler) \in Handler
          /\ SameSession(Counted(picc.handler), picc.handler)
          /\ Counted(picc.handler).chain = picc.handler.chain
      BY PiccFields, NoteFrameEffect
    <3>2. PICK g \in Frame : g = Plain("Ppss") /\ g.kind = "Ppss"
      BY FrameTypes, FrameFields DEF FrameKind
    <3>3. toPcd' \in Air /\ toPcd' # <<>> /\ toPcd'[1].kind = "Ppss"
      BY <2>2, <3>2, AirIsSeq
    <3>4. picc.call = "Receive" /\ f.kind = "Pps"
      BY <1>4 DEF HearPps
    <3> QED BY <2>2, <3>1, <3>3, <3>4, WithFields DEF SameSession, CardCalls
  <2> QED BY <1>4, <2>1, <2>2, HearPpsEffect
<1>5. CASE HearNoBlock(f)
  BY <1>3, <1>5, HearNoBlockEffect
<1> QED BY <1>1, <1>2, <1>4, <1>5
        DEF PiccHears, HearInIdle, HearInReady, HearInActive, HearCommandBlock,
            HearAcknowledgement

\* In a session a block is for the call that waits.
LEMMA HeardBlock ==
  ASSUME picc \in PiccType, CardCalls, NEW f \in Frame, PiccHears(f),
         picc.state = "Protocol", f.kind = "Block"
  PROVE  HearCommandBlock(f) \/ HearAcknowledgement(f)
BY PiccFields DEF CardCalls, PiccHears, ReceiveFails, HearInIdle, HearInReady, HearInActive,
   HearPps, HearNoBlock, PiccCall

LEMMA SaidStep ==
  ASSUME picc \in PiccType, NEW b \in Block, NEW h \in Handler, Said(b, With(h))
  PROVE  /\ picc' \in PiccType /\ toPcd' \in Air \cup {toPcd}
         /\ picc'.handler = h /\ picc'.lastSent = <<b>> /\ picc'.state = picc.state
         /\ \/ /\ picc'.call = picc.call /\ picc'.iblock = picc.iblock
               /\ picc'.result = picc.result /\ toPcd' = <<BlockFrame(b)>>
               /\ picc'.response = picc.response /\ picc'.offset = picc.offset
            \/ /\ picc'.call = "None" /\ picc'.result.kind = "Err"
               /\ toPcd' = toPcd
BY WithFields, SaidEffect

LEMMA FailedStep ==
  ASSUME picc \in PiccType, NEW h \in Handler, CallFailed(With(h))
  PROVE  /\ picc' \in PiccType /\ toPcd' = toPcd
         /\ picc'.handler = h /\ picc'.lastSent = picc.lastSent
         /\ picc'.state = picc.state
         /\ picc'.call = "None" /\ picc'.result.kind = "Err"
BY WithFields DEF CallFailed, CallEnded

\* receive_command() takes a new I-Block: it has the number of the block
\* afterwards and its bytes in the chain, with the command or with an R(ACK).
LEMMA CardTakesIBlock ==
  ASSUME picc \in PiccType, CardCalls, NEW f \in Frame, PiccHears(f),
         picc.call = "Receive", picc.handler.role = "Picc",
         Carries(f, "I"), f.block.number # picc.handler.number
  PROVE  /\ picc' \in PiccType /\ CardCalls' /\ toPcd' \in Air \cup {toPcd}
         /\ picc'.state = "Protocol" /\ picc'.handler.role = "Picc"
         /\ \/ /\ picc'.call = "None" /\ picc'.result.kind = "Complete" /\ toPcd' = toPcd
               /\ picc'.handler.number = f.block.number
               /\ ~ f.block.chaining
               /\ picc'.result.data = picc.handler.chain \o f.block.payload
            \/ /\ picc'.call = "Receive" /\ toPcd' = <<BlockFrame(RAck(picc'.handler))>>
               /\ picc'.handler.number = f.block.number
               /\ f.block.chaining
               /\ picc'.handler.chain = picc.handler.chain \o f.block.payload
            \/ picc'.call = "None" /\ picc'.result.kind = "Err" /\ toPcd' = toPcd
<1> DEFINE step == ProcessReceived(picc.handler, f.block)
<1>1. picc.state = "Protocol" /\ f.kind = "Block" /\ f.block \in Block /\ f.block.type = "I"
  BY BlockOfFrame DEF CardCalls, Carries
<1>2. /\ picc.handler \in Handler /\ step.handler \in Handler
      /\ step.handler.role = "Picc"
      /\ picc.handler.number \in Bit /\ step.handler.number \in Bit
      /\ f.block.number \in Bit
  BY <1>1, RoleOfStep DEF Block
<1>3. ~ RepeatsLastIBlock(picc.handler, f.block)
  BY DEF RepeatsLastIBlock
<1>4. 1 - picc.handler.number = f.block.number
  BY <1>2 DEF Bit
<1>5. /\ step.outcome.kind \in {"Complete", "Reply", "Err"}
      /\ step.outcome.kind \in {"Complete", "Reply"} =>
           step.handler.number = f.block.number
      /\ step.outcome.kind = "Reply" =>
           /\ step.outcome.block = RAck(step.handler) /\ f.block.chaining
           /\ step.handler.chain = picc.handler.chain \o f.block.payload
      /\ step.outcome.kind = "Complete" =>
           ~ f.block.chaining /\ step.outcome.data = picc.handler.chain \o f.block.payload
  BY <1>1, <1>2, <1>3, <1>4, ReceivedIBlock
<1>6. ~ IsDeselect(RAck(step.handler)) /\ RAck(step.handler) \in Block
  BY <1>2, BlockTypes DEF IsDeselect, RAck, RBlock
<1>7. IsStep(step) /\ step.outcome \in PiccResult
  BY <1>1, <1>2, ProcessReceivedType, PiccResults DEF IsStep
<1> HIDE DEF step
<1>8. \/ step.outcome.kind = "Reply" /\ PiccReplies(step)
      \/ /\ step.outcome.kind = "Complete"
         /\ CallEnded(With(step.handler), step.outcome)
      \/ CallFailed(With(step.handler))
  BY <1>1, <1>5, HeardBlock, HearBlockEffect DEF step, CardCalls
<1>9. CASE step.outcome.kind = "Reply" /\ PiccReplies(step)
  <2>1. Said(RAck(step.handler), With(step.handler))
    BY <1>5, <1>6, <1>7, <1>9, ReplyEffect
  <2> QED BY <1>1, <1>2, <1>5, <1>6, <1>9, <2>1, SaidStep DEF CardCalls
<1>10. CASE step.outcome.kind = "Complete" /\ CallEnded(With(step.handler), step.outcome)
  <2>1. /\ picc' \in PiccType /\ picc'.call = "None" /\ picc'.result = step.outcome
        /\ picc'.handler = step.handler /\ picc'.state = picc.state /\ toPcd' = toPcd
    BY <1>1, <1>2, <1>10, WithFields DEF CallEnded
  <2> QED BY <1>1, <1>2, <1>5, <1>10, <2>1 DEF CardCalls
<1>11. CASE CallFailed(With(step.handler))
  BY <1>1, <1>2, <1>11, FailedStep DEF CardCalls
<1> QED BY <1>8, <1>9, <1>10, <1>11

\* The card hears an S(DESELECT): it leaves the protocol with the echo, or not
\* at all.
LEMMA CardDeselects ==
  ASSUME picc \in PiccType, CardCalls, NEW f \in Frame, PiccHears(f),
         picc.state = "Protocol", picc.handler.role = "Picc", IsDeselectFrame(f)
  PROVE  /\ picc' \in PiccType /\ CardCalls' /\ toPcd' \in Air \cup {toPcd}
         /\ picc'.handler.role = "Picc"
         /\ picc'.call = "None" /\ picc'.result.kind = "Err"
         /\ \/ picc'.state = "Halted"
            \/ picc'.state = "Protocol" /\ toPcd' = toPcd
<1> DEFINE step == ProcessReceived(picc.handler, f.block)
<1>1. f.kind = "Block" /\ f.block \in Block /\ IsDeselect(f.block)
  BY BlockOfFrame DEF IsDeselectFrame
<1>2. /\ picc.handler \in Handler /\ step.handler \in Handler
      /\ step.handler.role = "Picc"
  BY <1>1, RoleOfStep
<1>3. \/ step.outcome.kind = "Reply" /\ IsDeselect(step.outcome.block)
      \/ step.outcome.kind = "Err"
  BY <1>1, <1>2, ReceivedDeselect
<1>4. IsStep(step)
  BY <1>1, <1>2, ProcessReceivedType
<1> HIDE DEF step
<1>5. \/ step.outcome.kind = "Reply" /\ PiccReplies(step)
      \/ CallFailed(With(step.handler))
  BY <1>1, <1>3, HeardBlock, HearBlockEffect DEF step, CardCalls
<1>6. CASE step.outcome.kind = "Reply" /\ PiccReplies(step)
  <2>1. /\ picc' \in PiccType /\ toPcd' \in Air \cup {toPcd}
        /\ picc'.call = "None" /\ picc'.result.kind = "Err"
        /\ picc'.handler = step.handler
        /\ \/ picc'.state = "Halted"
           \/ toPcd' = toPcd /\ picc'.state = picc.state
    BY <1>3, <1>4, <1>6, ReplyEffect
  <2> QED BY <1>2, <2>1 DEF CardCalls
<1>7. CASE CallFailed(With(step.handler))
  BY <1>2, <1>7, FailedStep DEF CardCalls
<1> QED BY <1>5, <1>6, <1>7

\* The card hears an R(ACK) while b is what it sent last: it repeats b, or goes
\* on with the chunk c that has the number of the R(ACK), or the call ends.
Repeats(b) == /\ picc'.call = picc.call /\ picc'.iblock = picc.iblock
              /\ picc'.lastSent = <<b>> /\ toPcd' = <<BlockFrame(b)>>
              /\ picc'.handler.number = picc.handler.number
              /\ picc'.handler.chain = picc.handler.chain
              /\ picc'.response = picc.response /\ picc'.offset = picc.offset

NextOffset == ChunkEnd(picc.response, picc.offset, PiccMaxInf)

GoesOnWith(c, number) ==
    /\ c = Chunk(number, picc.response, NextOffset, PiccMaxInf)
    /\ picc'.call = "Respond" =>
         picc'.response = picc.response /\ picc'.offset = NextOffset
    /\ c.type = "I" /\ c.number = number
    /\ picc'.lastSent = <<c>> /\ picc'.handler.number = number
    /\ \/ /\ picc'.call = "Respond" /\ picc'.iblock = <<c>> /\ c.chaining
          /\ toPcd' = <<BlockFrame(c)>>
       \/ /\ picc'.call = "None"
          /\ \/ picc'.result = Ok /\ toPcd' = <<BlockFrame(c)>>
             \/ picc'.result.kind = "Err" /\ toPcd' = toPcd

GivesUpOn(b, number) ==
    /\ picc'.call = "None" /\ picc'.result.kind = "Err"
    /\ picc'.lastSent = <<b>> /\ toPcd' = toPcd
    /\ \/ picc'.handler.number = picc.handler.number
       \/ picc.call = "Receive" /\ picc.handler.number # number

LEMMA CardIsAcknowledged ==
  ASSUME picc \in PiccType, CardCalls, NEW f \in Frame, PiccHears(f),
         picc.state = "Protocol", picc.handler.role = "Picc",
         Carries(f, "R"), f.block.subtype = "Ack",
         NEW b \in Block, picc.lastSent = <<b>>,
         picc.call = "Respond" => picc.iblock = <<b>>
  PROVE  /\ picc' \in PiccType /\ CardCalls' /\ toPcd' \in Air \cup {toPcd}
         /\ picc'.state = "Protocol" /\ picc'.handler.role = "Picc"
         /\ picc'.call = "None" => picc'.result.kind \in {"Ok", "Err"}
         /\ \/ Repeats(b) /\ picc.call \in {"Receive", "Respond"}
            \/ /\ picc.call = "Respond" /\ picc.handler.number # f.block.number
               /\ \E c \in Block : GoesOnWith(c, f.block.number)
            \/ GivesUpOn(b, f.block.number)
<1> DEFINE step == ProcessReceived(picc.handler, f.block)
           number == f.block.number
<1>1. f.kind = "Block" /\ f.block \in Block /\ f.block.type = "R"
  BY BlockOfFrame DEF Carries
<1>2. /\ picc.handler \in Handler /\ step.handler \in Handler
      /\ step.handler.role = "Picc" /\ With(step.handler) \in PiccType
      /\ picc.handler.number \in Bit /\ step.handler.number \in Bit
      /\ number \in Bit
  BY <1>1, RoleOfStep DEF Block
<1>3. /\ step.outcome.kind \in {"ChainingAck", "ChainingRetransmit", "Err"}
      /\ step.outcome.kind = "ChainingAck" =>
           picc.handler.number # number /\ step.handler.number = number
      /\ step.outcome.kind = "ChainingRetransmit" =>
           step.handler.number = picc.handler.number
      /\ step.outcome.kind = "Err" => step.handler.number = picc.handler.number
      /\ step.outcome.kind # "Err" => step.handler.chain = picc.handler.chain
  <2>1. picc.handler.number # number => 1 - picc.handler.number = number
    BY <1>2 DEF Bit
  <2> QED BY <1>1, <1>2, <2>1, ReceivedAck
<1>4. picc.call \in {"Receive", "Respond"}
  BY <1>1, HeardBlock DEF HearCommandBlock, HearAcknowledgement
<1>5. Ok.kind = "Ok" /\ <<b>>[1] = b /\ <<b>> # <<>>
  BY OutcomeKinds, OneBlock
<1>6. picc.response \in Seq(Byte)
  BY PiccFields
<1>7. picc.call = "Respond" => picc.iblock # <<>>
  BY <1>5
<1> HIDE DEF step, number
<1>8. \/ step.outcome.kind = "ChainingRetransmit" /\ Said(b, With(step.handler))
      \/ /\ step.outcome.kind = "ChainingAck" /\ picc.call = "Respond"
         /\ \E offset \in 0..Len(picc.response) :
              /\ offset = NextOffset
              /\ PiccSendsChunk(With(step.handler), picc.response, offset)
      \/ /\ step.outcome.kind = "ChainingAck" => picc.call = "Receive"
         /\ CallFailed(With(step.handler))
  BY <1>1, <1>3, <1>5, <1>7, HeardBlock, HearBlockEffect DEF step, NextOffset
<1>9. CASE step.outcome.kind = "ChainingRetransmit" /\ Said(b, With(step.handler))
  <2>1. /\ picc' \in PiccType /\ toPcd' \in Air \cup {toPcd}
        /\ picc'.handler = step.handler /\ picc'.lastSent = <<b>>
        /\ picc'.state = picc.state
        /\ \/ /\ picc'.call = picc.call /\ picc'.iblock = picc.iblock
              /\ toPcd' = <<BlockFrame(b)>>
              /\ picc'.response = picc.response /\ picc'.offset = picc.offset
           \/ /\ picc'.call = "None" /\ picc'.result.kind = "Err"
              /\ toPcd' = toPcd
    BY <1>2, <1>9, SaidStep
  <2>2. /\ picc'.handler.number = picc.handler.number /\ picc'.handler.role = "Picc"
        /\ picc'.handler.chain = picc.handler.chain
    BY <1>2, <1>3, <1>9, <2>1
  <2>3. CASE /\ picc'.call = picc.call /\ picc'.iblock = picc.iblock
             /\ toPcd' = <<BlockFrame(b)>>
             /\ picc'.response = picc.response /\ picc'.offset = picc.offset
    <3>1. Repeats(b) /\ picc'.call # "None"
      BY <1>4, <2>1, <2>2, <2>3 DEF Repeats
    <3>2. CardCalls'
      BY <1>4, <1>7, <2>1, <2>3 DEF CardCalls
    <3> QED BY <1>4, <2>1, <2>2, <3>1, <3>2
  <2>4. CASE picc'.call = "None" /\ picc'.result.kind = "Err" /\ toPcd' = toPcd
    <3>1. GivesUpOn(b, f.block.number)
      BY <2>1, <2>2, <2>4 DEF GivesUpOn
    <3>2. CardCalls'
      BY <2>1, <2>4 DEF CardCalls
    <3> QED BY <2>1, <2>2, <2>4, <3>1, <3>2
  <2> QED BY <2>1, <2>3, <2>4
<1>10. ASSUME step.outcome.kind = "ChainingAck", picc.call = "Respond",
              NEW offset \in 0..Len(picc.response), offset = NextOffset,
              PiccSendsChunk(With(step.handler), picc.response, offset)
       PROVE  /\ picc' \in PiccType /\ CardCalls' /\ toPcd' \in Air \cup {toPcd}
              /\ picc'.state = "Protocol" /\ picc'.handler.role = "Picc"
              /\ picc'.call = "None" => picc'.result.kind \in {"Ok", "Err"}
              /\ \E c \in Block : GoesOnWith(c, number)
  <2>1. /\ With(step.handler).handler = step.handler
        /\ With(step.handler).state = picc.state
    BY <1>2, WithFields
  <2>2. PICK c \in Block :
          /\ c = Chunk(step.handler.number, picc.response, offset, PiccMaxInf)
          /\ c.type = "I" /\ c.number = step.handler.number
          /\ picc' \in PiccType /\ toPcd' \in Air \cup {toPcd}
          /\ picc'.lastSent = <<c>> /\ picc'.handler = step.handler
          /\ picc'.state = picc.state
          /\ \/ /\ picc'.call = "Respond" /\ picc'.iblock = <<c>> /\ c.chaining
                /\ toPcd' = <<BlockFrame(c)>>
                /\ picc'.response = picc.response /\ picc'.offset = offset
             \/ /\ picc'.call = "None" /\ picc'.result.kind \in {"Ok", "Err"}
                /\ \/ picc'.result = Ok /\ toPcd' = <<BlockFrame(c)>>
                   \/ picc'.result.kind = "Err" /\ toPcd' = toPcd
    BY <1>2, <1>6, <1>10, <2>1, SendsChunkEffect
  <2>3. GoesOnWith(c, number)
    BY <1>3, <1>10, <2>2 DEF GoesOnWith
  <2>4. <<c>> # <<>>
    BY OneBlock
  <2> QED BY <1>2, <2>2, <2>3, <2>4 DEF CardCalls
<1>11. CASE /\ step.outcome.kind = "ChainingAck" => picc.call = "Receive"
            /\ CallFailed(With(step.handler))
  <2>1. /\ picc' \in PiccType /\ toPcd' = toPcd
        /\ picc'.handler = step.handler /\ picc'.lastSent = picc.lastSent
        /\ picc'.state = picc.state
        /\ picc'.call = "None" /\ picc'.result.kind = "Err"
    BY <1>2, <1>11, FailedStep
  <2>2. \/ picc'.handler.number = picc.handler.number
        \/ picc.call = "Receive" /\ picc.handler.number # number
    BY <1>3, <1>11, <2>1
  <2>3. GivesUpOn(b, f.block.number)
    BY <2>1, <2>2 DEF GivesUpOn, number
  <2> QED BY <1>2, <2>1, <2>3 DEF CardCalls
<1> QED BY <1>3, <1>4, <1>8, <1>9, <1>10, <1>11 DEF number
-----------------------------------------------------------------------------
(* The reader's activation.                                                *)

LEMMA ScanNames ==
  /\ Scan!Byte = Byte
  /\ \A k : Scan!Plain(k) = Plain(k)
  /\ \A k, n : Scan!LevelFrame(k, n) = LevelFrame(k, n)
BY DEF Scan!Byte, Byte, Scan!Plain, Plain, Scan!LevelFrame, LevelFrame

LEMMA PartIsSeq == [1..4 -> Byte] \subseteq {s \in Seq(Byte) : s # <<>>}
<1> SUFFICES ASSUME NEW s \in [1..4 -> Byte] PROVE s \in Seq(Byte) /\ s # <<>>
  OBVIOUS
<1>1. s \in Seq(Byte)
  BY SeqDef
<1>2. s # <<>>
  <2>1. 1 \in DOMAIN s /\ 1 \notin DOMAIN <<>>
    OBVIOUS
  <2> QED BY <2>1
<1> QED BY <1>1, <1>2

LEMMA BuildUidType ==
  ASSUME NEW parts \in Seq([1..4 -> Byte]), Len(parts) \in 1..3
  PROVE  Scan!BuildUid(parts) \in Seq(Byte)
<1>1. \A i \in 1..Len(parts) : parts[i] \in Seq(Byte) /\ Tail(parts[i]) \in Seq(Byte)
  <2> SUFFICES ASSUME NEW i \in 1..Len(parts)
               PROVE  parts[i] \in Seq(Byte) /\ Tail(parts[i]) \in Seq(Byte)
    OBVIOUS
  <2>1. parts[i] \in Seq(Byte) /\ parts[i] # <<>>
    BY ElementOfSeq, PartIsSeq
  <2> QED BY <2>1, HeadTailProperties
<1>2. \A s, t \in Seq(Byte) : s \o t \in Seq(Byte)
  BY ConcatProperties
<1>3. CASE Len(parts) = 1
  BY <1>1, <1>3 DEF Scan!BuildUid
<1>4. CASE Len(parts) = 2
  <2>1. Scan!BuildUid(parts) = Tail(parts[1]) \o parts[2]
    BY <1>4 DEF Scan!BuildUid
  <2>2. Tail(parts[1]) \in Seq(Byte) /\ parts[2] \in Seq(Byte)
    BY <1>1, <1>4
  <2> QED BY <1>2, <2>1, <2>2
<1>5. CASE Len(parts) = 3
  <2>1. Len(parts) # 1 /\ Len(parts) # 2
    BY <1>5
  <2>2. Scan!BuildUid(parts) = (Tail(parts[1]) \o Tail(parts[2])) \o parts[Len(parts)]
    BY <1>5, <2>1, Zenon DEF Scan!BuildUid
  <2>3. /\ Tail(parts[1]) \in Seq(Byte) /\ Tail(parts[2]) \in Seq(Byte)
        /\ parts[Len(parts)] \in Seq(Byte)
    BY <1>1, <1>5
  <2>4. Tail(parts[1]) \o Tail(parts[2]) \in Seq(Byte)
    BY <1>2, <2>3
  <2> QED BY <1>2, <2>2, <2>3, <2>4
<1> QED BY <1>3, <1>4, <1>5

LEMMA ScanSendsStep ==
  ASSUME NEW phase \in Scan!ScanWaiting, NEW level \in 0..2,
         NEW parts \in Seq([1..4 -> Byte]), NEW f \in Frame,
         Scan!ScanSends(phase, level, parts, f)
  PROVE  /\ scan' \in Scan!ScanType /\ scan'.phase = phase /\ scan'.level = level
         /\ scan'.parts = parts /\ scan'.result = "None"
         /\ toPicc' = <<f>> /\ toPicc' \in Air
<1>1. <<>> \in Seq(Byte)
  OBVIOUS
<1> QED BY <1>1, AirIsSeq, ScanNames DEF Scan!ScanSends, Scan!ScanType

LEMMA ScanReturnsStep ==
  ASSUME NEW result \in {"Ok", "Err"}, NEW uid \in Seq(Byte),
         Scan!ScanReturns(result, uid)
  PROVE  /\ scan' \in Scan!ScanType /\ scan'.phase = "Idle" /\ scan'.result = result
         /\ toPicc' = toPicc
<1>1. <<>> \in Seq([1..4 -> Byte])
  OBVIOUS
<1> QED BY <1>1, ScanNames DEF Scan!ScanReturns, Scan!ScanType

\* REQA or WUPA is on the air.
LEMMA ActivateStep ==
  ASSUME NEW request, Scan!Activate(request)
  PROVE  /\ scan' \in Scan!ScanType /\ scan'.phase = "Request" /\ scan'.result = "None"
         /\ toPicc' \in Air /\ toPicc' # <<>> /\ toPicc'[1].kind \in {"Reqa", "Wupa"}
<1>1. /\ request \in {"Reqa", "Wupa"} /\ "Request" \in Scan!ScanWaiting /\ 0 \in 0..2
      /\ <<>> \in Seq([1..4 -> Byte])
  BY DEF Scan!Activate, Scan!ScanWaiting
<1>2. PICK f \in Frame : f = Plain(request) /\ f.kind = request
  BY <1>1, FrameTypes, FrameFields DEF FrameKind
<1>3. /\ scan' \in Scan!ScanType /\ scan'.phase = "Request" /\ scan'.result = "None"
      /\ toPicc' = <<f>> /\ toPicc' \in Air
  BY <1>1, <1>2, ScanSendsStep, ScanNames DEF Scan!Activate
<1> QED BY <1>1, <1>2, <1>3, AirIsSeq

\* The activation goes on with the next frame, or it returns.
ScanGoesOn ==
    /\ scan'.phase \in {"Anticollision", "Select"} /\ scan'.result = "None"
    /\ toPicc' \in Air /\ toPicc' # <<>>
    /\ toPicc'[1].kind \in {"Anticollision", "Select"}

LEMMA ScanHearsEffect ==
  ASSUME scan \in Scan!ScanType, PartsPerLevel, NEW f \in Frame, Scan!ScanHears(f)
  PROVE  /\ scan' \in Scan!ScanType /\ PartsPerLevel'
         /\ scan.phase \in Scan!ScanWaiting
         /\ \/ ScanGoesOn /\ (scan.phase = "Request" => f.kind = "Atqa")
            \/ /\ scan'.phase = "Idle" /\ toPicc' = toPicc
               /\ \/ scan'.result = "Ok" /\ scan.phase = "Select"
                  \/ scan'.result = "Err"
<1>1. /\ scan.level \in 0..2 /\ scan.parts \in Seq([1..4 -> Byte])
      /\ Len(scan.parts) \in Nat /\ <<>> \in Seq([1..4 -> Byte]) /\ <<>> \in Seq(Byte)
      /\ Len(<<>>) = 0
  BY LenProperties, EmptySeq, ScanNames DEF Scan!ScanType
<1>2. {"Anticollision", "Select"} \subseteq Scan!ScanWaiting
  BY DEF Scan!ScanWaiting
<1>3. ASSUME NEW kind \in {"Anticollision", "Select"}, NEW level \in 0..2,
             NEW parts \in Seq([1..4 -> Byte]),
             Scan!ScanSends(kind, level, parts, LevelFrame(kind, level)),
             Len(parts) = IF kind = "Select" THEN level + 1 ELSE level
      PROVE  scan' \in Scan!ScanType /\ PartsPerLevel' /\ ScanGoesOn
  <2>1. PICK g \in Frame : g = LevelFrame(kind, level) /\ g.kind = kind
    BY <1>3, FrameTypes, FrameFields
  <2>2. /\ scan' \in Scan!ScanType /\ scan'.phase = kind /\ scan'.level = level
        /\ scan'.parts = parts /\ scan'.result = "None"
        /\ toPicc' = <<g>> /\ toPicc' \in Air
    BY <1>2, <1>3, <2>1, ScanSendsStep
  <2>3. PartsPerLevel'
    BY <1>3, <2>2 DEF PartsPerLevel
  <2> QED BY <2>1, <2>2, <2>3, AirIsSeq DEF ScanGoesOn
<1>4. ASSUME NEW result \in {"Ok", "Err"}, NEW uid \in Seq(Byte),
             Scan!ScanReturns(result, uid)
      PROVE  /\ scan' \in Scan!ScanType /\ PartsPerLevel'
             /\ scan'.phase = "Idle" /\ scan'.result = result /\ toPicc' = toPicc
  BY <1>4, ScanReturnsStep DEF PartsPerLevel
<1>5. CASE Scan!RequestAnswered(f)
  <2>1. 0 \in 0..2
    OBVIOUS
  <2>2. Scan!ScanSends("Anticollision", 0, <<>>, LevelFrame("Anticollision", 0))
    BY <1>5, ScanNames DEF Scan!RequestAnswered, Scan!Anticollide
  <2>3. scan' \in Scan!ScanType /\ PartsPerLevel' /\ ScanGoesOn
    <3>1. Len(<<>>) = IF "Anticollision" = "Select" THEN 0 + 1 ELSE 0
      BY <1>1
    <3>2. "Anticollision" \in {"Anticollision", "Select"}
      OBVIOUS
    <3> QED BY <1>1, <1>3, <2>1, <2>2, <3>1, <3>2, Zenon
  <2> QED BY <1>5, <2>3 DEF Scan!RequestAnswered, Scan!ScanWaiting
<1>6. CASE Scan!AnticollisionAnswered(f)
  <2>1. f.uid \in [1..4 -> Byte]
    BY <1>6 DEF Scan!AnticollisionAnswered, Frame, FrameKind
  <2> DEFINE Part == [1..4 -> Byte]
  <2> HIDE DEF Part
  <2>2. PICK parts \in Seq(Part) :
          parts = Append(scan.parts, f.uid) /\ Len(parts) = Len(scan.parts) + 1
    <3>1. scan.parts \in Seq(Part) /\ f.uid \in Part
      BY <1>1, <2>1 DEF Part
    <3>2. /\ Append(scan.parts, f.uid) \in Seq(Part)
          /\ Len(Append(scan.parts, f.uid)) = Len(scan.parts) + 1
      BY <3>1, AppendProperties
    <3> QED BY <3>2
  <2>3. scan' \in Scan!ScanType /\ PartsPerLevel' /\ ScanGoesOn
    BY <1>1, <1>3, <1>6, <2>2, ScanNames DEF Scan!AnticollisionAnswered, PartsPerLevel, Part
  <2> QED BY <1>6, <2>3 DEF Scan!AnticollisionAnswered, Scan!ScanWaiting
<1>7. CASE Scan!SelectAnswered(f)
  <2>1. scan.phase = "Select" /\ Len(scan.parts) = scan.level + 1
    BY <1>7 DEF Scan!SelectAnswered, PartsPerLevel
  <2>2. CASE Scan!ScanReturns("Ok", Scan!BuildUid(scan.parts))
    <3>1. Scan!BuildUid(scan.parts) \in Seq(Byte)
      <4>1. Len(scan.parts) \in 1..3
        BY <1>1, <2>1
      <4> QED BY <1>1, <4>1, BuildUidType, Zenon
    <3> QED BY <1>4, <2>1, <2>2, <3>1 DEF Scan!ScanWaiting
  <2>3. CASE scan.level < 2 /\ Scan!Anticollide(scan.level + 1, scan.parts)
    <3>1. PICK level \in 0..2 : level = scan.level + 1
      BY <1>1, <2>3
    <3>2. /\ Len(scan.parts) = IF "Anticollision" = "Select" THEN level + 1 ELSE level
          /\ "Anticollision" \in {"Anticollision", "Select"}
      BY <2>1, <3>1
    <3>3. Scan!ScanSends("Anticollision", level, scan.parts,
                         LevelFrame("Anticollision", level))
      BY <2>3, <3>1, ScanNames DEF Scan!Anticollide
    <3>4. scan' \in Scan!ScanType /\ PartsPerLevel' /\ ScanGoesOn
      BY <1>1, <1>3, <3>2, <3>3, Zenon
    <3> QED BY <2>1, <3>4 DEF Scan!ScanWaiting
  <2>4. CASE Scan!ScanReturns("Err", <<>>)
    BY <1>1, <1>4, <2>1, <2>4 DEF Scan!ScanWaiting
  <2> QED BY <1>7, <2>2, <2>3, <2>4 DEF Scan!SelectAnswered
<1>8. CASE Scan!Unanswered(f)
  BY <1>1, <1>4, <1>8 DEF Scan!Unanswered
<1> QED BY <1>5, <1>6, <1>7, <1>8 DEF Scan!ScanHears
-----------------------------------------------------------------------------
(* The reader's session.                                                   *)

\* What a frame does to the session, whatever it carries.
LEMMA PcdHearsEffect ==
  ASSUME pcd \in PcdType, NEW f \in Frame, PcdHears(f)
  PROVE  /\ pcd' \in PcdType /\ pcd.phase \in PcdWaiting
         /\ pcd.handler.role = "Pcd" => pcd'.handler.role = "Pcd"
         /\ \/ pcd'.phase = "Idle" /\ toPicc' = toPicc
            \/ pcd'.phase = "NoSession" /\ pcd.phase = "Connecting" /\ toPicc' = toPicc
            \/ /\ toPicc' \in Air /\ toPicc' # <<>>
               /\ \/ /\ pcd.phase \in {"Command", "Collect"}
                     /\ pcd'.phase \in {"Command", "Collect"}
                     /\ pcd.result = Ok => pcd'.result = Ok
                  \/ /\ pcd.phase \in {"Deselecting", "DeselectRetry"}
                     /\ pcd'.phase = "DeselectRetry"
<1> USE PcdAssumption
<1>1. pcd.handler \in Handler
  BY PcdFields
<1>2. \A b : <<BlockFrame(b)>> # <<>>
  OBVIOUS
<1>3. \A b \in Block : ProcessReceived(pcd.handler, b).handler.role = pcd.handler.role
  BY <1>1, ReceivedCounts
<1>4. CASE ConnectAnswered(f)
  <2>1. NewHandler("Pcd", PcdLimits).role = "Pcd"
    BY DEF NewHandler
  <2> QED BY <1>4, <2>1, ConnectAnsweredEffect DEF PcdWaiting
<1>5. CASE PpsAnswered(f)
  BY <1>5, PpsAnsweredEffect DEF PcdReturned, PcdWaiting
<1>6. CASE CommandUnanswered(f)
  BY <1>6, CommandUnansweredEffect DEF PcdReturned, PcdWaiting
<1>7. CASE ChunkAnswered(f)
  BY <1>3, <1>7, ChunkAnsweredEffect DEF PcdReturned, PcdWaiting
<1>8. ASSUME f.kind = "Block", CollectBlock(f.block),
             pcd.phase \in {"Command", "Collect"}
      PROVE  /\ pcd' \in PcdType /\ pcd.phase \in PcdWaiting
             /\ pcd'.handler.role = pcd.handler.role
             /\ \/ pcd'.phase = "Idle" /\ toPicc' = toPicc
                \/ /\ pcd'.phase = "Collect" /\ pcd'.result = pcd.result
                   /\ toPicc' \in Air /\ toPicc' # <<>>
  BY <1>2, <1>3, <1>8, BlockOfFrame, CollectBlockEffect DEF PcdReturned, PcdWaiting
<1>9. CASE LastChunkAnswered(f) \/ ReplyAnswered(f)
  BY <1>8, <1>9 DEF LastChunkAnswered, ReplyAnswered
<1>10. CASE ReplyUnanswered(f)
  BY <1>2, <1>10, ReplyUnansweredEffect DEF PcdReturned, PcdWaiting
<1>11. CASE DeselectAnswered(f)
  BY <1>2, <1>11, DeselectAnsweredEffect DEF PcdReturned, PcdWaiting
<1> QED BY <1>4, <1>5, <1>6, <1>7, <1>9, <1>10, <1>11 DEF PcdHears

-----------------------------------------------------------------------------
(* The card's calls.                                                       *)

LEMMA CommandData ==
  ASSUME NEW r \in PiccResult, r.kind = "Complete"
  PROVE  r.data \in Seq(Byte)
BY OutcomeFields DEF PiccResult, Fails

\* What a frame does to the card, whatever it carries.
LEMMA CardHearsTypes ==
  ASSUME picc \in PiccType, CardCalls, NEW f \in Frame, PiccHears(f)
  PROVE  /\ picc' \in PiccType /\ CardCalls' /\ toPcd' \in Air \cup {toPcd}
         /\ AtWork' => toPcd' = toPcd
         /\ picc.handler.role = "Picc" => picc'.handler.role = "Picc"
<1>1. CASE picc.state = "Active" /\ f.kind \in {"Rats", "Hlta"}
  <2>1. HearInActive(f)
    BY <1>1 DEF PiccHears, ReceiveFails, HearInIdle, HearInReady, HearPps, HearNoBlock,
                HearCommandBlock, HearAcknowledgement, CardCalls
  <2>2. NewHandler("Picc", picc.handler.limits).role = "Picc"
    BY DEF NewHandler
  <2> QED BY <1>1, <2>1, <2>2, HearInActiveEffect DEF CardCalls, AtWork
<1>2. CASE /\ picc.state # "Protocol"
           /\ picc.state = "Active" => f.kind \notin {"Rats", "Hlta"}
  BY <1>2, HeardOutside DEF NotInSession, CardCalls, AtWork
<1>3. CASE picc.state = "Protocol" /\ f.kind # "Block"
  BY <1>3, HeardNoBlock DEF AtWork
<1>4. CASE picc.state = "Protocol" /\ f.kind = "Block"
  <2> DEFINE step == ProcessReceived(picc.handler, f.block)
  <2>1. f.block \in Block
    BY <1>4, BlockOfFrame
  <2>2. step.handler \in Handler /\ step.handler.role = picc.handler.role
    BY <2>1, RoleOfStep
  <2>3. IsStep(step)
    BY <2>1, PiccFields, ProcessReceivedType
  <2>4. picc.call = "Respond" => picc.iblock # <<>> /\ picc.iblock[1] \in Block
    BY PiccFields, OneBlock DEF CardCalls
  <2>5. picc.lastSent # <<>> => picc.lastSent[1] \in Block
    BY PiccFields, OneBlock
  <2>6. picc.call \in {"Receive", "Respond"} /\ picc.response \in Seq(Byte)
    BY <1>4, HeardBlock, PiccFields DEF HearCommandBlock, HearAcknowledgement
  <2>7. With(step.handler) \in PiccType
    BY <2>2, WithFields
  <2> HIDE DEF step
  <2>8. ASSUME NEW b \in Block, Said(b, With(step.handler))
        PROVE  /\ picc' \in PiccType /\ CardCalls' /\ toPcd' \in Air \cup {toPcd}
               /\ ~ AtWork' /\ picc'.handler = step.handler
    BY <1>4, <2>2, <2>4, <2>6, <2>8, SaidStep DEF CardCalls, AtWork
  <2>9. \/ step.outcome.kind = "Reply" /\ PiccReplies(step)
        \/ \E b \in Block : Said(b, With(step.handler))
        \/ \E offset \in 0..Len(picc.response) :
             PiccSendsChunk(With(step.handler), picc.response, offset)
        \/ CallEnded(With(step.handler), step.outcome)
        \/ CallFailed(With(step.handler))
    BY <1>4, <2>4, <2>5, HeardBlock, HearBlockEffect DEF step
  <2>10. CASE step.outcome.kind = "Reply" /\ PiccReplies(step)
    <3>1. step.outcome.block \in Block
      BY <2>3, <2>10, OutcomeFields DEF IsStep
    <3>2. CASE Said(step.outcome.block, With(step.handler))
      BY <2>2, <2>8, <3>1, <3>2
    <3>3. CASE IsDeselect(step.outcome.block)
      BY <2>2, <2>3, <2>10, <3>3, ReplyEffect DEF CardCalls, AtWork
    <3> QED BY <2>3, <2>10, <3>2, <3>3, ReplyEffect
  <2>11. ASSUME NEW offset \in 0..Len(picc.response),
                PiccSendsChunk(With(step.handler), picc.response, offset)
         PROVE  /\ picc' \in PiccType /\ CardCalls' /\ toPcd' \in Air \cup {toPcd}
                /\ ~ AtWork' /\ picc'.handler = step.handler
    <3>1. With(step.handler).handler = step.handler /\ With(step.handler).state = picc.state
      BY <2>2, WithFields
    <3>2. PICK c \in Block :
            /\ picc' \in PiccType /\ toPcd' \in Air \cup {toPcd}
            /\ picc'.handler = step.handler /\ picc'.state = picc.state
            /\ \/ picc'.call = "Respond" /\ picc'.iblock = <<c>>
               \/ picc'.call = "None" /\ picc'.result.kind \in {"Ok", "Err"}
      BY <2>6, <2>7, <2>11, <3>1, SendsChunkEffect
    <3>3. <<c>> # <<>>
      OBVIOUS
    <3> QED BY <1>4, <3>2, <3>3 DEF CardCalls, AtWork
  <2>12. CASE CallEnded(With(step.handler), step.outcome)
    BY <1>4, <2>2, <2>12, WithFields DEF CallEnded, CardCalls
  <2>13. CASE CallFailed(With(step.handler))
    BY <1>4, <2>2, <2>13, FailedStep DEF CardCalls, AtWork
  <2> QED BY <2>2, <2>8, <2>9, <2>10, <2>11, <2>12, <2>13
<1> QED BY <1>1, <1>2, <1>3, <1>4

LEMMA CardRunsEffect ==
  ASSUME picc \in PiccType, CardCalls, CardRuns
  PROVE  /\ picc' \in PiccType /\ CardCalls' /\ ~ AtWork'
         /\ toPcd' \in Air \cup {toPcd} /\ CardStep
         /\ picc.call = "None"
         /\ picc'.handler.role = picc.handler.role
         /\ picc'.handler.number = picc.handler.number
         /\ \/ /\ picc.state # "Protocol" \/ picc.result.kind = "Err"
               /\ picc'.state = "Idle" /\ toPcd' = toPcd
            \/ /\ picc.state = "Active" /\ picc'.state = "Active" /\ picc'.call = "Rats"
               /\ toPcd' = toPcd
            \/ /\ picc.state = "Protocol" /\ ~ AtWork
               /\ picc'.state = "Protocol" /\ picc'.call = "Receive"
               /\ picc'.handler.chain = <<>>
               /\ picc'.lastSent = picc.lastSent /\ toPcd' = toPcd
            \/ /\ picc.state = "Protocol" /\ AtWork /\ picc'.state = "Protocol"
               /\ \/ picc'.call = "None" /\ picc'.result.kind = "Err" /\ toPcd' = toPcd
                  \/ \E b \in Block :
                       /\ b = Chunk(picc.handler.number, ResponseTo(picc.result.data), 0,
                                    PiccMaxInf)
                       /\ picc'.call = "Respond" =>
                            picc'.response = ResponseTo(picc.result.data) /\ picc'.offset = 0
                       /\ b.type = "I" /\ b.number = picc.handler.number
                       /\ picc'.lastSent = <<b>> /\ toPcd' = <<BlockFrame(b)>>
                       /\ \/ picc'.call = "None" /\ picc'.result = Ok
                          \/ picc'.call = "Respond" /\ picc'.iblock = <<b>> /\ b.chaining
<1>1. Ok.kind = "Ok" /\ Fails("Other").kind = "Err" /\ picc.handler \in Handler
  BY OutcomeKinds, PiccFields
<1>2. CASE CardAwaitsActivation \/ CardStartsOver
  <2>1. /\ WaitForActivation /\ CardStep /\ picc.call = "None"
        /\ picc.state # "Protocol" \/ picc.result.kind = "Err"
    BY <1>2 DEF CardAwaitsActivation, CardStartsOver, WaitForActivation
  <2> QED BY <2>1, WaitForActivationEffect DEF CardCalls, AtWork, ActivationKept
<1>3. CASE CardAwaitsRats
  <2>1. WaitForRats /\ CardStep /\ picc.call = "None" /\ picc.state = "Active"
    BY <1>3 DEF CardAwaitsRats, WaitForRats
  <2> QED BY <2>1, WaitForRatsEffect DEF CardCalls, AtWork, ActivationKept
<1>4. CASE CardAwaitsCommand
  <2>1. /\ ReceiveCommand /\ CardStep /\ picc.call = "None"
        /\ picc.state = "Protocol" /\ ~ AtWork
    BY <1>4 DEF CardAwaitsCommand, ReceiveCommand, AtWork
  <2> QED BY <1>1, <2>1, ReceiveCommandEffect, SessionStartFields DEF CardCalls, AtWork
<1>5. CASE CardAnswers
  <2>1. /\ CardStep /\ picc.call = "None" /\ picc.state = "Protocol"
        /\ picc.result.kind = "Complete"
    BY <1>5 DEF CardAnswers, SendResponse
  <2>2. ResponseTo(picc.result.data) \in Seq(Byte)
    <3>1. picc.result.data \in Seq(Byte)
      BY <2>1, CommandData, PiccFields
    <3>2. <<144>> \in Seq(Byte)
      BY DEF Byte
    <3> QED BY <3>1, <3>2, ConcatProperties DEF ResponseTo
  <2>3. PICK data \in Seq(Byte) : data = ResponseTo(picc.result.data)
    BY <2>2
  <2>4. CASE CallEnded(picc, Fails("Other"))
    BY <1>1, <2>1, <2>4 DEF CallEnded, CardCalls, AtWork
  <2>5. CASE PiccSendsChunk(picc, data, 0)
    <3>1. 0 \in 0..Len(data)
      BY LenProperties
    <3>2. PICK b \in Block :
            /\ b = Chunk(picc.handler.number, data, 0, PiccMaxInf)
            /\ b.type = "I" /\ b.number = picc.handler.number
            /\ picc' \in PiccType /\ toPcd' \in Air \cup {toPcd}
            /\ picc'.lastSent = <<b>> /\ picc'.handler = picc.handler
            /\ picc'.state = picc.state
            /\ \/ /\ picc'.call = "Respond" /\ picc'.iblock = <<b>> /\ b.chaining
                  /\ toPcd' = <<BlockFrame(b)>>
                  /\ picc'.response = data /\ picc'.offset = 0
               \/ /\ picc'.call = "None"
                  /\ \/ picc'.result = Ok /\ toPcd' = <<BlockFrame(b)>>
                     \/ picc'.result.kind = "Err" /\ toPcd' = toPcd
      BY <2>5, <3>1, SendsChunkEffect
    <3>3. <<b>> # <<>>
      OBVIOUS
    <3>4. CardCalls' /\ ~ AtWork' /\ AtWork
      BY <1>1, <2>1, <3>2, <3>3 DEF CardCalls, AtWork
    <3>5. \/ picc'.call = "None" /\ picc'.result.kind = "Err" /\ toPcd' = toPcd
          \/ /\ b = Chunk(picc.handler.number, ResponseTo(picc.result.data), 0, PiccMaxInf)
             /\ picc'.call = "Respond" =>
                  picc'.response = ResponseTo(picc.result.data) /\ picc'.offset = 0
             /\ b.type = "I" /\ b.number = picc.handler.number
             /\ picc'.lastSent = <<b>> /\ toPcd' = <<BlockFrame(b)>>
             /\ \/ picc'.call = "None" /\ picc'.result = Ok
                \/ picc'.call = "Respond" /\ picc'.iblock = <<b>> /\ b.chaining
      BY <2>3, <3>2
    <3> QED BY <2>1, <3>2, <3>4, <3>5
  <2> QED BY <1>5, <2>3, <2>4, <2>5, SendResponseEffect DEF CardAnswers
<1> QED BY <1>2, <1>3, <1>4, <1>5 DEF CardRuns

-----------------------------------------------------------------------------
(* Types, calls and turns.                                                 *)

LEMMA AirType == \A air : air \in Air <=> air \in Seq(Frame) /\ Len(air) <= 1
<1>1. \A air \in Air : air \in Seq(Frame) /\ Len(air) <= 1
  BY OneOnAir, AirIsSeq
<1>2. ASSUME NEW air \in Seq(Frame), Len(air) <= 1
      PROVE  air \in Air
  <2>1. CASE air = <<>>
    BY <2>1, AirIsSeq
  <2>2. CASE air # <<>>
    <3>1. Len(air) = 1
      <4>1. Len(air) \in Nat \ {0}
        BY <2>2, EmptySeq
      <4>2. \A n \in Nat \ {0} : n <= 1 => n = 1
        OBVIOUS
      <4> QED BY <1>2, <4>1, <4>2, Zenon
    <3>2. air[1] \in Frame
      BY <3>1, ElementOfSeq
    <3>3. <<air[1]>> \in Seq(Frame) /\ Len(<<air[1]>>) = 1 /\ <<air[1]>>[1] = air[1]
      BY <3>2
    <3>4. \A i \in 1..Len(air) : air[i] = <<air[1]>>[i]
      BY <3>1, <3>3
    <3>5. air = <<air[1]>>
      BY <3>1, <3>3, <3>4, SeqEqual
    <3> QED BY <3>2, <3>5, AirIsSeq
  <2> QED BY <2>1, <2>2
<1> QED BY <1>1, <1>2

LEMMA DropSessionEffect ==
  ASSUME pcd \in PcdType, DropSession
  PROVE  /\ pcd' \in PcdType /\ pcd'.phase = "NoSession" /\ pcd'.handler.role = "Pcd"
<1> DEFINE phase == "NoSession"
           h == NewHandler("Pcd", PcdLimits)
<1>1. h \in Handler /\ h.role = "Pcd" /\ phase \in PcdPhase /\ Ok \in Outcome
  BY PcdAssumption, SessionStartType, Outcomes DEF Role, NewHandler
<1>2. pcd' = [pcd EXCEPT !.phase = phase, !.result = Ok, !.handler = h]
  BY DEF DropSession
<1> HIDE DEF phase, h
<1>3. pcd' \in PcdType /\ pcd'.phase = phase /\ pcd'.handler = h
  BY <1>1, <1>2 DEF PcdType
<1> QED BY <1>1, <1>3 DEF phase

LEMMA InitOrderly == Init => Orderly
<1> SUFFICES ASSUME Init PROVE Orderly
  OBVIOUS
<1>1. /\ NewHandler("Pcd", PcdLimits) \in Handler
      /\ NewHandler("Picc", PiccLimits) \in Handler
  BY SessionStartType, PcdAssumption, PiccAssumption DEF Role
<1>2. pcd \in PcdType /\ pcd.phase = "NoSession"
  BY <1>1, Outcomes, BlockTypes, ZeroRetries DEF Init, PcdInit, PcdType, PcdPhase
<1>3. /\ picc \in PiccType /\ picc.call = "None" /\ picc.result = Ok
      /\ picc.state = "Idle"
  <2>1. /\ "None" \in PiccCall /\ "Idle" \in PiccState /\ 0 \in 0..2
        /\ <<>> \in {<<>>} \cup [1..1 -> Block] /\ <<>> \in Seq(Byte) /\ 0 \in Nat
        /\ TRUE \in BOOLEAN
    BY DEF PiccCall, PiccState
  <2> QED BY <1>1, <2>1, PiccResults DEF Init, NewPicc, PiccType
<1>4. scan \in Scan!ScanType /\ scan.phase = "Idle" /\ scan.result = "None"
  <2>1. <<>> \in Seq([1..4 -> Byte]) /\ <<>> \in Seq(Byte) /\ 0 \in 0..2
    OBVIOUS
  <2> QED BY <2>1, ScanNames DEF Init, Scan!ScanInit, Scan!ScanType
<1>5. TypeOK
  <2>1. toPicc = <<>> /\ toPcd = <<>> /\ <<>> \in Seq(Frame) /\ Len(<<>>) <= 1
    BY AirType, AirIsSeq DEF Init
  <2>2. lossRun \in 0..MaxLossRun
    BY LinkAssumption DEF Init
  <2>3. command \in Seq(Byte) /\ executed \in Seq(Seq(Byte)) /\ answer \in Seq(Seq(Byte))
    BY DEF Init
  <2> QED BY <1>2, <1>3, <1>4, <2>1, <2>2, <2>3 DEF Init, TypeOK
<1>6. Ok.kind # "Complete"
  BY OutcomeKinds
<1> QED BY <1>2, <1>3, <1>4, <1>5, <1>6
        DEF Init, Orderly, CardCalls, PartsPerLevel, OneAtATime, InTurns, HalfDuplex,
            Quiet, AtWork, PcdWaiting

\* The reader's application begins an activation or a call of the session.
LEMMA PollOrderly ==
  ASSUME Orderly, Poll
  PROVE  Orderly'
<1>1. /\ scan' \in Scan!ScanType /\ scan'.phase = "Request" /\ scan'.result = "None"
      /\ toPicc' \in Air
  BY ActivateStep DEF Poll
<1>2. scan.phase = "Idle"
  BY DEF Poll, Scan!Activate
<1>3. pcd' \in PcdType /\ pcd'.phase = "NoSession"
  BY DropSessionEffect DEF Poll, Orderly, TypeOK
<1>4. toPcd' \in Air /\ (toPcd' = toPcd \/ toPcd' = <<>>)
  BY AirType, AirIsSeq DEF Poll, Orderly, TypeOK
<1>5. UNCHANGED <<picc, lossRun, reader, command, executed, answer, beyond>>
  BY DEF Poll, history, asked
<1>6. reader = "Over" /\ pcd.phase \in {"NoSession", "Idle"}
  BY DEF Poll
<1>7. CardCalls' /\ PartsPerLevel' /\ OneAtATime'
  BY <1>1, <1>3, <1>5, <1>6 DEF Orderly, CardCalls, PartsPerLevel, OneAtATime
<1>8. LateAnswers \/ InTurns'
  BY <1>1, <1>2, <1>4, <1>5, <1>6
     DEF Orderly, InTurns, HalfDuplex, ReaderWaits, PcdWaiting, Quiet, AtWork
<1>9. TypeOK'
  BY <1>1, <1>3, <1>4, <1>5, <1>8, AirType DEF Orderly, TypeOK, InTurns, HalfDuplex
<1> QED BY <1>7, <1>8, <1>9 DEF Orderly

LEMMA CallOrderly ==
  ASSUME Orderly, OpenSession \/ ChangeBitRate \/ CloseSession \/ \E c \in Commands : Ask(c)
  PROVE  Orderly'
<1> USE PcdAssumption
<1>1. UNCHANGED <<picc, toPcd, lossRun>> /\ scan.phase = "Idle"
  BY DEF OpenSession, ChangeBitRate, CloseSession, Ask, PcdReady, Connect, Orderly, OneAtATime
<1>2. pcd.phase \in {"NoSession", "Idle"} /\ pcd \in PcdType
  BY DEF OpenSession, ChangeBitRate, CloseSession, Ask, PcdReady, Connect, Orderly, TypeOK
<1>3. CardCalls' /\ (toPcd' \in Seq(Frame) /\ Len(toPcd') <= 1) /\ lossRun' \in 0..MaxLossRun
  BY <1>1 DEF Orderly, TypeOK, CardCalls
<1>4. ~ LateAnswers => Quiet /\ ~ AtWork
  BY <1>1, <1>2 DEF Orderly, InTurns, HalfDuplex, ReaderWaits, PcdWaiting
<1>5. /\ pcd' \in PcdType /\ scan' \in Scan!ScanType /\ OneAtATime' /\ PartsPerLevel'
      /\ toPicc' \in Air \cup {toPicc}
      /\ toPicc' = toPicc \/ pcd'.phase \in PcdWaiting
      /\ reader' \in {"Over", "New", "Running"}
      /\ command' \in Seq(Byte) /\ executed' \in Seq(Seq(Byte))
      /\ answer' \in Seq(Seq(Byte)) /\ beyond' \in BOOLEAN
  <2>1. CASE OpenSession
    <3>1. pcd' \in PcdType /\ pcd'.phase = "Connecting" /\ toPicc' \in Air
      BY <1>2, <2>1, ConnectEffect DEF OpenSession
    <3>2. /\ scan' \in Scan!ScanType /\ scan'.phase = "Idle" /\ scan'.result = "None"
      <4> DEFINE none == "None"
                 empty == <<>>
      <4>1. none \in {"None", "Ok", "Err"} /\ empty \in Seq(Byte) /\ scan \in Scan!ScanType
        BY DEF Orderly, TypeOK
      <4>2. scan' = [scan EXCEPT !.result = none, !.uid = empty]
        BY <2>1 DEF OpenSession
      <4> HIDE DEF none, empty
      <4>3. scan' \in Scan!ScanType /\ scan'.phase = scan.phase /\ scan'.result = none
        BY <4>1, <4>2, ScanNames DEF Scan!ScanType
      <4> QED BY <1>1, <4>3 DEF none
    <3>3. reader' = "New" /\ beyond' = FALSE /\ UNCHANGED <<command, executed, answer>>
      BY <2>1 DEF OpenSession, asked
    <3> QED BY <3>1, <3>2, <3>3 DEF PcdWaiting, OneAtATime, PartsPerLevel, Orderly, TypeOK
  <2>2. CASE ChangeBitRate
    <3>1. pcd' \in PcdType /\ pcd'.phase = "Pps" /\ toPicc' \in Air
      BY <1>2, <2>2, NegotiatePpsEffect DEF ChangeBitRate
    <3>2. UNCHANGED <<scan, command, executed, answer, beyond>> /\ reader' = "Running"
      BY <2>2 DEF ChangeBitRate, history, asked
    <3>3. scan.result # "Ok"
      BY <2>2 DEF ChangeBitRate, PcdReady, Orderly, OneAtATime
    <3> QED BY <1>1, <3>1, <3>2, <3>3 DEF PcdWaiting, OneAtATime, PartsPerLevel, Orderly, TypeOK
  <2>3. CASE CloseSession
    <3>1. pcd' \in PcdType /\ pcd'.phase = "Deselecting" /\ toPicc' \in Air
      BY <1>2, <2>3, DeselectEffect DEF CloseSession
    <3>2. UNCHANGED <<scan, command, executed, answer, beyond>> /\ reader' = "Over"
      BY <2>3 DEF CloseSession, history, asked
    <3>3. scan.result # "Ok"
      BY <2>3 DEF CloseSession, PcdReady, Orderly, OneAtATime
    <3> QED BY <1>1, <3>1, <3>2, <3>3 DEF PcdWaiting, OneAtATime, PartsPerLevel, Orderly, TypeOK
  <2>4. CASE \E c \in Commands : Ask(c)
    <3> PICK c \in Commands : Ask(c)
      BY <2>4
    <3>1. c \in Seq(Byte)
      BY LinkAssumption
    <3>2. /\ pcd' \in PcdType /\ toPicc' \in Air \cup {toPicc}
          /\ \/ pcd'.phase = "Idle" /\ toPicc' = toPicc
             \/ pcd'.phase = "Command" /\ pcd'.result = Ok
      BY <1>2, <3>1, ExchangeEffect DEF Ask
    <3>3. /\ UNCHANGED <<scan, beyond>> /\ reader' = "Running"
          /\ command' = c /\ executed' = <<>> /\ answer' = <<>>
      BY DEF Ask
    <3>4. scan.result # "Ok"
      BY DEF Ask, PcdReady, Orderly, OneAtATime
    <3>5. <<>> \in Seq(Seq(Byte))
      OBVIOUS
    <3> QED BY <1>1, <3>1, <3>2, <3>3, <3>4, <3>5
            DEF PcdWaiting, OneAtATime, PartsPerLevel, Orderly, TypeOK
  <2> QED BY <2>1, <2>2, <2>3, <2>4
<1>6. toPicc' \in Seq(Frame) /\ Len(toPicc') <= 1
  BY <1>5, AirType DEF Orderly, TypeOK
<1>7. LateAnswers \/ InTurns'
  BY <1>1, <1>4, <1>5 DEF InTurns, HalfDuplex, ReaderWaits, Quiet, AtWork
<1>8. TypeOK'
  BY <1>1, <1>3, <1>5, <1>6, <1>7 DEF Orderly, TypeOK, InTurns, HalfDuplex
<1> QED BY <1>3, <1>5, <1>7, <1>8 DEF Orderly

\* The reader hears a frame, or nothing, in its activation or in its session.
LEMMA ReaderHearsOrderly ==
  ASSUME Orderly, NEW f \in Frame, ReaderHears(f),
         toPcd' \in {toPcd, <<>>}, beyond' \in BOOLEAN,
         LateAnswers \/ (toPicc = <<>> /\ toPcd' = <<>> /\ ~ AtWork)
  PROVE  Orderly'
<1>1. toPcd' \in Seq(Frame) /\ Len(toPcd') <= 1
  BY AirType, AirIsSeq DEF Orderly, TypeOK
<1>2. UNCHANGED picc /\ CardCalls'
  BY DEF ReaderHears, SessionHears, ActivationHears, Orderly, CardCalls
<1>3. /\ toPicc \in Air /\ pcd \in PcdType /\ scan \in Scan!ScanType
      /\ PartsPerLevel /\ OneAtATime
  BY AirType DEF Orderly, TypeOK
<1>4. CASE SessionHears(f)
  <2>1. PcdHears(f) /\ UNCHANGED <<scan, command, executed>> /\ reader' \in {"Over", reader}
    BY <1>4 DEF SessionHears
  <2>2. /\ pcd' \in PcdType /\ pcd.phase \in PcdWaiting
        /\ \/ pcd'.phase = "Idle" /\ toPicc' = toPicc
           \/ pcd'.phase = "NoSession" /\ toPicc' = toPicc
           \/ /\ toPicc' \in Air /\ toPicc' # <<>>
              /\ \/ /\ pcd.phase \in {"Command", "Collect"}
                    /\ pcd'.phase \in {"Command", "Collect"}
                    /\ pcd.result = Ok => pcd'.result = Ok
                 \/ /\ pcd.phase \in {"Deselecting", "DeselectRetry"}
                    /\ pcd'.phase = "DeselectRetry"
    BY <1>3, <2>1, PcdHearsEffect
  <2>3. /\ pcd'.phase = "NoSession" => reader' = "Over"
        /\ pcd'.phase # "NoSession" /\ pcd'.result = Ok => reader' = reader
    BY <1>4, Outcomes DEF SessionHears
  <2>4. /\ scan.phase = "Idle" /\ scan.result # "Ok"
        /\ pcd.phase \in {"Command", "Collect"} => reader = "Running" /\ pcd.result = Ok
        /\ pcd.phase \in {"Deselecting", "DeselectRetry"} => reader = "Over"
    BY <1>3, <2>2 DEF OneAtATime, PcdWaiting
  <2>5. OneAtATime'
    BY <2>1, <2>2, <2>3, <2>4 DEF OneAtATime
  <2>6. LateAnswers \/ InTurns'
    BY <1>2, <2>2 DEF InTurns, HalfDuplex, Quiet, ReaderWaits, AtWork, PcdWaiting
  <2>7. lossRun' \in 0..MaxLossRun /\ answer' \in Seq(Seq(Byte))
    <3>1. pcd'.result.kind = "Complete" => pcd'.result.data \in Seq(Byte)
      BY <2>2, OutcomeFields DEF PcdType
    <3>2. 0 \in 0..MaxLossRun
      BY LinkAssumption
    <3>3. \A d \in Seq(Byte) : <<d>> \in Seq(Seq(Byte))
      OBVIOUS
    <3>4. lossRun \in 0..MaxLossRun /\ answer \in Seq(Seq(Byte))
      BY DEF Orderly, TypeOK
    <3>5. lossRun' \in {0, lossRun}
      BY <1>4 DEF SessionHears
    <3>6. \/ answer' = answer
          \/ pcd'.result.kind = "Complete" /\ answer' = <<pcd'.result.data>>
      BY <1>4 DEF SessionHears
    <3> QED BY <3>1, <3>2, <3>3, <3>4, <3>5, <3>6
  <2>8. reader' \in {"Over", "New", "Running"}
    BY <2>1 DEF Orderly, TypeOK
  <2>9. PartsPerLevel'
    BY <1>3, <2>1 DEF PartsPerLevel
  <2>10. toPicc' \in Seq(Frame) /\ Len(toPicc') <= 1
    BY <1>3, <2>2, AirType
  <2> QED BY <1>1, <1>2, <2>1, <2>2, <2>5, <2>6, <2>7, <2>8, <2>9, <2>10
          DEF Orderly, TypeOK, InTurns, HalfDuplex
<1>5. CASE ActivationHears(f)
  <2>1. /\ scan' \in Scan!ScanType /\ PartsPerLevel' /\ scan.phase \in Scan!ScanWaiting
        /\ \/ ScanGoesOn
           \/ /\ scan'.phase = "Idle" /\ toPicc' = toPicc /\ scan'.result \in {"Ok", "Err"}
    BY <1>3, <1>5, ScanHearsEffect DEF ActivationHears
  <2>2. UNCHANGED <<pcd, lossRun, reader, command, executed, answer>>
    BY <1>5 DEF ActivationHears, asked
  <2>3. OneAtATime'
    BY <1>3, <2>1, <2>2 DEF OneAtATime, ScanGoesOn, Scan!ScanWaiting
  <2>4. LateAnswers \/ InTurns'
    BY <1>2, <2>1, <2>2 DEF InTurns, HalfDuplex, Quiet, ReaderWaits, AtWork, ScanGoesOn
  <2>5. toPicc' \in Seq(Frame) /\ Len(toPicc') <= 1
    BY <1>3, <2>1, AirType DEF ScanGoesOn
  <2> QED BY <1>1, <1>2, <2>1, <2>2, <2>3, <2>4, <2>5
          DEF Orderly, TypeOK, InTurns, HalfDuplex
<1> QED BY <1>4, <1>5 DEF ReaderHears

LEMMA HearsOrderly ==
  ASSUME Orderly, ReaderHearsFrame \/ TimesOut \/ GivesUp
  PROVE  Orderly'
<1>1. Plain("Silence") \in Frame
  BY FrameTypes DEF FrameKind
<1>2. toPcd # <<>> => toPcd[1] \in Frame
  BY AirType, AirIsSeq DEF Orderly, TypeOK
<1>3. CASE ReaderHearsFrame
  <2>1. ReaderHears(toPcd[1]) /\ toPcd[1] \in Frame /\ toPcd' = <<>> /\ beyond' \in BOOLEAN
    BY <1>2, <1>3 DEF ReaderHearsFrame, Orderly, TypeOK
  <2>2. LateAnswers \/ (toPicc = <<>> /\ toPcd' = <<>> /\ ~ AtWork)
    BY <1>3 DEF ReaderHearsFrame, Orderly, InTurns, HalfDuplex, Quiet
  <2>3. PICK f \in Frame : ReaderHears(f)
    BY <2>1
  <2> QED BY <2>1, <2>2, <2>3, ReaderHearsOrderly
<1>4. CASE TimesOut
  <2>1. /\ ReaderHears(Plain("Silence")) /\ toPcd' = toPcd /\ beyond' \in BOOLEAN
        /\ toPicc = <<>> /\ toPcd' = <<>> /\ ~ AtWork
    BY <1>4 DEF TimesOut, Orderly, TypeOK, AtWork
  <2> QED BY <1>1, <2>1, ReaderHearsOrderly
<1>5. CASE GivesUp
  <2>1. /\ ReaderHears(Plain("Silence")) /\ toPcd' = toPcd /\ beyond' \in BOOLEAN
        /\ LateAnswers
    BY <1>5 DEF GivesUp
  <2> QED BY <1>1, <2>1, ReaderHearsOrderly
<1> QED BY <1>3, <1>4, <1>5

\* The card acts, or hears a frame.
LEMMA CardOrderly ==
  ASSUME Orderly, CardRuns \/ CardHears
  PROVE  Orderly'
<1>1. picc \in PiccType /\ CardCalls /\ toPicc \in Air /\ toPcd \in Air
  BY AirType DEF Orderly, TypeOK
<1>2. /\ UNCHANGED <<scan, pcd, lossRun, reader, command, answer, beyond>>
      /\ OneAtATime' /\ PartsPerLevel'
  BY DEF CardRuns, CardAwaitsActivation, CardAwaitsRats, CardAwaitsCommand, CardAnswers,
         CardStartsOver, CardStep, CardHears, history, asked, Orderly, OneAtATime, PartsPerLevel
<1>3. /\ picc' \in PiccType /\ CardCalls' /\ toPcd' \in Air /\ toPicc' \in Air
      /\ executed' \in Seq(Seq(Byte)) /\ (LateAnswers \/ InTurns')
  <2>1. CASE CardRuns
    <3>1. /\ picc' \in PiccType /\ CardCalls' /\ ~ AtWork' /\ toPcd' \in Air \cup {toPcd}
          /\ UNCHANGED <<toPicc, executed>>
          /\ toPcd' = toPcd \/ AtWork
      BY <1>1, <2>1, CardRunsEffect DEF CardStep, history, asked
    <3>2. LateAnswers \/ InTurns'
      BY <1>2, <3>1 DEF Orderly, InTurns, HalfDuplex, Quiet, ReaderWaits
    <3> QED BY <1>1, <3>1, <3>2 DEF Orderly, TypeOK
  <2>2. CASE CardHears
    <3>1. toPicc # <<>> /\ toPicc[1] \in Frame /\ PiccHears(toPicc[1]) /\ toPicc' = <<>>
      BY <1>1, <2>2, AirIsSeq DEF CardHears
    <3>2. PICK f \in Frame : PiccHears(f)
      BY <3>1
    <3>3. /\ picc' \in PiccType /\ CardCalls' /\ toPcd' \in Air \cup {toPcd}
          /\ AtWork' => toPcd' = toPcd
      BY <1>1, <3>2, CardHearsTypes
    <3>4. LateAnswers \/ InTurns'
      BY <1>2, <3>1, <3>3 DEF Orderly, InTurns, HalfDuplex, Quiet, ReaderWaits
    <3>5. executed' \in Seq(Seq(Byte))
      <4>1. picc'.result.kind = "Complete" => picc'.result.data \in Seq(Byte)
        BY <3>3, CommandData, PiccFields
      <4>2. executed \in Seq(Seq(Byte))
        BY DEF Orderly, TypeOK
      <4>3. \A d \in Seq(Byte) : Append(executed, d) \in Seq(Seq(Byte))
        BY <4>2, AppendProperties
      <4> QED BY <2>2, <4>1, <4>2, <4>3 DEF CardHears
    <3> QED BY <1>1, <3>1, <3>3, <3>4, <3>5, AirIsSeq
  <2> QED BY <2>1, <2>2
<1>4. /\ toPicc' \in Seq(Frame) /\ Len(toPicc') <= 1
      /\ toPcd' \in Seq(Frame) /\ Len(toPcd') <= 1
  BY <1>3, AirType
<1> QED BY <1>2, <1>3, <1>4 DEF Orderly, TypeOK, InTurns, HalfDuplex

LEMMA DisturbOrderly ==
  ASSUME Orderly, Disturb
  PROVE  Orderly'
<1>1. UNCHANGED <<scan, pcd, picc, reader, command, executed, answer>>
  BY DEF Disturb, asked
<1>2. lossRun' \in 0..MaxLossRun /\ beyond' \in BOOLEAN
  BY LinkAssumption DEF Disturb, Orderly, TypeOK
<1>3. <<Plain("Noise")>> \in Air
  BY FrameTypes, AirIsSeq DEF FrameKind
<1>4. /\ toPicc' \in Seq(Frame) /\ Len(toPicc') <= 1
      /\ toPcd' \in Seq(Frame) /\ Len(toPcd') <= 1
  BY <1>3, AirType, AirIsSeq DEF Disturb, Orderly, TypeOK
<1>5. CardCalls' /\ PartsPerLevel' /\ OneAtATime'
  BY <1>1 DEF Orderly, CardCalls, PartsPerLevel, OneAtATime
<1>6. LateAnswers \/ InTurns'
  BY <1>1 DEF Disturb, Orderly, InTurns, HalfDuplex, Quiet, ReaderWaits, AtWork
<1> QED BY <1>1, <1>2, <1>4, <1>5, <1>6 DEF Orderly, TypeOK, InTurns, HalfDuplex

LEMMA NextOrderly == Orderly /\ [Next]_vars => Orderly'
<1> SUFFICES ASSUME Orderly, [Next]_vars PROVE Orderly'
  OBVIOUS
<1>1. CASE UNCHANGED vars
  BY <1>1 DEF vars, history, asked, Orderly, TypeOK, CardCalls, PartsPerLevel, OneAtATime,
     InTurns, HalfDuplex, Quiet, ReaderWaits, AtWork
<1>2. CASE Next
  BY <1>2, PollOrderly, CallOrderly, HearsOrderly, CardOrderly, DisturbOrderly
     DEF Next, Progress
<1> QED BY <1>1, <1>2

\* Reader, card and air keep their types whatever is lost or garbled and however
\* late the card's application answers: at most one frame is on its way in each
\* direction, and without late answers in one of them only.
THEOREM LinkTypeCorrect == Spec => []TypeOK
<1>1. Orderly => TypeOK
  BY DEF Orderly
<1> QED BY <1>1, InitOrderly, NextOrderly, PTL DEF Spec
-----------------------------------------------------------------------------
(* Reader and card in step.                                                *)

\* One part of InStep speaks of each state of the reader.
LEMMA OneOfInStep ==
  ASSUME OneAtATime', RolesKept'
  PROVE  /\ pcd'.phase = "Connecting" /\ ConnectingOK' => InStep'
         /\ pcd'.phase = "Pps" /\ PpsOK' => InStep'
         /\ pcd'.phase = "Command" /\ CommandOK' => InStep'
         /\ pcd'.phase = "Collect" /\ CollectOK' => InStep'
         /\ pcd'.phase \in {"Deselecting", "DeselectRetry"} /\ DeselectingOK' => InStep'
         /\ pcd'.phase = "Idle" /\ reader' # "Over" /\ ReadyOK' => InStep'
         /\ /\ scan'.phase \in {"Anticollision", "Select"} \/ scan'.result = "Ok"
            /\ SelectingOK'
            => InStep'
         /\ /\ scan'.phase \in {"Idle", "Request"} /\ scan'.result # "Ok"
            /\ reader' = "Over" /\ pcd'.phase \in {"NoSession", "Idle"} /\ SearchingOK'
            => InStep'
BY DEF InStep, OneAtATime, SearchingOK, SelectingOK, ConnectingOK, ReadyOK, PpsOK, CommandOK,
       CollectOK, DeselectingOK

\* The states of the reader.
LEMMA ReaderStates ==
  ASSUME Orderly
  PROVE  \/ /\ scan.phase \in {"Idle", "Request"} /\ scan.result # "Ok"
            /\ reader = "Over" /\ pcd.phase \in {"NoSession", "Idle"}
         \/ scan.phase \in {"Anticollision", "Select"} \/ scan.result = "Ok"
         \/ pcd.phase = "Idle" /\ reader # "Over"
         \/ pcd.phase \in {"Connecting", "Pps", "Command", "Collect", "Deselecting",
                           "DeselectRetry"}
<1>1. pcd.phase \in PcdPhase /\ scan.phase \in {"Idle"} \cup Scan!ScanWaiting
  BY PcdFields DEF Orderly, TypeOK, Scan!ScanType
<1> QED BY <1>1 DEF Orderly, OneAtATime, Scan!ScanWaiting, PcdPhase, PcdWaiting

LEMMA AtWorkInSession ==
  ASSUME Orderly
  PROVE  AtWork => picc.state = "Protocol"
BY DEF Orderly, CardCalls, AtWork

\* The reader is not told of success: the session is over and the air is free
\* of what it sent.
LEMMA SessionOver ==
  ASSUME OneAtATime', RolesKept', reader' = "Over", pcd'.phase \in {"NoSession", "Idle"},
         scan'.phase = "Idle", scan'.result # "Ok", toPicc' = <<>>, toPcd' = <<>>,
         pcd'.phase = "Idle" /\ pcd'.result = Ok => picc'.state # "Protocol"
  PROVE  InStep'
BY OneOfInStep DEF SearchingOK

LEMMA InitInStep == Init => InStep
<1> SUFFICES ASSUME Init PROVE InStep
  OBVIOUS
<1>1. pcd.phase = "NoSession" /\ pcd.handler.role = "Pcd" /\ picc.handler.role = "Picc"
  BY DEF Init, PcdInit, NewPicc, NewHandler
<1>2. scan.phase = "Idle" /\ scan.result = "None" /\ toPicc = <<>> /\ toPcd = <<>>
  BY DEF Init, Scan!ScanInit
<1> QED BY <1>1, <1>2
        DEF InStep, RolesKept, SearchingOK, SelectingOK, ConnectingOK, ReadyOK, PpsOK,
            CommandOK, CollectOK, DeselectingOK

\* The reader's application begins an activation.
LEMMA PollInStep ==
  ASSUME Orderly, InStep, Poll
  PROVE  InStep'
<1>1. /\ scan'.phase = "Request" /\ scan'.result = "None"
      /\ toPicc' # <<>> /\ toPicc'[1].kind \in {"Reqa", "Wupa"}
  BY ActivateStep DEF Poll
<1>2. pcd'.phase = "NoSession" /\ pcd'.handler.role = "Pcd"
  BY DropSessionEffect DEF Poll, Orderly, TypeOK
<1>3. /\ scan.phase = "Idle" /\ scan.result # "Ok" /\ reader = "Over"
      /\ pcd.phase \in {"NoSession", "Idle"} /\ UNCHANGED <<picc, reader>>
      /\ toPcd' = toPcd \/ toPcd' = <<>>
  BY DEF Poll, Scan!Activate
<1>4. RolesKept' /\ OneAtATime'
  BY <1>2, <1>3, PollOrderly DEF Orderly, InStep, RolesKept
<1>5. SearchingOK'
  BY <1>1, <1>2, <1>3 DEF InStep, SearchingOK
<1> QED BY <1>1, <1>2, <1>3, <1>4, <1>5, OneOfInStep

\* The reader's application begins a call of the session.
LEMMA CallInStep ==
  ASSUME Orderly, InStep,
         OpenSession \/ ChangeBitRate \/ CloseSession \/ \E c \in Commands : Ask(c)
  PROVE  InStep'
<1> USE PcdAssumption
<1>1. /\ UNCHANGED <<picc, toPcd>> /\ OneAtATime' /\ pcd \in PcdType
      /\ picc.handler.role = "Picc" /\ pcd.handler.role = "Pcd"
      /\ AtWork => picc.state = "Protocol"
  BY CallOrderly, AtWorkInSession
     DEF OpenSession, ChangeBitRate, CloseSession, Ask, Orderly, TypeOK, InStep, RolesKept
<1>2. \A f \in Frame : <<f>> # <<>> /\ <<f>>[1] = f
  OBVIOUS
<1>3. CASE OpenSession
  <2>1. pcd'.phase = "Connecting" /\ pcd'.handler = pcd.handler /\ toPicc' = <<Plain("Rats")>>
    BY <1>1, <1>3, ConnectEffect DEF OpenSession
  <2>2. Plain("Rats") \in Frame /\ Plain("Rats").kind = "Rats"
    BY FrameTypes, FrameFields DEF FrameKind
  <2>3. toPcd = <<>> /\ NotInSession
    BY <1>3 DEF OpenSession, Orderly, OneAtATime, InStep, SelectingOK, HalfDuplex, Quiet,
                ReaderWaits, PcdWaiting
  <2>4. ConnectingOK'
    BY <1>1, <1>2, <2>1, <2>2, <2>3
       DEF ConnectingOK, HalfDuplex, Quiet, ReaderWaits, PcdWaiting, Expects, NotInSession
  <2> QED BY <1>1, <2>1, <2>4, OneOfInStep DEF RolesKept
<1>4. CASE PcdReady
  <2>1. Quiet /\ Expects(pcd.handler.number) /\ pcd.phase = "Idle" /\ pcd.handler \in Handler
    BY <1>1, <1>4, PcdFields DEF PcdReady, InStep, ReadyOK
  <2>2. CASE ChangeBitRate
    <3>1. /\ pcd'.phase = "Pps" /\ pcd'.handler = pcd.handler
          /\ toPicc' = <<Plain("Pps")>>
      BY <1>1, <2>2, NegotiatePpsEffect DEF ChangeBitRate
    <3>2. Plain("Pps") \in Frame /\ Plain("Pps").kind = "Pps"
      BY FrameTypes, FrameFields DEF FrameKind
    <3>3. PpsOK'
      BY <1>1, <1>2, <2>1, <3>1, <3>2
         DEF PpsOK, HalfDuplex, Quiet, ReaderWaits, PcdWaiting, Expects, AtWork
    <3> QED BY <1>1, <3>1, <3>3, OneOfInStep DEF RolesKept
  <2>3. CASE CloseSession
    <3>1. /\ pcd'.phase = "Deselecting" /\ pcd'.handler = pcd.handler
          /\ toPicc' = <<BlockFrame(SBlock("Deselect", <<>>))>>
      BY <1>1, <2>3, DeselectEffect DEF CloseSession
    <3>2. DeselectingOK'
      BY <1>1, <1>2, <2>1, <3>1, DeselectFrame
         DEF DeselectingOK, HalfDuplex, Quiet, ReaderWaits, PcdWaiting, Expects, AtWork
    <3> QED BY <1>1, <3>1, <3>2, OneOfInStep DEF RolesKept
  <2>4. CASE \E c \in Commands : Ask(c)
    <3> PICK c \in Commands : Ask(c)
      BY <2>4
    <3>1. c \in Seq(Byte)
      BY LinkAssumption
    <3>2. /\ pcd'.handler = BeginExchange(pcd.handler)
          /\ \/ pcd'.phase = "Idle" /\ toPicc' = toPicc
             \/ /\ pcd'.phase = "Command" /\ Carries(toPicc'[1], "I")
                /\ toPicc'[1].block.number = BeginExchange(pcd.handler).number
      BY <1>1, <3>1, ExchangeEffect DEF Ask
    <3>3. reader' = "Running"
      BY DEF Ask
    <3>4. pcd'.handler.number = pcd.handler.number /\ RolesKept'
      BY <1>1, <2>1, <3>2, SessionStartFields DEF RolesKept
    <3>5. CASE pcd'.phase = "Idle" /\ toPicc' = toPicc
      <4>1. ReadyOK'
        BY <1>1, <2>1, <3>4, <3>5 DEF ReadyOK, Quiet, Expects, AtWork
      <4> QED BY <1>1, <3>3, <3>4, <3>5, <4>1, OneOfInStep
    <3>6. CASE /\ pcd'.phase = "Command" /\ Carries(toPicc'[1], "I")
               /\ toPicc'[1].block.number = BeginExchange(pcd.handler).number
      <4>1. CommandOK'
        BY <1>1, <2>1, <3>2, <3>4, <3>6
           DEF CommandOK, HalfDuplex, Quiet, ReaderWaits, PcdWaiting, Expects, AtWork
      <4> QED BY <1>1, <3>4, <3>6, <4>1, OneOfInStep
    <3> QED BY <3>2, <3>5, <3>6
  <2> QED BY <1>3, <2>2, <2>3, <2>4
          DEF PcdReady, OpenSession, ChangeBitRate, CloseSession, Ask
<1> QED BY <1>3, <1>4 DEF ChangeBitRate, CloseSession, Ask
-----------------------------------------------------------------------------
(* The card acts, or hears a frame, while the reader stays as it is.       *)

\* The card waits for the next block, or leaves the session.
LEMMA CardRunsExpecting ==
  ASSUME Orderly, NEW number, Expects(number), CardRuns
  PROVE  /\ toPcd' = toPcd /\ ~ AtWork' /\ picc'.call # "Respond"
         /\ picc'.state = "Protocol" => picc'.handler.number # number
         /\ NotInSession => NotInSession'
<1>1. picc \in PiccType /\ CardCalls
  BY DEF Orderly, TypeOK
<1>2. /\ ~ AtWork'
      /\ picc'.handler.number = picc.handler.number
      /\ \/ picc'.state = "Idle" /\ toPcd' = toPcd
         \/ /\ picc.state = "Active" /\ picc'.state = "Active" /\ picc'.call = "Rats"
            /\ toPcd' = toPcd
         \/ /\ picc.state = "Protocol" /\ picc'.state = "Protocol"
            /\ picc'.call = "Receive" /\ toPcd' = toPcd
         \/ picc.state = "Protocol" /\ AtWork
  BY <1>1, CardRunsEffect
<1>3. CardCalls'
  BY <1>1, CardRunsEffect
<1> QED BY <1>2, <1>3 DEF Expects, NotInSession, CardCalls

LEMMA CardRunsInStep ==
  ASSUME Orderly, InStep, CardRuns
  PROVE  InStep'
<1>1. picc \in PiccType /\ CardCalls /\ toPcd \in Air
  BY AirType DEF Orderly, TypeOK
<1>2. /\ CardCalls' /\ ~ AtWork' /\ UNCHANGED <<scan, pcd, toPicc, reader>>
      /\ picc.call = "None"
      /\ picc'.handler.role = picc.handler.role
      /\ picc'.handler.number = picc.handler.number
      /\ \/ /\ picc.state # "Protocol" \/ picc.result.kind = "Err"
            /\ picc'.state = "Idle" /\ toPcd' = toPcd
         \/ /\ picc.state = "Active" /\ picc'.state = "Active" /\ picc'.call = "Rats"
            /\ toPcd' = toPcd
         \/ /\ picc.state = "Protocol" /\ ~ AtWork
            /\ picc'.state = "Protocol" /\ picc'.call = "Receive"
            /\ picc'.lastSent = picc.lastSent /\ toPcd' = toPcd
         \/ /\ picc.state = "Protocol" /\ AtWork /\ picc'.state = "Protocol"
            /\ \/ picc'.call = "None" /\ picc'.result.kind = "Err" /\ toPcd' = toPcd
               \/ \E b \in Block :
                    /\ b.type = "I" /\ b.number = picc.handler.number
                    /\ picc'.lastSent = <<b>> /\ toPcd' = <<BlockFrame(b)>>
                    /\ \/ picc'.call = "None" /\ picc'.result = Ok
                       \/ picc'.call = "Respond" /\ picc'.iblock = <<b>> /\ b.chaining
  BY <1>1, CardRunsEffect DEF CardStep
<1>3. OneAtATime' /\ RolesKept' /\ OneAtATime
  BY <1>2, CardOrderly DEF Orderly, InStep, RolesKept
<1>4. /\ \A b : /\ <<BlockFrame(b)>> # <<>> /\ <<BlockFrame(b)>>[1] = BlockFrame(b)
                /\ BlockFrame(b).kind = "Block" /\ BlockFrame(b).block = b
                /\ <<b>> # <<>> /\ <<b>>[1] = b
      /\ Ok.kind = "Ok"
  BY FrameFields, OutcomeKinds
<1>5. CASE /\ scan.phase \in {"Idle", "Request"} /\ scan.result # "Ok"
           /\ reader = "Over" /\ pcd.phase \in {"NoSession", "Idle"}
  <2>1. SearchingOK'
    BY <1>2, <1>4, <1>5 DEF InStep, SearchingOK
  <2> QED BY <1>2, <1>3, <1>5, <2>1, OneOfInStep
<1>6. CASE scan.phase \in {"Anticollision", "Select"} \/ scan.result = "Ok"
  <2>1. SelectingOK'
    BY <1>2, <1>6 DEF InStep, SelectingOK, NotInSession, HalfDuplex, Quiet, ReaderWaits
  <2> QED BY <1>2, <1>3, <1>6, <2>1, OneOfInStep
<1>7. CASE pcd.phase = "Idle" /\ reader # "Over"
  <2>1. Expects(pcd.handler.number) /\ Quiet
    BY <1>7 DEF InStep, ReadyOK
  <2>2. ReadyOK'
    BY <1>2, <2>1, CardRunsExpecting DEF ReadyOK, Quiet, Expects
  <2> QED BY <1>2, <1>3, <1>7, <2>2, OneOfInStep
<1>8. CASE pcd.phase = "Connecting"
  <2>1. Expects(0)
    BY <1>8 DEF InStep, ConnectingOK
  <2>2. ConnectingOK'
    BY <1>2, <1>8, <2>1, CardRunsExpecting
       DEF InStep, ConnectingOK, HalfDuplex, Quiet, ReaderWaits, Expects
  <2> QED BY <1>2, <1>3, <1>8, <2>2, OneOfInStep
<1>9. CASE pcd.phase = "Pps"
  <2>1. Expects(pcd.handler.number)
    BY <1>9 DEF InStep, PpsOK
  <2>2. PpsOK'
    BY <1>2, <1>9, <2>1, CardRunsExpecting
       DEF InStep, PpsOK, HalfDuplex, Quiet, ReaderWaits, Expects
  <2> QED BY <1>2, <1>3, <1>9, <2>2, OneOfInStep
<1>10. CASE pcd.phase = "Command"
  <2>1. CommandOK
    BY DEF InStep
  <2>2. CASE toPcd' = toPcd
    <3>1. HalfDuplex'
      BY <1>2, <1>10, <2>1, <2>2 DEF CommandOK, HalfDuplex, Quiet, ReaderWaits
    <3>2. toPicc # <<>> => Expects(pcd.handler.number)'
      BY <1>2, <1>10, <2>1, CardRunsExpecting DEF CommandOK, Expects
    <3>3. toPcd # <<>> /\ toPcd[1].kind = "Block" =>
            /\ CardHolds' /\ picc.handler.number = pcd.handler.number
            /\ toPcd[1].block.number = pcd.handler.number
            /\ RespondedWith(toPcd[1].block)'
      <4> SUFFICES ASSUME toPcd # <<>>, toPcd[1].kind = "Block"
                   PROVE  /\ CardHolds' /\ picc.handler.number = pcd.handler.number
                          /\ toPcd[1].block.number = pcd.handler.number
                          /\ RespondedWith(toPcd[1].block)'
        OBVIOUS
      <4>1. /\ picc.state = "Protocol" /\ picc.result = Ok
            /\ picc.handler.number = pcd.handler.number
            /\ toPcd[1].block.number = pcd.handler.number
            /\ picc.lastSent = <<toPcd[1].block>> /\ toPcd[1].block.type = "I"
        BY <1>2, <1>10, <2>1 DEF CommandOK, CardHolds, RespondedWith
      <4>2. picc'.state = "Protocol" /\ picc'.call = "Receive" /\ picc'.lastSent = picc.lastSent
        BY <1>2, <1>4, <4>1 DEF AtWork
      <4> QED BY <2>2, <4>1, <4>2 DEF CardHolds, RespondedWith
    <3>4. CommandOK'
      BY <1>2, <1>10, <2>1, <2>2, <3>1, <3>2, <3>3 DEF CommandOK
    <3> QED BY <1>2, <1>3, <1>10, <3>4, OneOfInStep
  <2>3. CASE toPcd' # toPcd
    <3>1. /\ AtWork /\ Quiet /\ picc.handler.number = pcd.handler.number
          /\ picc'.state = "Protocol"
      BY <1>2, <1>10, <2>1, <2>3 DEF CommandOK
    <3>2. PICK b \in Block :
            /\ b.type = "I" /\ b.number = picc.handler.number
            /\ picc'.lastSent = <<b>> /\ toPcd' = <<BlockFrame(b)>>
            /\ \/ picc'.call = "None" /\ picc'.result = Ok
               \/ picc'.call = "Respond" /\ picc'.iblock = <<b>> /\ b.chaining
      BY <1>2, <2>3
    <3>3. CardHolds' /\ RespondedWith(b)'
      BY <3>1, <3>2 DEF CardHolds, RespondedWith
    <3>4. toPcd'[1].kind = "Block" /\ toPcd'[1].block = b
      BY <1>4, <3>2
    <3>5. HalfDuplex' /\ toPicc' = <<>>
      BY <1>2, <1>10, <3>1 DEF HalfDuplex, Quiet, ReaderWaits, PcdWaiting
    <3>6. CommandOK'
      BY <1>2, <3>1, <3>2, <3>3, <3>4, <3>5 DEF CommandOK
    <3> QED BY <1>2, <1>3, <1>10, <3>6, OneOfInStep
  <2> QED BY <2>2, <2>3
<1>11. CASE pcd.phase = "Collect"
  <2>1. CollectOK /\ ~ AtWork
    BY <1>11 DEF InStep, CollectOK
  <2>2. toPcd' = toPcd /\ (picc'.state = "Protocol" =>
          picc.state = "Protocol" /\ picc'.call = "Receive" /\ picc'.lastSent = picc.lastSent)
    BY <1>2, <2>1
  <2>3. toPcd # <<>> /\ toPcd[1].kind = "Block" =>
          CardHolds' /\ picc'.lastSent = <<toPcd[1].block>>
    <3> SUFFICES ASSUME toPcd # <<>>, toPcd[1].kind = "Block"
                 PROVE  CardHolds' /\ picc'.lastSent = <<toPcd[1].block>>
      OBVIOUS
    <3>1. /\ picc.state = "Protocol" /\ picc.result = Ok
          /\ picc.lastSent = <<toPcd[1].block>>
      BY <1>2, <1>11, <2>1 DEF CollectOK, CardHolds
    <3>2. picc'.state = "Protocol"
      BY <1>2, <1>4, <3>1
    <3> QED BY <2>2, <3>1, <3>2 DEF CardHolds
  <2>4. picc'.state = "Protocol" =>
          /\ picc'.lastSent # <<>> /\ RespondedWith(picc.lastSent[1])'
          /\ ~ picc'.lastSent[1].chaining =>
               /\ picc'.lastSent[1].number = picc'.handler.number
               /\ picc'.handler.number = pcd.handler.number
    BY <1>2, <1>11, <2>1, <2>2 DEF CollectOK, RespondedWith
  <2>5. CollectOK'
    BY <1>2, <1>11, <2>1, <2>2, <2>3, <2>4
       DEF CollectOK, HalfDuplex, Quiet, ReaderWaits, RespondedWith
  <2> QED BY <1>2, <1>3, <1>11, <2>5, OneOfInStep
<1>12. CASE pcd.phase \in {"Deselecting", "DeselectRetry"}
  <2>1. DeselectingOK'
    BY <1>2, <1>4, <1>12 DEF InStep, DeselectingOK, HalfDuplex, Quiet, ReaderWaits
  <2> QED BY <1>2, <1>3, <1>12, <2>1, OneOfInStep
<1> QED BY <1>5, <1>6, <1>7, <1>8, <1>9, <1>10, <1>11, <1>12, ReaderStates

\* RATS opens the session of a card that waits for it, or nothing does.
LEMMA CardHearsRats ==
  ASSUME Orderly, NotInSession, NEW f \in Frame, PiccHears(f), f.kind \in {"Rats", "Noise"}
  PROVE  picc'.state = "Protocol" =>
           /\ picc'.call = "None" /\ picc'.result.kind # "Complete"
           /\ picc'.handler.number = 1
<1>1. picc \in PiccType /\ CardCalls /\ picc.state \in {"Idle", "Ready", "Active"}
  BY DEF Orderly, TypeOK, NotInSession
<1>2. CASE picc.state = "Active" /\ f.kind = "Rats"
  <2>1. HearInActive(f)
    BY <1>1, <1>2 DEF PiccHears, ReceiveFails, HearInIdle, HearInReady, HearPps, HearNoBlock,
                      HearCommandBlock, HearAcknowledgement, CardCalls
  <2>2. NewHandler("Picc", picc.handler.limits).number = 1
    BY DEF NewHandler, InitialBlockNumber
  <2> QED BY <1>1, <1>2, <2>1, <2>2, HearInActiveEffect
<1>3. CASE picc.state = "Active" => f.kind # "Rats"
  BY <1>1, <1>3, HeardOutside DEF NotInSession
<1> QED BY <1>2, <1>3

LEMMA CardHearsInStep ==
  ASSUME Orderly, InStep, CardHears
  PROVE  InStep'
<1>1. picc \in PiccType /\ CardCalls /\ toPcd \in Air /\ toPicc \in Air
  BY AirType DEF Orderly, TypeOK
<1>2. /\ toPicc # <<>> /\ PiccHears(toPicc[1]) /\ toPicc[1] \in Frame /\ toPicc' = <<>>
      /\ UNCHANGED <<scan, pcd, reader>>
  BY <1>1, AirIsSeq DEF CardHears
<1>3. PICK f \in Frame : f = toPicc[1]
  BY <1>2
<1>4. /\ PiccHears(f) /\ toPicc = <<f>>
  <2>1. \A air \in Air : air # <<>> => air = <<air[1]>>
    BY AirIsSeq DEF Air
  <2> QED BY <1>1, <1>2, <1>3, <2>1
<1>5. CardCalls' /\ OneAtATime' /\ RolesKept' /\ OneAtATime
  BY <1>1, <1>2, <1>4, CardHearsTypes, CardOrderly DEF Orderly, InStep, RolesKept
<1>6. /\ AtWork' => picc'.state = "Protocol"
      /\ AtWork => picc.state = "Protocol"
      /\ picc.call # "None"
  BY <1>1, <1>4, <1>5
     DEF CardCalls, AtWork, PiccHears, ReceiveFails, HearInIdle, HearInReady, HearInActive,
         HearPps, HearNoBlock, HearCommandBlock, HearAcknowledgement
<1>7. ASSUME picc.state # "Protocol", f.kind \notin {"Rats", "Hlta"}
      PROVE  /\ NotInSession' /\ picc'.state # "Protocol" /\ ~ AtWork'
             /\ f.kind \notin {"Anticollision", "Select"} /\ picc.state \in {"Idle", "Ready"} =>
                  picc'.state \in {"Idle", "Ready"}
             /\ toPcd' # toPcd => /\ toPcd' # <<>> /\ toPcd'[1].kind # "Block"
                                  /\ toPcd'[1].kind = "Atqa" => picc'.state \in {"Idle", "Ready"}
  BY <1>1, <1>4, <1>6, <1>7, HeardOutside DEF NotInSession
<1>8. ASSUME picc.state = "Protocol", f.kind \in {"Noise", "Pps", "Reqa", "Wupa"}
      PROVE  /\ picc'.state = "Protocol" /\ ~ AtWork' /\ picc'.call # "Respond"
             /\ picc'.handler.number = picc.handler.number
             /\ picc'.lastSent = picc.lastSent
             /\ f.kind # "Pps" => picc'.call = "None" /\ toPcd' = toPcd
             /\ toPcd' # toPcd => toPcd' # <<>> /\ toPcd'[1].kind # "Block"
  BY <1>1, <1>4, <1>8, HeardNoBlock DEF AtWork
<1>9. CASE /\ scan.phase \in {"Idle", "Request"} /\ scan.result # "Ok"
           /\ reader = "Over" /\ pcd.phase \in {"NoSession", "Idle"}
  <2>1. /\ f.kind \in {"Reqa", "Wupa", "Noise"}
        /\ toPcd # <<>> /\ toPcd[1].kind = "Atqa" => picc.state \in {"Idle", "Ready"}
        /\ pcd.phase = "Idle" /\ pcd.result = Ok => picc.state # "Protocol"
    BY <1>2, <1>3, <1>9 DEF InStep, SearchingOK
  <2>2. SearchingOK'
    BY <1>2, <1>7, <1>8, <2>1 DEF SearchingOK
  <2> QED BY <1>2, <1>5, <1>9, <2>2, OneOfInStep
<1>10. CASE scan.phase \in {"Anticollision", "Select"} \/ scan.result = "Ok"
  <2>1. /\ f.kind \in {"Anticollision", "Select", "Noise"} /\ HalfDuplex /\ NotInSession
    BY <1>2, <1>3, <1>10 DEF InStep, SelectingOK
  <2>2. SelectingOK'
    BY <1>2, <1>7, <2>1 DEF SelectingOK, NotInSession, HalfDuplex, Quiet, ReaderWaits
  <2> QED BY <1>2, <1>5, <1>10, <2>2, OneOfInStep
<1>11. CASE pcd.phase = "Idle" /\ reader # "Over"
  BY <1>2, <1>11 DEF InStep, ReadyOK, Quiet
<1>12. CASE pcd.phase = "Connecting"
  <2>1. f.kind \in {"Rats", "Noise"} /\ NotInSession /\ HalfDuplex
    BY <1>2, <1>3, <1>12 DEF InStep, ConnectingOK
  <2>2. Expects(0)'
    BY <1>4, <2>1, CardHearsRats DEF Expects, AtWork
  <2>3. ConnectingOK'
    BY <1>2, <2>1, <2>2 DEF ConnectingOK, HalfDuplex, Quiet, ReaderWaits
  <2> QED BY <1>2, <1>5, <1>12, <2>3, OneOfInStep
<1>13. CASE pcd.phase = "Pps"
  <2>1. f.kind \in {"Pps", "Noise"} /\ HalfDuplex /\ Expects(pcd.handler.number)
    BY <1>2, <1>3, <1>13 DEF InStep, PpsOK
  <2>2. Expects(pcd.handler.number)'
    BY <1>2, <1>7, <1>8, <2>1 DEF Expects
  <2>3. PpsOK'
    BY <1>2, <2>1, <2>2 DEF PpsOK, HalfDuplex, Quiet, ReaderWaits
  <2> QED BY <1>2, <1>5, <1>13, <2>3, OneOfInStep
<1>14. CASE pcd.phase = "Command"
  <2>1. /\ HalfDuplex /\ Expects(pcd.handler.number)
        /\ \/ f.kind = "Noise"
           \/ Carries(f, "I") /\ f.block.number = pcd.handler.number
    BY <1>2, <1>3, <1>14 DEF InStep, CommandOK
  <2>2. toPcd = <<>> /\ HalfDuplex'
    BY <1>2, <2>1 DEF HalfDuplex, Quiet, ReaderWaits
  <2>3. CASE picc.state # "Protocol"
    <3>1. f.kind \notin {"Rats", "Hlta"}
      BY <2>1 DEF Carries
    <3>2. CommandOK'
      BY <1>2, <1>7, <2>2, <2>3, <3>1 DEF CommandOK
    <3> QED BY <1>2, <1>5, <1>14, <3>2, OneOfInStep
  <2>4. CASE picc.state = "Protocol" /\ f.kind = "Noise"
    <3>1. CommandOK'
      BY <1>2, <1>8, <2>2, <2>4 DEF CommandOK
    <3> QED BY <1>2, <1>5, <1>14, <3>1, OneOfInStep
  <2>5. CASE picc.state = "Protocol" /\ Carries(f, "I") /\ f.block.number = pcd.handler.number
    <3>1. picc.call = "Receive" /\ f.block.number # picc.handler.number
      BY <1>1, <1>4, <2>1, <2>5, HeardBlock
         DEF Expects, Carries, HearCommandBlock, HearAcknowledgement
    <3>2. \/ /\ picc'.call = "None" /\ picc'.result.kind = "Complete" /\ toPcd' = toPcd
             /\ picc'.handler.number = f.block.number
          \/ /\ picc'.call = "Receive" /\ toPcd' = <<BlockFrame(RAck(picc'.handler))>>
             /\ picc'.handler.number = f.block.number /\ picc'.state = "Protocol"
          \/ picc'.call = "None" /\ picc'.result.kind = "Err" /\ toPcd' = toPcd
      BY <1>1, <1>4, <2>5, <3>1, CardTakesIBlock DEF InStep, RolesKept
    <3>3. CASE toPcd' = toPcd /\ picc'.call = "None"
      <4>1. AtWork' => picc'.handler.number = pcd.handler.number
        BY <2>5, <3>2 DEF AtWork
      <4>2. CommandOK'
        BY <1>2, <2>2, <3>3, <4>1 DEF CommandOK, Quiet
      <4> QED BY <1>2, <1>5, <1>14, <4>2, OneOfInStep
    <3>4. CASE /\ picc'.call = "Receive" /\ toPcd' = <<BlockFrame(RAck(picc'.handler))>>
               /\ picc'.handler.number = f.block.number /\ picc'.state = "Protocol"
      <4>1. toPcd'[1].block = RAck(picc'.handler)
        BY <3>4, FrameFields
      <4>2. RAck(picc'.handler).number = pcd.handler.number
        BY <2>5, <3>4 DEF RAck, RBlock
      <4>3. CommandOK'
        BY <1>2, <2>2, <2>5, <3>4, <4>1, <4>2 DEF CommandOK, CardHolds, AtWork
      <4> QED BY <1>2, <1>5, <1>14, <4>3, OneOfInStep
    <3> QED BY <3>2, <3>3, <3>4
  <2> QED BY <2>1, <2>3, <2>4, <2>5
<1>15. CASE pcd.phase = "Collect"
  <2>1. CollectOK /\ HalfDuplex
    BY <1>15 DEF InStep, CollectOK
  <2>2. toPcd = <<>> /\ HalfDuplex'
    BY <1>2, <2>1 DEF HalfDuplex, Quiet, ReaderWaits
  <2>3. f.kind = "Noise" \/ f = BlockFrame(RAck(pcd.handler))
    BY <1>2, <1>3, <1>15, <2>1 DEF CollectOK
  <2>4. CASE picc.state # "Protocol"
    <3>1. f.kind \notin {"Rats", "Hlta"}
      BY <2>3, FrameFields
    <3>2. CollectOK'
      BY <1>2, <1>7, <2>2, <2>4, <3>1 DEF CollectOK
    <3> QED BY <1>2, <1>5, <1>15, <3>2, OneOfInStep
  <2>5. CASE picc.state = "Protocol"
    <3>1. PICK b \in Block :
            /\ picc.lastSent = <<b>> /\ picc.lastSent[1] = b /\ RespondedWith(b)
            /\ IF picc.call = "Respond"
               THEN b.number = picc.handler.number
               ELSE ~ b.chaining =>
                      /\ b.number = picc.handler.number
                      /\ picc.handler.number = pcd.handler.number
      <4>1. /\ picc.lastSent # <<>> /\ RespondedWith(picc.lastSent[1])
            /\ IF picc.call = "Respond"
               THEN picc.lastSent[1].number = picc.handler.number
               ELSE ~ picc.lastSent[1].chaining =>
                      /\ picc.lastSent[1].number = picc.handler.number
                      /\ picc.handler.number = pcd.handler.number
        BY <1>15, <2>1, <2>5 DEF CollectOK
      <4>2. picc.lastSent[1] \in Block /\ picc.lastSent = <<picc.lastSent[1]>>
        BY <1>1, <4>1, PiccFields, OneBlock
      <4> QED BY <4>1, <4>2
    <3>2. \A c : <<c>> # <<>> /\ <<c>>[1] = c
      OBVIOUS
    <3>3. CASE f.kind = "Noise"
      <4>1. /\ picc'.state = "Protocol" /\ ~ AtWork' /\ picc'.call = "None"
            /\ picc'.handler.number = picc.handler.number
            /\ picc'.lastSent = <<b>> /\ toPcd' = <<>>
        BY <1>8, <2>2, <2>5, <3>1, <3>3
      <4>2. RespondedWith(b)'
        BY <3>1, <4>1 DEF RespondedWith
      <4>3. picc'.lastSent[1] = b /\ picc'.lastSent # <<>>
        BY <3>2, <4>1
      <4>4. ~ b.chaining => /\ b.number = picc.handler.number
                            /\ picc.handler.number = pcd.handler.number
        BY <3>1 DEF RespondedWith
      <4>5. CollectOK'
        BY <1>2, <2>2, <4>1, <4>2, <4>3, <4>4 DEF CollectOK, RespondedWith
      <4> QED BY <1>2, <1>5, <1>15, <4>5, OneOfInStep
    <3>4. CASE f = BlockFrame(RAck(pcd.handler))
      <4>1. /\ Carries(f, "R") /\ f.block.subtype = "Ack"
            /\ f.block.number = pcd.handler.number
        BY <3>4, FrameFields DEF Carries, RAck, RBlock
      <4>2. picc.call = "Respond" => picc.iblock = <<b>> /\ b.chaining
        BY <3>1 DEF RespondedWith
      <4>3. /\ picc'.state = "Protocol"
            /\ picc'.call = "None" => picc'.result.kind \in {"Ok", "Err"}
            /\ \/ Repeats(b) /\ picc.call \in {"Receive", "Respond"}
               \/ /\ picc.call = "Respond" /\ picc.handler.number # f.block.number
                  /\ \E c \in Block : GoesOnWith(c, f.block.number)
               \/ GivesUpOn(b, f.block.number)
        BY <1>1, <1>4, <2>5, <3>1, <4>1, <4>2, CardIsAcknowledged DEF InStep, RolesKept
      <4>4. ~ AtWork'
        BY <4>3 DEF AtWork
      <4>5. ASSUME NEW c \in Block, picc'.lastSent = <<c>>, c.type = "I",
                   picc'.call = "Respond" => picc'.iblock = <<c>> /\ c.chaining,
                   toPcd' = <<>> \/ (toPcd' = <<BlockFrame(c)>> /\ CardHolds'),
                   IF picc'.call = "Respond"
                   THEN c.number = picc'.handler.number
                   ELSE ~ c.chaining => /\ c.number = picc'.handler.number
                                        /\ picc'.handler.number = pcd.handler.number
            PROVE  InStep'
        <5>1. RespondedWith(c)'
          BY <4>5 DEF RespondedWith
        <5>2. picc'.lastSent[1] = c /\ picc'.lastSent # <<>>
          BY <3>2, <4>5
        <5>3. toPcd' # <<>> => CardHolds' /\ toPcd'[1].block = c
          BY <4>5, FrameFields
        <5>4. CollectOK'
          BY <1>2, <2>2, <4>3, <4>4, <4>5, <5>1, <5>2, <5>3 DEF CollectOK, RespondedWith
        <5> QED BY <1>2, <1>5, <1>15, <5>4, OneOfInStep
      <4>6. CASE Repeats(b) /\ picc.call \in {"Receive", "Respond"}
        <5>1. CardHolds'
          BY <4>3, <4>6 DEF Repeats, CardHolds
        <5> QED BY <3>1, <4>2, <4>5, <4>6, <5>1 DEF Repeats, RespondedWith
      <4>7. ASSUME NEW c \in Block, GoesOnWith(c, f.block.number)
            PROVE  InStep'
        <5>1. toPcd' = <<>> \/ (toPcd' = <<BlockFrame(c)>> /\ CardHolds')
          BY <2>2, <4>3, <4>7 DEF GoesOnWith, CardHolds
        <5>2. /\ c.type = "I" /\ c.number = f.block.number /\ picc'.lastSent = <<c>>
              /\ picc'.handler.number = f.block.number
              /\ picc'.call = "Respond" => picc'.iblock = <<c>> /\ c.chaining
          BY <4>7 DEF GoesOnWith
        <5> QED BY <4>1, <4>5, <5>1, <5>2
      <4>8. CASE GivesUpOn(b, f.block.number)
        <5>1. /\ picc'.call = "None" /\ picc'.lastSent = <<b>> /\ toPcd' = <<>>
              /\ \/ picc'.handler.number = picc.handler.number
                 \/ picc.call = "Receive" /\ picc.handler.number # f.block.number
          BY <2>2, <4>8 DEF GivesUpOn
        <5>2. ~ b.chaining => /\ b.number = picc'.handler.number
                              /\ picc'.handler.number = pcd.handler.number
          BY <3>1, <4>1, <4>2, <5>1
        <5>3. b.type = "I"
          BY <3>1 DEF RespondedWith
        <5> QED BY <4>5, <5>1, <5>2, <5>3
      <4> QED BY <4>3, <4>6, <4>7, <4>8
    <3> QED BY <2>3, <3>3, <3>4
  <2> QED BY <2>4, <2>5
<1>16. CASE pcd.phase \in {"Deselecting", "DeselectRetry"}
  <2>1. /\ HalfDuplex /\ (f.kind = "Noise" \/ f = BlockFrame(SBlock("Deselect", <<>>)))
    BY <1>2, <1>3, <1>16 DEF InStep, DeselectingOK
  <2>2. toPcd = <<>> /\ HalfDuplex'
    BY <1>2, <2>1 DEF HalfDuplex, Quiet, ReaderWaits
  <2>3. CASE picc.state # "Protocol"
    <3>1. f.kind \notin {"Rats", "Hlta"}
      BY <2>1, FrameFields
    <3>2. DeselectingOK'
      BY <1>2, <1>7, <2>2, <2>3, <3>1 DEF DeselectingOK, IsDeselectFrame
    <3> QED BY <1>2, <1>5, <1>16, <3>2, OneOfInStep
  <2>4. CASE picc.state = "Protocol" /\ f.kind = "Noise"
    <3>1. DeselectingOK'
      BY <1>2, <1>8, <2>2, <2>4 DEF DeselectingOK
    <3> QED BY <1>2, <1>5, <1>16, <3>1, OneOfInStep
  <2>5. CASE picc.state = "Protocol" /\ f = BlockFrame(SBlock("Deselect", <<>>))
    <3>1. IsDeselectFrame(f)
      BY <2>5, FrameFields DEF IsDeselectFrame, IsDeselect, SBlock
    <3>2. /\ picc'.call = "None" /\ picc'.result.kind = "Err"
          /\ \/ picc'.state = "Halted"
             \/ picc'.state = "Protocol" /\ toPcd' = toPcd
      BY <1>1, <1>4, <2>5, <3>1, CardDeselects DEF InStep, RolesKept
    <3>3. DeselectingOK'
      BY <1>2, <2>2, <3>2 DEF DeselectingOK, AtWork
    <3> QED BY <1>2, <1>5, <1>16, <3>3, OneOfInStep
  <2> QED BY <2>1, <2>3, <2>4, <2>5
<1> QED BY <1>9, <1>10, <1>11, <1>12, <1>13, <1>14, <1>15, <1>16, ReaderStates
-----------------------------------------------------------------------------
(* The reader hears a frame, or nothing.                                   *)

\* What the reader hears: a frame of the card, or silence while the card waits
\* or its application is at work.
HeardOnAir(f) ==
    /\ toPcd' = <<>>
    /\ \/ toPcd # <<>> /\ f = toPcd[1]
       \/ /\ toPcd = <<>> /\ f.kind = "Silence"
          /\ toPicc = <<>> \/ AtWork

\* Once the card is found the reader never hears a frame while its own is still
\* on the way.
LEMMA NothingUnderWay ==
  ASSUME Orderly, InStep, NEW f \in Frame, HeardOnAir(f),
         \/ scan.phase \in {"Anticollision", "Select"}
         \/ pcd.phase \in PcdWaiting
  PROVE  toPicc = <<>>
<1>1. CASE toPcd # <<>>
  <2>1. HalfDuplex
    BY DEF InStep, SelectingOK, ConnectingOK, PpsOK, CommandOK, CollectOK, DeselectingOK,
           PcdWaiting
  <2> QED BY <1>1, <2>1 DEF HalfDuplex
<1>2. CASE AtWork
  <2>1. picc.state = "Protocol"
    BY <1>2, AtWorkInSession
  <2> QED BY <1>2, <2>1
          DEF InStep, SelectingOK, ConnectingOK, PpsOK, CommandOK, CollectOK, DeselectingOK,
              PcdWaiting, Expects, NotInSession, Quiet
<1> QED BY <1>1, <1>2 DEF HeardOnAir

LEMMA ActivationHearsInStep ==
  ASSUME Orderly, InStep, OneAtATime', NEW f \in Frame, ActivationHears(f), HeardOnAir(f)
  PROVE  InStep'
<1>1. /\ scan \in Scan!ScanType /\ PartsPerLevel /\ OneAtATime
      /\ UNCHANGED <<pcd, picc, reader>> /\ toPcd' = <<>>
  BY DEF Orderly, TypeOK, ActivationHears, HeardOnAir
<1>2. /\ scan.phase \in Scan!ScanWaiting
      /\ \/ ScanGoesOn /\ (scan.phase = "Request" => f.kind = "Atqa")
         \/ /\ scan'.phase = "Idle" /\ toPicc' = toPicc
            /\ \/ scan'.result = "Ok" /\ scan.phase = "Select"
               \/ scan'.result = "Err"
  BY <1>1, ScanHearsEffect DEF ActivationHears
<1>3. scan.result = "None" /\ reader = "Over" /\ pcd.phase = "NoSession"
  BY <1>1, <1>2 DEF OneAtATime, Scan!ScanWaiting
<1>4. RolesKept'
  BY <1>1 DEF InStep, RolesKept
<1>5. CASE ScanGoesOn /\ (scan.phase = "Request" => f.kind = "Atqa")
  <2>1. NotInSession
    <3>1. CASE scan.phase = "Request"
      <4>1. toPcd # <<>> /\ toPcd[1].kind = "Atqa"
        BY <1>5, <3>1 DEF HeardOnAir
      <4> QED BY <1>3, <3>1, <4>1 DEF InStep, SearchingOK, NotInSession
    <3>2. CASE scan.phase \in {"Anticollision", "Select"}
      BY <3>2 DEF InStep, SelectingOK
    <3> QED BY <1>2, <3>1, <3>2 DEF Scan!ScanWaiting
  <2>2. SelectingOK'
    BY <1>1, <1>5, <2>1
       DEF SelectingOK, ScanGoesOn, HalfDuplex, Quiet, ReaderWaits, NotInSession
  <2> QED BY <1>4, <1>5, <2>2, OneOfInStep DEF ScanGoesOn
<1>6. CASE scan'.phase = "Idle" /\ toPicc' = toPicc /\ scan'.result = "Ok" /\ scan.phase = "Select"
  <2>1. toPicc = <<>> /\ NotInSession
    BY <1>6, NothingUnderWay DEF InStep, SelectingOK
  <2>2. SelectingOK'
    BY <1>1, <1>6, <2>1 DEF SelectingOK, HalfDuplex, Quiet, NotInSession
  <2> QED BY <1>4, <1>6, <2>2, OneOfInStep
<1>7. CASE scan'.phase = "Idle" /\ toPicc' = toPicc /\ scan'.result = "Err"
  <2>1. CASE scan.phase = "Request"
    <3>1. SearchingOK'
      BY <1>1, <1>3, <1>7, <2>1 DEF InStep, SearchingOK
    <3> QED BY <1>1, <1>3, <1>4, <1>7, <3>1, OneOfInStep
  <2>2. CASE scan.phase # "Request"
    <3>1. toPicc = <<>>
      BY <1>2, <2>2, NothingUnderWay DEF Scan!ScanWaiting
    <3> QED BY <1>1, <1>3, <1>4, <1>7, <3>1, SessionOver
  <2> QED BY <2>1, <2>2
<1> QED BY <1>2, <1>5, <1>6, <1>7

\* The session is back with the reader's application, which goes on or not.
LEMMA SessionReturns ==
  ASSUME Orderly, InStep, OneAtATime', NEW f \in Frame, SessionHears(f), HeardOnAir(f),
         ~ GoesOnAfterError
  PROVE  /\ pcd \in PcdType /\ pcd.phase \in PcdWaiting /\ picc \in PiccType
         /\ toPicc = <<>> /\ toPcd' = <<>> /\ picc' = picc /\ RolesKept' /\ PcdHears(f)
         /\ pcd.handler \in Handler /\ pcd.handler.role = "Pcd"
         /\ pcd.handler.number \in Bit
         /\ pcd'.phase \in {"NoSession", "Idle"} /\ pcd'.result.kind = "Err" => InStep'
         /\ pcd'.phase = "Idle" /\ pcd'.result.kind # "Err" => reader' = reader
         /\ pcd.phase \in {"Pps", "Command", "Collect"} => reader = "Running"
         /\ pcd.phase = "Connecting" => reader = "New"
<1>1. /\ pcd \in PcdType /\ picc \in PiccType /\ OneAtATime /\ PcdHears(f)
      /\ UNCHANGED <<picc, scan>> /\ toPcd' = <<>>
  BY DEF Orderly, TypeOK, SessionHears, HeardOnAir
<1>2. /\ pcd.handler \in Handler /\ pcd.handler.role = "Pcd" /\ picc.handler.role = "Picc"
  BY <1>1, PcdFields DEF InStep, RolesKept
<1>3. /\ pcd.phase \in PcdWaiting /\ pcd'.handler.role = "Pcd"
      /\ \/ pcd'.phase \in {"NoSession", "Idle"} /\ toPicc' = toPicc
         \/ pcd'.phase \in PcdWaiting
  BY <1>1, <1>2, PcdHearsEffect DEF PcdWaiting
<1>4. toPicc = <<>> /\ RolesKept'
  BY <1>1, <1>2, <1>3, NothingUnderWay DEF RolesKept
<1>5. /\ reader' = IF \/ pcd'.phase = "NoSession"
                      \/ pcd'.result.kind = "Err"
                   THEN "Over" ELSE reader
  BY DEF SessionHears
<1>6. /\ scan.phase = "Idle" /\ scan.result # "Ok"
      /\ pcd.phase \in {"Pps", "Command", "Collect"} => reader = "Running"
      /\ pcd.phase = "Connecting" => reader = "New"
  BY <1>1, <1>3 DEF OneAtATime, PcdWaiting
<1>7. ASSUME pcd'.phase \in {"NoSession", "Idle"}, pcd'.result.kind = "Err"
      PROVE  InStep'
  <2>1. toPicc' = <<>>
    BY <1>3, <1>4, <1>7 DEF PcdWaiting
  <2>2. pcd'.result # Ok
    BY <1>7, OutcomeKinds
  <2> QED BY <1>1, <1>4, <1>5, <1>6, <1>7, <2>1, <2>2, SessionOver
<1>8. pcd.handler.number \in Bit
  BY <1>2, HandlerFields
<1> QED BY <1>1, <1>2, <1>3, <1>4, <1>5, <1>6, <1>7, <1>8

\* A block of the response, or the R(ACK) of the card.
LEMMA CollectsInStep ==
  ASSUME Orderly, InStep, OneAtATime', NEW f \in Frame, SessionHears(f), HeardOnAir(f),
         ~ GoesOnAfterError,
         NEW b \in Block, CollectBlock(b), CardHolds,
         pcd.phase \in {"Command", "Collect"},
         \/ b.type = "R" /\ b.subtype = "Ack"
         \/ /\ RespondedWith(b)
            /\ IF picc.call = "Respond"
               THEN b.number = picc.handler.number
               ELSE ~ b.chaining => /\ b.number = picc.handler.number
                                    /\ picc.handler.number = pcd.handler.number
  PROVE  InStep'
<1> DEFINE step == ProcessReceived(pcd.handler, b)
<1>1. /\ pcd \in PcdType /\ toPicc = <<>> /\ toPcd' = <<>> /\ picc' = picc /\ RolesKept'
      /\ pcd.handler \in Handler /\ pcd.handler.role = "Pcd"
      /\ pcd.handler.number \in Bit
      /\ pcd'.phase = "Idle" /\ pcd'.result.kind = "Err" => InStep'
      /\ pcd'.phase = "Idle" /\ pcd'.result.kind # "Err" => reader' = "Running"
  BY SessionReturns
<1>2. /\ \/ /\ PcdReturned(step.handler)
            /\ \/ step.outcome.kind = "Complete" /\ pcd'.result = step.outcome
               \/ pcd'.result.kind = "Err"
         \/ /\ step.outcome.kind = "Reply"
            /\ pcd'.phase = "Collect" /\ pcd'.handler = step.handler
            /\ toPicc' = <<BlockFrame(step.outcome.block)>>
  BY <1>1, CollectBlockEffect
<1>3. ~ AtWork
  BY OutcomeKinds DEF CardHolds, AtWork
<1>4. CASE b.type = "R" /\ b.subtype = "Ack"
  <2>1. step.outcome.kind \in {"ChainingAck", "ChainingRetransmit", "Err"}
    BY <1>1, <1>4, ReceivedAck
  <2> QED BY <1>1, <1>2, <2>1 DEF PcdReturned
<1>5. CASE /\ RespondedWith(b)
           /\ IF picc.call = "Respond"
              THEN b.number = picc.handler.number
              ELSE ~ b.chaining => /\ b.number = picc.handler.number
                                   /\ picc.handler.number = pcd.handler.number
  <2>1. /\ b.type = "I" /\ picc.lastSent = <<b>> /\ picc.lastSent[1] = b
        /\ picc.lastSent # <<>>
        /\ picc.call = "Respond" => b.chaining
    BY <1>5, OneBlock DEF RespondedWith
  <2>2. /\ step.outcome.kind = "Complete" =>
              /\ ~ b.chaining /\ step.handler.number = 1 - pcd.handler.number
        /\ step.outcome.kind = "Reply" =>
              /\ step.outcome.block = RAck(step.handler)
              /\ \/ step.handler.number = pcd.handler.number
                 \/ b.chaining
    BY <1>1, <2>1, ReceivedIBlock
  <2> HIDE DEF step
  <2>3. CASE pcd'.result.kind = "Err" /\ PcdReturned(step.handler)
    BY <1>1, <2>3 DEF PcdReturned
  <2>4. CASE /\ PcdReturned(step.handler)
             /\ step.outcome.kind = "Complete" /\ pcd'.result = step.outcome
    <3>1. /\ pcd'.handler.number = 1 - pcd.handler.number /\ picc.call # "Respond"
          /\ picc.handler.number = pcd.handler.number
          /\ pcd'.phase = "Idle" /\ toPicc' = <<>>
      BY <1>1, <1>5, <2>1, <2>2, <2>4 DEF PcdReturned
    <3>2. picc.handler.number # pcd'.handler.number
      BY <1>1, <3>1 DEF Bit
    <3>3. ReadyOK'
      BY <1>1, <1>3, <3>1, <3>2 DEF ReadyOK, Quiet, Expects, AtWork
    <3>4. reader' # "Over"
      BY <1>1, <2>4, <3>1
    <3> QED BY <1>1, <3>1, <3>3, <3>4, OneOfInStep
  <2>5. CASE /\ step.outcome.kind = "Reply"
             /\ pcd'.phase = "Collect" /\ pcd'.handler = step.handler
             /\ toPicc' = <<BlockFrame(step.outcome.block)>>
    <3>1. toPicc' # <<>> /\ toPicc'[1] = BlockFrame(RAck(pcd'.handler))
      BY <2>2, <2>5
    <3>2. HalfDuplex' /\ ~ AtWork'
      BY <1>1, <1>3, <2>5 DEF HalfDuplex, ReaderWaits, PcdWaiting, AtWork
    <3>3. IF picc.call = "Respond"
          THEN b.number = picc.handler.number
          ELSE ~ b.chaining => /\ b.number = picc.handler.number
                               /\ picc.handler.number = pcd'.handler.number
      BY <1>5, <2>2, <2>5
    <3>4. RespondedWith(b)'
      BY <1>1, <1>5 DEF RespondedWith
    <3>5. CollectOK'
      BY <1>1, <2>1, <2>5, <3>1, <3>2, <3>3, <3>4 DEF CollectOK
    <3> QED BY <1>1, <2>5, <3>5, OneOfInStep
  <2> QED BY <1>2, <2>3, <2>4, <2>5
<1> QED BY <1>4, <1>5

LEMMA SessionHearsInStep ==
  ASSUME Orderly, InStep, OneAtATime', NEW f \in Frame, SessionHears(f), HeardOnAir(f),
         ~ GoesOnAfterError
  PROVE  InStep'
<1> USE PcdAssumption
<1>1. /\ pcd \in PcdType /\ toPicc = <<>> /\ toPcd' = <<>> /\ picc' = picc /\ RolesKept'
      /\ pcd.handler \in Handler /\ pcd.handler.role = "Pcd"
      /\ pcd.handler.number \in Bit
      /\ pcd'.phase \in {"NoSession", "Idle"} /\ pcd'.result.kind = "Err" => InStep'
      /\ pcd'.phase = "Idle" /\ pcd'.result.kind # "Err" => reader' = reader
      /\ pcd.phase \in {"Pps", "Command", "Collect"} => reader = "Running"
      /\ pcd.phase = "Connecting" => reader = "New"
      /\ PcdHears(f)
  BY SessionReturns
<1>2. Ok.kind = "Ok"
  BY OutcomeKinds
<1>3. f.kind = "Block" => /\ toPcd # <<>> /\ f = toPcd[1] /\ f.block \in Block
  BY BlockOfFrame DEF HeardOnAir
<1>4. CASE ConnectAnswered(f)
  <2>1. /\ pcd.phase = "Connecting" /\ toPicc' = <<>>
        /\ \/ /\ pcd'.phase = "Idle" /\ pcd'.result = Ok
              /\ pcd'.handler.number = 0
           \/ pcd'.phase = "NoSession"
    <3>1. NewHandler("Pcd", PcdLimits).number = 0
      BY DEF NewHandler, InitialBlockNumber
    <3> QED BY <1>1, <1>4, <3>1, ConnectAnsweredEffect
  <2>2. CASE pcd'.phase = "Idle" /\ pcd'.result = Ok /\ pcd'.handler.number = 0
    <3>1. ReadyOK'
      BY <1>1, <2>1, <2>2 DEF InStep, ConnectingOK, ReadyOK, Quiet, Expects, AtWork
    <3> QED BY <1>1, <1>2, <2>1, <2>2, <3>1, OneOfInStep
  <2>3. CASE pcd'.phase = "NoSession"
    <3>1. reader' = "Over" /\ scan'.phase = "Idle" /\ scan'.result # "Ok"
      BY <2>1, <2>3 DEF SessionHears, Orderly, OneAtATime
    <3> QED BY <1>1, <2>1, <2>3, <3>1, SessionOver
  <2> QED BY <2>1, <2>2, <2>3
<1>5. CASE PpsAnswered(f)
  <2>1. PcdReturned(pcd.handler) /\ pcd.phase = "Pps" /\ pcd'.result.kind \in {"Ok", "Err"}
    BY <1>1, <1>5, PpsAnsweredEffect
  <2>2. CASE pcd'.result.kind = "Ok"
    <3>1. ReadyOK'
      BY <1>1, <2>1 DEF PcdReturned, InStep, PpsOK, ReadyOK, Quiet, Expects, AtWork
    <3> QED BY <1>1, <2>1, <2>2, <3>1, OneOfInStep DEF PcdReturned
  <2> QED BY <1>1, <2>1, <2>2 DEF PcdReturned
<1>6. CASE CommandUnanswered(f)
  BY <1>1, <1>6, CommandUnansweredEffect DEF PcdReturned
<1>7. ASSUME pcd.phase = "Command", f.kind = "Block"
      PROVE  /\ CardHolds /\ ~ AtWork
             /\ picc.handler.number = pcd.handler.number
             /\ f.block.number = pcd.handler.number
             /\ \/ /\ f.block.type = "R" /\ f.block.subtype = "Ack"
                   /\ picc.call = "Receive"
                \/ RespondedWith(f.block)
  <2>1. /\ CardHolds
        /\ picc.handler.number = pcd.handler.number
        /\ f.block.number = pcd.handler.number
        /\ \/ f.block = RAck(picc.handler) /\ picc.call = "Receive"
           \/ RespondedWith(f.block)
    BY <1>3, <1>7 DEF InStep, CommandOK
  <2>2. ~ AtWork
    BY <1>2, <2>1 DEF CardHolds, AtWork
  <2> QED BY <2>1, <2>2 DEF RAck, RBlock
<1>8. CASE ChunkAnswered(f)
  <2> DEFINE step == ProcessReceived(pcd.handler, f.block)
  <2>1. f.kind = "Block"
    BY <1>8 DEF ChunkAnswered
  <2>2. /\ pcd.phase = "Command"
        /\ \/ PcdReturned(step.handler) /\ pcd'.result.kind = "Err"
           \/ /\ pcd'.phase = "Command" /\ pcd'.handler = step.handler
              /\ toPicc' # <<>> /\ Carries(toPicc'[1], "I")
              /\ toPicc'[1].block.number = step.handler.number
              /\ step.outcome.kind \in {"ChainingAck", "ChainingRetransmit"}
    BY <1>1, <1>8, ChunkAnsweredEffect
  <2>3. CASE /\ pcd'.phase = "Command" /\ pcd'.handler = step.handler
             /\ toPicc' # <<>> /\ Carries(toPicc'[1], "I")
             /\ toPicc'[1].block.number = step.handler.number
             /\ step.outcome.kind \in {"ChainingAck", "ChainingRetransmit"}
    <3>1. /\ ~ AtWork /\ picc.handler.number = pcd.handler.number
          /\ f.block.number = pcd.handler.number
          /\ \/ /\ f.block.type = "R" /\ f.block.subtype = "Ack"
                /\ picc.call = "Receive"
             \/ RespondedWith(f.block)
      BY <1>7, <2>1, <2>2
    <3>2. f.block.type # "I"
      BY <1>1, <1>3, <2>1, <2>3, ReceivedIBlock
    <3>3. f.block.type = "R" /\ f.block.subtype = "Ack" /\ picc.call = "Receive"
      BY <3>1, <3>2 DEF RespondedWith
    <3>4. step.handler.number = 1 - pcd.handler.number
      BY <1>1, <1>3, <2>1, <2>3, <3>1, <3>3, ReceivedAck
    <3> HIDE DEF step
    <3>5. picc.handler.number # pcd'.handler.number
      BY <1>1, <2>3, <3>1, <3>4 DEF Bit
    <3>6. Expects(pcd.handler.number)'
      BY <1>1, <3>1, <3>3, <3>5 DEF Expects, AtWork
    <3>7. HalfDuplex' /\ ~ AtWork'
      BY <1>1, <2>3, <3>1 DEF HalfDuplex, ReaderWaits, PcdWaiting, AtWork
    <3>8. CommandOK'
      BY <1>1, <2>3, <3>6, <3>7 DEF CommandOK
    <3> QED BY <1>1, <2>3, <3>8, OneOfInStep
  <2> QED BY <1>1, <2>2, <2>3 DEF PcdReturned
<1>9. CASE LastChunkAnswered(f)
  <2>1. pcd.phase = "Command" /\ f.kind = "Block" /\ CollectBlock(f.block)
    BY <1>9 DEF LastChunkAnswered
  <2>2. PICK b \in Block : b = f.block
    BY <1>3, <2>1
  <2>3. /\ CardHolds /\ CollectBlock(b)
        /\ \/ b.type = "R" /\ b.subtype = "Ack"
           \/ /\ RespondedWith(b)
              /\ IF picc.call = "Respond"
                 THEN b.number = picc.handler.number
                 ELSE ~ b.chaining => /\ b.number = picc.handler.number
                                      /\ picc.handler.number = pcd.handler.number
    BY <1>7, <2>1, <2>2
  <2> QED BY <2>1, <2>3, CollectsInStep
<1>10. CASE ReplyAnswered(f)
  <2>1. pcd.phase = "Collect" /\ f.kind = "Block" /\ CollectBlock(f.block)
    BY <1>10 DEF ReplyAnswered
  <2>2. PICK b \in Block : b = f.block
    BY <1>3, <2>1
  <2>3. CardHolds /\ picc.state = "Protocol" /\ picc.lastSent = <<b>> /\ picc.lastSent[1] = b
    BY <1>3, <2>1, <2>2, OneBlock DEF InStep, CollectOK, CardHolds
  <2>4. /\ RespondedWith(b)
        /\ IF picc.call = "Respond"
           THEN b.number = picc.handler.number
           ELSE ~ b.chaining => /\ b.number = picc.handler.number
                                /\ picc.handler.number = pcd.handler.number
    BY <2>1, <2>3 DEF InStep, CollectOK
  <2> QED BY <2>1, <2>2, <2>3, <2>4, CollectsInStep
<1>11. CASE ReplyUnanswered(f)
  <2>1. /\ pcd.phase = "Collect"
        /\ \/ PcdReturned(pcd.handler) /\ pcd'.result.kind = "Err"
           \/ /\ pcd'.phase = "Collect" /\ pcd'.handler = pcd.handler
              /\ toPicc' = <<BlockFrame(RAck(pcd.handler))>>
    BY <1>1, <1>11, ReplyUnansweredEffect
  <2>2. CASE /\ pcd'.phase = "Collect" /\ pcd'.handler = pcd.handler
             /\ toPicc' = <<BlockFrame(RAck(pcd.handler))>>
    <3>1. toPicc'[1] = BlockFrame(RAck(pcd'.handler))
      BY <2>2
    <3>2. HalfDuplex' /\ ~ AtWork'
      BY <1>1, <2>1, <2>2 DEF InStep, CollectOK, HalfDuplex, ReaderWaits, PcdWaiting, AtWork
    <3>3. CollectOK'
      BY <1>1, <2>1, <2>2, <3>1, <3>2 DEF InStep, CollectOK, RespondedWith
    <3> QED BY <1>1, <2>2, <3>3, OneOfInStep
  <2> QED BY <1>1, <2>1, <2>2 DEF PcdReturned
<1>12. CASE DeselectAnswered(f)
  <2>1. /\ pcd.phase \in {"Deselecting", "DeselectRetry"}
        /\ \/ PcdReturned(pcd.handler) /\ IsDeselectFrame(f) /\ pcd'.result = Ok
           \/ PcdReturned(pcd.handler) /\ pcd'.result.kind = "Err"
           \/ /\ pcd'.phase = "DeselectRetry"
              /\ toPicc' = <<BlockFrame(SBlock("Deselect", <<>>))>>
    BY <1>1, <1>12, DeselectAnsweredEffect
  <2>2. CASE PcdReturned(pcd.handler) /\ IsDeselectFrame(f) /\ pcd'.result = Ok
    <3>1. picc.state # "Protocol"
      BY <1>3, <2>1, <2>2 DEF IsDeselectFrame, InStep, DeselectingOK
    <3>2. reader' = "Over" /\ scan'.phase = "Idle" /\ scan'.result # "Ok"
      BY <1>1, <1>2, <2>1, <2>2 DEF PcdReturned, SessionHears, Orderly, OneAtATime
    <3> QED BY <1>1, <2>2, <3>1, <3>2, SessionOver DEF PcdReturned
  <2>3. CASE /\ pcd'.phase = "DeselectRetry"
             /\ toPicc' = <<BlockFrame(SBlock("Deselect", <<>>))>>
    <3>1. DeselectingOK'
      BY <1>1, <2>1, <2>3
         DEF InStep, DeselectingOK, HalfDuplex, ReaderWaits, PcdWaiting, AtWork
    <3> QED BY <1>1, <2>3, <3>1, OneOfInStep
  <2> QED BY <1>1, <2>1, <2>2, <2>3 DEF PcdReturned
<1> QED BY <1>1, <1>4, <1>5, <1>6, <1>8, <1>9, <1>10, <1>11, <1>12 DEF PcdHears

LEMMA ReaderHearsInStep ==
  ASSUME Orderly, InStep, ~ GoesOnAfterError, ReaderHearsFrame \/ TimesOut \/ GivesUp
  PROVE  InStep'
<1>1. OneAtATime'
  BY HearsOrderly DEF Orderly
<1>2. Plain("Silence") \in Frame /\ Plain("Silence").kind = "Silence"
  BY FrameTypes, FrameFields DEF FrameKind
<1>3. toPcd # <<>> => toPcd[1] \in Frame
  BY AirType, AirIsSeq DEF Orderly, TypeOK
<1>4. PICK f \in Frame : ReaderHears(f) /\ HeardOnAir(f)
  BY <1>2, <1>3 DEF ReaderHearsFrame, TimesOut, GivesUp, HeardOnAir, AtWork
<1> QED BY <1>1, <1>4, SessionHearsInStep, ActivationHearsInStep DEF ReaderHears
-----------------------------------------------------------------------------
(* The air loses or garbles a frame.                                       *)

LEMMA DisturbInStep ==
  ASSUME Orderly, InStep, Disturb
  PROVE  InStep'
<1>1. UNCHANGED <<scan, pcd, picc, reader>>
  BY DEF Disturb
<1>2. \/ /\ toPicc # <<>> /\ toPicc' \in {<<>>, <<Plain("Noise")>>} /\ toPcd' = toPcd
      \/ /\ toPcd # <<>> /\ toPcd' \in {<<>>, <<Plain("Noise")>>} /\ toPicc' = toPicc
  BY DEF Disturb
<1>3. Plain("Noise").kind = "Noise"
  BY FrameFields
<1>4. /\ toPicc' # <<>> => toPicc # <<>> /\ (toPicc' = toPicc \/ toPicc'[1].kind = "Noise")
      /\ toPcd' # <<>> => toPcd # <<>> /\ (toPcd' = toPcd \/ toPcd'[1].kind = "Noise")
  BY <1>2, <1>3
<1>5. HalfDuplex => HalfDuplex'
  BY <1>1, <1>2, <1>4 DEF HalfDuplex, Quiet, ReaderWaits
<1>6. Quiet => Quiet'
  BY <1>4 DEF Quiet
<1>7. RolesKept' /\ SearchingOK'
  BY <1>1, <1>4 DEF InStep, RolesKept, SearchingOK
<1>8. SelectingOK' /\ ConnectingOK' /\ ReadyOK' /\ PpsOK'
  BY <1>1, <1>4, <1>5, <1>6
     DEF InStep, SelectingOK, ConnectingOK, ReadyOK, PpsOK, Expects, NotInSession, AtWork
<1>9. CommandOK'
  BY <1>1, <1>4, <1>5, <1>6
     DEF InStep, CommandOK, Expects, CardHolds, RespondedWith, AtWork
<1>10. CollectOK'
  BY <1>1, <1>4, <1>5 DEF InStep, CollectOK, CardHolds, RespondedWith, AtWork
<1>11. DeselectingOK'
  BY <1>1, <1>4, <1>5 DEF InStep, DeselectingOK, AtWork, IsDeselectFrame
<1> QED BY <1>7, <1>8, <1>9, <1>10, <1>11 DEF InStep

LEMMA NextInStep ==
  ASSUME ~ GoesOnAfterError
  PROVE  Orderly /\ InStep /\ [Next]_vars => InStep'
<1> SUFFICES ASSUME Orderly, InStep, [Next]_vars PROVE InStep'
  OBVIOUS
<1>1. CASE UNCHANGED vars
  BY <1>1 DEF vars, InStep, RolesKept, SearchingOK, SelectingOK, ConnectingOK, ReadyOK, PpsOK,
     CommandOK, CollectOK, DeselectingOK, HalfDuplex, Quiet, ReaderWaits, AtWork, Expects,
     NotInSession, CardHolds, RespondedWith
<1>2. CASE Next
  BY <1>2, PollInStep, CallInStep, CardRunsInStep, CardHearsInStep, ReaderHearsInStep,
     DisturbInStep DEF Next, Progress
<1> QED BY <1>1, <1>2

LEMMA InStepAlways ==
  ASSUME ~ GoesOnAfterError
  PROVE  Spec => [](Orderly /\ InStep)
<1>1. Orderly /\ InStep /\ [Next]_vars => (Orderly /\ InStep)'
  BY NextOrderly, NextInStep
<1> QED BY <1>1, InitOrderly, InitInStep, PTL DEF Spec

-----------------------------------------------------------------------------

\* When the reader's application has the session and the card waits for a block
\* they agree on the number of the next one, after any number of lost and
\* garbled frames, late answers and earlier sessions, if the reader gives a
\* session up once an exchange of it failed.
THEOREM NumbersAgreeAlways ==
  ASSUME ~ GoesOnAfterError
  PROVE  Spec => []NumbersAgree
<1>1. Orderly /\ InStep => NumbersAgree
  <2> SUFFICES ASSUME Orderly, InStep, reader # "Over", pcd.phase = "Idle",
                      picc.call = "Receive"
               PROVE  pcd.handler.number # picc.handler.number
    BY DEF NumbersAgree
  <2>1. Expects(pcd.handler.number)
    BY DEF InStep, ReadyOK
  <2>2. picc.state = "Protocol"
    BY DEF Orderly, CardCalls
  <2> QED BY <2>1, <2>2 DEF Expects
<1> QED BY <1>1, InStepAlways, PTL

\* deselect() reports success only when the card has left the protocol, even
\* where the first request or its echo was lost and the retry was answered, or
\* where the answer comes late.
THEOREM DeselectAgreedAlways ==
  ASSUME ~ GoesOnAfterError
  PROVE  Spec => []DeselectAgreed
<1>1. Orderly /\ InStep => DeselectAgreed
  <2> SUFFICES ASSUME Orderly, InStep, reader = "Over", pcd.phase = "Idle", pcd.result = Ok
               PROVE  picc.state # "Protocol"
    BY DEF DeselectAgreed
  <2>1. scan.phase = "Idle" /\ scan.result # "Ok"
    BY DEF Orderly, OneAtATime
  <2> QED BY <2>1 DEF InStep, SearchingOK
<1> QED BY <1>1, InStepAlways, PTL
-----------------------------------------------------------------------------
(* The bytes of the exchange, and the channel.                             *)

ChannelStep == [Channel!Next]_(Channel!vars)

\* The channel does not move while the applications are told nothing.
LEMMA ChannelStutters ==
  ASSUME Stage' = Stage, UNCHANGED asked
  PROVE  ChannelStep
BY DEF ChannelStep, Channel!vars, asked

LEMMA OutsideExchange ==
  ASSUME pcd'.phase \notin {"Command", "Collect"}, FreshOK'
  PROVE  Whole'
BY DEF Whole, CommandWhole, CollectWhole

LEMMA ResponseType ==
  ASSUME NEW c \in Seq(Byte)
  PROVE  ResponseTo(c) \in Seq(Byte)
<1>1. <<144>> \in Seq(Byte)
  BY DEF Byte
<1> QED BY <1>1, ConcatProperties DEF ResponseTo

LEMMA NothingYet == \A s \in Seq(Byte) : SubSeq(s, 1, 0) = <<>>
BY SubSeqEmpty

LEMMA InitWhole == Init => Whole /\ Channel!Init
<1> SUFFICES ASSUME Init PROVE Whole /\ Channel!Init
  OBVIOUS
<1>1. pcd.phase = "NoSession" /\ reader = "Over"
  BY DEF Init, PcdInit
<1>2. Whole
  BY <1>1 DEF Whole, FreshOK, CommandWhole, CollectWhole
<1>3. Channel!Init
  BY <1>1 DEF Init, Channel!Init, Stage, Exchanging
<1> QED BY <1>2, <1>3

LEMMA PollWhole ==
  ASSUME Orderly, Poll
  PROVE  Whole' /\ ChannelStep
<1>1. pcd'.phase = "NoSession"
  BY DropSessionEffect DEF Poll, Orderly, TypeOK
<1>2. /\ UNCHANGED asked /\ reader = "Over" /\ reader' = reader
      /\ pcd.phase \in {"NoSession", "Idle"}
  BY DEF Poll, history
<1>3. Whole'
  BY <1>1, OutsideExchange DEF FreshOK
<1>4. Stage' = Stage
  BY <1>1, <1>2 DEF Stage, Exchanging
<1> QED BY <1>2, <1>3, <1>4, ChannelStutters

\* exchange() submits a command, deselect() closes the session.
LEMMA CallWhole ==
  ASSUME Orderly, InStep, Whole, PcdMaxInf # 0,
         OpenSession \/ ChangeBitRate \/ CloseSession \/ \E c \in Commands : Ask(c)
  PROVE  Whole' /\ ChannelStep
<1> USE PcdAssumption
<1>1. pcd \in PcdType /\ picc \in PiccType /\ CardCalls
  BY DEF Orderly, TypeOK
<1>2. CASE OpenSession
  <2>1. /\ pcd'.phase = "Connecting" /\ pcd.phase = "NoSession" /\ UNCHANGED <<picc, asked>>
        /\ scan.result = "Ok"
    BY <1>1, <1>2, ConnectEffect DEF OpenSession, Orderly, OneAtATime
  <2>2. picc.call # "Receive"
    BY <1>1, <2>1 DEF InStep, SelectingOK, NotInSession, CardCalls
  <2>3. Whole'
    BY <2>1, <2>2, OutsideExchange DEF FreshOK, Fresh
  <2>4. Stage' = Stage
    BY <2>1 DEF Stage, Exchanging
  <2> QED BY <2>1, <2>3, <2>4, ChannelStutters
<1>3. CASE PcdReady
  <2>1. /\ pcd.phase = "Idle" /\ reader # "Over" /\ Quiet /\ Expects(pcd.handler.number)
        /\ Fresh /\ Stage = "Ready"
    BY <1>3 DEF PcdReady, InStep, ReadyOK, Whole, FreshOK, Stage, Exchanging
  <2>2. CASE ChangeBitRate
    <3>1. pcd'.phase = "Pps" /\ UNCHANGED <<picc, asked>> /\ reader' = "Running"
      BY <1>1, <2>2, NegotiatePpsEffect DEF ChangeBitRate, history
    <3>2. Whole'
      BY <2>1, <3>1, OutsideExchange DEF FreshOK, Fresh
    <3>3. Stage' = Stage
      BY <2>1, <3>1 DEF Stage, Exchanging
    <3> QED BY <3>1, <3>2, <3>3, ChannelStutters
  <2>3. CASE CloseSession
    <3>1. pcd'.phase = "Deselecting" /\ UNCHANGED asked /\ reader' = "Over"
      BY <1>1, <2>3, DeselectEffect DEF CloseSession, history
    <3>2. Whole'
      BY <3>1, OutsideExchange DEF FreshOK
    <3>3. Stage' = "Closed"
      BY <3>1 DEF Stage, Exchanging
    <3>4. Channel!Close
      BY <2>1, <3>1, <3>3 DEF Channel!Close, asked
    <3> QED BY <3>2, <3>4 DEF ChannelStep, Channel!Next
  <2>4. ASSUME NEW c \in Commands, Ask(c)
        PROVE  Whole' /\ ChannelStep
    <3>1. c \in Seq(Byte) /\ c # <<>> /\ Len(c) \in Nat
      BY LinkAssumption, LenProperties
    <3>2. Exchange(c) /\ UNCHANGED <<picc, toPcd>>
      BY <2>4 DEF Ask
    <3>3. /\ pcd'.phase = "Command" /\ pcd'.offset = 0 /\ pcd'.apdu = c
          /\ pcd'.handler = BeginExchange(pcd.handler)
          /\ toPicc'[1].block = Chunk(BeginExchange(pcd.handler).number, c, 0, PcdMaxInf)
          /\ pcd'.result = Ok
      BY <1>1, <3>1, <3>2, ExchangeEffect
    <3>4. pcd'.handler.chain = <<>>
      BY <1>1, <3>3, PcdFields, SessionStartFields
    <3>5. command' = c /\ executed' = <<>> /\ answer' = <<>>
      BY <2>4 DEF Ask
    <3>6. ~ AtWork' /\ toPcd' = <<>> /\ Fresh'
      BY <1>1, <2>1, <3>2 DEF Expects, AtWork, CardCalls, Quiet, Fresh
    <3>7. CommandUnderWay'
      BY <3>1, <3>3, <3>5, <3>6, NothingYet DEF CommandUnderWay, Fresh
    <3>8. Whole'
      BY <3>1, <3>3, <3>4, <3>5, <3>6, <3>7 DEF Whole, FreshOK, CommandWhole, CollectWhole
    <3>9. Stage' = "Open"
      BY <3>3 DEF Stage, Exchanging
    <3>10. Channel!Submit(c)
      BY <2>1, <3>5, <3>9 DEF Channel!Submit
    <3> QED BY <3>8, <3>10 DEF ChannelStep, Channel!Next
  <2> QED BY <1>2, <2>2, <2>3, <2>4
          DEF PcdReady, OpenSession, ChangeBitRate, CloseSession, Ask
<1> QED BY <1>2, <1>3 DEF ChangeBitRate, CloseSession, Ask

LEMMA DisturbWhole ==
  ASSUME Whole, Disturb
  PROVE  Whole' /\ ChannelStep
<1>1. UNCHANGED <<pcd, picc, reader, asked>>
  BY DEF Disturb
<1>2. Plain("Noise").kind = "Noise"
  BY FrameFields
<1>3. /\ toPicc' # <<>> => toPicc # <<>> /\ (toPicc' = toPicc \/ toPicc'[1].kind = "Noise")
      /\ toPcd' # <<>> => toPcd # <<>> /\ (toPcd' = toPcd \/ toPcd'[1].kind = "Noise")
  BY <1>2 DEF Disturb
<1>4. UNCHANGED <<Fresh, Responding, ChunkTaken, AtWork>>
  BY <1>1 DEF Fresh, Responding, RespondingAt, ChunkTaken, MoreOfCommand, AtWork, asked
<1>5. CommandUnderWay /\ toPicc' # <<>> => CommandUnderWay'
  BY <1>1, <1>3 DEF CommandUnderWay, asked
<1>6. CommandWhole'
  BY <1>1, <1>3, <1>4, <1>5 DEF Whole, CommandWhole, asked
<1>7. FreshOK' /\ CollectWhole'
  BY <1>1, <1>4 DEF Whole, FreshOK, CollectWhole, asked
<1>8. Stage' = Stage
  BY <1>1 DEF Stage, Exchanging
<1> QED BY <1>1, <1>6, <1>7, <1>8, ChannelStutters DEF Whole

\* The card keeps its place in the response while it repeats a block or waits.
LEMMA RespondingKept ==
  ASSUME Responding, Fresh', picc'.lastSent = picc.lastSent,
         picc'.call = "Respond" =>
           /\ picc.call = "Respond"
           /\ picc'.response = picc.response /\ picc'.offset = picc.offset,
         pcd'.handler.chain = pcd.handler.chain,
         pcd'.handler.number = pcd.handler.number,
         command' = command, executed' = executed
  PROVE  Responding'
<1>1. PICK offset \in 0..Len(ResponseTo(command)) : RespondingAt(offset)
  BY DEF Responding
<1>2. RespondingAt(offset)'
  BY <1>1 DEF RespondingAt, ResponseTo
<1>3. executed' = <<command'>> /\ offset \in 0..Len(ResponseTo(command'))
  BY DEF Responding
<1> QED BY <1>2, <1>3 DEF Responding

\* send_response() begins with the first chunk of the response to the command.
LEMMA CardRunsWhole ==
  ASSUME Orderly, InStep, Whole, CardRuns
  PROVE  Whole' /\ ChannelStep
<1>1. picc \in PiccType /\ CardCalls /\ command \in Seq(Byte)
  BY DEF Orderly, TypeOK
<1>2. /\ CardCalls' /\ ~ AtWork' /\ UNCHANGED <<pcd, toPicc, reader, command, executed, asked>>
      /\ picc.call = "None"
      /\ \/ picc'.state \in {"Idle", "Active"} /\ toPcd' = toPcd
         \/ /\ picc.state = "Protocol" /\ ~ AtWork
            /\ picc'.state = "Protocol" /\ picc'.call = "Receive"
            /\ picc'.handler.chain = <<>>
            /\ picc'.lastSent = picc.lastSent /\ toPcd' = toPcd
         \/ /\ picc.state = "Protocol" /\ AtWork /\ picc'.state = "Protocol"
            /\ \/ picc'.call = "None" /\ picc'.result.kind = "Err" /\ toPcd' = toPcd
               \/ \E b \in Block :
                    /\ b = Chunk(picc.handler.number, ResponseTo(picc.result.data), 0,
                                 PiccMaxInf)
                    /\ picc'.call = "Respond" =>
                         picc'.response = ResponseTo(picc.result.data) /\ picc'.offset = 0
                    /\ b.type = "I" /\ b.number = picc.handler.number
                    /\ picc'.lastSent = <<b>> /\ toPcd' = <<BlockFrame(b)>>
                    /\ picc'.call \in {"None", "Respond"}
  BY <1>1, CardRunsEffect DEF CardStep, history, asked
<1>3. Fresh'
  BY <1>2 DEF Fresh, CardCalls
<1>4. \A b : /\ <<BlockFrame(b)>> # <<>> /\ <<BlockFrame(b)>>[1].block = b
             /\ <<b>>[1] = b
  BY FrameFields
<1>5. FreshOK'
  BY <1>2, <1>3 DEF FreshOK
<1>6. ASSUME pcd.phase = "Command"
      PROVE  CommandWhole'
  <2>1. CommandOK /\ CommandWhole
    BY <1>6 DEF InStep, Whole
  <2>2. ASSUME toPicc' # <<>>
        PROVE  CommandUnderWay'
    <3>1. CommandUnderWay /\ (toPicc[1].kind = "Block" => pcd.offset = 0)
      BY <1>2, <1>6, <2>1, <2>2 DEF CommandWhole, CommandUnderWay
    <3>2. picc'.call = "Receive" => picc'.handler.chain = SubSeq(command, 1, 0)
      BY <1>1, <1>3, NothingYet DEF Fresh
    <3> QED BY <1>2, <3>1, <3>2 DEF CommandUnderWay
  <2>3. CASE toPcd' = toPcd
    <3>1. ASSUME toPcd # <<>>, toPcd[1].kind = "Block"
          PROVE  toPcd[1].block.type # "R" /\ Responding'
      <4>1. /\ picc.state = "Protocol" /\ picc.result = Ok
            /\ toPcd[1].block.type = "I" /\ Responding
        BY <1>2, <1>6, <2>1, <3>1 DEF CommandOK, CardHolds, RespondedWith, CommandWhole
      <4>2. ~ AtWork
        BY <4>1, OutcomeKinds DEF AtWork
      <4>3. picc'.lastSent = picc.lastSent /\ picc'.call # "Respond"
        <5>1. CASE picc'.state \in {"Idle", "Active"}
          <6>1. picc.call = "None" /\ picc.state = "Protocol" /\ picc.result.kind # "Err"
            BY <1>2, <4>1, OutcomeKinds
          <6> QED BY <1>1, <5>1, <6>1, CardRunsEffect
        <5> QED BY <1>2, <4>2, <5>1
      <4> QED BY <1>2, <1>3, <4>1, <4>3, RespondingKept
    <3> QED BY <1>2, <1>6, <2>1, <2>2, <2>3, <3>1 DEF CommandWhole
  <2>4. CASE toPcd' # toPcd
    <3>1. PICK b \in Block :
            /\ AtWork
            /\ b = Chunk(picc.handler.number, ResponseTo(picc.result.data), 0, PiccMaxInf)
            /\ picc'.call = "Respond" =>
                 picc'.response = ResponseTo(picc.result.data) /\ picc'.offset = 0
            /\ b.type = "I" /\ b.number = picc.handler.number
            /\ picc'.lastSent = <<b>> /\ toPcd' = <<BlockFrame(b)>>
      BY <1>2, <2>4
    <3>2. /\ picc.handler.number = pcd.handler.number
          /\ executed = <<command>> /\ picc.result.data = command
          /\ pcd.handler.chain = <<>>
      BY <1>6, <2>1, <3>1 DEF CommandOK, CommandWhole
    <3>3. /\ ResponseTo(command) \in Seq(Byte)
          /\ 0 \in 0..Len(ResponseTo(command))
      BY <1>1, ResponseType, LenProperties
    <3>4. RespondingAt(0)'
      BY <1>2, <1>4, <3>1, <3>2, <3>3, NothingYet DEF RespondingAt, ResponseTo
    <3>5. Responding'
      BY <1>2, <1>3, <3>2, <3>3, <3>4 DEF Responding, ResponseTo
    <3>6. toPcd'[1].block.type # "R"
      BY <1>4, <3>1
    <3> QED BY <1>2, <1>6, <2>1, <2>2, <3>5, <3>6 DEF CommandWhole
  <2> QED BY <2>3, <2>4
<1>7. ASSUME pcd.phase = "Collect"
      PROVE  CollectWhole'
  <2>1. ~ AtWork /\ CollectWhole
    BY <1>7 DEF InStep, CollectOK, Whole
  <2>2. ASSUME picc'.state = "Protocol"
        PROVE  Responding'
    BY <1>2, <1>3, <1>7, <2>1, <2>2, RespondingKept DEF CollectWhole
  <2> QED BY <1>2, <1>7, <2>1, <2>2 DEF CollectWhole
<1>8. Whole'
  BY <1>2, <1>5, <1>6, <1>7 DEF Whole, CommandWhole, CollectWhole
<1>9. Stage' = Stage
  BY <1>2 DEF Stage, Exchanging
<1> QED BY <1>2, <1>8, <1>9, ChannelStutters

\* An I-Block completes the command, or one more chunk of it is with the card.
LEMMA CardTakesCommand ==
  ASSUME Orderly, InStep, CommandWhole, pcd.phase = "Command",
         NEW f \in Frame, PiccHears(f), toPicc # <<>>, f = toPicc[1],
         picc.state = "Protocol", Carries(f, "I"), f.block.number = pcd.handler.number,
         Expects(pcd.handler.number)
  PROVE  /\ executed = <<>>
         /\ \/ /\ picc'.call = "None" /\ picc'.result.kind = "Complete" /\ toPcd' = toPcd
               /\ picc'.result.data = command
            \/ /\ picc'.call = "Receive" /\ toPcd' = <<BlockFrame(RAck(picc'.handler))>>
               /\ MoreOfCommand
               /\ picc'.handler.chain =
                    SubSeq(command, 1, ChunkEnd(command, pcd.offset, PcdMaxInf))
            \/ picc'.call = "None" /\ picc'.result.kind = "Err" /\ toPcd' = toPcd
<1> USE PcdAssumption
<1>1. /\ picc \in PiccType /\ pcd \in PcdType /\ CardCalls /\ command \in Seq(Byte)
      /\ pcd.handler.number \in Bit /\ f.kind = "Block"
  BY PcdFields, HandlerFields DEF Orderly, TypeOK, Carries
<1>2. picc.call = "Receive" /\ f.block.number # picc.handler.number
  BY <1>1, HeardBlock DEF Expects, HearCommandBlock, HearAcknowledgement
<1>3. /\ executed = <<>> /\ pcd.apdu = command /\ pcd.offset \in 0..Len(command)
      /\ f.block = Chunk(pcd.handler.number, command, pcd.offset, PcdMaxInf)
      /\ picc.handler.chain = SubSeq(command, 1, pcd.offset)
  BY <1>1, <1>2 DEF CommandWhole, CommandUnderWay
<1> DEFINE taken == picc.handler.chain \o f.block.payload
<1>4. /\ taken = SubSeq(command, 1, ChunkEnd(command, pcd.offset, PcdMaxInf))
      /\ ~ f.block.chaining => taken = command
  <2> DEFINE b == Chunk(pcd.handler.number, command, pcd.offset, PcdMaxInf)
             sent == SubSeq(command, 1, pcd.offset) \o b.payload
  <2>1. /\ sent = SubSeq(command, 1, ChunkEnd(command, pcd.offset, PcdMaxInf))
        /\ ~ b.chaining => sent = command
    BY <1>1, <1>3, ChunkContinues
  <2>2. f.block = b /\ taken = sent
    BY <1>3
  <2> HIDE DEF b, sent, taken
  <2> QED BY <2>1, <2>2
<1>5. f.block.chaining => MoreOfCommand
  <2>1. f.block.chaining = MoreToSend(command, pcd.offset, PcdMaxInf)
    BY <1>1, <1>3, ChunkType
  <2> QED BY <1>3, <2>1 DEF MoreOfCommand
<1>6. \/ /\ picc'.call = "None" /\ picc'.result.kind = "Complete" /\ toPcd' = toPcd
         /\ ~ f.block.chaining /\ picc'.result.data = taken
      \/ /\ picc'.call = "Receive" /\ toPcd' = <<BlockFrame(RAck(picc'.handler))>>
         /\ f.block.chaining /\ picc'.handler.chain = taken
      \/ picc'.call = "None" /\ picc'.result.kind = "Err" /\ toPcd' = toPcd
  BY <1>1, <1>2, CardTakesIBlock DEF InStep, RolesKept
<1> HIDE DEF taken
<1> QED BY <1>3, <1>4, <1>5, <1>6

\* R(ACK) while the response goes out: the card repeats its chunk or goes on with
\* the one after it.
LEMMA CardGoesOnResponding ==
  ASSUME Orderly, InStep, Responding, pcd.phase = "Collect",
         NEW f \in Frame, PiccHears(f), f = BlockFrame(RAck(pcd.handler)),
         picc.state = "Protocol", UNCHANGED <<pcd, command, executed>>
  PROVE  Responding'
<1> USE PiccAssumption
<1>1. /\ picc \in PiccType /\ pcd \in PcdType /\ CardCalls /\ command \in Seq(Byte)
      /\ ResponseTo(command) \in Seq(Byte)
  BY ResponseType DEF Orderly, TypeOK
<1>2. PICK offset \in 0..Len(ResponseTo(command)) : RespondingAt(offset)
  BY DEF Responding
<1>3. PICK b \in Block :
        /\ picc.lastSent = <<b>> /\ picc.lastSent[1] = b /\ RespondedWith(b)
        /\ picc.call = "Respond" => b.number = picc.handler.number
  <2>1. /\ picc.lastSent # <<>> /\ RespondedWith(picc.lastSent[1])
        /\ picc.call = "Respond" => picc.lastSent[1].number = picc.handler.number
    BY DEF InStep, CollectOK
  <2>2. picc.lastSent[1] \in Block /\ picc.lastSent = <<picc.lastSent[1]>>
    BY <1>1, <2>1, PiccFields, OneBlock
  <2> QED BY <2>1, <2>2
<1>4. /\ Carries(f, "R") /\ f.block.subtype = "Ack" /\ f.block.number = pcd.handler.number
  BY FrameFields DEF Carries, RAck, RBlock
<1>5. \/ Repeats(b) /\ picc.call \in {"Receive", "Respond"}
      \/ /\ picc.call = "Respond" /\ picc.handler.number # f.block.number
         /\ \E c \in Block : GoesOnWith(c, f.block.number)
      \/ GivesUpOn(b, f.block.number)
  BY <1>1, <1>3, <1>4, CardIsAcknowledged DEF InStep, RolesKept, RespondedWith
<1>6. CASE Repeats(b) \/ GivesUpOn(b, f.block.number)
  <2>1. Fresh'
    BY <1>6 DEF Repeats, GivesUpOn, Responding, Fresh
  <2>2. /\ picc'.lastSent = picc.lastSent
        /\ picc'.call = "Respond" =>
             /\ picc.call = "Respond"
             /\ picc'.response = picc.response /\ picc'.offset = picc.offset
    BY <1>3, <1>6 DEF Repeats, GivesUpOn
  <2> QED BY <2>1, <2>2, RespondingKept
<1>7. ASSUME picc.call = "Respond", picc.handler.number # f.block.number,
             NEW c \in Block, GoesOnWith(c, f.block.number)
      PROVE  Responding'
  <2>1. PICK end \in 0..Len(ResponseTo(command)) :
          end = ChunkEnd(ResponseTo(command), offset, PiccMaxInf)
    <3>1. /\ ChunkEnd(ResponseTo(command), offset, PiccMaxInf)
               \in offset..Len(ResponseTo(command))
          /\ Len(ResponseTo(command)) \in Nat
      BY <1>1, ChunkEndBounds, LenProperties
    <3> QED BY <3>1
  <2>2. /\ picc.response = ResponseTo(command) /\ picc.offset = offset
        /\ pcd.handler.chain = SubSeq(ResponseTo(command), 1, end)
    BY <1>2, <1>3, <1>4, <1>7, <2>1 DEF RespondingAt
  <2>3. /\ NextOffset = end
        /\ c = Chunk(pcd.handler.number, ResponseTo(command), end, PiccMaxInf)
        /\ c.number = pcd.handler.number
        /\ picc'.call = "Respond" =>
             picc'.response = ResponseTo(command) /\ picc'.offset = end
        /\ picc'.lastSent = <<c>> /\ picc'.call # "Receive"
    BY <1>4, <1>7, <2>1, <2>2 DEF GoesOnWith, NextOffset
  <2>4. picc'.lastSent[1] = c
    BY <2>3
  <2>5. RespondingAt(end)'
    BY <2>2, <2>3, <2>4 DEF RespondingAt, ResponseTo
  <2>6. Fresh'
    BY <2>3 DEF Fresh
  <2> QED BY <2>5, <2>6 DEF Responding, ResponseTo
<1> QED BY <1>5, <1>6, <1>7

\* The card executes the command of the exchange, once and whole, and nothing
\* else reaches its application.
LEMMA CardHearsWhole ==
  ASSUME Orderly, InStep, Whole, CardHears
  PROVE  Whole' /\ ChannelStep
<1>1. picc \in PiccType /\ CardCalls /\ toPcd \in Air /\ toPicc \in Air
  BY AirType DEF Orderly, TypeOK
<1>2. /\ toPicc # <<>> /\ PiccHears(toPicc[1]) /\ toPicc[1] \in Frame /\ toPicc' = <<>>
      /\ UNCHANGED <<scan, pcd, reader, command, answer>>
      /\ executed' = IF AtWork' THEN Append(executed, picc'.result.data) ELSE executed
  BY <1>1, AirIsSeq DEF CardHears, AtWork
<1>3. PICK f \in Frame : f = toPicc[1] /\ PiccHears(f)
  BY <1>2
<1>4. CardCalls' /\ Stage' = Stage
  BY <1>1, <1>2, <1>3, CardHearsTypes DEF Stage, Exchanging
<1>5. ASSUME ~ AtWork'
      PROVE  executed' = executed /\ ChannelStep
  BY <1>2, <1>4, <1>5, ChannelStutters DEF asked
<1>6. ASSUME picc.state # "Protocol", f.kind \notin {"Rats", "Hlta"}
      PROVE  /\ picc'.state # "Protocol" /\ ~ AtWork' /\ Fresh'
             /\ toPcd' # toPcd => toPcd' # <<>> /\ toPcd'[1].kind # "Block"
  <2>1. /\ picc'.state # "Protocol"
        /\ toPcd' # toPcd => toPcd' # <<>> /\ toPcd'[1].kind # "Block"
    BY <1>1, <1>3, <1>6, HeardOutside DEF NotInSession
  <2> QED BY <1>4, <2>1 DEF CardCalls, Fresh, AtWork
<1>7. ASSUME picc.state = "Protocol", f.kind \in {"Noise", "Pps", "Reqa", "Wupa"}
      PROVE  /\ ~ AtWork' /\ picc'.call # "Respond" /\ picc'.lastSent = picc.lastSent
             /\ f.kind # "Pps" => picc'.call = "None"
             /\ toPcd' # toPcd => toPcd' # <<>> /\ toPcd'[1].kind # "Block"
             /\ Fresh => Fresh'
  BY <1>1, <1>3, <1>7, HeardNoBlock DEF AtWork, Fresh
<1>8. CASE /\ scan.phase \in {"Idle", "Request"} /\ scan.result # "Ok"
           /\ reader = "Over" /\ pcd.phase \in {"NoSession", "Idle"}
  <2>1. f.kind \in {"Reqa", "Wupa", "Noise"}
    BY <1>2, <1>3, <1>8 DEF InStep, SearchingOK
  <2>2. Whole'
    BY <1>2, <1>8, OutsideExchange DEF FreshOK
  <2> QED BY <1>5, <1>6, <1>7, <2>1, <2>2
<1>9. CASE scan.phase \in {"Anticollision", "Select"} \/ scan.result = "Ok"
  <2>1. f.kind \in {"Anticollision", "Select", "Noise"} /\ NotInSession
    BY <1>2, <1>3, <1>9 DEF InStep, SelectingOK
  <2>2. reader = "Over" /\ pcd.phase = "NoSession"
    BY <1>9 DEF Orderly, OneAtATime
  <2>3. Whole'
    BY <1>2, <2>2, OutsideExchange DEF FreshOK
  <2> QED BY <1>5, <1>6, <2>1, <2>3 DEF NotInSession
<1>10. CASE pcd.phase = "Idle" /\ reader # "Over"
  BY <1>2, <1>10 DEF InStep, ReadyOK, Quiet
<1>11. CASE pcd.phase = "Connecting"
  <2>1. f.kind \in {"Rats", "Noise"} /\ NotInSession
    BY <1>2, <1>3, <1>11 DEF InStep, ConnectingOK
  <2>2. ~ AtWork' /\ Fresh'
    BY <1>3, <1>4, <2>1, CardHearsRats DEF AtWork, Fresh, CardCalls
  <2>3. Whole'
    BY <1>2, <1>11, <2>2, OutsideExchange DEF FreshOK
  <2> QED BY <1>5, <2>2, <2>3
<1>12. CASE pcd.phase = "Pps"
  <2>1. f.kind \in {"Pps", "Noise"}
    BY <1>2, <1>3, <1>12 DEF InStep, PpsOK
  <2>2. ~ AtWork' /\ Fresh'
    BY <1>6, <1>7, <1>12, <2>1 DEF Whole, FreshOK
  <2>3. Whole'
    BY <1>2, <1>12, <2>2, OutsideExchange DEF FreshOK
  <2> QED BY <1>5, <2>2, <2>3
<1>13. CASE pcd.phase = "Command"
  <2>1. /\ HalfDuplex /\ Expects(pcd.handler.number)
        /\ \/ f.kind = "Noise"
           \/ Carries(f, "I") /\ f.block.number = pcd.handler.number
    BY <1>2, <1>3, <1>13 DEF InStep, CommandOK
  <2>2. toPcd = <<>>
    BY <1>2, <2>1 DEF HalfDuplex
  <2>3. CommandWhole /\ FreshOK' /\ CollectWhole'
    BY <1>2, <1>13 DEF Whole, FreshOK, CollectWhole
  <2>4. ASSUME ~ AtWork', toPcd' # <<>> => toPcd'[1].kind # "Block"
        PROVE  Whole' /\ ChannelStep
    BY <1>2, <1>5, <1>13, <2>3, <2>4 DEF Whole, CommandWhole
  <2>5. CASE picc.state # "Protocol"
    <3>1. f.kind \notin {"Rats", "Hlta"}
      BY <2>1 DEF Carries
    <3> QED BY <1>6, <2>2, <2>4, <2>5, <3>1
  <2>6. CASE picc.state = "Protocol" /\ f.kind = "Noise"
    BY <1>7, <2>2, <2>4, <2>6
  <2>7. CASE picc.state = "Protocol" /\ Carries(f, "I") /\ f.block.number = pcd.handler.number
    <3>1. /\ executed = <<>>
          /\ \/ /\ picc'.call = "None" /\ picc'.result.kind = "Complete" /\ toPcd' = toPcd
                /\ picc'.result.data = command
             \/ /\ picc'.call = "Receive" /\ toPcd' = <<BlockFrame(RAck(picc'.handler))>>
                /\ MoreOfCommand
                /\ picc'.handler.chain =
                     SubSeq(command, 1, ChunkEnd(command, pcd.offset, PcdMaxInf))
             \/ picc'.call = "None" /\ picc'.result.kind = "Err" /\ toPcd' = toPcd
      BY <1>2, <1>3, <1>13, <2>1, <2>3, <2>7, CardTakesCommand
    <3>2. CASE /\ picc'.call = "None" /\ picc'.result.kind = "Complete" /\ toPcd' = toPcd
               /\ picc'.result.data = command
      <4>1. executed' = <<command>>
        BY <1>2, <3>1, <3>2 DEF AtWork
      <4>2. CommandWhole'
        BY <1>2, <1>13, <2>2, <2>3, <3>2, <4>1 DEF CommandWhole
      <4>3. Stage = "Open"
        BY <1>13 DEF Stage, Exchanging
      <4>4. Channel!Execute
        BY <1>2, <1>4, <3>1, <4>1, <4>3 DEF Channel!Execute
      <4> QED BY <2>3, <4>2, <4>4 DEF Whole, ChannelStep, Channel!Next
    <3>3. CASE /\ picc'.call = "Receive" /\ toPcd' = <<BlockFrame(RAck(picc'.handler))>>
               /\ MoreOfCommand
               /\ picc'.handler.chain =
                    SubSeq(command, 1, ChunkEnd(command, pcd.offset, PcdMaxInf))
      <4>1. ~ AtWork' /\ executed' = executed /\ ChannelStep
        BY <1>5, <3>3 DEF AtWork
      <4>2. ChunkTaken'
        BY <1>2, <3>1, <3>3, <4>1 DEF ChunkTaken, MoreOfCommand
      <4>3. toPcd'[1].block.type = "R"
        BY <3>3, FrameFields DEF RAck, RBlock
      <4>4. CommandWhole'
        BY <1>2, <1>13, <2>3, <4>1, <4>2, <4>3 DEF CommandWhole
      <4> QED BY <2>3, <4>1, <4>4 DEF Whole
    <3>4. CASE picc'.call = "None" /\ picc'.result.kind = "Err" /\ toPcd' = toPcd
      BY <2>2, <2>4, <3>4 DEF AtWork
    <3> QED BY <3>1, <3>2, <3>3, <3>4
  <2> QED BY <2>1, <2>5, <2>6, <2>7
<1>14. CASE pcd.phase = "Collect"
  <2>1. f.kind = "Noise" \/ f = BlockFrame(RAck(pcd.handler))
    BY <1>2, <1>3, <1>14 DEF InStep, CollectOK
  <2>2. /\ executed = <<command>> /\ (picc.state = "Protocol" => Responding)
    BY <1>14 DEF Whole, CollectWhole
  <2>3. ASSUME ~ AtWork', picc'.state = "Protocol" => Responding'
        PROVE  Whole' /\ ChannelStep
    <3>1. CollectWhole' /\ FreshOK' /\ CommandWhole'
      BY <1>2, <1>5, <1>14, <2>2, <2>3 DEF CollectWhole, FreshOK, CommandWhole
    <3> QED BY <1>5, <2>3, <3>1 DEF Whole
  <2>4. CASE picc.state # "Protocol"
    <3>1. f.kind \notin {"Rats", "Hlta"}
      BY <2>1, FrameFields
    <3> QED BY <1>6, <2>3, <2>4, <3>1
  <2>5. CASE picc.state = "Protocol" /\ f.kind = "Noise"
    <3>1. ~ AtWork' /\ picc'.call = "None" /\ picc'.lastSent = picc.lastSent
      BY <1>7, <2>5
    <3>2. Responding'
      BY <1>2, <1>5, <2>2, <2>5, <3>1, RespondingKept DEF Fresh
    <3> QED BY <2>3, <3>1, <3>2
  <2>6. CASE picc.state = "Protocol" /\ f = BlockFrame(RAck(pcd.handler))
    <3>1. ~ AtWork'
      <4>1. /\ Carries(f, "R") /\ f.block.subtype = "Ack"
        BY <2>6, FrameFields DEF Carries, RAck, RBlock
      <4>2. PICK b \in Block : /\ picc.lastSent = <<b>>
                               /\ picc.call = "Respond" => picc.iblock = <<b>>
        <5>1. /\ picc.lastSent # <<>>
              /\ picc.call = "Respond" => picc.iblock = <<picc.lastSent[1]>>
          BY <1>14, <2>6 DEF InStep, CollectOK, RespondedWith
        <5>2. picc.lastSent[1] \in Block /\ picc.lastSent = <<picc.lastSent[1]>>
          BY <1>1, <5>1, PiccFields, OneBlock
        <5> QED BY <5>1, <5>2
      <4>3. picc'.call = "None" => picc'.result.kind \in {"Ok", "Err"}
        BY <1>1, <1>3, <2>6, <4>1, <4>2, CardIsAcknowledged DEF InStep, RolesKept
      <4> QED BY <4>3 DEF AtWork
    <3>2. Responding'
      BY <1>2, <1>3, <1>5, <1>14, <2>2, <2>6, <3>1, CardGoesOnResponding
    <3> QED BY <2>3, <3>1, <3>2
  <2> QED BY <2>1, <2>4, <2>5, <2>6
<1>15. CASE pcd.phase \in {"Deselecting", "DeselectRetry"}
  <2>1. /\ f.kind = "Noise" \/ f = BlockFrame(SBlock("Deselect", <<>>))
        /\ reader = "Over"
    BY <1>2, <1>3, <1>15 DEF InStep, DeselectingOK, Orderly, OneAtATime
  <2>2. Whole'
    BY <1>2, <1>15, OutsideExchange DEF FreshOK
  <2>3. ~ AtWork'
    <3>1. CASE picc.state # "Protocol"
      BY <1>6, <2>1, <3>1, FrameFields
    <3>2. CASE picc.state = "Protocol" /\ f.kind = "Noise"
      BY <1>7, <3>2
    <3>3. CASE picc.state = "Protocol" /\ f = BlockFrame(SBlock("Deselect", <<>>))
      <4>1. IsDeselectFrame(f)
        BY <3>3, FrameFields DEF IsDeselectFrame, IsDeselect, SBlock
      <4> QED BY <1>1, <1>3, <3>3, <4>1, CardDeselects DEF InStep, RolesKept, AtWork
    <3> QED BY <2>1, <3>1, <3>2, <3>3
  <2> QED BY <1>5, <2>2, <2>3
<1> QED BY <1>8, <1>9, <1>10, <1>11, <1>12, <1>13, <1>14, <1>15, ReaderStates
-----------------------------------------------------------------------------

\* What the reader hears moves nothing but the reader.
LEMMA SessionKeeps ==
  ASSUME NEW f \in Frame, SessionHears(f)
  PROVE  /\ UNCHANGED <<scan, picc, command, executed>>
         /\ pcd.phase \in {"Command", "Collect"} /\ pcd'.result.kind = "Complete" =>
              answer' = <<pcd'.result.data>>
         /\ pcd.phase \notin {"Command", "Collect"} \/ pcd'.result.kind # "Complete" =>
              UNCHANGED asked
         /\ pcd'.phase = "NoSession" => reader' = "Over"
         /\ pcd'.result.kind = "Err" /\ ~ GoesOnAfterError => reader' = "Over"
         /\ Fresh' <=> Fresh
BY DEF SessionHears, Exchanging, asked, Fresh

\* A call that fails closes the session.
LEMMA FailureCloses ==
  ASSUME Orderly, OneAtATime', NEW f \in Frame, SessionHears(f), ~ GoesOnAfterError,
         pcd.phase \in PcdWaiting,
         \/ pcd'.phase = "Idle" /\ pcd'.result.kind = "Err"
         \/ pcd'.phase = "NoSession" /\ pcd.phase = "Connecting"
  PROVE  Whole' /\ ChannelStep
<1>1. reader' = "Over" /\ UNCHANGED asked
  BY SessionKeeps
<1>2. Whole'
  BY <1>1, OutsideExchange DEF FreshOK
<1>3. Stage' = "Closed"
  BY <1>1 DEF Stage, Exchanging
<1>4. CASE pcd.phase \in {"Command", "Collect"}
  <2>1. Channel!Fail
    BY <1>1, <1>3, <1>4 DEF Channel!Fail, Stage, Exchanging, asked
  <2> QED BY <1>2, <2>1 DEF ChannelStep, Channel!Next
<1>5. CASE pcd.phase = "Pps"
  <2>1. Stage = "Ready"
    BY <1>5 DEF Orderly, OneAtATime, Stage, Exchanging
  <2>2. Channel!Close
    BY <1>1, <1>3, <2>1 DEF Channel!Close, asked
  <2> QED BY <1>2, <2>2 DEF ChannelStep, Channel!Next
<1>6. CASE pcd.phase \in {"Connecting", "Deselecting", "DeselectRetry"}
  <2>1. Stage = "Closed"
    BY <1>6 DEF Orderly, OneAtATime, Stage, Exchanging
  <2> QED BY <1>1, <1>2, <1>3, <2>1, ChannelStutters
<1> QED BY <1>4, <1>5, <1>6 DEF PcdWaiting

\* A chunk of the response is taken once, and the whole is the response.
LEMMA CollectsWhole ==
  ASSUME Orderly, InStep, OneAtATime', NEW f \in Frame, SessionHears(f), HeardOnAir(f),
         ~ GoesOnAfterError,
         NEW b \in Block, CollectBlock(b), picc.lastSent = <<b>>, Responding,
         pcd.phase \in {"Command", "Collect"}
  PROVE  Whole' /\ ChannelStep
<1> USE PiccAssumption
<1> DEFINE step == ProcessReceived(pcd.handler, b)
<1>1. /\ pcd \in PcdType /\ picc' = picc /\ pcd.phase \in PcdWaiting
      /\ pcd.handler \in Handler /\ pcd.handler.role = "Pcd"
      /\ pcd.handler.number \in Bit /\ b.number \in Bit
      /\ pcd'.phase = "Idle" /\ pcd'.result.kind # "Err" => reader' = reader
      /\ reader = "Running"
  BY SessionReturns DEF Block
<1>2. /\ UNCHANGED <<picc, command, executed>> /\ (Fresh' <=> Fresh)
      /\ pcd'.result.kind = "Complete" => answer' = <<pcd'.result.data>>
      /\ pcd'.result.kind # "Complete" => UNCHANGED asked
  BY SessionKeeps
<1>3. Stage = "Open"
  BY DEF Stage, Exchanging
<1>4. PICK response \in Seq(Byte) : response = ResponseTo(command)
  BY ResponseType DEF Orderly, TypeOK
<1>5. PICK offset \in 0..Len(response) : RespondingAt(offset)
  BY <1>4 DEF Responding
<1>6. /\ executed = <<command>> /\ Fresh
      /\ b = Chunk(b.number, response, offset, PiccMaxInf)
      /\ pcd.handler.chain =
           SubSeq(response, 1, IF b.number = pcd.handler.number THEN offset
                               ELSE ChunkEnd(response, offset, PiccMaxInf))
  <2>1. picc.lastSent[1] = b
    BY OneBlock
  <2>2. picc.lastSent = <<Chunk(b.number, response, offset, PiccMaxInf)>>
    BY <1>4, <1>5, <2>1 DEF RespondingAt
  <2>3. b = Chunk(b.number, response, offset, PiccMaxInf)
    BY <2>2
  <2> QED BY <1>4, <1>5, <2>1, <2>3 DEF RespondingAt, Responding
<1>7. b.type = "I"
  BY <1>1, <1>6, ChunkType
<1>8. ASSUME b.number = pcd.handler.number
      PROVE  /\ pcd.handler.chain \o b.payload =
                  SubSeq(response, 1, ChunkEnd(response, offset, PiccMaxInf))
             /\ ~ b.chaining => pcd.handler.chain \o b.payload = response
  <2> DEFINE c == Chunk(b.number, response, offset, PiccMaxInf)
             sent == SubSeq(response, 1, offset) \o c.payload
  <2>1. /\ sent = SubSeq(response, 1, ChunkEnd(response, offset, PiccMaxInf))
        /\ ~ c.chaining => sent = response
    BY <1>1, ChunkContinues
  <2>2. b = c /\ pcd.handler.chain \o b.payload = sent
    BY <1>6, <1>8
  <2> HIDE DEF c, sent
  <2> QED BY <2>1, <2>2
<1>9. /\ step.outcome.kind = "Complete" =>
           /\ b.number = pcd.handler.number /\ ~ b.chaining
           /\ step.outcome.data = pcd.handler.chain \o b.payload
      /\ step.outcome.kind = "Reply" =>
           IF b.number # pcd.handler.number
           THEN /\ step.handler.number = pcd.handler.number
                /\ step.handler.chain = pcd.handler.chain
           ELSE /\ step.handler.number = 1 - pcd.handler.number
                /\ step.handler.chain = pcd.handler.chain \o b.payload
  BY <1>1, <1>7, ReceivedIBlock DEF RepeatsLastIBlock
<1>10. \/ /\ PcdReturned(step.handler)
          /\ \/ step.outcome.kind = "Complete" /\ pcd'.result = step.outcome
             \/ pcd'.result.kind = "Err"
       \/ /\ step.outcome.kind = "Reply"
          /\ pcd'.phase = "Collect" /\ pcd'.handler = step.handler
          /\ pcd'.result = pcd.result
  BY <1>1, CollectBlockEffect
<1> HIDE DEF step
<1>11. CASE PcdReturned(step.handler) /\ pcd'.result.kind = "Err"
  BY <1>1, <1>11, FailureCloses DEF PcdReturned
<1>12. CASE /\ PcdReturned(step.handler)
            /\ step.outcome.kind = "Complete" /\ pcd'.result = step.outcome
  <2>1. pcd'.phase = "Idle" /\ reader' = "Running" /\ answer' = <<response>>
    BY <1>1, <1>2, <1>8, <1>9, <1>12 DEF PcdReturned
  <2>2. Stage' = "Ready"
    BY <2>1 DEF Stage, Exchanging
  <2>3. Channel!Answer
    BY <1>2, <1>3, <1>4, <1>6, <2>1, <2>2 DEF Channel!Answer
  <2>4. Whole'
    BY <1>2, <1>6, <2>1, OutsideExchange DEF FreshOK
  <2> QED BY <2>3, <2>4 DEF ChannelStep, Channel!Next
<1>13. CASE /\ step.outcome.kind = "Reply"
            /\ pcd'.phase = "Collect" /\ pcd'.handler = step.handler
            /\ pcd'.result = pcd.result
  <2>1. pcd'.handler.chain =
          SubSeq(response, 1, IF b.number = pcd'.handler.number THEN offset
                              ELSE ChunkEnd(response, offset, PiccMaxInf))
    <3>1. 1 - pcd.handler.number # pcd.handler.number
      BY <1>1 DEF Bit
    <3> QED BY <1>6, <1>8, <1>9, <1>13, <3>1
  <2>2. RespondingAt(offset)'
    <3>1. picc'.lastSent = picc.lastSent /\ picc.lastSent[1] = b
      BY <1>2, OneBlock
    <3>2. response = ResponseTo(command')
      BY <1>2, <1>4
    <3>3. picc'.call = "Respond" => picc'.response = response /\ picc'.offset = offset
      BY <1>2, <1>4, <1>5 DEF RespondingAt
    <3>4. picc'.lastSent = <<Chunk(b.number, response, offset, PiccMaxInf)>>
      BY <1>6, <3>1
    <3> QED BY <2>1, <3>1, <3>2, <3>3, <3>4 DEF RespondingAt, ResponseTo
  <2>3. Responding'
    BY <1>2, <1>4, <1>6, <2>2 DEF Responding, ResponseTo
  <2>4. Whole'
    BY <1>2, <1>6, <1>13, <2>3 DEF Whole, FreshOK, CommandWhole, CollectWhole
  <2>5. UNCHANGED asked
    <3>1. pcd.result = Ok
      BY DEF Orderly, OneAtATime
    <3> QED BY <1>2, <1>13, <3>1, OutcomeKinds
  <2>6. Stage' = Stage
    BY <1>3, <1>13 DEF Stage, Exchanging
  <2> QED BY <2>4, <2>5, <2>6, ChannelStutters
<1> QED BY <1>10, <1>11, <1>12, <1>13

LEMMA SessionHearsWhole ==
  ASSUME Orderly, InStep, Whole, OneAtATime', NEW f \in Frame, SessionHears(f), HeardOnAir(f),
         ~ GoesOnAfterError
  PROVE  Whole' /\ ChannelStep
<1> USE PcdAssumption
<1>1. /\ pcd \in PcdType /\ PcdHears(f) /\ pcd.phase \in PcdWaiting
      /\ pcd.handler \in Handler /\ pcd.handler.role = "Pcd"
      /\ pcd.handler.number \in Bit /\ toPcd' = <<>>
      /\ pcd'.phase = "Idle" /\ pcd'.result.kind # "Err" => reader' = reader
      /\ pcd.phase \in {"Pps", "Command", "Collect"} => reader = "Running"
      /\ pcd.phase = "Connecting" => reader = "New"
  BY SessionReturns
<1>2. /\ UNCHANGED <<picc, command, executed>> /\ (Fresh' <=> Fresh)
      /\ pcd.phase \notin {"Command", "Collect"} \/ pcd'.result.kind # "Complete" =>
           UNCHANGED asked
  BY SessionKeeps
<1>3. Ok.kind = "Ok"
  BY OutcomeKinds
<1>4. ASSUME pcd'.phase = "Idle", pcd'.result.kind = "Err"
      PROVE  Whole' /\ ChannelStep
  BY <1>1, <1>4, FailureCloses
<1>5. f.kind = "Block" => /\ toPcd # <<>> /\ f = toPcd[1] /\ f.block \in Block
  BY BlockOfFrame DEF HeardOnAir
<1>6. CASE ConnectAnswered(f)
  <2>1. /\ pcd.phase = "Connecting"
        /\ \/ pcd'.phase = "Idle" /\ pcd'.result = Ok
           \/ pcd'.phase = "NoSession"
    BY <1>1, <1>6, ConnectAnsweredEffect
  <2>2. CASE pcd'.phase = "Idle" /\ pcd'.result = Ok
    <3>1. UNCHANGED asked /\ reader' = "New" /\ Fresh'
      BY <1>1, <1>2, <1>3, <2>1, <2>2 DEF Whole, FreshOK
    <3>2. Stage = "Closed" /\ Stage' = "Ready"
      BY <2>1, <2>2, <3>1 DEF Stage, Exchanging
    <3>3. Channel!Begin
      BY <3>1, <3>2 DEF Channel!Begin, asked
    <3>4. Whole'
      BY <2>2, <3>1, OutsideExchange DEF FreshOK
    <3> QED BY <3>3, <3>4 DEF ChannelStep, Channel!Next
  <2>3. CASE pcd'.phase = "NoSession"
    BY <1>1, <2>1, <2>3, FailureCloses
  <2> QED BY <2>1, <2>2, <2>3
<1>7. CASE PpsAnswered(f)
  <2>1. /\ pcd'.phase = "Idle" /\ pcd.phase = "Pps" /\ pcd'.result.kind \in {"Ok", "Err"}
    BY <1>1, <1>7, PpsAnsweredEffect DEF PcdReturned
  <2>2. CASE pcd'.result.kind = "Ok"
    <3>1. UNCHANGED asked /\ reader = "Running" /\ reader' = reader /\ Fresh'
      BY <1>1, <1>2, <2>1, <2>2 DEF Whole, FreshOK
    <3>2. Stage' = Stage
      BY <2>1, <3>1 DEF Stage, Exchanging
    <3>3. Whole'
      BY <2>1, <3>1, OutsideExchange DEF FreshOK
    <3> QED BY <3>1, <3>2, <3>3, ChannelStutters
  <2> QED BY <1>4, <2>1, <2>2
<1>8. CASE CommandUnanswered(f)
  BY <1>1, <1>4, <1>8, CommandUnansweredEffect DEF PcdReturned
<1>9. ASSUME pcd.phase = "Command", f.kind = "Block"
      PROVE  /\ CommandWhole /\ ~ AtWork /\ f.block.number = pcd.handler.number
             /\ \/ /\ f.block.type = "R" /\ f.block.subtype = "Ack"
                   /\ picc.call = "Receive" /\ ChunkTaken
                \/ RespondedWith(f.block) /\ Responding
  <2>1. /\ CardHolds
        /\ f.block.number = pcd.handler.number
        /\ \/ f.block = RAck(picc.handler) /\ picc.call = "Receive"
           \/ RespondedWith(f.block)
    BY <1>5, <1>9 DEF InStep, CommandOK
  <2>2. CommandWhole /\ IF f.block.type = "R" THEN ChunkTaken ELSE Responding
    BY <1>5, <1>9 DEF Whole, CommandWhole
  <2>3. ~ AtWork
    BY <1>3, <2>1 DEF CardHolds, AtWork
  <2> QED BY <2>1, <2>2, <2>3 DEF RAck, RBlock, RespondedWith
<1>10. CASE ChunkAnswered(f)
  <2> DEFINE step == ProcessReceived(pcd.handler, f.block)
  <2>1. f.kind = "Block" /\ pcd.phase = "Command" /\ MoreOfCommand /\ f.block \in Block
    BY <1>5, <1>10 DEF ChunkAnswered
  <2>2. /\ pcd' \in PcdType
        /\ \/ PcdReturned(step.handler) /\ pcd'.result.kind = "Err"
           \/ /\ pcd'.phase = "Command" /\ pcd'.handler = step.handler
              /\ pcd'.result = Ok /\ pcd'.offset < Len(pcd'.apdu)
              /\ toPicc'[1].block = Chunk(step.handler.number, pcd.apdu, pcd'.offset, PcdMaxInf)
              /\ pcd'.apdu = pcd.apdu
              /\ \/ /\ step.outcome.kind = "ChainingAck"
                    /\ pcd'.offset = ChunkEnd(pcd.apdu, pcd.offset, PcdMaxInf)
                 \/ step.outcome.kind = "ChainingRetransmit"
    BY <1>1, <1>10, ChunkAnsweredEffect
  <2>3. CASE /\ pcd'.phase = "Command" /\ pcd'.handler = step.handler
             /\ pcd'.result = Ok /\ pcd'.offset < Len(pcd'.apdu)
             /\ toPicc'[1].block = Chunk(step.handler.number, pcd.apdu, pcd'.offset, PcdMaxInf)
             /\ pcd'.apdu = pcd.apdu
             /\ \/ /\ step.outcome.kind = "ChainingAck"
                   /\ pcd'.offset = ChunkEnd(pcd.apdu, pcd.offset, PcdMaxInf)
                \/ step.outcome.kind = "ChainingRetransmit"
    <3>1. f.block.type # "I"
      BY <1>1, <2>1, <2>3, ReceivedIBlock
    <3>2. /\ f.block.type = "R" /\ f.block.subtype = "Ack" /\ picc.call = "Receive"
          /\ ChunkTaken /\ CommandWhole /\ ~ AtWork /\ f.block.number = pcd.handler.number
      BY <1>9, <2>1, <3>1 DEF RespondedWith
    <3>3. step.outcome.kind = "ChainingAck" /\ step.handler.chain = pcd.handler.chain
      BY <1>1, <2>1, <2>3, <3>2, ReceivedAck
    <3> HIDE DEF step
    <3>4. /\ pcd.apdu = command /\ pcd.handler.chain = <<>>
      BY <2>1, <3>2 DEF CommandWhole
    <3>5. /\ pcd'.apdu = command /\ pcd'.handler.chain = <<>>
          /\ pcd'.offset \in 0..Len(command)
      <4>1. pcd'.offset \in Nat /\ Len(command) \in Nat /\ pcd'.offset < Len(command)
        BY <2>2, <2>3, <3>4, LenProperties DEF PcdType, Orderly, TypeOK
      <4> QED BY <2>3, <3>3, <3>4, <4>1
    <3>6. UNCHANGED asked /\ ~ AtWork'
      BY <1>2, <1>3, <2>3, <3>2 DEF AtWork
    <3>7. CommandUnderWay'
      BY <1>2, <2>3, <3>2, <3>3, <3>4 DEF CommandUnderWay, ChunkTaken
    <3>8. Whole'
      BY <1>1, <1>2, <2>3, <3>5, <3>6, <3>7
         DEF Whole, FreshOK, CommandWhole, CollectWhole
    <3>9. Stage' = Stage
      BY <2>1, <2>3 DEF Stage, Exchanging
    <3> QED BY <3>6, <3>8, <3>9, ChannelStutters
  <2> QED BY <1>4, <2>2, <2>3 DEF PcdReturned
<1>11. CASE LastChunkAnswered(f)
  <2>1. /\ pcd.phase = "Command" /\ ~ MoreOfCommand /\ f.kind = "Block"
        /\ CollectBlock(f.block)
    BY <1>11 DEF LastChunkAnswered
  <2>2. PICK b \in Block : b = f.block
    BY <1>5, <2>1
  <2>3. RespondedWith(b) /\ Responding
    BY <1>9, <2>1, <2>2 DEF ChunkTaken
  <2>4. picc.lastSent = <<b>> /\ CollectBlock(b)
    BY <2>1, <2>2, <2>3 DEF RespondedWith
  <2> QED BY <2>1, <2>3, <2>4, CollectsWhole
<1>12. CASE ReplyAnswered(f)
  <2>1. pcd.phase = "Collect" /\ f.kind = "Block" /\ CollectBlock(f.block)
    BY <1>12 DEF ReplyAnswered
  <2>2. PICK b \in Block : b = f.block
    BY <1>5, <2>1
  <2>3. picc.state = "Protocol" /\ picc.lastSent = <<b>>
    BY <1>5, <2>1, <2>2 DEF InStep, CollectOK, CardHolds
  <2>4. Responding
    BY <2>1, <2>3 DEF Whole, CollectWhole
  <2> QED BY <2>1, <2>2, <2>3, <2>4, CollectsWhole
<1>13. CASE ReplyUnanswered(f)
  <2>1. /\ pcd.phase = "Collect"
        /\ \/ pcd'.phase = "Idle" /\ pcd'.result.kind = "Err"
           \/ pcd'.phase = "Collect" /\ pcd'.handler = pcd.handler /\ pcd'.result = pcd.result
    BY <1>1, <1>13, ReplyUnansweredEffect DEF PcdReturned
  <2>2. CASE pcd'.phase = "Collect" /\ pcd'.handler = pcd.handler /\ pcd'.result = pcd.result
    <3>1. pcd.result = Ok /\ CollectWhole
      BY <2>1 DEF Orderly, OneAtATime, Whole
    <3>2. UNCHANGED asked
      BY <1>2, <1>3, <2>2, <3>1
    <3>3. ASSUME picc'.state = "Protocol"
          PROVE  Responding'
      <4>1. Responding /\ Fresh'
        BY <1>2, <2>1, <3>1, <3>3 DEF CollectWhole, Responding
      <4> QED BY <1>2, <2>2, <4>1, RespondingKept
    <3>4. Whole'
      BY <1>2, <2>1, <2>2, <3>1, <3>3 DEF Whole, FreshOK, CommandWhole, CollectWhole
    <3>5. Stage' = Stage
      BY <2>1, <2>2 DEF Stage, Exchanging
    <3> QED BY <3>2, <3>4, <3>5, ChannelStutters
  <2> QED BY <1>4, <2>1, <2>2
<1>14. CASE DeselectAnswered(f)
  <2>1. /\ pcd.phase \in {"Deselecting", "DeselectRetry"}
        /\ pcd'.phase \in {"Idle", "DeselectRetry"}
    BY <1>1, <1>14, DeselectAnsweredEffect DEF PcdReturned
  <2>2. reader = "Over" /\ reader' = "Over"
    BY <2>1 DEF Orderly, OneAtATime, SessionHears
  <2>3. Whole'
    BY <2>1, <2>2, OutsideExchange DEF FreshOK
  <2>4. Stage' = Stage /\ UNCHANGED asked
    BY <1>2, <2>1, <2>2 DEF Stage, Exchanging
  <2> QED BY <2>3, <2>4, ChannelStutters
<1> QED BY <1>1, <1>6, <1>7, <1>8, <1>10, <1>11, <1>12, <1>13, <1>14 DEF PcdHears

LEMMA ActivationHearsWhole ==
  ASSUME Orderly, NEW f \in Frame, ActivationHears(f)
  PROVE  Whole' /\ ChannelStep
<1>1. scan.phase \in Scan!ScanWaiting /\ UNCHANGED <<pcd, reader, asked>>
  BY ScanHearsEffect DEF ActivationHears, Orderly, TypeOK
<1>2. reader = "Over" /\ pcd.phase = "NoSession"
  BY <1>1 DEF Orderly, OneAtATime, Scan!ScanWaiting
<1>3. Whole'
  BY <1>1, <1>2, OutsideExchange DEF FreshOK
<1>4. Stage' = Stage
  BY <1>1 DEF Stage, Exchanging
<1> QED BY <1>1, <1>3, <1>4, ChannelStutters

LEMMA ReaderHearsWhole ==
  ASSUME Orderly, InStep, Whole, ~ GoesOnAfterError, ReaderHearsFrame \/ TimesOut \/ GivesUp
  PROVE  Whole' /\ ChannelStep
<1>1. OneAtATime'
  BY HearsOrderly DEF Orderly
<1>2. Plain("Silence") \in Frame /\ Plain("Silence").kind = "Silence"
  BY FrameTypes, FrameFields DEF FrameKind
<1>3. toPcd # <<>> => toPcd[1] \in Frame
  BY AirType, AirIsSeq DEF Orderly, TypeOK
<1>4. PICK f \in Frame : ReaderHears(f) /\ HeardOnAir(f)
  BY <1>2, <1>3 DEF ReaderHearsFrame, TimesOut, GivesUp, HeardOnAir, AtWork
<1> QED BY <1>1, <1>4, SessionHearsWhole, ActivationHearsWhole DEF ReaderHears

LEMMA NextWhole ==
  ASSUME ~ GoesOnAfterError, PcdMaxInf # 0
  PROVE  Orderly /\ InStep /\ Whole /\ [Next]_vars => Whole' /\ ChannelStep
<1> SUFFICES ASSUME Orderly, InStep, Whole, [Next]_vars
             PROVE  Whole' /\ ChannelStep
  OBVIOUS
<1>1. CASE UNCHANGED vars
  <2>1. UNCHANGED <<pcd, toPicc, picc, toPcd, reader, command, executed, asked>>
    BY <1>1 DEF vars, history, asked
  <2>2. UNCHANGED <<Fresh, Responding, ChunkTaken, CommandUnderWay, AtWork>>
    BY <2>1 DEF Fresh, Responding, RespondingAt, ChunkTaken, CommandUnderWay, MoreOfCommand,
                AtWork
  <2>3. Whole'
    BY <2>1, <2>2 DEF Whole, FreshOK, CommandWhole, CollectWhole
  <2>4. Stage' = Stage
    BY <2>1 DEF Stage, Exchanging
  <2> QED BY <2>1, <2>3, <2>4, ChannelStutters
<1>2. CASE Poll
  BY <1>2, PollWhole
<1>3. CASE OpenSession \/ ChangeBitRate \/ CloseSession \/ \E c \in Commands : Ask(c)
  BY <1>3, CallWhole
<1>4. CASE CardRuns
  BY <1>4, CardRunsWhole
<1>5. CASE CardHears
  BY <1>5, CardHearsWhole
<1>6. CASE ReaderHearsFrame \/ TimesOut \/ GivesUp
  BY <1>6, ReaderHearsWhole
<1>7. CASE Disturb
  BY <1>7, DisturbWhole
<1> QED BY <1>1, <1>2, <1>3, <1>4, <1>5, <1>6, <1>7 DEF Next, Progress

\* The session implements the channel, for every limit, frame size and way the
\* air loses and garbles frames: a command reaches the card's application whole
\* and at most once, a response that the reader returns is whole and belongs to
\* its command, and a failed exchange closes the session (exchange,
\* receive_command, send_response and handle_active together).  A frame of the
\* card holds more than an I-Block's overhead: FSC is at least 16.
THEOREM LinkImplementsChannel ==
  ASSUME ~ GoesOnAfterError, PcdMaxInf # 0
  PROVE  Spec => ImplementsChannel
<1>1. Init => Orderly /\ InStep /\ Whole /\ Channel!Init
  BY InitOrderly, InitInStep, InitWhole
<1>2. Orderly /\ InStep /\ Whole /\ [Next]_vars =>
        Orderly' /\ InStep' /\ Whole' /\ [Channel!Next]_(Channel!vars)
  BY NextOrderly, NextInStep, NextWhole DEF ChannelStep
<1> QED BY <1>1, <1>2, PTL DEF Spec, ImplementsChannel, Channel!Safety
-----------------------------------------------------------------------------
(* Losses are recovered.  First the card: a call keeps its limits and the  *)
(* ISO 14443-4 support, and below the limits it answers.                   *)

SameAts(p) == "ats" \in DOMAIN p /\ p.ats = picc.ats

LEMMA AtsParts ==
  ASSUME picc \in PiccType
  PROVE  /\ SameAts(picc)
         /\ \A h : SameAts(With(h))
         /\ \A p, r : SameAts(p) => SameAts(Ended(p, r))
         /\ \A p, b : SameAts(p) => SameAts(Saved(p, b))
         /\ \A p, h : SameAts(p) => SameAts([p EXCEPT !.handler = h])
         /\ \A p, s : SameAts(p) => SameAts([p EXCEPT !.state = s])
         /\ \A p, s, n : SameAts(p) => SameAts([p EXCEPT !.state = s, !.level = n])
         /\ \A p, n : SameAts(p) => SameAts([p EXCEPT !.level = n])
<1>1. SameAts(picc)
  BY DEF SameAts, PiccType
<1>2. \A h : SameAts(With(h))
  BY <1>1 DEF SameAts, With
<1>3. \A p, r : SameAts(p) => SameAts(Ended(p, r))
  BY DEF SameAts, Ended
<1>4. /\ \A p, b : SameAts(p) => SameAts(Saved(p, b))
      /\ \A p, h : SameAts(p) => SameAts([p EXCEPT !.handler = h])
      /\ \A p, s : SameAts(p) => SameAts([p EXCEPT !.state = s])
      /\ \A p, s, n : SameAts(p) => SameAts([p EXCEPT !.state = s, !.level = n])
      /\ \A p, n : SameAts(p) => SameAts([p EXCEPT !.level = n])
  BY DEF SameAts, Saved
<1> QED BY <1>1, <1>2, <1>3, <1>4

LEMMA AtsOfStep ==
  ASSUME picc \in PiccType, NEW p, SameAts(p)
  PROVE  /\ \A r : PiccReturns(p, r) => picc'.ats = picc.ats
         /\ PiccWaits(p) => picc'.ats = picc.ats
         /\ \A f, q : PiccSends(f, p, q) /\ SameAts(q) => picc'.ats = picc.ats
         /\ \A b, q : PiccSendsBlock(b, p, q) /\ SameAts(q) => picc'.ats = picc.ats
         /\ \A data, offset : PiccSendsChunk(p, data, offset) => picc'.ats = picc.ats
<1>1. \A r, q : SameAts(q) /\ PiccReturns(q, r) => picc'.ats = picc.ats
  BY AtsParts DEF PiccReturns, SameAts
<1>2. PiccWaits(p) => picc'.ats = picc.ats
  BY DEF PiccWaits, SameAts
<1>3. \A f, q, r : SameAts(q) /\ SameAts(r) /\ PiccSends(f, q, r) => picc'.ats = picc.ats
  BY <1>1 DEF PiccSends, SameAts
<1>4. \A b, q : PiccSendsBlock(b, p, q) /\ SameAts(q) => picc'.ats = picc.ats
  BY <1>3, AtsParts DEF PiccSendsBlock
<1>5. ASSUME NEW data, NEW offset, PiccSendsChunk(p, data, offset)
      PROVE  picc'.ats = picc.ats
  <2> DEFINE b == Chunk(p.handler.number, data, offset, PiccMaxInf)
             more == [p EXCEPT !.call = "Respond", !.response = data,
                               !.offset = offset, !.iblock = <<b>>]
  <2>1. SameAts(more) /\ SameAts(Ended(p, Ok))
    BY AtsParts DEF SameAts
  <2>2. PiccSendsBlock(b, p, IF b.chaining THEN more ELSE Ended(p, Ok))
    BY <1>5 DEF PiccSendsChunk
  <2> QED BY <1>4, <2>1, <2>2
<1> QED BY <1>1, <1>2, <1>3, <1>4, <1>5

LEMMA AtsKept ==
  ASSUME picc \in PiccType,
         \/ \E f : PiccHears(f)
         \/ WaitForActivation \/ WaitForRats \/ ReceiveCommand
         \/ \E data : SendResponse(data)
  PROVE  picc'.ats = picc.ats
<1>1. SameAts(picc) /\ \A h : SameAts(With(h))
  BY AtsParts
<1>2. CASE WaitForActivation \/ WaitForRats \/ ReceiveCommand
  BY <1>2 DEF WaitForActivation, WaitForRats, ReceiveCommand, PiccWaits, PiccType
<1>3. CASE \E data : SendResponse(data)
  BY <1>1, <1>3, AtsOfStep DEF SendResponse
<1>4. ASSUME NEW f, PiccHears(f)
      PROVE  picc'.ats = picc.ats
  <2>1. CASE ReceiveFails(f)
    BY <1>1, <2>1, AtsOfStep DEF ReceiveFails
  <2>2. CASE HearInIdle(f)
    BY <1>1, <2>2, AtsOfStep, AtsParts DEF HearInIdle
  <2>3. CASE HearInReady(f)
    <3>1. SameAts(Selected(picc))
      BY <1>1, AtsParts DEF Selected, SameAts
    <3> QED BY <1>1, <2>3, <3>1, AtsOfStep DEF HearInReady
  <2>4. CASE HearInActive(f)
    <3>1. SameAts(Renewed(picc))
      BY <1>1, AtsParts DEF Renewed
    <3>2. SameAts(Ended([Renewed(picc) EXCEPT !.state = "Protocol"], Ok))
      BY <3>1, AtsParts
    <3>3. SameAts([picc EXCEPT !.state = "Halted"])
      BY <1>1, AtsParts
    <3> QED BY <1>1, <2>4, <3>1, <3>2, <3>3, AtsOfStep DEF HearInActive
  <2>5. CASE HearPps(f)
    BY <1>1, <2>5, AtsOfStep DEF HearPps
  <2>6. CASE HearNoBlock(f)
    BY <1>1, <2>6, AtsOfStep DEF HearNoBlock
  <2>7. ASSUME NEW step, PiccReplies(step)
        PROVE  picc'.ats = picc.ats
    <3>1. SameAts(Ended([With(step.handler) EXCEPT !.state = "Halted"], Fails("Deselected")))
      BY <1>1, AtsParts
    <3> QED BY <1>1, <2>7, <3>1, AtsOfStep DEF PiccReplies, PiccDeselected
  <2>8. CASE HearCommandBlock(f)
    BY <1>1, <2>7, <2>8, AtsOfStep DEF HearCommandBlock
  <2>9. CASE HearAcknowledgement(f)
    BY <1>1, <2>7, <2>9, AtsOfStep DEF HearAcknowledgement
  <2> QED BY <1>4, <2>1, <2>2, <2>3, <2>4, <2>5, <2>6, <2>8, <2>9 DEF PiccHears
<1> QED BY <1>2, <1>3, <1>4

\* A block that a call hears takes the handler on.
LEMMA HearBlockHandler ==
  ASSUME picc \in PiccType, CardCalls, NEW f \in Frame,
         HearCommandBlock(f) \/ HearAcknowledgement(f)
  PROVE  /\ f.block \in Block
         /\ picc'.handler = ProcessReceived(picc.handler, f.block).handler
<1> DEFINE step == ProcessReceived(picc.handler, f.block)
<1>1. /\ f.block \in Block /\ IsStep(step) /\ step.handler \in Handler
      /\ With(step.handler) \in PiccType /\ picc.response \in Seq(Byte)
      /\ With(step.handler).handler = step.handler
  <2>1. f.block \in Block /\ IsStep(step) /\ With(step.handler) \in PiccType
    BY HearBlockEffect DEF CardCalls
  <2> QED BY <2>1, PiccFields, WithFields DEF IsStep
<1>2. /\ picc.lastSent # <<>> => picc.lastSent[1] \in Block
      /\ picc.call = "Respond" => picc.iblock[1] \in Block
      /\ step.outcome.kind = "Reply" => step.outcome.block \in Block
  BY <1>1, PiccFields, OneBlock, OutcomeFields DEF IsStep, CardCalls
<1> HIDE DEF step
<1> SUFFICES picc'.handler = step.handler
  BY <1>1 DEF step
<1>3. ASSUME NEW b \in Block, Said(b, With(step.handler))
      PROVE  picc'.handler = step.handler
  BY <1>1, <1>3, SaidStep
<1>4. CASE step.outcome.kind = "Reply" /\ PiccReplies(step)
  BY <1>1, <1>2, <1>3, <1>4, ReplyEffect
<1>5. CASE \E offset \in 0..Len(picc.response) :
             PiccSendsChunk(With(step.handler), picc.response, offset)
  BY <1>1, <1>5, SendsChunkEffect
<1>6. CASE CallEnded(With(step.handler), step.outcome)
  BY <1>1, <1>6 DEF CallEnded
<1>7. CASE CallFailed(With(step.handler))
  BY <1>1, <1>7, FailedStep
<1>8. \/ step.outcome.kind = "Reply" /\ PiccReplies(step)
      \/ /\ picc.call = "Receive" /\ picc.lastSent # <<>>
         /\ Said(picc.lastSent[1], With(step.handler))
      \/ picc.call = "Respond" /\ Said(picc.iblock[1], With(step.handler))
      \/ \E offset \in 0..Len(picc.response) :
           PiccSendsChunk(With(step.handler), picc.response, offset)
      \/ CallEnded(With(step.handler), step.outcome)
      \/ CallFailed(With(step.handler))
  BY HearBlockEffect DEF step, CardCalls
<1> QED BY <1>2, <1>3, <1>4, <1>5, <1>6, <1>7, <1>8

LEMMA LimitsOfNew == \A role, limits : NewHandler(role, limits).limits = limits
BY DEF NewHandler

\* A card keeps its limits, whatever it hears.
LEMMA CardHearsLimits ==
  ASSUME picc \in PiccType, CardCalls, NEW f \in Frame, PiccHears(f)
  PROVE  picc'.handler.limits = picc.handler.limits
<1>1. picc.handler \in Handler
  BY PiccFields
<1>2. CASE ReceiveFails(f)
  BY <1>2, ReceiveFailsEffect DEF CallEnded
<1>3. CASE HearInIdle(f) \/ HearInReady(f)
  BY <1>3, HearInIdleEffect, HearInReadyEffect DEF ActivationKept
<1>4. CASE HearInActive(f)
  <2>1. picc.state = "Active"
    BY <1>4 DEF HearInActive, CardCalls
  <2> QED BY <1>4, <2>1, HearInActiveEffect, LimitsOfNew
<1>5. ASSUME NEW h \in Handler, SameSession(h, picc.handler), CallFailed(With(h))
      PROVE  picc'.handler.limits = picc.handler.limits
  BY <1>5, FailedStep DEF SameSession
<1>6. CASE HearPps(f)
  <2>1. /\ Counted(picc.handler) \in Handler
        /\ SameSession(Counted(picc.handler), picc.handler)
    BY <1>1, NoteFrameEffect
  <2> QED BY <1>5, <1>6, <2>1, HearPpsEffect, WithFields DEF SameSession
<1>7. CASE HearNoBlock(f)
  BY <1>5, <1>7, HearNoBlockEffect
<1>8. CASE HearCommandBlock(f) \/ HearAcknowledgement(f)
  BY <1>1, <1>8, HearBlockHandler, ReceivedCounts
<1> QED BY <1>2, <1>3, <1>4, <1>6, <1>7, <1>8 DEF PiccHears

LEMMA CardRunsLimits ==
  ASSUME picc \in PiccType, CardCalls, CardRuns
  PROVE  picc'.handler.limits = picc.handler.limits /\ picc'.ats = picc.ats
<1>1. picc.handler \in Handler /\ picc.result \in PiccResult
  BY PiccFields
<1>2. CASE WaitForActivation \/ WaitForRats \/ ReceiveCommand
  BY <1>1, <1>2, WaitForActivationEffect, WaitForRatsEffect, ReceiveCommandEffect,
     SessionStartFields, AtsKept DEF ActivationKept
<1>3. CASE picc.result.kind = "Complete" /\ SendResponse(ResponseTo(picc.result.data))
  <2>1. /\ ResponseTo(picc.result.data) \in Seq(Byte)
        /\ 0 \in 0..Len(ResponseTo(picc.result.data))
    BY <1>1, <1>3, CommandData, ResponseType, LenProperties
  <2>2. CASE PiccSendsChunk(picc, ResponseTo(picc.result.data), 0)
    <3>1. picc'.handler = picc.handler
      BY <2>1, <2>2, SendsChunkEffect
    <3> QED BY <1>3, <3>1, AtsKept
  <2> QED BY <1>3, <2>1, <2>2, SendResponseEffect, AtsKept DEF CallEnded
<1> QED BY <1>2, <1>3 DEF CardRuns, CardAwaitsActivation, CardAwaitsRats,
     CardAwaitsCommand, CardAnswers, CardStartsOver

\* A transceiver that never fails to send sends what the card says.
LEMMA CardSpeaks ==
  ASSUME ~ SendFaults
  PROVE  /\ \A f, p, q : PiccSends(f, p, q) => picc' = q /\ toPcd' = <<f>>
         /\ \A b, p, q : PiccSendsBlock(b, p, q) =>
              picc' = Saved(q, b) /\ toPcd' = <<BlockFrame(b)>>
         /\ \A p, data, offset : PiccSendsChunk(p, data, offset) => toPcd' # <<>>
         /\ \A step : PiccReplies(step) => toPcd' # <<>>
<1>1. \A f, p, q : PiccSends(f, p, q) => picc' = q /\ toPcd' = <<f>>
  BY DEF PiccSends
<1>2. \A b, p, q : PiccSendsBlock(b, p, q) =>
        picc' = Saved(q, b) /\ toPcd' = <<BlockFrame(b)>>
  BY <1>1 DEF PiccSendsBlock
<1>3. \A f : <<f>> # <<>>
  OBVIOUS
<1>4. \A p, data, offset : PiccSendsChunk(p, data, offset) => toPcd' # <<>>
  BY <1>2, <1>3 DEF PiccSendsChunk
<1>5. \A step : PiccReplies(step) => toPcd' # <<>>
  BY <1>2, <1>3 DEF PiccReplies, PiccDeselected
<1> QED BY <1>1, <1>2, <1>4, <1>5

\* Only a chunk with more to come leaves the call waiting.
LEMMA CardChains ==
  ASSUME ~ SendFaults, NEW p \in PiccType, NEW data, NEW offset,
         PiccSendsChunk(p, data, offset)
  PROVE  /\ picc'.call = "None" => ~ picc'.lastSent[1].chaining
         /\ picc'.call = "Respond" => picc'.lastSent[1].chaining
<1> DEFINE b == Chunk(p.handler.number, data, offset, PiccMaxInf)
           more == [p EXCEPT !.call = "Respond", !.response = data,
                             !.offset = offset, !.iblock = <<b>>]
<1>1. PiccSendsBlock(b, p, IF b.chaining THEN more ELSE Ended(p, Ok))
  BY DEF PiccSendsChunk
<1>2. b.chaining \in BOOLEAN
  BY DEF Chunk, IBlock, MoreToSend
<1>3. more.call = "Respond" /\ "lastSent" \in DOMAIN more
  BY DEF PiccType
<1>4. Ended(p, Ok).call = "None" /\ "lastSent" \in DOMAIN Ended(p, Ok)
  BY DEF PiccType, Ended
<1> HIDE DEF more, b
<1>5. picc' = Saved(IF b.chaining THEN more ELSE Ended(p, Ok), b)
  BY <1>1, CardSpeaks
<1>6. picc'.lastSent = <<b>> /\ picc'.call = IF b.chaining THEN "Respond" ELSE "None"
  BY <1>3, <1>4, <1>5 DEF Saved
<1> QED BY <1>6

LEMMA ZeroCounts == ZeroCounters.frames = 0 /\ ZeroCounters.retransmissions = 0
BY DEF ZeroCounters

LEMMA OkNotErr == Ok.kind = "Ok" /\ Ok.kind # "Err" /\ Ok.kind # "Complete"
BY OutcomeKinds

\* The card's application calls for the next command.
LEMMA CardHoldsRuns ==
  ASSUME picc \in PiccType, CardCalls, CardHolds, CardRuns
  PROVE  /\ picc.call = "None" /\ picc'.call = "Receive" /\ toPcd' = toPcd
         /\ picc'.lastSent = picc.lastSent
         /\ Listening' /\ CardFrames' = 0 /\ CardRepeats' = 0
<1>1. /\ picc.state = "Protocol" /\ picc.handler \in Handler
      /\ picc.call = "None" => picc.result = Ok
  BY PiccFields DEF CardHolds
<1>2. ReceiveCommand
  BY <1>1, OkNotErr DEF CardRuns, CardAwaitsActivation, CardAwaitsRats, CardAwaitsCommand,
     CardAnswers, CardStartsOver, SendResponse, WaitForActivation
<1>3. /\ picc.call = "None" /\ picc'.call = "Receive" /\ picc'.state = "Protocol"
      /\ picc'.lastSent = picc.lastSent /\ toPcd' = toPcd
      /\ picc'.handler.counters = ZeroCounters
  BY <1>1, <1>2, ReceiveCommandEffect, SessionStartFields DEF ReceiveCommand
<1> QED BY <1>3, ZeroCounts DEF Listening, CardHolds, CardFrames, CardRepeats

\* The card's application calls for RATS.
LEMMA ActivatedRuns ==
  ASSUME picc \in PiccType, CardCalls, Activated, CardRuns
  PROVE  Activated' /\ toPcd' = toPcd
<1>1. picc.state = "Active" /\ (picc.call = "None" => picc.result = Ok)
  BY DEF Activated
<1>2. WaitForRats
  BY <1>1, OkNotErr DEF CardRuns, CardAwaitsActivation, CardAwaitsRats, CardAwaitsCommand,
     CardAnswers, CardStartsOver, WaitForActivation
<1> QED BY <1>1, <1>2, WaitForRatsEffect DEF Activated

\* RATS is answered.
LEMMA CardGivesAts ==
  ASSUME picc \in PiccType, CardCalls, ~ SendFaults, picc.ats, Activated,
         PiccHears(Plain("Rats"))
  PROVE  toPcd' = <<Plain("Ats")>> /\ Listening' /\ CardFrames' = 0
<1> DEFINE q == [Renewed(picc) EXCEPT !.state = "Protocol"]
<1>1. picc.state = "Active" /\ picc.call \in {"None", "Rats"} /\ Plain("Rats").kind = "Rats"
  BY PiccFields, FrameFields DEF Activated, CardCalls, PiccCall
<1>2. HearInActive(Plain("Rats"))
  BY <1>1 DEF PiccHears, ReceiveFails, HearInIdle, HearInReady, HearInActive,
     HearPps, HearNoBlock, HearCommandBlock, HearAcknowledgement
<1>3. PiccSends(Plain("Ats"), Renewed(picc), Ended(q, Ok))
  BY <1>1, <1>2 DEF HearInActive
<1>4. Renewed(picc) \in PiccType
  <2>1. picc.handler.limits \in LimitsType
    BY PiccFields, HandlerFields
  <2>2. NewHandler("Picc", picc.handler.limits) \in Handler
    BY <2>1, SessionStartType DEF Role
  <2> QED BY <2>2, HandlerField DEF Renewed
<1>5. q \in PiccType /\ q.state = "Protocol"
  BY <1>4, StateField DEF PiccState
<1> HIDE DEF q
<1>6. /\ Ended(q, Ok).state = "Protocol" /\ Ended(q, Ok).call = "None"
      /\ Ended(q, Ok).result = Ok
  BY <1>5, EndedFields, PiccResults
<1>7. picc' = Ended(q, Ok) /\ toPcd' = <<Plain("Ats")>>
  BY <1>3, CardSpeaks
<1> QED BY <1>6, <1>7 DEF Listening, CardHolds, CardFrames

\* A PPS request is answered.
LEMMA CardGivesPpss ==
  ASSUME picc \in PiccType, CardCalls, ~ SendFaults, Listening,
         PiccHears(Plain("Pps")), FrameRoom(picc.handler)
  PROVE  /\ toPcd' = <<Plain("Ppss")>> /\ Listening'
         /\ CardFrames' \in Nat /\ CardFrames' <= CardFrames + 1
<1> DEFINE g == Counted(picc.handler)
<1>1. /\ picc.state = "Protocol" /\ picc.call \in {"None", "Receive"}
      /\ Plain("Pps").kind = "Pps" /\ picc.handler \in Handler
  BY PiccFields, FrameFields DEF Listening, CardHolds, CardCalls, PiccCall
<1>2. HearPps(Plain("Pps")) /\ picc.call = "Receive"
  BY <1>1 DEF PiccHears, ReceiveFails, HearInIdle, HearInReady, HearInActive,
     HearPps, HearNoBlock, HearCommandBlock, HearAcknowledgement, CardCalls
<1>3. /\ NoteFrame(picc.handler) = Step(g, Ok) /\ g \in Handler
      /\ g.counters = CountFrame(picc.handler.counters)
  BY <1>1, FrameAccepted, NoteFrameEffect
<1>4. g.counters.frames = SaturatingIncrement(picc.handler.counters.frames, U16Max)
  BY <1>1, <1>3, HandlerFields DEF CountFrame, CountersType
<1>5. PiccSends(Plain("Ppss"), With(g), With(g))
  BY <1>2, <1>3, StepFields DEF HearPps
<1>6. picc' = With(g) /\ toPcd' = <<Plain("Ppss")>>
  BY <1>5, CardSpeaks
<1> HIDE DEF g
<1>7. /\ picc'.state = "Protocol" /\ picc'.call = "Receive" /\ picc'.handler = g
  BY <1>1, <1>2, <1>3, <1>6, WithFields
<1>8. /\ picc.handler.counters.frames \in 0..U16Max /\ U16Max \in Nat
  BY <1>1, CounterNats
<1>9. g.counters.frames \in Nat /\ g.counters.frames <= picc.handler.counters.frames + 1
  BY <1>4, <1>8 DEF SaturatingIncrement
<1> QED BY <1>2, <1>6, <1>7, <1>9 DEF Listening, CardHolds, CardFrames

\* A new chunk for which there is room is taken.
LEMMA CardTakesChunk ==
  ASSUME picc \in PiccType, CardCalls, ~ SendFaults, toPcd = <<>>,
         picc.call = "Receive", picc.handler.role = "Picc",
         NEW f \in Frame, PiccHears(f),
         Carries(f, "I"), f.block.number # picc.handler.number,
         FrameRoom(picc.handler),
         Len(picc.handler.chain) + Len(f.block.payload) <= picc.handler.limits.max_chain_len,
         Len(picc.handler.chain) + Len(f.block.payload) <= ChainCapacity
  PROVE  /\ \/ AtWork' /\ ~ f.block.chaining
            \/ /\ toPcd' = <<BlockFrame(RAck(picc'.handler))>> /\ picc'.call = "Receive"
               /\ f.block.chaining
         /\ CardFrames' \in Nat /\ CardFrames' <= CardFrames + 1
<1> DEFINE step == ProcessReceived(picc.handler, f.block)
<1>1. /\ picc.state = "Protocol" /\ f.kind = "Block" /\ f.block \in Block
      /\ f.block.type = "I" /\ picc.handler \in Handler
  BY PiccFields, BlockOfFrame DEF CardCalls, Carries
<1>2. ~ RepeatsLastIBlock(picc.handler, f.block) /\ ~ IsDeselect(f.block)
  BY <1>1 DEF RepeatsLastIBlock, IsDeselect
<1>3. step.outcome.kind = IF f.block.chaining THEN "Reply" ELSE "Complete"
  BY <1>1, <1>2, IBlockAccepted
<1>4. /\ step.handler.counters.frames \in Nat
      /\ step.handler.counters.frames <= picc.handler.counters.frames + 1
  BY <1>1, <1>2, <1>3, CountsOne
<1>5. HearCommandBlock(f)
  BY <1>1, HeardBlock DEF HearAcknowledgement
<1>6. picc'.handler = step.handler
  BY <1>5, HearBlockHandler
<1>7. \/ f.block.chaining /\ PiccReplies(step)
      \/ ~ f.block.chaining /\ PiccReturns(With(step.handler), step.outcome)
  BY <1>3, <1>5 DEF HearCommandBlock
<1> HIDE DEF step
<1>8. ~ (picc'.call = "None" /\ picc'.result.kind = "Err" /\ toPcd' = toPcd)
  <2>1. CASE f.block.chaining
    BY <1>7, <2>1, CardSpeaks
  <2>2. CASE ~ f.block.chaining
    <3>1. /\ picc' = Ended(With(step.handler), step.outcome)
          /\ step.outcome.kind = "Complete"
      BY <1>3, <1>7, <2>2 DEF PiccReturns
    <3>2. picc'.result = step.outcome
      BY <3>1 DEF Ended, With, PiccType
    <3> QED BY <3>1, <3>2
  <2> QED BY <2>1, <2>2
<1>9. \/ AtWork' /\ ~ f.block.chaining
      \/ /\ toPcd' = <<BlockFrame(RAck(picc'.handler))>> /\ picc'.call = "Receive"
         /\ f.block.chaining
  BY <1>8, CardTakesIBlock DEF AtWork
<1>10. ~ (picc'.call = "None" /\ picc'.result = Ok)
  BY <1>9, OkNotErr DEF AtWork
<1> QED BY <1>4, <1>6, <1>9, <1>10 DEF CardFrames

\* S(DESELECT) is echoed.
LEMMA CardEchoesDeselect ==
  ASSUME picc \in PiccType, CardCalls, ~ SendFaults, picc.state = "Protocol",
         NEW f \in Frame, PiccHears(f), IsDeselectFrame(f), FrameRoom(picc.handler)
  PROVE  toPcd' # <<>> /\ IsDeselectFrame(toPcd'[1])
<1> DEFINE step == ProcessReceived(picc.handler, f.block)
           echo == SBlock("Deselect", <<>>)
<1>1. /\ f.kind = "Block" /\ f.block \in Block /\ IsDeselect(f.block)
      /\ picc.handler \in Handler
  BY PiccFields, BlockOfFrame DEF IsDeselectFrame
<1>2. step.outcome.kind = "Reply" /\ IsDeselect(step.outcome.block)
  BY <1>1, DeselectAccepted, DeselectEchoed
<1>3. PiccReplies(step)
  BY <1>1, <1>2, HeardBlock DEF HearCommandBlock, HearAcknowledgement
<1> HIDE DEF step
<1>4. toPcd' = <<BlockFrame(echo)>>
  BY <1>2, <1>3, CardSpeaks DEF PiccReplies, PiccDeselected
<1>5. IsDeselectFrame(BlockFrame(echo))
  BY FrameFields DEF IsDeselectFrame, IsDeselect, SBlock
<1> HIDE DEF echo
<1> QED BY <1>4, <1>5

\* The R(ACK) of a reader that collects is answered: with the block that the
\* card sent last, or with the chunk after it.
LEMMA CardAnswersAck ==
  ASSUME picc \in PiccType, CardCalls, ~ SendFaults, toPcd = <<>>,
         picc.state = "Protocol", picc.handler.role = "Picc",
         NEW f \in Frame, PiccHears(f), Carries(f, "R"), f.block.subtype = "Ack",
         NEW b \in Block, picc.lastSent = <<b>>,
         picc.call = "Respond" => picc.iblock = <<b>>,
         FrameRoom(picc.handler),
         \/ /\ f.block.number = picc.handler.number
            /\ picc.handler.counters.retransmissions <
                 picc.handler.limits.max_retransmissions
         \/ f.block.number # picc.handler.number /\ picc.call = "Respond"
  PROVE  LET h == picc.handler
             g == picc'.handler
         IN  /\ picc'.state = "Protocol"
             /\ g.counters.frames \in Nat /\ g.counters.retransmissions \in Nat
             /\ g.counters.frames <= h.counters.frames + 1
             /\ IF f.block.number = h.number
                THEN /\ Repeats(b) /\ picc.call \in {"Receive", "Respond"}
                     /\ g.counters.retransmissions = h.counters.retransmissions + 1
                ELSE /\ g.counters.retransmissions = 0
                     /\ \E c \in Block :
                          /\ c = Chunk(f.block.number, picc.response, NextOffset, PiccMaxInf)
                          /\ picc'.lastSent = <<c>> /\ toPcd' = <<BlockFrame(c)>>
                          /\ \/ picc'.call = "Respond" /\ c.chaining
                             \/ picc'.call = "None" /\ picc'.result = Ok /\ ~ c.chaining
<1> DEFINE step == ProcessReceived(picc.handler, f.block)
<1>1. /\ f.kind = "Block" /\ f.block \in Block /\ f.block.type = "R"
      /\ picc.handler \in Handler /\ ~ IsDeselect(f.block)
  BY PiccFields, BlockOfFrame DEF Carries, IsDeselect
<1>2. HearCommandBlock(f) \/ HearAcknowledgement(f)
  BY <1>1, HeardBlock
<1>3. picc'.handler = step.handler
  BY <1>2, HearBlockHandler
<1>4. /\ picc'.state = "Protocol" /\ picc'.handler \in Handler
      /\ picc'.handler.counters.retransmissions \in Nat
      /\ \/ Repeats(b) /\ picc.call \in {"Receive", "Respond"}
         \/ /\ picc.call = "Respond" /\ picc.handler.number # f.block.number
            /\ \E c \in Block : GoesOnWith(c, f.block.number)
         \/ GivesUpOn(b, f.block.number)
  <2>1. picc' \in PiccType
    BY CardIsAcknowledged
  <2>2. picc'.handler \in Handler
    BY <2>1, PiccFields
  <2>3. picc'.handler.counters.retransmissions \in Nat
    BY <2>2, CounterNats
  <2> QED BY <2>2, <2>3, CardIsAcknowledged
<1>5. picc.lastSent # <<>>
  BY OneBlock
<1>6. ASSUME step.outcome.kind \in {"ChainingAck", "ChainingRetransmit"},
             step.outcome.kind = "ChainingAck" => picc.call = "Respond"
      PROVE  toPcd' # <<>> /\ picc'.handler.counters.frames \in Nat
             /\ picc'.handler.counters.frames <= picc.handler.counters.frames + 1
  <2>1. /\ step.handler.counters.frames \in Nat
        /\ step.handler.counters.frames <= picc.handler.counters.frames + 1
    BY <1>1, <1>6, CountsOne
  <2> HIDE DEF step
  <2>2. \A g : <<BlockFrame(g)>> # <<>>
    OBVIOUS
  <2>3. CASE HearCommandBlock(f)
    <3>1. \E q : PiccSendsBlock(picc.lastSent[1], With(step.handler), q)
      BY <1>5, <1>6, <2>3 DEF HearCommandBlock, step
    <3> QED BY <1>3, <2>1, <2>2, <3>1, CardSpeaks
  <2>4. CASE HearAcknowledgement(f)
    <3>1. \/ \E g, q : PiccSendsBlock(g, With(step.handler), q)
          \/ \E data, offset : PiccSendsChunk(With(step.handler), data, offset)
      BY <1>6, <2>4 DEF HearAcknowledgement, step
    <3> QED BY <1>3, <2>1, <2>2, <3>1, CardSpeaks
  <2> QED BY <1>2, <2>3, <2>4
<1>7. CASE f.block.number = picc.handler.number
  <2>1. /\ step.outcome.kind = "ChainingRetransmit"
        /\ step.handler.counters.retransmissions =
             picc.handler.counters.retransmissions + 1
    BY <1>1, <1>7, RepeatAccepted
  <2>2. Repeats(b) /\ picc.call \in {"Receive", "Respond"}
    BY <1>4, <1>6, <1>7, <2>1 DEF GivesUpOn
  <2> QED BY <1>3, <1>4, <1>6, <1>7, <2>1, <2>2
<1>8. CASE f.block.number # picc.handler.number
  <2>1. /\ step.outcome.kind = "ChainingAck"
        /\ step.handler.counters.retransmissions = 0
    BY <1>1, <1>8, AckAccepted
  <2>2. step.handler.number # picc.handler.number
    <3>1. step.handler.number = 1 - picc.handler.number
      BY <1>1, <2>1, ReceivedAck
    <3> QED BY <1>1, <3>1, HandlerFields DEF Bit
  <2>3. PICK c \in Block : GoesOnWith(c, f.block.number)
    BY <1>3, <1>4, <1>6, <1>8, <2>1, <2>2 DEF GivesUpOn, Repeats
  <2>4. /\ c = Chunk(f.block.number, picc.response, NextOffset, PiccMaxInf)
        /\ picc'.lastSent = <<c>> /\ toPcd' = <<BlockFrame(c)>>
        /\ \/ picc'.call = "Respond" /\ c.chaining
           \/ picc'.call = "None" /\ picc'.result = Ok /\ ~ c.chaining
    <3>1. /\ picc'.lastSent = <<c>> /\ toPcd' # toPcd
          /\ \/ picc'.call = "Respond" /\ c.chaining
             \/ picc'.call = "None"
      BY <1>6, <1>8, <2>1, <2>3 DEF GoesOnWith
    <3>2. picc'.call = "None" => ~ c.chaining
      <4>1. step.handler \in Handler /\ HearAcknowledgement(f)
        BY <1>1, <1>2, <1>8, ProcessReceivedType DEF IsStep, HearCommandBlock
      <4>2. \E data, offset : PiccSendsChunk(With(step.handler), data, offset)
        BY <2>1, <4>1 DEF HearAcknowledgement
      <4>3. With(step.handler) \in PiccType
        BY <4>1, WithFields
      <4> HIDE DEF step
      <4> QED BY <3>1, <4>2, <4>3, CardChains
    <3> QED BY <1>6, <1>8, <2>1, <2>3, <3>1, <3>2 DEF GoesOnWith
  <2> HIDE DEF step
  <2> QED BY <1>3, <1>4, <1>6, <1>8, <2>1, <2>4
<1> QED BY <1>7, <1>8

-----------------------------------------------------------------------------
(* Counting in blocks and in bytes.                                        *)

LEMMA PiecesCover ==
  ASSUME NEW n \in Nat, NEW m \in Nat, m > 0
  PROVE  Pieces(n, m) \in Nat /\ n <= Pieces(n, m) * m
<1> DEFINE d == (n + m - 1) \div m
<1>1. d \in Int /\ n + m - 1 = m * d + ((n + m - 1) % m) /\ (n + m - 1) % m \in 0..(m - 1)
  OBVIOUS
<1>2. d >= 0
  OBVIOUS
<1> HIDE DEF d
<1>3. m * d = d * m /\ d \in Nat
  BY <1>1, <1>2
<1>4. n <= d * m
  BY <1>1, <1>3
<1> QED BY <1>3, <1>4 DEF Pieces, d

LEMMA TimesMore ==
  ASSUME NEW a \in Nat, NEW m \in Nat
  PROVE  a * m \in Nat /\ (a + 1) * m = a * m + m
OBVIOUS

LEMMA TimesLess ==
  ASSUME NEW a \in Nat, NEW b \in Nat, NEW m \in Nat, a * m < b * m
  PROVE  a < b
<1> SUFFICES ASSUME a >= b PROVE FALSE
  OBVIOUS
<1> PICK c \in Nat : a = b + c
  <2> a - b \in Nat /\ a = b + (a - b)
    OBVIOUS
  <2> QED OBVIOUS
<1>1. a * m = b * m + c * m /\ c * m >= 0 /\ b * m \in Int /\ c * m \in Int
  OBVIOUS
<1> QED BY <1>1

LEMMA OneOfRecovering ==
  ASSUME pcd'.result.kind # "Err"
  PROVE  /\ pcd'.phase = "Connecting" /\ ConnectRecovers' => Recovering'
         /\ pcd'.phase = "Idle" /\ ReadyRecovers' => Recovering'
         /\ pcd'.phase = "Pps" /\ PpsRecovers' => Recovering'
         /\ pcd'.phase = "Command" /\ CommandRecovers' => Recovering'
         /\ pcd'.phase = "Collect" /\ CollectRecovers' => Recovering'
         /\ pcd'.phase = "Deselecting" /\ DeselectRecovers' => Recovering'
         /\ pcd'.phase = "NoSession" => Recovering'
BY DEF Recovering, ConnectRecovers, ReadyRecovers, PpsRecovers, CommandRecovers,
       CollectRecovers, DeselectRecovers

\* What is counted, in numbers.
LEMMA Counts ==
  ASSUME Orderly
  PROVE  /\ CardFrames \in Nat /\ CardRepeats \in Nat /\ lossRun \in Nat
         /\ pcd.handler.counters.frames \in Nat /\ pcd.retries \in 0..MaxRetries
         /\ pcd.offset \in Nat /\ Len(pcd.handler.chain) \in Nat /\ MaxRetries = 2
         /\ PcdMaxInf \in Nat /\ PiccMaxInf \in Nat
         /\ picc.call # "None" => /\ CardFrames = picc.handler.counters.frames
                                  /\ CardRepeats = picc.handler.counters.retransmissions
<1>1. picc.handler \in Handler /\ pcd.handler \in Handler /\ lossRun \in Nat
  BY PiccFields, PcdFields, LinkAssumption DEF Orderly, TypeOK
<1>2. /\ picc.handler.counters.frames \in Nat /\ picc.handler.counters.retransmissions \in Nat
      /\ pcd.handler.counters.frames \in Nat /\ Len(pcd.handler.chain) \in Nat
  BY <1>1, CounterNats
<1>3. pcd.retries \in 0..MaxRetries /\ pcd.offset \in Nat
  BY PcdFields DEF Orderly, TypeOK
<1> QED BY <1>1, <1>2, <1>3, PcdAssumption, PiccAssumption
        DEF CardFrames, CardRepeats, MaxRetries

\* The room that the limits leave for a command and its response.
LEMMA AmpleFor ==
  ASSUME AmpleLimits, NEW c \in Commands
  PROVE  LET n == Len(c)
             r == Len(ResponseTo(c))
         IN  /\ c \in Seq(Byte) /\ n \in Nat /\ r \in Nat /\ r > 0
             /\ ResponseTo(c) \in Seq(Byte) /\ c # <<>>
             /\ CommandPieces(c) \in Nat /\ n <= CommandPieces(c) * PcdMaxInf
             /\ ResponsePieces(c) \in Nat /\ r <= ResponsePieces(c) * PiccMaxInf
             /\ PcdLimits.max_frames \in Nat /\ PiccLimits.max_frames \in Nat
             /\ PiccLimits.max_retransmissions \in Nat
             /\ PcdLimits.max_frames >= CommandPieces(c) + ResponsePieces(c)
             /\ PiccLimits.max_frames >=
                  MaxRetries + CommandPieces(c) + (1 + MaxRetries) * ResponsePieces(c)
             /\ n <= PiccLimits.max_chain_len /\ n <= ChainCapacity
             /\ r <= PcdLimits.max_chain_len /\ r <= ChainCapacity
<1>1. c \in Seq(Byte) /\ c # <<>> /\ ResponseTo(c) \in Seq(Byte)
  BY LinkAssumption, ResponseType
<1>2. Len(c) \in Nat /\ Len(ResponseTo(c)) \in Nat /\ Len(ResponseTo(c)) > 0
  <2>1. Len(ResponseTo(c)) = Len(c) + 1
    BY <1>1 DEF ResponseTo
  <2> QED BY <1>1, <2>1, LenProperties
<1>3. /\ PcdMaxInf \in Nat /\ PiccMaxInf \in Nat /\ PcdMaxInf > 0 /\ PiccMaxInf > 0
      /\ PcdLimits.max_frames \in Nat /\ PiccLimits.max_frames \in Nat
      /\ PiccLimits.max_retransmissions \in Nat
  BY PcdAssumption, PiccAssumption, WidthsAreNat DEF AmpleLimits, LimitsType, U16, U8
<1>4. /\ CommandPieces(c) \in Nat /\ Len(c) <= CommandPieces(c) * PcdMaxInf
      /\ ResponsePieces(c) \in Nat
      /\ Len(ResponseTo(c)) <= ResponsePieces(c) * PiccMaxInf
  BY <1>2, <1>3, PiecesCover DEF CommandPieces, ResponsePieces
<1> QED BY <1>1, <1>2, <1>3, <1>4 DEF AmpleLimits

LEMMA InitRecovering == Init => ActivatedOK /\ Recovering
<1> SUFFICES ASSUME Init PROVE ActivatedOK /\ Recovering
  OBVIOUS
<1>1. /\ pcd.phase = "NoSession" /\ pcd.result = Ok /\ pcd.handler.limits = PcdLimits
      /\ picc.handler.limits = PiccLimits /\ picc.ats
  BY LimitsOfNew DEF Init, PcdInit, NewPicc
<1>2. scan.phase = "Idle" /\ scan.result = "None"
  BY DEF Init, Scan!ScanInit
<1>3. ActivatedOK
  BY <1>1, <1>2 DEF ActivatedOK
<1>4. Recovering
  BY <1>1, OkNotErr DEF Recovering, ConnectRecovers, ReadyRecovers, PpsRecovers,
     CommandRecovers, CollectRecovers, DeselectRecovers
<1> QED BY <1>3, <1>4

LEMMA PollRecovering ==
  ASSUME Orderly, ActivatedOK, Poll
  PROVE  ActivatedOK' /\ Recovering'
<1>1. /\ pcd'.phase = "NoSession" /\ pcd'.result = Ok /\ pcd'.handler.limits = PcdLimits
  BY LimitsOfNew DEF Poll, DropSession, Orderly, TypeOK, PcdType
<1>2. scan'.phase = "Request" /\ scan'.result = "None" /\ UNCHANGED picc
  BY ActivateStep DEF Poll
<1>3. ActivatedOK'
  BY <1>1, <1>2 DEF ActivatedOK
<1> QED BY <1>1, <1>3, OkNotErr, OneOfRecovering

\* A call of the reader's application begins with all of its retries, and with
\* a card that listens.
LEMMA CallRecovering ==
  ASSUME Orderly, InStep, ActivatedOK, Recovering, AmpleLimits,
         OpenSession \/ ChangeBitRate \/ CloseSession \/ \E c \in Commands : Ask(c)
  PROVE  ActivatedOK' /\ Recovering'
<1> USE PcdAssumption
<1>1. pcd \in PcdType /\ picc \in PiccType /\ CardCalls /\ pcd.handler \in Handler
      /\ OneAtATime
  BY PcdFields DEF Orderly, TypeOK
<1>2. CASE OpenSession
  <2>1. /\ pcd'.phase = "Connecting" /\ pcd'.handler = pcd.handler
        /\ pcd'.result = pcd.result /\ toPicc' = <<Plain("Rats")>>
    <3>1. Connect /\ Plain("Rats") \in Frame /\ "Connecting" \in PcdPhase
      BY <1>2, FrameTypes DEF OpenSession, FrameKind, PcdPhase, PcdWaiting
    <3> QED BY <1>1, <3>1, AwaitEffect DEF Connect
  <2>2. /\ scan.result = "Ok" /\ scan'.result = "None" /\ scan'.phase = "Idle"
        /\ UNCHANGED picc
    BY <1>1, <1>2 DEF OpenSession, OneAtATime, Orderly, TypeOK, Scan!ScanType
  <2>3. Activated' /\ pcd.result = Ok
    BY <2>2 DEF ActivatedOK, Activated
  <2>4. ActivatedOK'
    BY <2>1, <2>2 DEF ActivatedOK
  <2>5. ConnectRecovers'
    BY <2>1, <2>3 DEF ConnectRecovers
  <2> QED BY <2>1, <2>3, <2>4, <2>5, OkNotErr, OneOfRecovering
<1>3. CASE PcdReady
  <2>1. /\ pcd.phase = "Idle" /\ reader # "Over" /\ scan.phase = "Idle"
        /\ scan.result # "Ok"
    BY <1>1, <1>3 DEF PcdReady, OneAtATime
  <2>2. ~ beyond => /\ pcd.result.kind # "Err" /\ Listening
                    /\ CardFrames <= IF reader = "New" THEN 0 ELSE MaxRetries
    BY <2>1 DEF Recovering, ReadyRecovers
  <2>3. CardFrames \in Nat /\ MaxRetries = 2
    BY Counts
  <2>4. ASSUME UNCHANGED <<scan, picc>>, pcd'.handler.limits = pcd.handler.limits
        PROVE  ActivatedOK' /\ Listening' = Listening /\ CardFrames' = CardFrames
    BY <2>1, <2>4 DEF ActivatedOK, Listening, CardHolds, CardFrames
  <2>5. CASE ChangeBitRate
    <3>1. /\ pcd'.phase = "Pps" /\ pcd'.handler = pcd.handler
          /\ pcd'.result = pcd.result /\ toPicc' = <<Plain("Pps")>>
      <4>1. NegotiatePps /\ Plain("Pps") \in Frame /\ "Pps" \in PcdPhase
        BY <2>5, FrameTypes DEF ChangeBitRate, FrameKind, PcdPhase, PcdWaiting
      <4> QED BY <1>1, <4>1, AwaitEffect DEF NegotiatePps
    <3>2. UNCHANGED <<scan, picc, beyond>> /\ reader = "New"
      BY <2>5 DEF ChangeBitRate, history
    <3>3. ASSUME ~ beyond PROVE PpsRecovers'
      BY <2>2, <2>3, <2>4, <3>1, <3>2, <3>3 DEF PpsRecovers
    <3> QED BY <2>2, <2>4, <3>1, <3>2, <3>3, OneOfRecovering DEF Recovering
  <2>6. CASE CloseSession
    <3> DEFINE request == BlockFrame(SBlock("Deselect", <<>>))
    <3>1. /\ pcd'.phase = "Deselecting" /\ pcd'.handler = pcd.handler
          /\ pcd'.result = pcd.result /\ toPicc' = <<request>>
      <4>1. Deselect /\ request \in Frame /\ "Deselecting" \in PcdPhase
        BY <2>6, DeselectFrame DEF CloseSession, PcdPhase, PcdWaiting
      <4> QED BY <1>1, <4>1, AwaitEffect DEF Deselect
    <3>2. UNCHANGED <<scan, picc, beyond>>
      BY <2>6 DEF CloseSession, history
    <3>3. ASSUME ~ beyond PROVE DeselectRecovers'
      BY <2>2, <2>3, <2>4, <3>1, <3>2, <3>3 DEF DeselectRecovers
    <3> QED BY <2>2, <2>4, <3>1, <3>2, <3>3, OneOfRecovering DEF Recovering
  <2>7. ASSUME NEW c \in Commands, Ask(c)
        PROVE  ActivatedOK' /\ Recovering'
    <3>1. c \in Seq(Byte) /\ c # <<>> /\ Len(c) \in Nat /\ Len(c) > 0
      BY LinkAssumption, LenProperties
    <3>2. /\ pcd'.phase = "Command" /\ pcd'.offset = 0
          /\ pcd'.handler = BeginExchange(pcd.handler) /\ pcd'.result = Ok
          /\ toPicc' # <<>> /\ Carries(toPicc'[1], "I")
      BY <1>1, <2>7, <3>1, ExchangeEffect DEF Ask, AmpleLimits
    <3>3. /\ pcd'.handler.limits = pcd.handler.limits /\ pcd'.handler.counters.frames = 0
      BY <1>1, <3>2, SessionStartFields, ZeroCounts
    <3>4. UNCHANGED <<scan, picc, beyond>> /\ command' = c
      BY <2>7 DEF Ask
    <3>5. ASSUME ~ beyond PROVE CommandRecovers'
      <4>1. BlockOnAir(toPicc)'
        BY <3>2 DEF BlockOnAir, Carries
      <4>2. Listening' /\ CardFrames' = CardFrames /\ CardFrames <= MaxRetries
        BY <2>2, <2>3, <2>4, <3>3, <3>4, <3>5
      <4>3. CardFrames * PcdMaxInf <= MaxRetries * PcdMaxInf
        BY <2>3, <4>2
      <4>4. ChunksCounted(pcd.offset)'
        BY <2>3, <3>2, <4>2, <4>3 DEF ChunksCounted
      <4> QED BY <3>1, <3>2, <3>3, <3>4, <4>1, <4>2, <4>4 DEF CommandRecovers
    <3> QED BY <2>4, <3>2, <3>3, <3>4, <3>5, OkNotErr, OneOfRecovering DEF Recovering
  <2> QED BY <1>3, <2>5, <2>6, <2>7, <1>2
          DEF PcdReady, OpenSession, ChangeBitRate, CloseSession, Ask
<1> QED BY <1>2, <1>3 DEF ChangeBitRate, CloseSession, Ask

\* The card's application answers a command, and the first block of the
\* response goes out.
LEMMA CardResponds ==
  ASSUME Orderly, ~ SendFaults, PiccMaxInf # 0, AtWork, toPcd = <<>>, CardRuns
  PROVE  \E b \in Block :
           /\ b.type = "I" /\ toPcd' = <<BlockFrame(b)>>
           /\ picc'.handler = picc.handler
           /\ \/ picc'.call = "Respond" /\ b.chaining
              \/ picc'.call = "None" /\ picc'.result = Ok /\ ~ b.chaining
<1> DEFINE r == ResponseTo(picc.result.data)
<1>1. /\ picc \in PiccType /\ CardCalls /\ picc.result \in PiccResult
      /\ picc.state = "Protocol" /\ picc.call = "None" /\ picc.result.kind = "Complete"
  BY AtWorkInSession, PiccFields DEF Orderly, TypeOK, AtWork
<1>2. r \in Seq(Byte) /\ 0 \in 0..Len(r)
  BY <1>1, CommandData, ResponseType, LenProperties
<1>3. SendResponse(r)
  BY <1>1, OkNotErr DEF CardRuns, CardAwaitsActivation, CardAwaitsRats, CardAwaitsCommand,
     CardAnswers, CardStartsOver
<1>4. PiccSendsChunk(picc, r, 0)
  BY <1>3 DEF SendResponse
<1> HIDE DEF r
<1>5. PICK b \in Block :
        /\ b.type = "I" /\ picc'.lastSent = <<b>> /\ picc'.handler = picc.handler
        /\ \/ picc'.call = "Respond" /\ toPcd' = <<BlockFrame(b)>>
           \/ /\ picc'.call = "None"
              /\ \/ picc'.result = Ok /\ toPcd' = <<BlockFrame(b)>>
                 \/ picc'.result.kind = "Err" /\ toPcd' = toPcd
  BY <1>1, <1>2, <1>4, SendsChunkEffect
<1>6. /\ picc'.call = "None" => ~ b.chaining
      /\ picc'.call = "Respond" => b.chaining
  BY <1>1, <1>4, <1>5, CardChains
<1>7. toPcd' # toPcd
  BY <1>4, CardSpeaks
<1> QED BY <1>5, <1>6, <1>7

LEMMA CardRunsRecovering ==
  ASSUME Orderly, InStep, ActivatedOK, Recovering, AmpleLimits, ~ SendFaults, CardRuns
  PROVE  ActivatedOK' /\ Recovering'
<1>1. /\ picc \in PiccType /\ CardCalls /\ OneAtATime
      /\ UNCHANGED <<scan, pcd, toPicc, lossRun, reader, command, beyond>>
  BY CardRunsEffect DEF Orderly, TypeOK, CardStep, history, asked
<1>2. /\ picc.call = "None"
      /\ picc.state # "Protocol" => toPcd' = toPcd
  BY <1>1, CardRunsEffect
<1>3. ActivatedOK'
  <2>1. picc'.ats /\ picc'.handler.limits = PiccLimits /\ pcd'.handler.limits = PcdLimits
    BY <1>1, CardRunsLimits DEF ActivatedOK
  <2>2. scan'.phase = "Select" /\ toPcd' = <<SakFrame(TRUE)>> => Activated'
    BY <1>1, <1>2, ActivatedRuns DEF ActivatedOK, InStep, SelectingOK, NotInSession
  <2>3. scan'.result = "Ok" => Activated'
    BY <1>1, ActivatedRuns DEF ActivatedOK
  <2> QED BY <1>1, <2>1, <2>2, <2>3 DEF ActivatedOK
<1> SUFFICES ASSUME ~ beyond PROVE Recovering'
  BY <1>1, <1>3 DEF Recovering
<1>4. pcd'.result.kind # "Err"
  BY <1>1 DEF Recovering
<1>5. CardHolds => /\ picc'.call = "Receive" /\ toPcd' = toPcd
                   /\ picc'.lastSent = picc.lastSent
                   /\ Listening' /\ CardFrames' = 0 /\ CardRepeats' = 0
  BY <1>1, CardHoldsRuns
<1>6. MaxRetries = 2 /\ PcdMaxInf \in Nat /\ pcd.offset \in Nat
  BY Counts
<1>7. CASE pcd.phase = "Connecting"
  <2>1. ConnectRecovers'
    BY <1>1, <1>5, <1>7, ActivatedRuns DEF Recovering, ConnectRecovers, Listening
  <2> QED BY <1>1, <1>4, <1>7, <2>1, OneOfRecovering
<1>8. CASE pcd.phase = "Idle"
  <2>1. ReadyRecovers'
    BY <1>1, <1>5, <1>6, <1>8 DEF Recovering, ReadyRecovers, Listening
  <2> QED BY <1>1, <1>4, <1>8, <2>1, OneOfRecovering
<1>9. CASE pcd.phase = "Pps"
  <2>1. PpsRecovers'
    BY <1>1, <1>5, <1>9 DEF Recovering, PpsRecovers, Listening
  <2> QED BY <1>1, <1>4, <1>9, <2>1, OneOfRecovering
<1>10. CASE pcd.phase = "Command"
  <2>1. CommandRecovers /\ CommandOK
    BY <1>10 DEF Recovering, InStep
  <2>2. CASE BlockOnAir(toPicc) /\ Listening /\ ChunksCounted(pcd.offset)
    <3>1. BlockOnAir(toPicc)' /\ Listening' /\ CardFrames' = 0
      BY <1>1, <1>5, <2>2 DEF BlockOnAir, Listening
    <3>2. ChunksCounted(pcd.offset)'
      BY <1>1, <1>6, <3>1 DEF ChunksCounted
    <3> QED BY <1>1, <1>4, <1>10, <2>1, <3>1, <3>2, OneOfRecovering DEF CommandRecovers
  <2>3. CASE AtWork /\ ~ MoreOfCommand /\ CommandCounted
    <3>1. PICK b \in Block :
           /\ b.type = "I" /\ toPcd' = <<BlockFrame(b)>>
           /\ picc'.handler = picc.handler
           /\ \/ picc'.call = "Respond" /\ b.chaining
              \/ picc'.call = "None" /\ picc'.result = Ok /\ ~ b.chaining
      BY <1>10, <2>1, <2>3, CardResponds DEF AmpleLimits, CommandOK, Quiet
    <3>2. BlockOnAir(toPcd)' /\ Carries(toPcd[1], "I")' /\ toPcd'[1].block = b
      BY <3>1, FrameFields DEF BlockOnAir, Carries
    <3>3. picc.result # Ok
      BY <2>3, OkNotErr DEF AtWork
    <3>4. CardFrames' = IF picc'.call = "Respond" THEN CardFrames ELSE 0
      BY <1>2, <3>1, <3>3 DEF CardFrames
    <3>5. MoreOfCommand' = MoreOfCommand
      BY <1>1 DEF MoreOfCommand
    <3>6. ResponseBegins'
      BY <1>1, <2>3, <3>1, <3>2, <3>4, <3>5 DEF ResponseBegins, CommandCounted
    <3> QED BY <1>1, <1>4, <1>10, <2>1, <3>2, <3>6, OneOfRecovering DEF CommandRecovers
  <2>4. CASE BlockOnAir(toPcd) /\ Carries(toPcd[1], "R")
    BY <1>2, <2>1, <2>4, <1>10 DEF BlockOnAir, Carries, CommandOK, RespondedWith
  <2>5. CASE BlockOnAir(toPcd) /\ ResponseBegins
    <3>1. CardHolds
      BY <1>10, <2>1, <2>5 DEF BlockOnAir, CommandOK
    <3>2. ResponseBegins' /\ BlockOnAir(toPcd)'
      BY <1>1, <1>2, <1>5, <2>5, <3>1 DEF ResponseBegins, MoreOfCommand, BlockOnAir
    <3> QED BY <1>1, <1>4, <1>10, <2>1, <3>2, OneOfRecovering DEF CommandRecovers
  <2> QED BY <1>10, <2>1, <2>2, <2>3, <2>4, <2>5 DEF CommandRecovers
<1>11. CASE pcd.phase = "Collect"
  <2>1. CollectRecovers /\ CardHolds
    BY <1>11 DEF Recovering, CollectRecovers
  <2>2. /\ Ahead' = Ahead /\ Unnoticed' = Unnoticed /\ CardRepeats = 0 /\ CardHolds'
        /\ BlockOnAir(toPcd)' = BlockOnAir(toPcd)
    BY <1>1, <1>2, <1>5, <2>1 DEF Ahead, Unnoticed, CardRepeats, BlockOnAir, Listening
  <2>3. CollectRecovers'
    BY <1>1, <1>2, <1>5, <1>11, <2>1, <2>2 DEF CollectRecovers, ResponseTo
  <2> QED BY <1>1, <1>4, <1>11, <2>3, OneOfRecovering
<1>12. CASE pcd.phase \in {"Deselecting", "DeselectRetry"}
  <2>1. DeselectRecovers /\ pcd.phase = "Deselecting" /\ DeselectingOK
    BY <1>12 DEF Recovering, DeselectRecovers, InStep
  <2>2. CASE toPcd # <<>> /\ IsDeselectFrame(toPcd[1])
    <3>1. picc.state # "Protocol"
      BY <2>1, <2>2 DEF DeselectingOK
    <3>2. DeselectRecovers'
      BY <1>1, <1>2, <2>1, <2>2, <3>1 DEF DeselectRecovers, IsDeselectFrame
    <3> QED BY <1>1, <1>4, <2>1, <3>2, OneOfRecovering
  <2>3. CASE toPicc = <<BlockFrame(SBlock("Deselect", <<>>))>> /\ Listening
    <3>1. DeselectRecovers'
      BY <1>1, <1>5, <1>6, <2>1, <2>3 DEF DeselectRecovers, Listening
    <3> QED BY <1>1, <1>4, <2>1, <3>1, OneOfRecovering
  <2> QED BY <2>1, <2>2, <2>3 DEF DeselectRecovers
<1>13. CASE pcd.phase = "NoSession"
  BY <1>1, <1>4, <1>13, OneOfRecovering
<1>14. pcd.phase \in PcdPhase
  BY PcdFields DEF Orderly, TypeOK
<1> QED BY <1>7, <1>8, <1>9, <1>10, <1>11, <1>12, <1>13, <1>14 DEF PcdPhase, PcdWaiting

\* Frames that were counted for n bytes leave room for those that are left.
LEMMA RoomForChunk ==
  ASSUME NEW f \in Nat, NEW m \in Nat, NEW repeats \in Nat, NEW pieces \in Nat,
         NEW done \in Nat, NEW n \in Nat,
         f * m <= repeats * m + done, done < n, n <= pieces * m
  PROVE  f < repeats + pieces
<1>1. (repeats + pieces) * m = repeats * m + pieces * m
  OBVIOUS
<1>2. /\ f * m \in Nat /\ repeats * m \in Nat /\ pieces * m \in Nat
      /\ (repeats + pieces) * m \in Nat
  OBVIOUS
<1>3. f * m < (repeats + pieces) * m
  BY <1>1, <1>2
<1> QED BY <1>3, TimesLess

LEMMA OneChunkMore ==
  ASSUME NEW f \in Nat, NEW g \in Nat, NEW m \in Nat, NEW repeats \in Nat,
         NEW done \in Nat, f * m <= repeats * m + done, g <= f + 1
  PROVE  g * m <= repeats * m + (done + m)
<1>1. f * m \in Nat /\ g * m \in Nat /\ repeats * m \in Nat /\ g * m <= f * m + m
  OBVIOUS
<1> QED BY <1>1

LEMMA RoomForResponse ==
  ASSUME NEW f \in Nat, NEW m \in Nat, NEW commandPieces \in Nat,
         NEW responsePieces \in Nat, NEW done \in Nat, NEW n \in Nat, NEW k \in 0..MaxRetries,
         WithinResponse(f, m, commandPieces, done, k),
         done < n, n <= responsePieces * m
  PROVE  f < MaxRetries + commandPieces + (1 + MaxRetries) * responsePieces
<1> DEFINE F == f * m
           C == commandPieces * m
           R == responsePieces * m
           K == k * m
<1>1. MaxRetries = 2 /\ k \in Nat /\ k <= 2
  BY DEF MaxRetries
<1>2. F \in Nat /\ C \in Nat /\ R \in Nat /\ K \in Nat
  BY <1>1
<1>3. /\ (f + 1 + 2) * m = F + 3 * m /\ (2 + commandPieces) * m = 2 * m + C
      /\ (2 + commandPieces + (1 + 2) * responsePieces) * m = 2 * m + C + 3 * R
  OBVIOUS
<1>4. K <= 2 * m
  BY <1>1
<1> DEFINE bound == 2 + commandPieces + (1 + 2) * responsePieces
<1>5. bound \in Nat
  OBVIOUS
<1> HIDE DEF F, C, R, K
<1>6. F + 3 * m <= 2 * m + C + 3 * done + K
  BY <1>1, <1>3 DEF WithinResponse, K
<1>7. F < 2 * m + C + 3 * R
  BY <1>2, <1>4, <1>6 DEF R
<1>8. f * m < bound * m
  BY <1>3, <1>7 DEF F
<1> HIDE DEF bound
<1>9. f < bound
  BY <1>5, <1>8, TimesLess
<1> QED BY <1>1, <1>9 DEF bound

LEMMA WithinCounts ==
  ASSUME NEW f \in Nat, NEW m \in Nat, NEW pieces \in Nat, NEW done \in Nat
  PROVE  /\ f <= MaxRetries + pieces => WithinResponse(f, m, pieces, done + m, 0)
         /\ \A k \in Nat, g \in Nat :
              /\ WithinResponse(f, m, pieces, done, k) /\ g <= f + 1 =>
                   WithinResponse(g, m, pieces, done, k + 1)
              /\ WithinResponse(f, m, pieces, done, k) /\ k <= 1 + MaxRetries =>
                   WithinResponse(f, m, pieces, done + m, 0)
<1> DEFINE F == f * m
           C == pieces * m
<1>1. MaxRetries = 2
  BY DEF MaxRetries
<1>2. F \in Nat /\ C \in Nat /\ 0 * m = 0
  OBVIOUS
<1>3. /\ (f + 1 + 2) * m = F + 3 * m /\ (2 + pieces) * m = 2 * m + C
  OBVIOUS
<1>4. f <= 2 + pieces => F <= 2 * m + C
  OBVIOUS
<1>5. \A k \in Nat, g \in Nat :
        /\ k * m \in Nat /\ g * m \in Nat
        /\ (k + 1) * m = k * m + m /\ (g + 1 + 2) * m = g * m + 3 * m
        /\ g <= f + 1 => g * m <= F + m
        /\ k <= 3 => k * m <= 3 * m
  OBVIOUS
<1> HIDE DEF F, C
<1>6. f <= MaxRetries + pieces => WithinResponse(f, m, pieces, done + m, 0)
  BY <1>1, <1>2, <1>3, <1>4 DEF WithinResponse
<1>7. ASSUME NEW k \in Nat, NEW g \in Nat, WithinResponse(f, m, pieces, done, k), g <= f + 1
      PROVE  WithinResponse(g, m, pieces, done, k + 1)
  BY <1>1, <1>2, <1>3, <1>5, <1>7 DEF WithinResponse
<1>8. ASSUME NEW k \in Nat, WithinResponse(f, m, pieces, done, k), k <= 1 + MaxRetries
      PROVE  WithinResponse(f, m, pieces, done + m, 0)
  BY <1>1, <1>2, <1>3, <1>5, <1>8 DEF WithinResponse
<1> QED BY <1>6, <1>7, <1>8

\* A complete SAK leaves the card waiting for RATS.
LEMMA CardSelected ==
  ASSUME picc \in PiccType, CardCalls, NotInSession, NEW f \in Frame, PiccHears(f),
         f.kind \in {"Anticollision", "Select", "Noise"},
         toPcd = <<>>, toPcd' = <<SakFrame(TRUE)>>
  PROVE  Activated'
<1>1. /\ SakFrame(TRUE).kind = "Sak" /\ Plain("Atqa").kind = "Atqa"
      /\ \A k : SakFrame(k).complete = k
      /\ UidFrame(UidPart(Uid, picc.level)).kind = "UidBcc"
  BY FrameFields
<1>2. toPcd' # toPcd /\ toPcd'[1] = SakFrame(TRUE)
  OBVIOUS
<1>3. picc.call \notin {"Receive", "Respond"}
  BY DEF CardCalls, NotInSession
<1>4. CASE HearInReady(f)
  <2>1. /\ toPcd' = <<SakFrame(IsLastLevel(Uid, picc.level))>>
        /\ IsLastLevel(Uid, picc.level) =>
             picc'.call = "None" /\ picc'.state = "Active" /\ picc'.result = Ok
    BY <1>1, <1>2, <1>4, HearInReadyEffect
  <2>2. \A k : toPcd' = <<SakFrame(k)>> => toPcd'[1].complete = k
    BY <1>1
  <2>3. IsLastLevel(Uid, picc.level)
    BY <1>1, <1>2, <2>1, <2>2 DEF IsLastLevel
  <2> QED BY <2>1, <2>3 DEF Activated
<1>5. CASE HearInActive(f)
  BY <1>2, <1>5, HearInActiveOther DEF CallEnded
<1>6. ~ HearInIdle(f)
  BY <1>2 DEF HearInIdle, PiccWaits
<1> QED BY <1>3, <1>4, <1>5, <1>6
        DEF PiccHears, ReceiveFails, HearPps, HearNoBlock, HearCommandBlock, HearAcknowledgement

LEMMA CardHearsActivated ==
  ASSUME Orderly, InStep, ActivatedOK, CardHears
  PROVE  ActivatedOK'
<1>1. /\ picc \in PiccType /\ CardCalls /\ OneAtATime /\ UNCHANGED <<scan, pcd>>
      /\ toPicc # <<>> /\ PiccHears(toPicc[1]) /\ toPicc[1] \in Frame
  BY AirType, AirIsSeq DEF Orderly, TypeOK, CardHears
<1>2. picc'.ats /\ picc'.handler.limits = PiccLimits /\ pcd'.handler.limits = PcdLimits
  BY <1>1, AtsKept, CardHearsLimits DEF ActivatedOK
<1>3. ASSUME scan.phase = "Select", toPcd' = <<SakFrame(TRUE)>>
      PROVE  Activated'
  <2>1. /\ NotInSession /\ toPcd = <<>>
        /\ toPicc[1].kind \in {"Anticollision", "Select", "Noise"}
    BY <1>1, <1>3 DEF InStep, SelectingOK, HalfDuplex
  <2> QED BY <1>1, <1>3, <2>1, CardSelected
<1>4. scan.result # "Ok"
  <2>1. scan.result = "Ok" => scan.phase = "Idle" /\ pcd.phase = "NoSession" /\ HalfDuplex
    BY <1>1 DEF OneAtATime, InStep, SelectingOK
  <2> QED BY <1>1, <2>1 DEF HalfDuplex, Quiet, ReaderWaits, PcdWaiting
<1> QED BY <1>1, <1>2, <1>3, <1>4 DEF ActivatedOK

\* A chunk of the command reaches a card that has room for it.
LEMMA CardHearsChunk ==
  ASSUME Orderly, InStep, Whole, ActivatedOK, Recovering, AmpleLimits, ~ SendFaults,
         CardHears, ~ beyond, pcd.phase = "Command"
  PROVE  CommandRecovers'
<1>1. /\ picc \in PiccType /\ pcd \in PcdType /\ CardCalls /\ picc.handler \in Handler
      /\ toPicc # <<>> /\ PiccHears(toPicc[1]) /\ toPicc[1] \in Frame
      /\ UNCHANGED <<scan, pcd, command>>
  BY AirType, AirIsSeq, PiccFields DEF Orderly, TypeOK, CardHears
<1>2. CommandRecovers /\ CommandOK /\ CommandWhole
  BY DEF Recovering, InStep, Whole
<1>3. PICK f \in Frame : f = toPicc[1] /\ PiccHears(f)
  BY <1>1
<1>4. toPcd = <<>> /\ ~ AtWork /\ CommandUnderWay
  BY <1>1, <1>2 DEF CommandOK, CommandWhole, HalfDuplex, Quiet
<1>5. f.kind = "Block" /\ Listening /\ ChunksCounted(pcd.offset)
  BY <1>2, <1>3, <1>4 DEF CommandRecovers, BlockOnAir
<1>6. picc.call # "None"
  BY <1>3 DEF PiccHears, ReceiveFails, HearInIdle, HearInReady, HearInActive,
     HearPps, HearNoBlock, HearCommandBlock, HearAcknowledgement, CardCalls
<1>7. picc.state = "Protocol" /\ picc.call = "Receive"
  BY <1>1, <1>5, <1>6, PiccFields DEF Listening, CardHolds, CardCalls, PiccCall
<1>8. /\ Carries(f, "I") /\ f.block.number # picc.handler.number
  BY <1>1, <1>2, <1>3, <1>5, <1>7 DEF CommandOK, Expects
<1>9. /\ f.block = Chunk(pcd.handler.number, command, pcd.offset, PcdMaxInf)
      /\ picc.handler.chain = SubSeq(command, 1, pcd.offset)
      /\ pcd.apdu = command /\ pcd.offset < Len(command) /\ command \in Commands
  BY <1>1, <1>2, <1>3, <1>4, <1>5, <1>7 DEF CommandUnderWay, CommandWhole, CommandRecovers
<1> DEFINE n == Len(command)
           end == ChunkEnd(command, pcd.offset, PcdMaxInf)
<1>10. /\ command \in Seq(Byte) /\ n \in Nat /\ pcd.offset \in 0..n
       /\ PcdMaxInf \in Nat /\ pcd.handler.number \in Bit /\ MaxRetries = 2
       /\ CommandPieces(command) \in Nat /\ n <= CommandPieces(command) * PcdMaxInf
       /\ CardFrames \in Nat /\ CardFrames = picc.handler.counters.frames
  <2>1. /\ command \in Seq(Byte) /\ n \in Nat
        /\ CommandPieces(command) \in Nat /\ n <= CommandPieces(command) * PcdMaxInf
    BY <1>9, AmpleFor
  <2>2. /\ PcdMaxInf \in Nat /\ MaxRetries = 2 /\ pcd.offset \in Nat
        /\ CardFrames \in Nat /\ CardFrames = picc.handler.counters.frames
    BY <1>6, Counts
  <2>3. pcd.handler.number \in Bit
    BY <1>1, PcdFields, HandlerFields
  <2> HIDE DEF n
  <2>4. pcd.offset < n
    BY <1>9 DEF n
  <2>5. pcd.offset \in 0..n
    BY <2>1, <2>2, <2>4
  <2> QED BY <2>1, <2>2, <2>3, <2>5
<1>11. /\ end \in pcd.offset..n
       /\ MoreOfCommand => end = pcd.offset + PcdMaxInf
       /\ f.block.chaining = MoreOfCommand /\ f.block \in Block
       /\ picc.handler.chain \o f.block.payload = SubSeq(command, 1, end)
  <2>1. end \in pcd.offset..n /\ (MoreOfCommand => end = pcd.offset + PcdMaxInf)
    BY <1>9, <1>10, ChunkEndBounds DEF MoreOfCommand
  <2>2. f.block.chaining = MoreOfCommand /\ f.block \in Block
    BY <1>9, <1>10, ChunkType DEF MoreOfCommand
  <2>3. picc.handler.chain \o f.block.payload = SubSeq(command, 1, end)
    <3>1. SubSeq(command, 1, pcd.offset)
            \o Chunk(pcd.handler.number, command, pcd.offset, PcdMaxInf).payload
          = SubSeq(command, 1, end)
      BY <1>10, ChunkContinues
    <3> QED BY <1>9, <3>1
  <2> QED BY <2>1, <2>2, <2>3
<1>12. /\ Len(picc.handler.chain) + Len(f.block.payload) <= n
       /\ Len(picc.handler.chain) + Len(f.block.payload) \in Nat
  <2>1. picc.handler.chain \in Seq(Byte) /\ f.block.payload \in Seq(Byte)
    <3>1. picc.handler.chain \in Seq(Byte)
      BY <1>1, HandlerFields
    <3>2. f.block.payload \in Seq(Byte)
      BY <1>11 DEF Block
    <3> QED BY <3>1, <3>2
  <2>2. Len(SubSeq(command, 1, end)) = end
    BY <1>10, <1>11
  <2>3. Len(picc.handler.chain) + Len(f.block.payload) = end
    BY <1>11, <2>1, <2>2, ConcatType
  <2> HIDE DEF end, n
  <2>4. end <= n /\ end \in Nat
    BY <1>10, <1>11
  <2> QED BY <2>3, <2>4
<1> HIDE DEF end, n
<1>13. CardFrames < MaxRetries + CommandPieces(command)
  <2>1. MaxRetries \in Nat /\ pcd.offset \in Nat /\ pcd.offset < n
    BY <1>9, <1>10 DEF n
  <2>2. CardFrames * PcdMaxInf <= MaxRetries * PcdMaxInf + pcd.offset
    BY <1>5 DEF ChunksCounted
  <2> QED BY <1>10, <2>1, <2>2, RoomForChunk
<1>14. /\ FrameRoom(picc.handler)
       /\ Len(picc.handler.chain) + Len(f.block.payload) <= picc.handler.limits.max_chain_len
       /\ Len(picc.handler.chain) + Len(f.block.payload) <= ChainCapacity
  <2>1. /\ PiccLimits.max_frames \in Nat /\ ResponsePieces(command) \in Nat
        /\ PiccLimits.max_frames >=
             MaxRetries + CommandPieces(command) + (1 + MaxRetries) * ResponsePieces(command)
        /\ n <= PiccLimits.max_chain_len /\ n <= ChainCapacity
    BY <1>9, AmpleFor DEF n
  <2>2. /\ picc.handler.limits = PiccLimits /\ PiccLimits.max_chain_len \in Nat
        /\ ChainCapacity \in Nat
    BY <1>1, CounterNats, ChainCapacityAssumption DEF ActivatedOK
  <2>3. CardFrames < PiccLimits.max_frames
    BY <1>10, <1>13, <2>1
  <2>4. FrameRoom(picc.handler)
    BY <1>10, <2>2, <2>3 DEF FrameRoom
  <2> DEFINE length == Len(picc.handler.chain) + Len(f.block.payload)
  <2>5. length \in Nat /\ length <= n
    BY <1>12
  <2> HIDE DEF length
  <2>6. length <= PiccLimits.max_chain_len /\ length <= ChainCapacity
    BY <1>10, <2>1, <2>2, <2>5
  <2> QED BY <2>2, <2>4, <2>6 DEF length
<1>15. /\ \/ AtWork' /\ ~ f.block.chaining
          \/ /\ toPcd' = <<BlockFrame(RAck(picc'.handler))>> /\ picc'.call = "Receive"
             /\ f.block.chaining
       /\ CardFrames' \in Nat /\ CardFrames' <= CardFrames + 1
  BY <1>1, <1>3, <1>4, <1>7, <1>8, <1>14, CardTakesChunk DEF InStep, RolesKept
<1>16. CASE AtWork' /\ ~ f.block.chaining
  <2>1. CommandCounted'
    BY <1>1, <1>10, <1>13, <1>15 DEF CommandCounted, CommandPieces
  <2>2. ~ MoreOfCommand'
    BY <1>1, <1>11, <1>16 DEF MoreOfCommand
  <2> QED BY <1>1, <1>2, <1>16, <2>1, <2>2 DEF CommandRecovers
<1>17. CASE /\ toPcd' = <<BlockFrame(RAck(picc'.handler))>> /\ picc'.call = "Receive"
            /\ f.block.chaining
  <2>1. BlockOnAir(toPcd)' /\ Carries(toPcd[1], "R")'
    BY <1>17, FrameFields DEF BlockOnAir, Carries, RAck, RBlock
  <2>2. CardFrames' * PcdMaxInf <= MaxRetries * PcdMaxInf + end
    <3>1. end = pcd.offset + PcdMaxInf
      BY <1>10, <1>11, <1>17
    <3>2. CardFrames * PcdMaxInf <= MaxRetries * PcdMaxInf + pcd.offset
      BY <1>5 DEF ChunksCounted
    <3>3. MaxRetries \in Nat /\ pcd.offset \in Nat
      BY <1>10
    <3> QED BY <1>10, <1>15, <3>1, <3>2, <3>3, OneChunkMore
  <2>3. ChunksCounted(ChunkEnd(command, pcd.offset, PcdMaxInf))'
    BY <1>1, <2>2 DEF ChunksCounted, end
  <2> QED BY <1>1, <1>2, <2>1, <2>3 DEF CommandRecovers
<1> QED BY <1>15, <1>16, <1>17

\* The R(ACK) of a reader that collects finds the card with the block that it
\* asks for, and with room for it.
LEMMA CardHearsAck ==
  ASSUME Orderly, InStep, Whole, ActivatedOK, Recovering, AmpleLimits, ~ SendFaults,
         CardHears, ~ beyond, pcd.phase = "Collect"
  PROVE  CollectRecovers'
<1>1. /\ picc \in PiccType /\ pcd \in PcdType /\ CardCalls /\ picc.handler \in Handler
      /\ toPicc # <<>> /\ PiccHears(toPicc[1]) /\ toPicc[1] \in Frame
      /\ toPicc' = <<>> /\ UNCHANGED <<scan, pcd, lossRun, command>>
      /\ picc.handler.role = "Picc"
  BY AirType, AirIsSeq, PiccFields DEF Orderly, TypeOK, CardHears, InStep, RolesKept
<1>2. CollectRecovers /\ CollectOK /\ CollectWhole
  BY DEF Recovering, InStep, Whole
<1>3. PICK f \in Frame : f = toPicc[1] /\ PiccHears(f)
  BY <1>1
<1>4. /\ toPcd = <<>> /\ f = BlockFrame(RAck(pcd.handler))
  BY <1>1, <1>2, <1>3 DEF CollectOK, CollectRecovers, HalfDuplex, Quiet
<1>5. /\ Carries(f, "R") /\ f.block.subtype = "Ack" /\ f.block.number = pcd.handler.number
  BY <1>4, FrameFields DEF Carries, RAck, RBlock
<1>6. picc.call # "None"
  BY <1>3 DEF PiccHears, ReceiveFails, HearInIdle, HearInReady, HearInActive,
     HearPps, HearNoBlock, HearCommandBlock, HearAcknowledgement, CardCalls
<1>7. picc.state = "Protocol" /\ picc.call \in {"Receive", "Respond"} /\ Responding
  BY <1>1, <1>2, <1>6, PiccFields
     DEF CollectRecovers, CollectWhole, CardHolds, CardCalls, PiccCall
<1>8. PICK b \in Block :
        /\ picc.lastSent = <<b>>
        /\ picc.call = "Respond" => picc.iblock = <<b>>
        /\ b.chaining <=> picc.call = "Respond"
        /\ Ahead <=> b.number = pcd.handler.number
        /\ IF picc.call = "Respond" THEN b.number = picc.handler.number
           ELSE b.number = picc.handler.number /\ picc.handler.number = pcd.handler.number
  <2> DEFINE b == picc.lastSent[1]
  <2>1. b \in Block
    BY <1>1, <1>2, <1>7, PiccFields DEF CollectOK
  <2>2. /\ picc.lastSent = <<b>>
        /\ picc.call = "Respond" => picc.iblock = <<b>>
    BY <1>1, <1>2, <1>7, PiccFields DEF CollectOK, RespondedWith
  <2>3. b.chaining <=> picc.call = "Respond"
    BY <1>2 DEF CollectRecovers
  <2>4. Ahead <=> b.number = pcd.handler.number
    BY DEF Ahead
  <2>5. IF picc.call = "Respond" THEN b.number = picc.handler.number
        ELSE b.number = picc.handler.number /\ picc.handler.number = pcd.handler.number
    BY <1>2, <1>7, <2>3 DEF CollectOK
  <2> HIDE DEF b
  <2> QED BY <2>1, <2>2, <2>3, <2>4, <2>5
<1>9. /\ Ahead => f.block.number = picc.handler.number
      /\ ~ Ahead => f.block.number # picc.handler.number /\ picc.call = "Respond"
  BY <1>2, <1>5, <1>8 DEF CollectRecovers
<1> DEFINE n == Len(ResponseTo(command))
           done == Len(pcd.handler.chain)
           k == IF Ahead THEN 1 + CardRepeats ELSE 0
<1>10. /\ command \in Commands /\ n \in Nat /\ done \in Nat /\ done < n
       /\ CommandPieces(command) \in Nat /\ ResponsePieces(command) \in Nat
       /\ n <= ResponsePieces(command) * PiccMaxInf
       /\ PiccMaxInf \in Nat /\ MaxRetries = 2 /\ lossRun \in Nat /\ lossRun <= MaxRetries
       /\ CardFrames \in Nat /\ CardFrames = picc.handler.counters.frames
       /\ CardRepeats \in Nat /\ CardRepeats = picc.handler.counters.retransmissions
       /\ PiccLimits.max_frames \in Nat
       /\ PiccLimits.max_frames >=
            MaxRetries + CommandPieces(command) + (1 + MaxRetries) * ResponsePieces(command)
  <2>1. command \in Commands /\ done < n /\ lossRun <= MaxRetries
    BY <1>2 DEF CollectRecovers
  <2>2. /\ n \in Nat /\ CommandPieces(command) \in Nat /\ ResponsePieces(command) \in Nat
        /\ n <= ResponsePieces(command) * PiccMaxInf
        /\ PiccLimits.max_frames \in Nat
        /\ PiccLimits.max_frames >=
             MaxRetries + CommandPieces(command) + (1 + MaxRetries) * ResponsePieces(command)
    BY <2>1, AmpleFor
  <2>3. /\ done \in Nat /\ PiccMaxInf \in Nat /\ MaxRetries = 2 /\ lossRun \in Nat
        /\ CardFrames \in Nat /\ CardFrames = picc.handler.counters.frames
        /\ CardRepeats \in Nat /\ CardRepeats = picc.handler.counters.retransmissions
    BY <1>6, Counts
  <2> HIDE DEF n, done
  <2> QED BY <2>1, <2>2, <2>3
<1>11. /\ picc.handler.limits = PiccLimits
       /\ PiccLimits.max_retransmissions \in Nat /\ PiccLimits.max_retransmissions >= MaxRetries
       /\ PiccLimits.max_frames > MaxRetries
  BY <1>1, CounterNats DEF ActivatedOK, AmpleLimits
<1>12. /\ Ahead => CardRepeats + 1 <= lossRun
       /\ picc.call # "Respond" => CardFrames <= CardRepeats
       /\ picc.call = "Respond" =>
            WithinResponse(CardFrames, PiccMaxInf, CommandPieces(command), done, k)
  BY <1>2, <1>4 DEF CollectRecovers, BlockOnAir
<1>13. k \in 0..MaxRetries
  <2>1. CASE Ahead
    <3>1. k = 1 + CardRepeats
      BY <2>1
    <3>2. /\ CardRepeats \in Nat /\ lossRun \in Nat /\ CardRepeats + 1 <= lossRun
          /\ lossRun <= MaxRetries /\ MaxRetries = 2
      BY <1>10, <1>12, <2>1
    <3> HIDE DEF k
    <3> QED BY <3>1, <3>2
  <2>2. CASE ~ Ahead
    <3>1. k = 0
      BY <2>2
    <3> HIDE DEF k
    <3> QED BY <1>10, <3>1
  <2> QED BY <2>1, <2>2
<1> HIDE DEF n, done, k
<1>14. FrameRoom(picc.handler)
  <2>1. CASE picc.call = "Respond"
    <3>1. CardFrames <
            MaxRetries + CommandPieces(command) + (1 + MaxRetries) * ResponsePieces(command)
      BY <1>10, <1>12, <1>13, <2>1, RoomForResponse
    <3>2. (1 + MaxRetries) * ResponsePieces(command) \in Nat
      BY <1>10
    <3> HIDE DEF n
    <3>3. CardFrames < PiccLimits.max_frames
      BY <1>10, <3>1, <3>2
    <3> QED BY <1>10, <1>11, <3>3 DEF FrameRoom
  <2>2. CASE picc.call # "Respond"
    <3>1. Ahead
      BY <1>9, <2>2
    <3>2. CardFrames < PiccLimits.max_frames
      BY <1>10, <1>11, <1>12, <2>2, <3>1
    <3> QED BY <1>10, <1>11, <3>2 DEF FrameRoom
  <2> QED BY <2>1, <2>2
<1>15. Ahead => picc.handler.counters.retransmissions < picc.handler.limits.max_retransmissions
  BY <1>10, <1>11, <1>12
<1>16. /\ picc'.state = "Protocol"
       /\ picc'.handler.counters.frames \in Nat /\ picc'.handler.counters.retransmissions \in Nat
       /\ picc'.handler.counters.frames <= picc.handler.counters.frames + 1
       /\ IF f.block.number = picc.handler.number
          THEN /\ Repeats(b)
               /\ picc'.handler.counters.retransmissions =
                    picc.handler.counters.retransmissions + 1
          ELSE /\ picc'.handler.counters.retransmissions = 0
               /\ \E c \in Block :
                    /\ c = Chunk(f.block.number, picc.response, NextOffset, PiccMaxInf)
                    /\ picc'.lastSent = <<c>> /\ toPcd' = <<BlockFrame(c)>>
                    /\ \/ picc'.call = "Respond" /\ c.chaining
                       \/ picc'.call = "None" /\ picc'.result = Ok /\ ~ c.chaining
  <2>1. \/ /\ f.block.number = picc.handler.number
           /\ picc.handler.counters.retransmissions <
                picc.handler.limits.max_retransmissions
        \/ f.block.number # picc.handler.number /\ picc.call = "Respond"
    BY <1>9, <1>15
  <2>2. picc.call = "Respond" => picc.iblock = <<b>>
    BY <1>8
  <2>3. picc.lastSent = <<b>> /\ picc.handler.role = "Picc" /\ picc.state = "Protocol"
    BY <1>1, <1>7, <1>8
  <2> QED BY <1>1, <1>3, <1>4, <1>5, <1>14, <2>1, <2>2, <2>3, CardAnswersAck
<1>17. PICK d \in Block :
         /\ picc'.lastSent = <<d>> /\ toPcd' = <<BlockFrame(d)>>
         /\ d.number = pcd.handler.number
         /\ \/ picc'.call \in {"Receive", "Respond"} /\ (d.chaining <=> picc'.call = "Respond")
            \/ picc'.call = "None" /\ picc'.result = Ok /\ ~ d.chaining
         /\ picc'.call = "Receive" => picc.call = "Receive"
         /\ picc'.call = "Respond" => picc.call = "Respond"
  <2>1. CASE Ahead
    BY <1>7, <1>8, <1>9, <1>16, <2>1 DEF Repeats
  <2>2. CASE ~ Ahead
    <3>1. \A x, s, o, m : Chunk(x, s, o, m).number = x
      BY DEF Chunk, IBlock
    <3> QED BY <1>5, <1>9, <1>16, <2>2, <3>1
  <2> QED BY <2>1, <2>2
<1>18. Ahead' /\ BlockOnAir(toPcd)' /\ CardHolds'
  BY <1>1, <1>16, <1>17, FrameFields DEF Ahead, BlockOnAir, CardHolds
<1>19. /\ CardRepeats' \in Nat /\ CardRepeats' <= lossRun
       /\ picc'.call # "Respond" => CardFrames' <= CardRepeats'
       /\ picc'.call = "Respond" =>
            WithinResponse(CardFrames', PiccMaxInf, CommandPieces(command), done,
                           1 + CardRepeats')
  <2>1. CASE picc'.call = "None"
    <3>1. CardFrames' = 0 /\ CardRepeats' = 0
      BY <1>17, <2>1 DEF CardFrames, CardRepeats
    <3> QED BY <1>10, <2>1, <3>1
  <2>2. CASE picc'.call # "None"
    <3>1. /\ CardFrames' = picc'.handler.counters.frames
          /\ CardRepeats' = picc'.handler.counters.retransmissions
      BY <2>2 DEF CardFrames, CardRepeats
    <3>2. CardFrames' \in Nat /\ CardFrames' <= CardFrames + 1
      BY <1>10, <1>16, <3>1
    <3>3. /\ CardRepeats' \in Nat
          /\ Ahead => CardRepeats' = CardRepeats + 1
          /\ ~ Ahead => CardRepeats' = 0
      BY <1>9, <1>10, <1>16, <3>1
    <3>4. 1 + CardRepeats' = k + 1
      BY <1>10, <3>3 DEF k
    <3>5. CardRepeats' <= lossRun
      BY <1>10, <1>12, <3>3
    <3>6. picc'.call # "Respond" => Ahead /\ picc.call # "Respond"
      BY <1>9, <1>17, <2>2
    <3>7. picc'.call # "Respond" => CardFrames' <= CardRepeats'
      BY <1>10, <1>12, <3>2, <3>3, <3>6
    <3>8. ASSUME picc'.call = "Respond"
          PROVE  WithinResponse(CardFrames', PiccMaxInf, CommandPieces(command), done, k + 1)
      <4>1. WithinResponse(CardFrames, PiccMaxInf, CommandPieces(command), done, k)
        BY <1>12, <1>17, <3>8
      <4>2. k \in Nat
        BY <1>10, <1>13
      <4> QED BY <1>10, <3>2, <4>1, <4>2, WithinCounts
    <3> QED BY <3>3, <3>4, <3>5, <3>7, <3>8
  <2> QED BY <2>1, <2>2
<1>20. /\ CommandPieces(command)' = CommandPieces(command) /\ done' = done
       /\ ResponseTo(command)' = ResponseTo(command)
  BY <1>1 DEF CommandPieces, ResponseTo, done
<1>21. pcd'.retries + Unnoticed' <= lossRun'
  <2>1. Unnoticed' = 0 /\ Unnoticed \in Nat /\ pcd.retries \in Nat
    <3>1. pcd.retries \in 0..MaxRetries /\ MaxRetries = 2
      BY Counts
    <3>2. pcd.retries \in Nat
      BY <3>1
    <3> QED BY <1>18, <3>2 DEF Unnoticed
  <2>2. pcd.retries + Unnoticed <= lossRun
    BY <1>2 DEF CollectRecovers
  <2>3. pcd'.retries = pcd.retries /\ lossRun' = lossRun
    BY <1>1
  <2> QED BY <1>10, <2>1, <2>2, <2>3
<1>22. picc'.lastSent[1].chaining <=> picc'.call = "Respond"
  BY <1>17
<1>23. Ahead' => CardRepeats' + (IF BlockOnAir(toPcd)' THEN 0 ELSE 1) <= lossRun'
  <2>1. lossRun' = lossRun
    BY <1>1
  <2>2. CardRepeats' + 0 <= lossRun
    BY <1>19
  <2> QED BY <1>18, <2>1, <2>2
<1> QED BY <1>1, <1>2, <1>18, <1>19, <1>20, <1>21, <1>22, <1>23 DEF CollectRecovers, done, n

\* What the card hears.
LEMMA CardHearsRecovering ==
  ASSUME Orderly, InStep, Whole, ActivatedOK, Recovering, AmpleLimits, ~ SendFaults, CardHears
  PROVE  ActivatedOK' /\ Recovering'
<1>1. /\ picc \in PiccType /\ CardCalls /\ picc.handler \in Handler /\ OneAtATime
      /\ toPicc # <<>> /\ PiccHears(toPicc[1]) /\ toPicc[1] \in Frame
      /\ toPicc' = <<>> /\ UNCHANGED <<scan, pcd, reader, lossRun, command, beyond>>
  BY AirType, AirIsSeq, PiccFields DEF Orderly, TypeOK, CardHears
<1>2. ActivatedOK'
  BY CardHearsActivated
<1> SUFFICES ASSUME ~ beyond PROVE Recovering'
  BY <1>1, <1>2 DEF Recovering
<1>3. PICK f \in Frame : f = toPicc[1] /\ PiccHears(f)
  BY <1>1
<1>4. picc.call # "None"
  BY <1>3 DEF PiccHears, ReceiveFails, HearInIdle, HearInReady, HearInActive,
     HearPps, HearNoBlock, HearCommandBlock, HearAcknowledgement, CardCalls
<1>5. pcd'.result.kind # "Err"
  BY <1>1 DEF Recovering
<1>6. /\ picc.handler.limits = PiccLimits /\ PiccLimits.max_frames \in Nat
      /\ PiccLimits.max_frames > MaxRetries /\ MaxRetries = 2
      /\ CardFrames \in Nat /\ CardFrames = picc.handler.counters.frames
  <2>1. MaxRetries = 2 /\ CardFrames \in Nat /\ CardFrames = picc.handler.counters.frames
    BY <1>4, Counts
  <2>2. picc.handler.limits = PiccLimits /\ PiccLimits.max_frames \in Nat
    BY <1>1, CounterNats DEF ActivatedOK
  <2> QED BY <2>1, <2>2 DEF AmpleLimits
<1>7. CardFrames <= MaxRetries => FrameRoom(picc.handler)
  BY <1>6 DEF FrameRoom
<1>8. CASE pcd.phase = "Connecting"
  <2>1. ConnectRecovers /\ ConnectingOK
    BY DEF Recovering, InStep
  <2>2. toPicc = <<Plain("Rats")>> /\ Activated
    <3>1. toPicc # <<>>
      BY <1>1
    <3>2. toPcd = <<>>
      BY <1>8, <2>1, <3>1 DEF ConnectingOK, HalfDuplex
    <3>3. toPcd # <<Plain("Ats")>>
      BY <3>2
    <3> QED BY <1>8, <2>1, <3>3 DEF ConnectRecovers
  <2>3. f = Plain("Rats")
    BY <1>3, <2>2
  <2>4. toPcd' = <<Plain("Ats")>> /\ Listening' /\ CardFrames' = 0
    BY <1>1, <1>3, <2>2, <2>3, CardGivesAts DEF ActivatedOK
  <2> QED BY <1>1, <1>5, <1>8, <2>4, OneOfRecovering DEF ConnectRecovers
<1>9. CASE pcd.phase = "Idle"
  <2>1. CASE reader # "Over"
    BY <1>1, <1>9, <2>1 DEF InStep, ReadyOK, Quiet
  <2>2. CASE reader = "Over"
    BY <1>1, <1>5, <1>9, <2>2, OneOfRecovering DEF ReadyRecovers
  <2> QED BY <2>1, <2>2
<1>10. CASE pcd.phase = "Pps"
  <2>1. PpsRecovers /\ PpsOK
    BY DEF Recovering, InStep
  <2>2. toPicc = <<Plain("Pps")>> /\ CardFrames = 0 /\ Listening
    BY <1>1, <1>10, <2>1 DEF PpsRecovers, PpsOK, HalfDuplex
  <2>3. f = Plain("Pps") /\ FrameRoom(picc.handler)
    BY <1>3, <1>6, <1>7, <2>2
  <2>4. /\ toPcd' = <<Plain("Ppss")>> /\ Listening'
        /\ CardFrames' \in Nat /\ CardFrames' <= CardFrames + 1
    BY <1>1, <1>3, <2>2, <2>3, CardGivesPpss
  <2>5. CardFrames' <= 1
    BY <2>2, <2>4
  <2> QED BY <1>1, <1>5, <1>10, <2>4, <2>5, OneOfRecovering DEF PpsRecovers
<1>11. CASE pcd.phase = "Command"
  BY <1>1, <1>5, <1>11, CardHearsChunk, OneOfRecovering
<1>12. CASE pcd.phase = "Collect"
  BY <1>1, <1>5, <1>12, CardHearsAck, OneOfRecovering
<1>13. CASE pcd.phase \in {"Deselecting", "DeselectRetry"}
  <2>1. DeselectRecovers /\ DeselectingOK /\ pcd.phase = "Deselecting"
    BY <1>13 DEF Recovering, DeselectRecovers, InStep
  <2>2. /\ toPicc = <<BlockFrame(SBlock("Deselect", <<>>))>>
        /\ Listening /\ CardFrames <= MaxRetries
    BY <1>1, <2>1 DEF DeselectRecovers, DeselectingOK, HalfDuplex
  <2>3. f = BlockFrame(SBlock("Deselect", <<>>)) /\ picc.state = "Protocol"
    BY <1>3, <2>2 DEF Listening, CardHolds
  <2>4. IsDeselectFrame(f)
    BY <2>3, FrameFields DEF IsDeselectFrame, IsDeselect, SBlock
  <2>5. toPcd' # <<>> /\ IsDeselectFrame(toPcd'[1])
    BY <1>1, <1>3, <1>7, <2>2, <2>3, <2>4, CardEchoesDeselect
  <2>6. DeselectRecovers'
    BY <1>1, <2>1, <2>5 DEF DeselectRecovers, IsDeselectFrame
  <2> QED BY <1>1, <1>5, <2>1, <2>6, OneOfRecovering
<1>14. CASE pcd.phase = "NoSession"
  BY <1>1, <1>5, <1>14, OneOfRecovering
<1>15. pcd.phase \in PcdPhase
  BY PcdFields DEF Orderly, TypeOK
<1> QED BY <1>8, <1>9, <1>10, <1>11, <1>12, <1>13, <1>14, <1>15 DEF PcdPhase, PcdWaiting

\* What the reader's activation hears.
LEMMA ActivationHearsRecovering ==
  ASSUME Orderly, InStep, ActivatedOK, Recovering, NEW f \in Frame, ActivationHears(f),
         \/ toPcd # <<>> /\ f = toPcd[1] /\ toPcd' = <<>> /\ UNCHANGED beyond
         \/ f = Plain("Silence") /\ toPcd' = toPcd
  PROVE  ActivatedOK' /\ Recovering'
<1>1. /\ scan \in Scan!ScanType /\ OneAtATime /\ toPcd \in Air
      /\ UNCHANGED <<pcd, picc, lossRun, reader, asked>>
      /\ Scan!ScanHears(f)
  BY AirType DEF Orderly, TypeOK, ActivationHears
<1>2. scan.phase # "Idle"
  BY <1>1 DEF Scan!ScanHears, Scan!RequestAnswered, Scan!AnticollisionAnswered,
              Scan!SelectAnswered, Scan!Unanswered, Scan!ScanWaiting
<1>3. pcd.phase = "NoSession" /\ pcd'.result = Ok
  BY <1>1, <1>2 DEF OneAtATime, ActivatedOK
<1>4. Recovering'
  BY <1>1, <1>3, OkNotErr, OneOfRecovering
<1>5. ASSUME scan'.phase = "Select", toPcd' = <<SakFrame(TRUE)>>
      PROVE  FALSE
  <2>1. f.kind = "Silence" /\ toPcd' = toPcd /\ toPcd # <<>>
    <3>1. \A s : <<s>> # <<>>
      OBVIOUS
    <3> QED BY <1>5, <3>1, FrameFields
  <2>2. FALSE
    BY <1>1, <1>5, <2>1
       DEF Scan!ScanHears, Scan!RequestAnswered, Scan!AnticollisionAnswered,
           Scan!SelectAnswered, Scan!Unanswered, Scan!ScanReturns, Scan!ScanSends
  <2> QED BY <2>2
<1>6. ASSUME scan'.result = "Ok" PROVE Activated'
  <2>1. scan.phase = "Select" /\ f.kind = "Sak" /\ f.complete
    BY <1>1, <1>6 DEF Scan!ScanHears, Scan!RequestAnswered, Scan!AnticollisionAnswered,
       Scan!SelectAnswered, Scan!Unanswered, Scan!ScanReturns, Scan!ScanSends,
       Scan!Anticollide
  <2>2. toPcd = <<f>>
    <3>1. f = toPcd[1] /\ toPcd # <<>>
      BY <2>1, FrameFields
    <3> QED BY <1>1, <3>1 DEF Air
  <2>3. f = SakFrame(TRUE)
    BY <2>1 DEF Frame, FrameKind, SakFrame
  <2> QED BY <1>1, <2>1, <2>2, <2>3 DEF ActivatedOK, Activated
<1> QED BY <1>1, <1>3, <1>4, <1>5, <1>6 DEF ActivatedOK

\* What the session hears leaves an activation as it is.
LEMMA SessionHearsActivated ==
  ASSUME Orderly, ActivatedOK, NEW f \in Frame, SessionHears(f), HeardOnAir(f)
  PROVE  ActivatedOK'
<1> USE PcdAssumption
<1>1. /\ pcd \in PcdType /\ pcd.handler \in Handler /\ OneAtATime /\ PcdHears(f)
      /\ UNCHANGED <<picc, scan>> /\ toPcd' = <<>>
  BY PcdFields DEF Orderly, TypeOK, SessionHears, HeardOnAir
<1>2. pcd.phase \in PcdWaiting
  BY <1>1, PcdHearsEffect
<1>3. scan.phase = "Idle" /\ scan.result # "Ok"
  BY <1>1, <1>2 DEF OneAtATime, PcdWaiting
<1>4. \A s : <<s>> # <<>>
  OBVIOUS
<1>5. \A b \in Block : ProcessReceived(pcd.handler, b).handler.limits = pcd.handler.limits
  BY <1>1, ReceivedCounts
<1>6. pcd'.handler.limits = PcdLimits
  <2>1. f.kind = "Block" => f.block \in Block
    BY BlockOfFrame
  <2>2. CASE ConnectAnswered(f)
    BY <1>1, <2>2, ConnectAnsweredEffect, LimitsOfNew DEF ActivatedOK
  <2>3. CASE PpsAnswered(f)
    BY <1>1, <2>3, PpsAnsweredEffect DEF ActivatedOK, PcdReturned
  <2>4. CASE CommandUnanswered(f)
    BY <1>1, <2>4, CommandUnansweredEffect DEF ActivatedOK, PcdReturned
  <2>5. CASE ChunkAnswered(f)
    <3>1. /\ f.block \in Block
          /\ pcd'.handler = ProcessReceived(pcd.handler, f.block).handler
      BY <1>1, <2>5, ChunkAnsweredEffect DEF PcdReturned
    <3> QED BY <1>5, <3>1 DEF ActivatedOK
  <2>6. CASE LastChunkAnswered(f) \/ ReplyAnswered(f)
    <3>1. f.block \in Block /\ CollectBlock(f.block)
      BY <2>1, <2>6 DEF LastChunkAnswered, ReplyAnswered
    <3>2. pcd'.handler = ProcessReceived(pcd.handler, f.block).handler
      BY <1>1, <3>1, CollectBlockEffect DEF PcdReturned
    <3> QED BY <1>5, <3>1, <3>2 DEF ActivatedOK
  <2>7. CASE ReplyUnanswered(f)
    BY <1>1, <2>7, ReplyUnansweredEffect DEF ActivatedOK, PcdReturned
  <2>8. CASE DeselectAnswered(f)
    BY <1>1, <2>8, DeselectAnsweredEffect DEF ActivatedOK, PcdReturned
  <2> QED BY <1>1, <2>2, <2>3, <2>4, <2>5, <2>6, <2>7, <2>8 DEF PcdHears
<1> QED BY <1>1, <1>3, <1>4, <1>6 DEF ActivatedOK, Activated

\* A block of the response reaches a reader that has room for it.
LEMMA CollectsRecovering ==
  ASSUME Orderly, InStep, ActivatedOK, AmpleLimits, OneAtATime',
         NEW f \in Frame, SessionHears(f), HeardOnAir(f), ~ GoesOnAfterError,
         f.kind = "Block", NEW b \in Block, b = f.block, CollectBlock(b),
         pcd.phase \in {"Command", "Collect"},
         CardHolds, picc.lastSent = <<b>>, Responding, command \in Commands,
         b.number = pcd.handler.number,
         b.chaining <=> picc.call = "Respond",
         Len(pcd.handler.chain) < Len(ResponseTo(command)),
         pcd.handler.counters.frames * PiccMaxInf <=
           CommandPieces(command) * PiccMaxInf + Len(pcd.handler.chain),
         picc.call # "Respond" => CardFrames <= MaxRetries,
         picc.call = "Respond" =>
           WithinResponse(CardFrames, PiccMaxInf, CommandPieces(command),
                          Len(pcd.handler.chain) + PiccMaxInf, 0)
  PROVE  Recovering'
<1> USE PiccAssumption
<1> DEFINE step == ProcessReceived(pcd.handler, b)
           n == Len(ResponseTo(command))
           done == Len(pcd.handler.chain)
           frames == pcd.handler.counters.frames
           C == CommandPieces(command)
           R == ResponsePieces(command)
<1>1. /\ pcd \in PcdType /\ picc' = picc /\ toPicc = <<>> /\ toPcd' = <<>>
      /\ pcd.handler \in Handler /\ pcd.handler.role = "Pcd"
      /\ pcd.handler.number \in Bit
      /\ pcd'.phase = "Idle" /\ pcd'.result.kind # "Err" => reader' = reader
      /\ reader = "Running" /\ pcd.result = Ok
      /\ command' = command /\ lossRun' = 0
  BY SessionReturns, SessionKeeps DEF SessionHears, Orderly, OneAtATime
<1>2. PICK response \in Seq(Byte) : response = ResponseTo(command)
  BY AmpleFor
<1>3. PICK offset \in 0..Len(response) : RespondingAt(offset)
  BY <1>2 DEF Responding
<1> DEFINE c == Chunk(b.number, response, offset, PiccMaxInf)
           end == ChunkEnd(response, offset, PiccMaxInf)
<1>4. b = c /\ pcd.handler.chain = SubSeq(response, 1, offset)
  <2>1. picc.lastSent[1] = b
    BY OneBlock
  <2>2. picc.lastSent = <<c>>
    BY <1>2, <1>3, <2>1 DEF RespondingAt
  <2>3. b = c
    BY <2>2
  <2> HIDE DEF c
  <2> QED BY <1>2, <1>3, <2>1, <2>3 DEF RespondingAt
<1>5. /\ Len(response) \in Nat /\ offset \in Nat /\ end \in offset..Len(response)
      /\ b.chaining = MoreToSend(response, offset, PiccMaxInf) /\ b.type = "I"
      /\ b.chaining => end = offset + PiccMaxInf /\ end < Len(response)
      /\ SubSeq(response, 1, offset) \o c.payload = SubSeq(response, 1, end)
  <2>1. b.type = "I" /\ b.chaining = MoreToSend(response, offset, PiccMaxInf)
    BY <1>1, <1>4, ChunkType
  <2>2. /\ end \in offset..Len(response)
        /\ b.chaining => end = offset + PiccMaxInf /\ end < Len(response)
    BY <2>1, ChunkEndBounds
  <2>3. SubSeq(response, 1, offset) \o c.payload = SubSeq(response, 1, end)
    BY <1>1, ChunkContinues
  <2>4. Len(response) \in Nat /\ offset \in Nat
    BY LenProperties
  <2> HIDE DEF c, end
  <2> QED BY <2>1, <2>2, <2>3, <2>4
<1>6. pcd.handler.chain \o b.payload = SubSeq(response, 1, end)
  <2> HIDE DEF end
  <2> QED BY <1>4, <1>5
<1> HIDE DEF c, end
<1>7. Len(pcd.handler.chain) = offset /\ Len(SubSeq(response, 1, end)) = end
  BY <1>4, <1>5
<1>8. Len(pcd.handler.chain) + Len(b.payload) = end
  <2>1. pcd.handler.chain \in Seq(Byte) /\ b.payload \in Seq(Byte)
    <3>1. pcd.handler.chain \in Seq(Byte)
      BY <1>1, HandlerFields
    <3> QED BY <3>1 DEF Block
  <2> QED BY <1>6, <1>7, <2>1, ConcatType
<1>9. /\ frames \in Nat /\ PiccMaxInf \in Nat /\ MaxRetries = 2 /\ CardFrames \in Nat
      /\ C \in Nat /\ R \in Nat /\ n = Len(response) /\ n <= R * PiccMaxInf
      /\ PcdLimits.max_frames \in Nat /\ PcdLimits.max_frames >= C + R
      /\ n <= PcdLimits.max_chain_len /\ n <= ChainCapacity
      /\ pcd.handler.limits = PcdLimits /\ PcdLimits.max_chain_len \in Nat
  <2>1. frames \in Nat /\ PiccMaxInf \in Nat /\ MaxRetries = 2 /\ CardFrames \in Nat
    BY Counts
  <2>2. /\ C \in Nat /\ R \in Nat /\ n <= R * PiccMaxInf
        /\ PcdLimits.max_frames \in Nat /\ PcdLimits.max_frames >= C + R
        /\ n <= PcdLimits.max_chain_len /\ n <= ChainCapacity
    BY AmpleFor
  <2>3. pcd.handler.limits = PcdLimits /\ PcdLimits.max_chain_len \in Nat
    BY <1>1, CounterNats DEF ActivatedOK
  <2> QED BY <1>2, <2>1, <2>2, <2>3
<1>10. /\ done = offset /\ done < n
       /\ frames * PiccMaxInf <= C * PiccMaxInf + done
  BY <1>7
<1> HIDE DEF n, done, frames, C, R
<1>11. frames < C + R
  BY <1>5, <1>9, <1>10, RoomForChunk
<1>12. /\ FrameRoom(pcd.handler) /\ ~ RepeatsLastIBlock(pcd.handler, b)
       /\ Len(pcd.handler.chain) + Len(b.payload) <= pcd.handler.limits.max_chain_len
       /\ Len(pcd.handler.chain) + Len(b.payload) <= ChainCapacity
  <2>1. frames < PcdLimits.max_frames
    BY <1>9, <1>11
  <2>2. FrameRoom(pcd.handler)
    BY <1>9, <2>1 DEF FrameRoom, frames
  <2>3. end <= PcdLimits.max_chain_len /\ end <= ChainCapacity
    BY <1>5, <1>9, ChainCapacityAssumption
  <2> QED BY <1>1, <1>8, <1>9, <2>2, <2>3 DEF RepeatsLastIBlock
<1>13. step.outcome.kind = IF b.chaining THEN "Reply" ELSE "Complete"
  BY <1>1, <1>5, <1>12, IBlockAccepted
<1>14. /\ step.handler \in Handler /\ step.outcome \in Outcome
       /\ step.outcome.kind = "Reply" =>
            /\ step.handler.number = 1 - pcd.handler.number
            /\ step.handler.chain = pcd.handler.chain \o b.payload
  BY <1>1, <1>5, <1>12, ReceivedStep, ReceivedIBlock
<1>15. /\ step.handler.counters.frames \in Nat
       /\ step.handler.counters.frames <= frames + 1
  BY <1>1, <1>5, <1>13, CountsOne DEF IsDeselect, frames
<1>16. CASE ~ b.chaining
  <2>1. step.outcome.kind = "Complete" /\ Return("Idle", step.handler, step.outcome)
    BY <1>13, <1>16 DEF CollectBlock
  <2>2. pcd'.phase = "Idle" /\ pcd'.result.kind = "Complete"
    <3> HIDE DEF step
    <3> QED BY <1>1, <1>14, <2>1, Outcomes, ReturnEffect
  <2>3. ReadyRecovers'
    BY <1>1, <1>16, <2>2 DEF ReadyRecovers, Listening, CardHolds, CardFrames
  <2> QED BY <2>2, <2>3, OneOfRecovering
<1>17. CASE b.chaining
  <2>1. /\ pcd'.phase = "Collect" /\ pcd'.handler = step.handler /\ pcd'.retries = 0
        /\ pcd'.result = Ok /\ toPicc' = <<BlockFrame(step.outcome.block)>>
    <3>1. step.outcome.kind = "Reply"
      BY <1>13, <1>17
    <3>2. /\ Await("Collect", step.handler, BlockFrame(step.outcome.block))
          /\ step.outcome.block \in Block
      BY <1>14, <3>1 DEF CollectBlock, Outcome, Ok, ChainingAck, Retransmit
    <3>3. BlockFrame(step.outcome.block) \in Frame /\ "Collect" \in PcdPhase
      BY <3>2, FrameTypes DEF PcdPhase, PcdWaiting
    <3> HIDE DEF step
    <3> QED BY <1>1, <1>14, <3>2, <3>3, AwaitEffect
  <2>2. /\ step.handler.number = 1 - pcd.handler.number
        /\ step.handler.chain = SubSeq(response, 1, end)
    BY <1>6, <1>13, <1>14, <1>17
  <2>3. /\ pcd'.handler.number # b.number /\ Len(pcd'.handler.chain) = done + PiccMaxInf
        /\ Len(pcd'.handler.chain) < n
    <3>1. 1 - pcd.handler.number # pcd.handler.number
      BY <1>1 DEF Bit
    <3>2. Len(pcd'.handler.chain) = end /\ end = done + PiccMaxInf /\ end < n
      BY <1>5, <1>7, <1>9, <1>10, <1>17, <2>1, <2>2
    <3> HIDE DEF step
    <3> QED BY <2>1, <2>2, <3>1, <3>2
  <2>4. pcd'.handler.counters.frames * PiccMaxInf <= C * PiccMaxInf + (done + PiccMaxInf)
    <3>1. done \in Nat
      BY <1>5, <1>10
    <3>2. /\ pcd'.handler.counters.frames \in Nat
          /\ pcd'.handler.counters.frames <= frames + 1
      BY <1>15, <2>1
    <3> HIDE DEF step
    <3> QED BY <1>9, <1>10, <3>1, <3>2, OneChunkMore
  <2> HIDE DEF step
  <2>5. ~ Ahead' /\ toPicc' # <<>> /\ toPicc'[1].kind # "Noise"
    <3>1. picc'.lastSent[1] = b
      BY <1>1, OneBlock
    <3>2. toPicc' # <<>> /\ toPicc'[1] = BlockFrame(step.outcome.block)
      BY <2>1
    <3> QED BY <2>3, <3>1, <3>2, FrameFields DEF Ahead
  <2>6. Unnoticed' = 0 /\ ~ BlockOnAir(toPcd)'
    BY <1>1, <2>5 DEF Unnoticed, BlockOnAir
  <2>7. CardFrames' = CardFrames /\ CardRepeats' = CardRepeats /\ CardHolds'
    BY <1>1 DEF CardFrames, CardRepeats, CardHolds
  <2>8. C' = C /\ n' = n
    BY <1>1 DEF C, n, CommandPieces, ResponseTo
  <2>9. picc'.lastSent[1].chaining /\ picc'.call = "Respond"
    BY <1>1, <1>17, OneBlock
  <2>10. CollectRecovers'
    <3>1. pcd'.retries + Unnoticed' <= lossRun' /\ lossRun' <= MaxRetries
      BY <1>1, <1>9, <2>1, <2>6
    <3>2. pcd'.handler.counters.frames * PiccMaxInf <=
            CommandPieces(command)' * PiccMaxInf + Len(pcd'.handler.chain)
      BY <2>3, <2>4, <2>8 DEF C
    <3>3. WithinResponse(CardFrames', PiccMaxInf, CommandPieces(command)',
                         Len(pcd'.handler.chain), 0)
      BY <1>1, <2>3, <2>7, <2>8, <2>9 DEF C, done
    <3>4. Len(pcd'.handler.chain) < Len(ResponseTo(command))' /\ command' \in Commands
      BY <1>1, <2>3, <2>8 DEF n
    <3> QED BY <2>5, <2>6, <2>7, <2>9, <3>1, <3>2, <3>3, <3>4 DEF CollectRecovers
  <2> QED BY <2>1, <2>10, OkNotErr, OneOfRecovering
<1> QED BY <1>16, <1>17

\* The card's R(ACK) of a chunk reaches a reader that has room for the next.
LEMMA ChunkRecovering ==
  ASSUME Orderly, InStep, Whole, ActivatedOK, AmpleLimits, OneAtATime',
         NEW f \in Frame, SessionHears(f), HeardOnAir(f), ~ GoesOnAfterError,
         pcd.phase = "Command", CommandRecovers, BlockOnAir(toPcd), f = toPcd[1],
         Carries(toPcd[1], "R"),
         ChunksCounted(ChunkEnd(command, pcd.offset, PcdMaxInf))
  PROVE  Recovering'
<1> USE PcdAssumption
<1> DEFINE step == ProcessReceived(pcd.handler, f.block)
           frames == pcd.handler.counters.frames
           end == ChunkEnd(command, pcd.offset, PcdMaxInf)
           C == CommandPieces(command)
<1>1. /\ pcd \in PcdType /\ PcdHears(f) /\ picc' = picc /\ toPicc = <<>> /\ toPcd' = <<>>
      /\ pcd.handler \in Handler /\ pcd.handler.role = "Pcd"
      /\ pcd.handler.number \in Bit /\ command' = command
      /\ f.kind = "Block" /\ f.block \in Block
  BY SessionReturns, SessionKeeps, BlockOfFrame DEF BlockOnAir
<1>2. /\ CardHolds /\ f.block.type = "R" /\ f.block.subtype = "Ack"
      /\ f.block.number = pcd.handler.number /\ picc.call = "Receive"
  <2>1. /\ CardHolds /\ f.block.number = pcd.handler.number
        /\ f.block = RAck(picc.handler) /\ picc.call = "Receive"
    BY <1>1 DEF InStep, CommandOK, RespondedWith, Carries, BlockOnAir
  <2> QED BY <2>1 DEF RAck, RBlock
<1>3. /\ MoreOfCommand /\ pcd.apdu = command /\ command \in Commands
      /\ pcd.offset < Len(command) /\ frames * PcdMaxInf <= pcd.offset
  BY <1>1, <1>2 DEF Whole, CommandWhole, ChunkTaken, CommandRecovers, BlockOnAir
<1>4. /\ command \in Seq(Byte) /\ Len(command) \in Nat /\ pcd.offset \in 0..Len(command)
      /\ C \in Nat /\ Len(command) <= C * PcdMaxInf
      /\ ResponsePieces(command) \in Nat
      /\ PcdLimits.max_frames \in Nat
      /\ PcdLimits.max_frames >= C + ResponsePieces(command)
      /\ frames \in Nat /\ PcdMaxInf \in Nat /\ pcd.offset \in Nat
      /\ pcd.handler.limits = PcdLimits
  <2>1. /\ command \in Seq(Byte) /\ Len(command) \in Nat
        /\ C \in Nat /\ Len(command) <= C * PcdMaxInf
        /\ ResponsePieces(command) \in Nat
        /\ PcdLimits.max_frames \in Nat
        /\ PcdLimits.max_frames >= C + ResponsePieces(command)
    BY <1>3, AmpleFor
  <2>2. frames \in Nat /\ PcdMaxInf \in Nat /\ pcd.offset \in Nat
    BY Counts
  <2>3. pcd.offset \in 0..Len(command)
    BY <1>3, <2>1, <2>2
  <2> QED BY <2>1, <2>2, <2>3 DEF ActivatedOK
<1>5. end \in 0..Len(command) /\ end = pcd.offset + PcdMaxInf /\ end < Len(command)
  <2>1. /\ end \in pcd.offset..Len(command)
        /\ end = pcd.offset + PcdMaxInf /\ end < Len(command)
    BY <1>3, <1>4, ChunkEndBounds DEF MoreOfCommand
  <2> HIDE DEF end
  <2> QED BY <1>4, <2>1
<1> HIDE DEF frames, C
<1>6. FrameRoom(pcd.handler)
  <2>1. frames < 0 + C
    <3>1. frames * PcdMaxInf <= 0 * PcdMaxInf + pcd.offset
      BY <1>3, <1>4
    <3> QED BY <1>3, <1>4, <3>1, RoomForChunk
  <2>2. frames < PcdLimits.max_frames
    BY <1>4, <2>1
  <2> QED BY <1>4, <2>2 DEF FrameRoom, frames
<1>7. step.outcome.kind = "ChainingAck" /\ step.handler \in Handler
  BY <1>1, <1>2, <1>6, AckAccepted, ReceivedStep
<1>8. step.handler.counters.frames \in Nat /\ step.handler.counters.frames <= frames + 1
  BY <1>1, <1>2, <1>7, CountsOne DEF IsDeselect, frames
<1>9. SendChunk(step.handler, command, end)
  <2>1. ChunkAnswered(f)
    BY <1>1, <1>3 DEF PcdHears, ConnectAnswered, PpsAnswered, CommandUnanswered,
       LastChunkAnswered, ReplyAnswered, ReplyUnanswered, DeselectAnswered
  <2> QED BY <1>3, <1>7, <2>1 DEF ChunkAnswered
<1> HIDE DEF step, end
<1>10. /\ pcd'.phase = "Command" /\ pcd'.handler = step.handler /\ pcd'.offset = end
       /\ pcd'.result = Ok /\ toPicc' # <<>> /\ Carries(toPicc'[1], "I")
  BY <1>1, <1>4, <1>5, <1>7, <1>9, SendChunkEffect
<1>11. pcd'.handler.counters.frames * PcdMaxInf <= end
  <2>1. frames * PcdMaxInf <= 0 * PcdMaxInf + pcd.offset
    BY <1>3, <1>4 DEF frames
  <2>2. step.handler.counters.frames * PcdMaxInf <= 0 * PcdMaxInf + (pcd.offset + PcdMaxInf)
    BY <1>4, <1>8, <2>1, OneChunkMore
  <2>3. 0 * PcdMaxInf = 0
    BY <1>4
  <2> QED BY <1>4, <1>5, <1>10, <2>2, <2>3
<1>12. BlockOnAir(toPicc)' /\ Listening' /\ CardFrames' = CardFrames
  BY <1>1, <1>2, <1>10 DEF BlockOnAir, Carries, Listening, CardHolds, CardFrames
<1>13. ChunksCounted(pcd.offset)'
  BY <1>10, <1>12 DEF ChunksCounted, end
<1>14. CommandRecovers'
  BY <1>1, <1>3, <1>5, <1>10, <1>11, <1>12, <1>13 DEF CommandRecovers
<1> QED BY <1>10, <1>14, OkNotErr, OneOfRecovering

\* What the session hears.
LEMMA SessionHearsRecovering ==
  ASSUME Orderly, InStep, Whole, ActivatedOK, Recovering, AmpleLimits, OneAtATime',
         NEW f \in Frame, SessionHears(f), HeardOnAir(f), ~ GoesOnAfterError,
         toPcd = <<>> => picc.call # "None", ~ beyond
  PROVE  Recovering'
<1> USE PcdAssumption
<1>1. /\ pcd \in PcdType /\ PcdHears(f) /\ picc' = picc /\ toPicc = <<>> /\ toPcd' = <<>>
      /\ pcd.handler \in Handler /\ pcd.phase \in PcdWaiting
      /\ pcd'.phase = "Idle" /\ pcd'.result.kind # "Err" => reader' = reader
      /\ pcd.phase \in {"Pps", "Command", "Collect"} => reader = "Running"
      /\ pcd.phase = "Connecting" => reader = "New"
      /\ command' = command /\ lossRun' = IF f.kind = "Block" THEN 0 ELSE lossRun
  BY SessionReturns, SessionKeeps DEF SessionHears
<1>2. /\ toPcd # <<>> => f = toPcd[1]
      /\ f.kind = "Block" => toPcd # <<>> /\ f.block \in Block
      /\ BlockOnAir(toPcd) => f = toPcd[1] /\ f.kind = "Block"
      /\ ~ BlockOnAir(toPcd) => f.kind # "Block"
  BY BlockOfFrame DEF HeardOnAir, BlockOnAir
<1>3. /\ MaxRetries = 2 /\ lossRun \in Nat /\ CardFrames \in Nat /\ CardRepeats \in Nat
      /\ pcd.retries \in 0..2 /\ PiccMaxInf \in Nat /\ PcdMaxInf \in Nat
      /\ pcd.handler.counters.frames \in Nat /\ pcd.offset \in Nat
      /\ Len(pcd.handler.chain) \in Nat
  BY Counts DEF MaxRetries
<1>4. Plain("Ats").kind = "Ats" /\ Plain("Ppss").kind = "Ppss"
  BY FrameFields
<1>5. Ok \in Outcome /\ "Idle" \in PcdPhase /\ NewHandler("Pcd", PcdLimits) \in Handler
  BY Outcomes, SessionStartType DEF Role
<1>6. CASE pcd.phase = "Connecting"
  <2>1. toPcd = <<Plain("Ats")>> /\ Listening /\ CardFrames = 0
    <3>1. \A s : <<s>> # <<>>
      OBVIOUS
    <3> QED BY <1>1, <1>6, <3>1 DEF Recovering, ConnectRecovers
  <2>2. f.kind = "Ats" /\ ConnectAnswered(f)
    <3>1. f = Plain("Ats")
      BY <1>2, <2>1
    <3> QED BY <1>1, <1>4, <1>6, <3>1 DEF PcdHears, PpsAnswered, CommandUnanswered,
       ChunkAnswered, LastChunkAnswered, ReplyAnswered, ReplyUnanswered, DeselectAnswered
  <2>3. pcd'.phase = "Idle" /\ pcd'.result = Ok
    <3>1. Return("Idle", NewHandler("Pcd", PcdLimits), Ok)
      BY <2>2 DEF ConnectAnswered
    <3> QED BY <1>1, <1>5, <3>1, ReturnEffect
  <2>4. ReadyRecovers'
    BY <1>1, <1>6, <2>1, <2>3, OkNotErr DEF ReadyRecovers, Listening, CardHolds, CardFrames
  <2> QED BY <2>3, <2>4, OkNotErr, OneOfRecovering
<1>7. CASE pcd.phase = "Pps"
  <2>1. toPcd = <<Plain("Ppss")>> /\ Listening /\ CardFrames <= 1
    <3>1. \A s : <<s>> # <<>>
      OBVIOUS
    <3> QED BY <1>1, <1>7, <3>1 DEF Recovering, PpsRecovers
  <2>2. f.kind = "Ppss" /\ PpsAnswered(f)
    <3>1. f = Plain("Ppss")
      BY <1>2, <2>1
    <3> QED BY <1>1, <1>4, <1>7, <3>1 DEF PcdHears, ConnectAnswered, CommandUnanswered,
       ChunkAnswered, LastChunkAnswered, ReplyAnswered, ReplyUnanswered, DeselectAnswered
  <2>3. pcd'.phase = "Idle" /\ pcd'.result = Ok
    <3>1. Return("Idle", pcd.handler, Ok)
      BY <2>2 DEF PpsAnswered
    <3> QED BY <1>1, <1>5, <3>1, ReturnEffect
  <2>4. CardFrames <= MaxRetries
    BY <1>3, <2>1
  <2>5. ReadyRecovers'
    BY <1>1, <1>7, <2>1, <2>3, <2>4, OkNotErr
       DEF ReadyRecovers, Listening, CardHolds, CardFrames
  <2> QED BY <2>3, <2>5, OkNotErr, OneOfRecovering
<1>8. CASE pcd.phase = "Command"
  <2>1. CommandRecovers /\ CommandOK /\ CommandWhole
    BY <1>8 DEF Recovering, InStep, Whole
  <2>2. ~ AtWork
    BY <1>8, <2>1 DEF AtWork, CommandOK, Quiet
  <2>3. /\ BlockOnAir(toPcd)
        /\ \/ /\ Carries(toPcd[1], "R")
              /\ ChunksCounted(ChunkEnd(command, pcd.offset, PcdMaxInf))
           \/ ResponseBegins
    BY <1>1, <1>8, <2>1, <2>2 DEF CommandRecovers, BlockOnAir
  <2>4. CASE /\ Carries(toPcd[1], "R")
             /\ ChunksCounted(ChunkEnd(command, pcd.offset, PcdMaxInf))
    BY <1>2, <1>8, <2>1, <2>3, <2>4, ChunkRecovering
  <2>5. CASE ResponseBegins
    <3>1. PICK b \in Block : b = f.block
      BY <1>2, <2>3
    <3>2. /\ f.kind = "Block" /\ toPcd # <<>> /\ f = toPcd[1]
          /\ b.type = "I" /\ ~ MoreOfCommand
          /\ IF picc.call = "Respond" THEN b.chaining /\ CommandCounted
                                      ELSE ~ b.chaining /\ CardFrames = 0
      BY <1>2, <2>3, <2>5, <3>1 DEF ResponseBegins, Carries
    <3>3. /\ CardHolds /\ b.number = pcd.handler.number /\ RespondedWith(b)
          /\ Responding
      <4>1. RAck(picc.handler).type = "R"
        BY DEF RAck, RBlock
      <4> QED BY <1>8, <2>1, <3>1, <3>2, <4>1 DEF CommandOK, CommandWhole
    <3>4. CollectBlock(b)
      BY <1>1, <1>8, <3>1, <3>2 DEF PcdHears, ConnectAnswered, PpsAnswered,
         CommandUnanswered, ChunkAnswered, LastChunkAnswered, ReplyAnswered,
         ReplyUnanswered, DeselectAnswered
    <3>5. /\ command \in Commands /\ Len(pcd.handler.chain) = 0
          /\ pcd.handler.counters.frames * PcdMaxInf <= pcd.offset
          /\ pcd.offset < Len(command)
      BY <1>8, <2>1 DEF CommandRecovers, CommandWhole
    <3>6. /\ CommandPieces(command) \in Nat /\ Len(ResponseTo(command)) \in Nat
          /\ Len(ResponseTo(command)) > 0 /\ Len(command) \in Nat
          /\ Len(command) <= CommandPieces(command) * PcdMaxInf
      BY <3>5, AmpleFor
    <3>7. pcd.handler.counters.frames < 0 + CommandPieces(command)
      <4>1. pcd.handler.counters.frames * PcdMaxInf <= 0 * PcdMaxInf + pcd.offset
        BY <1>3, <3>5
      <4> QED BY <1>3, <3>5, <3>6, <4>1, RoomForChunk
    <3>8. pcd.handler.counters.frames * PiccMaxInf <=
            CommandPieces(command) * PiccMaxInf + Len(pcd.handler.chain)
      <4>1. \A a \in Nat, c \in Nat, m \in Nat : a <= c => a * m <= c * m /\ c * m \in Nat
        OBVIOUS
      <4>2. pcd.handler.counters.frames <= CommandPieces(command)
        BY <1>3, <3>6, <3>7
      <4>3. /\ pcd.handler.counters.frames * PiccMaxInf <= CommandPieces(command) * PiccMaxInf
            /\ CommandPieces(command) * PiccMaxInf \in Nat
        BY <1>3, <3>6, <4>1, <4>2
      <4> QED BY <3>5, <4>3
    <3>9. picc.call = "Respond" =>
            WithinResponse(CardFrames, PiccMaxInf, CommandPieces(command),
                           Len(pcd.handler.chain) + PiccMaxInf, 0)
      BY <1>3, <3>2, <3>6, WithinCounts DEF CommandCounted
    <3>10. /\ picc.call # "Respond" => CardFrames <= MaxRetries
           /\ b.chaining <=> picc.call = "Respond"
           /\ Len(pcd.handler.chain) < Len(ResponseTo(command))
           /\ picc.lastSent = <<b>>
      BY <1>3, <3>2, <3>3, <3>5, <3>6 DEF RespondedWith
    <3> QED BY <1>8, <3>1, <3>2, <3>3, <3>4, <3>5, <3>8, <3>9, <3>10, CollectsRecovering
  <2> QED BY <2>3, <2>4, <2>5
<1>9. CASE pcd.phase = "Collect" /\ f.kind = "Block"
  <2>1. CollectRecovers /\ CollectOK /\ CollectWhole
    BY <1>9 DEF Recovering, InStep, Whole
  <2>2. PICK b \in Block : b = f.block
    BY <1>2, <1>9
  <2>3. /\ BlockOnAir(toPcd) /\ CardHolds /\ picc.lastSent = <<b>> /\ Responding
        /\ CollectBlock(b)
    <3>1. BlockOnAir(toPcd) /\ CardHolds /\ picc.lastSent = <<b>>
      BY <1>2, <1>9, <2>1, <2>2 DEF CollectOK, BlockOnAir
    <3>2. Responding
      BY <1>9, <2>1, <3>1 DEF CollectWhole, CardHolds
    <3>3. CollectBlock(b)
      BY <1>1, <1>9, <2>2 DEF PcdHears, ConnectAnswered, PpsAnswered,
         CommandUnanswered, ChunkAnswered, LastChunkAnswered, ReplyAnswered,
         ReplyUnanswered, DeselectAnswered
    <3> QED BY <3>1, <3>2, <3>3
  <2>4. Ahead /\ b.number = pcd.handler.number
    BY <1>9, <2>1, <2>3, OneBlock DEF CollectRecovers, Ahead
  <2>5. /\ command \in Commands
        /\ Len(pcd.handler.chain) < Len(ResponseTo(command))
        /\ b.chaining <=> picc.call = "Respond"
        /\ pcd.handler.counters.frames * PiccMaxInf <=
             CommandPieces(command) * PiccMaxInf + Len(pcd.handler.chain)
    BY <1>9, <2>1, <2>3, OneBlock DEF CollectRecovers
  <2>6. /\ CardRepeats + 0 <= lossRun /\ lossRun <= MaxRetries
        /\ picc.call # "Respond" => CardFrames <= CardRepeats
        /\ picc.call = "Respond" =>
             WithinResponse(CardFrames, PiccMaxInf, CommandPieces(command),
                            Len(pcd.handler.chain), 1 + CardRepeats)
    BY <1>9, <2>1, <2>3, <2>4 DEF CollectRecovers
  <2>7. CommandPieces(command) \in Nat
    BY <2>5, AmpleFor
  <2>8. picc.call = "Respond" =>
          WithinResponse(CardFrames, PiccMaxInf, CommandPieces(command),
                         Len(pcd.handler.chain) + PiccMaxInf, 0)
    <3>1. 1 + CardRepeats \in Nat /\ 1 + CardRepeats <= 1 + MaxRetries
      BY <1>3, <2>6
    <3> QED BY <1>3, <2>6, <2>7, <3>1, WithinCounts
  <2>9. picc.call # "Respond" => CardFrames <= MaxRetries
    BY <1>3, <2>6
  <2> QED BY <1>9, <2>2, <2>3, <2>4, <2>5, <2>8, <2>9, CollectsRecovering
<1>10. CASE pcd.phase = "Collect" /\ f.kind # "Block"
  <2>1. CollectRecovers /\ ~ BlockOnAir(toPcd)
    BY <1>2, <1>10 DEF Recovering
  <2>2. Unnoticed = 1
    BY <1>1, <2>1 DEF Unnoticed
  <2>3. lossRun <= MaxRetries /\ pcd.retries + 1 <= lossRun /\ lossRun' = lossRun
    BY <1>1, <1>10, <2>1, <2>2 DEF CollectRecovers
  <2>4. pcd.retries < MaxRetries /\ pcd.retries + 1 \in 0..MaxRetries
    BY <1>3, <2>3
  <2>5. /\ pcd' = [pcd EXCEPT !.retries = @ + 1]
        /\ toPicc' = <<BlockFrame(RAck(pcd.handler))>>
    <3>1. ReplyUnanswered(f)
      BY <1>1, <1>10 DEF PcdHears, ConnectAnswered, PpsAnswered, CommandUnanswered,
         ChunkAnswered, LastChunkAnswered, ReplyAnswered, DeselectAnswered
    <3>2. ~ (pcd.retries >= MaxRetries)
      BY <1>3, <2>4
    <3> QED BY <3>1, <3>2 DEF ReplyUnanswered, Transmit
  <2>6. /\ pcd'.phase = "Collect" /\ pcd'.handler = pcd.handler
        /\ pcd'.retries = pcd.retries + 1 /\ pcd'.result = pcd.result
    <3>1. pcd' = [pcd EXCEPT !.retries = pcd.retries + 1]
      BY <2>5
    <3> QED BY <1>1, <1>10, <2>4, <3>1, RetryUpdate
  <2>7. toPicc' # <<>> /\ toPicc'[1].kind # "Noise"
    <3>1. toPicc' # <<>> /\ toPicc'[1] = BlockFrame(RAck(pcd.handler))
      BY <2>5
    <3> QED BY <3>1, FrameFields
  <2>8. Unnoticed' = 0 /\ ~ BlockOnAir(toPcd)' /\ Ahead' = Ahead
    BY <1>1, <2>6, <2>7 DEF Unnoticed, BlockOnAir, Ahead
  <2>9. /\ CardFrames' = CardFrames /\ CardRepeats' = CardRepeats /\ CardHolds' = CardHolds
        /\ CommandPieces(command)' = CommandPieces(command)
        /\ ResponseTo(command)' = ResponseTo(command)
    BY <1>1 DEF CardFrames, CardRepeats, CardHolds, CommandPieces, ResponseTo
  <2>10. pcd'.retries + Unnoticed' <= lossRun'
    BY <1>3, <2>3, <2>6, <2>8
  <2>11. CollectRecovers'
    BY <1>1, <1>10, <2>1, <2>3, <2>6, <2>7, <2>8, <2>9, <2>10 DEF CollectRecovers
  <2>12. pcd'.result.kind # "Err"
    BY <2>6 DEF Recovering
  <2> QED BY <2>6, <2>11, <2>12, OneOfRecovering
<1>11. CASE pcd.phase \in {"Deselecting", "DeselectRetry"}
  <2>1. DeselectRecovers /\ pcd.phase = "Deselecting" /\ reader = "Over"
    BY <1>11 DEF Recovering, DeselectRecovers, Orderly, OneAtATime
  <2>2. IsDeselectFrame(f)
    <3>1. \A s : <<s>> # <<>>
      OBVIOUS
    <3> QED BY <1>1, <1>2, <2>1, <3>1 DEF DeselectRecovers
  <2>3. pcd'.phase = "Idle" /\ pcd'.result = Ok
    <3>1. DeselectAnswered(f)
      BY <1>1, <2>1 DEF PcdHears, ConnectAnswered, PpsAnswered, CommandUnanswered,
         ChunkAnswered, LastChunkAnswered, ReplyAnswered, ReplyUnanswered
    <3>2. Return("Idle", pcd.handler, Ok)
      BY <2>2, <3>1 DEF DeselectAnswered
    <3> QED BY <1>1, <1>5, <3>2, ReturnEffect
  <2>4. ReadyRecovers'
    BY <1>1, <2>1, <2>3, OkNotErr DEF ReadyRecovers
  <2> QED BY <2>3, <2>4, OkNotErr, OneOfRecovering
<1> QED BY <1>1, <1>6, <1>7, <1>8, <1>9, <1>10, <1>11 DEF PcdWaiting

\* The frame that is lost can be recovered, or no more is promised.
LEMMA DisturbRecovering ==
  ASSUME Orderly, ActivatedOK, Recovering, Disturb
  PROVE  ActivatedOK' /\ Recovering'
<1>1. /\ UNCHANGED <<scan, pcd, picc, command>>
      /\ toPcd' = toPcd \/ toPcd' = <<>> \/ toPcd' = <<Plain("Noise")>>
      /\ lossRun' = lossRun + 1
      /\ ~ beyond' => ~ beyond /\ Recoverable /\ toPicc' = <<>>
  BY DEF Disturb, asked
<1>2. \A s : <<s>> # <<>> /\ <<s>>[1] = s
  OBVIOUS
<1>3. Plain("Noise").kind = "Noise" /\ SakFrame(TRUE).kind = "Sak"
  BY FrameFields
<1>4. toPcd' = <<SakFrame(TRUE)>> => toPcd' = toPcd
  <2>1. <<Plain("Noise")>> # <<SakFrame(TRUE)>>
    BY <1>2, <1>3
  <2> QED BY <1>1, <1>2, <2>1
<1>5. ActivatedOK'
  BY <1>1, <1>4 DEF ActivatedOK, Activated
<1> SUFFICES ASSUME ~ beyond' PROVE Recovering'
  BY <1>5 DEF Recovering
<1>6. /\ pcd.phase = "Collect" /\ lossRun < MaxRetries /\ toPicc' = <<>>
      /\ CollectRecovers /\ pcd'.result.kind # "Err"
  BY <1>1 DEF Recoverable, Recovering
<1>7. /\ MaxRetries = 2 /\ lossRun \in Nat /\ CardRepeats \in Nat /\ pcd.retries \in Nat
  BY Counts DEF MaxRetries
<1>8. BlockOnAir(toPcd)' => BlockOnAir(toPcd)
  BY <1>1, <1>2, <1>3 DEF BlockOnAir
<1>9. /\ CardFrames' = CardFrames /\ CardRepeats' = CardRepeats /\ CardHolds' = CardHolds
      /\ CommandPieces(command)' = CommandPieces(command)
      /\ ResponseTo(command)' = ResponseTo(command) /\ Ahead' = Ahead
  BY <1>1 DEF CardFrames, CardRepeats, CardHolds, CommandPieces, ResponseTo, Ahead
<1>10. pcd'.retries + Unnoticed' <= lossRun' /\ lossRun' <= MaxRetries
  <2>1. pcd.retries + Unnoticed <= lossRun /\ Unnoticed \in 0..1 /\ Unnoticed' \in 0..1
    BY <1>6 DEF CollectRecovers, Unnoticed
  <2>2. pcd'.retries = pcd.retries
    BY <1>1
  <2> QED BY <1>1, <1>6, <1>7, <2>1, <2>2
<1>11. Ahead' => CardRepeats' + (IF BlockOnAir(toPcd)' THEN 0 ELSE 1) <= lossRun'
  <2>1. Ahead => CardRepeats <= lossRun
    BY <1>6, <1>7 DEF CollectRecovers
  <2> QED BY <1>1, <1>7, <1>9, <2>1
<1>12. CollectRecovers'
  BY <1>1, <1>6, <1>8, <1>9, <1>10, <1>11 DEF CollectRecovers
<1> QED BY <1>1, <1>6, <1>12, OneOfRecovering

\* What reader hears, or that it hears nothing.
LEMMA ReaderHearsRecovering ==
  ASSUME Orderly, InStep, Whole, ActivatedOK, Recovering, AmpleLimits, ~ GoesOnAfterError,
         ReaderHearsFrame \/ TimesOut \/ GivesUp
  PROVE  ActivatedOK' /\ Recovering'
<1>1. OneAtATime'
  BY HearsOrderly DEF Orderly
<1>2. Plain("Silence") \in Frame /\ Plain("Silence").kind = "Silence"
  BY FrameTypes, FrameFields DEF FrameKind
<1>3. toPcd # <<>> => toPcd[1] \in Frame
  BY AirType, AirIsSeq DEF Orderly, TypeOK
<1>4. PICK f \in Frame :
        /\ ReaderHears(f) /\ HeardOnAir(f)
        /\ \/ toPcd # <<>> /\ f = toPcd[1] /\ toPcd' = <<>> /\ UNCHANGED beyond
           \/ f = Plain("Silence") /\ toPcd' = toPcd
        /\ ~ beyond' => ~ beyond /\ (toPcd = <<>> => picc.call # "None")
  BY <1>2, <1>3 DEF ReaderHearsFrame, TimesOut, GivesUp, HeardOnAir, AtWork
<1>5. CASE SessionHears(f)
  <2>1. ActivatedOK'
    BY <1>4, <1>5, SessionHearsActivated
  <2>2. CASE ~ beyond'
    BY <1>1, <1>4, <1>5, <2>1, <2>2, SessionHearsRecovering
  <2>3. CASE beyond'
    BY <2>1, <2>3 DEF Recovering
  <2> QED BY <2>2, <2>3, <2>1
<1>6. CASE ActivationHears(f)
  BY <1>4, <1>6, ActivationHearsRecovering
<1> QED BY <1>4, <1>5, <1>6 DEF ReaderHears

LEMMA StuttersRecovering ==
  ASSUME ActivatedOK, Recovering, UNCHANGED vars
  PROVE  ActivatedOK' /\ Recovering'
<1>1. UNCHANGED <<scan, pcd, toPicc, picc, toPcd, lossRun, reader, command, executed, beyond>>
  BY DEF vars, history, asked
<1>2. ActivatedOK'
  BY <1>1 DEF ActivatedOK, Activated
<1>3. UNCHANGED <<Activated, Listening, CardFrames, CardRepeats, AtWork, MoreOfCommand>>
  BY <1>1 DEF Activated, Listening, CardHolds, CardFrames, CardRepeats, AtWork, MoreOfCommand
<1>4. UNCHANGED <<Unnoticed, Ahead, CardHolds, BlockOnAir(toPcd), BlockOnAir(toPicc)>>
  BY <1>1 DEF Unnoticed, Ahead, CardHolds, BlockOnAir
<1>5. UNCHANGED <<CommandPieces(command), ResponseTo(command)>>
  BY <1>1 DEF CommandPieces, ResponseTo
<1>6. ConnectRecovers' = ConnectRecovers /\ ReadyRecovers' = ReadyRecovers
  BY <1>1, <1>3 DEF ConnectRecovers, ReadyRecovers
<1>7. PpsRecovers' = PpsRecovers /\ DeselectRecovers' = DeselectRecovers
  BY <1>1, <1>3 DEF PpsRecovers, DeselectRecovers
<1>8. CommandRecovers => CommandRecovers'
  BY <1>1, <1>3, <1>4, <1>5
     DEF CommandRecovers, ResponseBegins, ChunksCounted, CommandCounted
<1>9. CollectRecovers => CollectRecovers'
  BY <1>1, <1>3, <1>4, <1>5 DEF CollectRecovers
<1> QED BY <1>1, <1>2, <1>6, <1>7, <1>8, <1>9 DEF Recovering

LEMMA NextRecovering ==
  ASSUME ~ GoesOnAfterError, ~ SendFaults, AmpleLimits
  PROVE  /\ Orderly /\ InStep /\ Whole /\ ActivatedOK /\ Recovering /\ [Next]_vars
         => ActivatedOK' /\ Recovering'
<1> SUFFICES ASSUME Orderly, InStep, Whole, ActivatedOK, Recovering, [Next]_vars
             PROVE  ActivatedOK' /\ Recovering'
  OBVIOUS
<1>1. CASE UNCHANGED vars
  BY <1>1, StuttersRecovering
<1>2. CASE Poll
  BY <1>2, PollRecovering
<1>3. CASE OpenSession \/ ChangeBitRate \/ CloseSession \/ \E c \in Commands : Ask(c)
  BY <1>3, CallRecovering
<1>4. CASE CardRuns
  BY <1>4, CardRunsRecovering
<1>5. CASE CardHears
  BY <1>5, CardHearsRecovering
<1>6. CASE ReaderHearsFrame \/ TimesOut \/ GivesUp
  BY <1>6, ReaderHearsRecovering
<1>7. CASE Disturb
  BY <1>7, DisturbRecovering
<1> QED BY <1>1, <1>2, <1>3, <1>4, <1>5, <1>6, <1>7 DEF Next, Progress

\* While the response is collected, up to MAX_RETRIES frames lost in a row fail
\* no call, of the session under way or of a later one, and the repeats trip no
\* limit of either side: with limits and buffers that hold the longest command
\* and its response, a transceiver that sends what it is given, and a reader
\* that gives a failed session up (transceive_with_recovery, Rule 11).
THEOREM LossesRecoveredAlways ==
  ASSUME ~ GoesOnAfterError, ~ SendFaults, AmpleLimits
  PROVE  Spec => []LossesRecovered
<1> DEFINE IInv == Orderly /\ InStep /\ Whole /\ ActivatedOK /\ Recovering
<1>1. PcdMaxInf # 0
  BY PcdAssumption DEF AmpleLimits
<1>2. Init => IInv
  BY InitOrderly, InitInStep, InitWhole, InitRecovering
<1>3. IInv /\ [Next]_vars => IInv'
  BY <1>1, NextOrderly, NextInStep, NextWhole, NextRecovering
<1>4. IInv => LossesRecovered
  BY DEF Recovering, LossesRecovered
<1> QED BY <1>2, <1>3, <1>4, PTL DEF Spec
=============================================================================
