------------------------------ MODULE PcdLemmas ------------------------------
(***************************************************************************)
(* What each step of the reader session does to its record and to the air. *)
(***************************************************************************)
EXTENDS Pcd, HandlerLemmas

LEMMA PcdFields ==
  ASSUME pcd \in PcdType
  PROVE  /\ pcd.phase \in PcdPhase /\ pcd.handler \in Handler
         /\ pcd.apdu \in Seq(Byte) /\ pcd.offset \in Nat
         /\ pcd.retries \in 0..MaxRetries /\ pcd.result \in Outcome
BY DEF PcdType

LEMMA RetryUpdate ==
  ASSUME NEW p \in PcdType, NEW retries \in 0..MaxRetries
  PROVE  LET q == [p EXCEPT !.retries = retries] IN
         /\ q \in PcdType /\ q.retries = retries
         /\ q.phase = p.phase /\ q.handler = p.handler /\ q.apdu = p.apdu
         /\ q.offset = p.offset /\ q.result = p.result
BY DEF PcdType

LEMMA ZeroRetries == 0 \in 0..MaxRetries /\ 0 \in Nat
BY DEF MaxRetries

LEMMA AwaitEffect ==
  ASSUME pcd \in PcdType, NEW phase \in PcdPhase, NEW h \in Handler, NEW f \in Frame,
         Await(phase, h, f)
  PROVE  /\ pcd' \in PcdType /\ toPicc' \in Air /\ toPicc' = <<f>>
         /\ pcd'.phase = phase /\ pcd'.handler = h /\ pcd'.retries = 0
         /\ pcd'.apdu = pcd.apdu /\ pcd'.offset = pcd.offset /\ pcd'.result = pcd.result
<1>1. toPicc' = <<f>> /\ toPicc' \in Air
  BY DEF Await, Transmit, Air
<1> DEFINE zero == 0
<1>2. pcd' = [pcd EXCEPT !.phase = phase, !.handler = h, !.retries = zero]
  BY DEF Await
<1>3. zero \in 0..MaxRetries
  BY ZeroRetries
<1> HIDE DEF zero
<1>4. /\ pcd' \in PcdType
      /\ pcd'.phase = phase /\ pcd'.handler = h /\ pcd'.retries = zero
      /\ pcd'.apdu = pcd.apdu /\ pcd'.offset = pcd.offset /\ pcd'.result = pcd.result
  BY <1>2, <1>3 DEF PcdType
<1> QED BY <1>1, <1>4 DEF zero

LEMMA ReturnEffect ==
  ASSUME pcd \in PcdType, NEW phase \in PcdPhase, NEW h \in Handler,
         NEW result \in Outcome, Return(phase, h, result)
  PROVE  /\ pcd' \in PcdType /\ toPicc' = toPicc
         /\ pcd'.phase = phase /\ pcd'.handler = h /\ pcd'.retries = 0
         /\ pcd'.result = result
<1> DEFINE zero == 0
           empty == <<>>
<1>1. pcd' = [pcd EXCEPT !.phase = phase, !.handler = h, !.apdu = empty,
                         !.offset = zero, !.retries = zero, !.result = result]
  BY DEF Return
<1>2. zero \in 0..MaxRetries /\ zero \in Nat /\ empty \in Seq(Byte)
  BY ZeroRetries
<1> HIDE DEF zero, empty
<1>3. /\ pcd' \in PcdType
      /\ pcd'.phase = phase /\ pcd'.handler = h /\ pcd'.retries = zero
      /\ pcd'.result = result
  BY <1>1, <1>2 DEF PcdType
<1> QED BY <1>3 DEF Return, zero

LEMMA SendChunkEffect ==
  ASSUME pcd \in PcdType, PcdMaxInf \in Nat, NEW h \in Handler,
         NEW apdu \in Seq(Byte), NEW offset \in 0..Len(apdu),
         SendChunk(h, apdu, offset)
  PROVE  /\ pcd' \in PcdType /\ toPicc' \in Air
         /\ pcd'.phase = "Command" /\ pcd'.handler = h /\ pcd'.retries = 0
         /\ pcd'.apdu = apdu /\ pcd'.offset = offset /\ pcd'.result = Ok
         /\ toPicc' # <<>> /\ Carries(toPicc'[1], "I") /\ toPicc'[1].block.number = h.number
         /\ toPicc'[1].block = Chunk(h.number, apdu, offset, PcdMaxInf)
<1> DEFINE b == Chunk(h.number, apdu, offset, PcdMaxInf)
<1>1. offset \in Nat /\ Ok \in Outcome /\ "Command" \in PcdPhase
  BY OutcomeTypes DEF PcdPhase, PcdWaiting
<1>2. /\ pcd' \in PcdType
      /\ pcd'.phase = "Command" /\ pcd'.handler = h /\ pcd'.retries = 0
      /\ pcd'.apdu = apdu /\ pcd'.offset = offset /\ pcd'.result = Ok
  <2> DEFINE zero == 0
             phase == "Command"
  <2>1. pcd' = [pcd EXCEPT !.phase = phase, !.handler = h, !.apdu = apdu,
                           !.offset = offset, !.retries = zero, !.result = Ok]
    BY DEF SendChunk
  <2>2. zero \in 0..MaxRetries /\ phase \in PcdPhase
    BY <1>1, ZeroRetries
  <2> HIDE DEF zero, phase
  <2>3. /\ pcd' \in PcdType
        /\ pcd'.phase = phase /\ pcd'.handler = h /\ pcd'.retries = zero
        /\ pcd'.apdu = apdu /\ pcd'.offset = offset /\ pcd'.result = Ok
    BY <1>1, <2>1, <2>2 DEF PcdType
  <2> QED BY <2>3 DEF zero, phase
<1>3. b \in Block /\ b.type = "I" /\ b.number = h.number
  BY ChunkType, HandlerFields
<1>4. toPicc' = <<BlockFrame(b)>>
  BY DEF SendChunk, Transmit
<1> HIDE DEF b
<1>5. /\ BlockFrame(b) \in Frame
      /\ BlockFrame(b).kind = "Block" /\ BlockFrame(b).block = b
  BY <1>3, FrameTypes, FrameFields
<1>6. /\ Carries(toPicc'[1], "I") /\ toPicc'[1].block.number = h.number
      /\ toPicc'[1].block = b
  BY <1>3, <1>4, <1>5 DEF Carries
<1>7. toPicc' \in Air /\ toPicc' # <<>>
  BY <1>4, <1>5, AirIsSeq
<1> QED BY <1>2, <1>6, <1>7 DEF b

LEMMA RefusalType ==
  ASSUME NEW o \in Outcome
  PROVE  Refusal(o) \in Outcome /\ Refusal(o).kind = "Err"
BY OutcomeTypes, OutcomeKinds DEF Refusal, Error

LEMMA Outcomes ==
  /\ Ok \in Outcome /\ Fails("Other") \in Outcome
  /\ Ok.kind = "Ok" /\ Fails("Other").kind = "Err"
  /\ "Idle" \in PcdPhase /\ "NoSession" \in PcdPhase
  /\ {"NoSession", "Idle"} \cup PcdWaiting = PcdPhase
BY OutcomeTypes, OutcomeKinds DEF Error, PcdPhase

LEMMA DeselectFrame ==
  /\ SBlock("Deselect", <<>>) \in Block
  /\ BlockFrame(SBlock("Deselect", <<>>)) \in Frame
BY BlockTypes, FrameTypes DEF Subtype

\* The four calls.
LEMMA ConnectEffect ==
  ASSUME pcd \in PcdType, Connect
  PROVE  /\ pcd' \in PcdType /\ toPicc' \in Air
         /\ pcd'.phase = "Connecting" /\ pcd'.handler = pcd.handler /\ pcd'.retries = 0
         /\ toPicc' = <<Plain("Rats")>>
<1>1. Plain("Rats") \in Frame
  BY FrameTypes DEF FrameKind
<1> QED BY <1>1, AwaitEffect, PcdFields, Outcomes DEF Connect, PcdWaiting

LEMMA NegotiatePpsEffect ==
  ASSUME pcd \in PcdType, NegotiatePps
  PROVE  /\ pcd' \in PcdType /\ toPicc' \in Air
         /\ pcd'.phase = "Pps" /\ pcd'.handler = pcd.handler /\ pcd'.retries = 0
         /\ toPicc' = <<Plain("Pps")>>
<1>1. Plain("Pps") \in Frame
  BY FrameTypes DEF FrameKind
<1> QED BY <1>1, AwaitEffect, PcdFields, Outcomes DEF NegotiatePps, PcdWaiting

LEMMA DeselectEffect ==
  ASSUME pcd \in PcdType, Deselect
  PROVE  /\ pcd' \in PcdType /\ toPicc' \in Air
         /\ pcd'.phase = "Deselecting" /\ pcd'.handler = pcd.handler /\ pcd'.retries = 0
         /\ toPicc' = <<BlockFrame(SBlock("Deselect", <<>>))>>
BY DeselectFrame, AwaitEffect, PcdFields, Outcomes DEF Deselect, PcdWaiting

LEMMA ExchangeEffect ==
  ASSUME pcd \in PcdType, PcdMaxInf \in Nat, NEW apdu \in Seq(Byte), Exchange(apdu)
  PROVE  /\ pcd' \in PcdType /\ toPicc' \in Air \cup {toPicc}
         /\ pcd'.handler = BeginExchange(pcd.handler)
         /\ pcd'.retries = 0
         /\ \/ /\ pcd'.phase = "Idle" /\ toPicc' = toPicc
               /\ PcdMaxInf = 0 \/ apdu = <<>>
            \/ /\ pcd'.phase = "Command" /\ pcd'.offset = 0 /\ toPicc' \in Air /\ pcd'.apdu = apdu
               /\ PcdMaxInf > 0 /\ Len(apdu) > 0 /\ pcd'.result = Ok
               /\ toPicc' # <<>> /\ Carries(toPicc'[1], "I")
               /\ toPicc'[1].block.number = BeginExchange(pcd.handler).number
               /\ toPicc'[1].block =
                    Chunk(BeginExchange(pcd.handler).number, apdu, 0, PcdMaxInf)
<1>1. BeginExchange(pcd.handler) \in Handler
  BY PcdFields, SessionStartType
<1>2. CASE PcdMaxInf = 0 \/ apdu = <<>>
  BY <1>1, <1>2, ReturnEffect, Outcomes DEF Exchange
<1>3. CASE ~ (PcdMaxInf = 0 \/ apdu = <<>>)
  <2>1. Len(apdu) > 0 /\ 0 \in 0..Len(apdu)
    BY <1>3, EmptySeq, LenProperties
  <2>2. SendChunk(BeginExchange(pcd.handler), apdu, 0)
    BY <1>3 DEF Exchange
  <2> QED BY <1>1, <1>3, <2>1, <2>2, SendChunkEffect
<1> QED BY <1>2, <1>3

-----------------------------------------------------------------------------
(* What comes back to a call.                                              *)

\* The call returns with handler h, or goes on in phase.
PcdReturned(h) == /\ pcd'.phase = "Idle" /\ pcd'.handler = h /\ pcd'.retries = 0
                  /\ toPicc' = toPicc

LEMMA ConnectAnsweredEffect ==
  ASSUME pcd \in PcdType, PcdLimits \in LimitsType, NEW f \in Frame, ConnectAnswered(f)
  PROVE  /\ pcd' \in PcdType /\ toPicc' = toPicc /\ pcd'.retries = 0
         /\ pcd.phase = "Connecting"
         /\ \/ /\ pcd'.phase = "Idle" /\ pcd'.handler = NewHandler("Pcd", PcdLimits)
               /\ pcd'.result = Ok
            \/ pcd'.phase = "NoSession" /\ pcd'.handler = pcd.handler
<1>1. NewHandler("Pcd", PcdLimits) \in Handler
  BY SessionStartType DEF Role
<1> QED BY <1>1, ReturnEffect, PcdFields, Outcomes DEF ConnectAnswered

LEMMA PpsAnsweredEffect ==
  ASSUME pcd \in PcdType, NEW f \in Frame, PpsAnswered(f)
  PROVE  /\ pcd' \in PcdType /\ PcdReturned(pcd.handler)
         /\ pcd.phase = "Pps" /\ pcd'.result.kind \in {"Ok", "Err"}
<1> DEFINE result == IF f.kind = "Ppss" THEN Ok ELSE Fails("Other")
<1>1. result \in Outcome /\ result.kind \in {"Ok", "Err"}
  BY Outcomes, OutcomeKinds
<1>2. pcd.phase = "Pps" /\ Return("Idle", pcd.handler, result)
  BY DEF PpsAnswered
<1> HIDE DEF result
<1> QED BY <1>1, <1>2, ReturnEffect, PcdFields, Outcomes DEF PcdReturned

LEMMA CommandUnansweredEffect ==
  ASSUME pcd \in PcdType, NEW f \in Frame, CommandUnanswered(f)
  PROVE  /\ pcd' \in PcdType /\ PcdReturned(pcd.handler)
         /\ pcd.phase = "Command" /\ pcd'.result.kind = "Err"
BY ReturnEffect, PcdFields, Outcomes DEF CommandUnanswered, PcdReturned

LEMMA ReceivedStep ==
  ASSUME pcd \in PcdType, NEW b \in Block
  PROVE  LET step == ProcessReceived(pcd.handler, b) IN
         /\ step.handler \in Handler /\ step.outcome \in Outcome
         /\ Refusal(step.outcome) \in Outcome /\ Refusal(step.outcome).kind = "Err"
BY PcdFields, ProcessReceivedType, RefusalType DEF IsStep

LEMMA ChunkAnsweredEffect ==
  ASSUME pcd \in PcdType, PcdMaxInf \in Nat, NEW f \in Frame, ChunkAnswered(f)
  PROVE  LET step == ProcessReceived(pcd.handler, f.block) IN
         /\ pcd.phase = "Command" /\ f.block \in Block
         /\ pcd' \in PcdType
         /\ \/ PcdReturned(step.handler) /\ pcd'.result.kind = "Err"
            \/ /\ pcd'.phase = "Command" /\ pcd'.handler = step.handler
               /\ pcd'.retries = 0 /\ toPicc' \in Air /\ pcd'.result = Ok
               /\ pcd'.offset < Len(pcd'.apdu)
               /\ toPicc' # <<>> /\ Carries(toPicc'[1], "I")
               /\ toPicc'[1].block.number = step.handler.number
               /\ toPicc'[1].block =
                    Chunk(step.handler.number, pcd.apdu, pcd'.offset, PcdMaxInf)
               /\ pcd'.apdu = pcd.apdu
               /\ \/ /\ step.outcome.kind = "ChainingAck"
                     /\ pcd'.offset = pcd.offset + PcdMaxInf
                     /\ pcd'.offset = ChunkEnd(pcd.apdu, pcd.offset, PcdMaxInf)
                  \/ /\ step.outcome.kind = "ChainingRetransmit"
                     /\ pcd'.offset = pcd.offset
<1> DEFINE step == ProcessReceived(pcd.handler, f.block)
           end == ChunkEnd(pcd.apdu, pcd.offset, PcdMaxInf)
<1>1. f.block \in Block
  BY BlockOfFrame DEF ChunkAnswered
<1>2. /\ step.handler \in Handler /\ Refusal(step.outcome) \in Outcome
      /\ Refusal(step.outcome).kind = "Err"
  BY <1>1, ReceivedStep
<1>3. /\ pcd.apdu \in Seq(Byte) /\ Len(pcd.apdu) \in Nat /\ pcd.offset \in Nat
  BY PcdFields, LenProperties
<1>4. end < Len(pcd.apdu)
  BY DEF ChunkAnswered, MoreOfCommand, MoreToSend
<1>5. end = pcd.offset + PcdMaxInf
  BY <1>3, <1>4 DEF ChunkEnd
<1>6. pcd.offset \in 0..Len(pcd.apdu) /\ end \in 0..Len(pcd.apdu)
      /\ pcd.offset < Len(pcd.apdu)
  BY <1>3, <1>4, <1>5
<1> HIDE DEF step, end
<1>7. CASE step.outcome.kind = "ChainingAck" /\ SendChunk(step.handler, pcd.apdu, end)
  BY <1>1, <1>2, <1>3, <1>4, <1>5, <1>6, <1>7, SendChunkEffect DEF ChunkAnswered, step, end
<1>8. CASE /\ step.outcome.kind = "ChainingRetransmit"
           /\ SendChunk(step.handler, pcd.apdu, pcd.offset)
  BY <1>1, <1>2, <1>3, <1>6, <1>8, SendChunkEffect DEF ChunkAnswered, step
<1>9. CASE Return("Idle", step.handler, Refusal(step.outcome))
  BY <1>1, <1>2, <1>9, ReturnEffect, Outcomes DEF ChunkAnswered, PcdReturned, step
<1> QED BY <1>7, <1>8, <1>9 DEF ChunkAnswered, step, end

LEMMA CollectBlockEffect ==
  ASSUME pcd \in PcdType, NEW b \in Block, CollectBlock(b)
  PROVE  LET step == ProcessReceived(pcd.handler, b) IN
         /\ pcd' \in PcdType
         /\ \/ /\ PcdReturned(step.handler)
               /\ \/ step.outcome.kind = "Complete" /\ pcd'.result = step.outcome
                  \/ pcd'.result.kind = "Err"
            \/ /\ step.outcome.kind = "Reply"
               /\ pcd'.phase = "Collect" /\ pcd'.handler = step.handler
               /\ pcd'.retries = 0 /\ toPicc' \in Air
               /\ pcd'.result = pcd.result
               /\ toPicc' = <<BlockFrame(step.outcome.block)>>
               /\ toPicc'[1].block = step.outcome.block
<1> DEFINE step == ProcessReceived(pcd.handler, b)
<1>1. /\ step.handler \in Handler /\ step.outcome \in Outcome
      /\ Refusal(step.outcome) \in Outcome /\ Refusal(step.outcome).kind = "Err"
  BY ReceivedStep
<1> HIDE DEF step
<1>2. CASE step.outcome.kind = "Complete" /\ Return("Idle", step.handler, step.outcome)
  BY <1>1, <1>2, ReturnEffect, Outcomes DEF PcdReturned, step
<1>3. CASE Return("Idle", step.handler, Refusal(step.outcome))
  BY <1>1, <1>3, ReturnEffect, Outcomes DEF PcdReturned, step
<1>4. CASE /\ step.outcome.kind = "Reply"
           /\ Await("Collect", step.handler, BlockFrame(step.outcome.block))
  <2>1. BlockFrame(step.outcome.block) \in Frame
    BY <1>1, <1>4, OutcomeFields, FrameTypes
  <2>2. BlockFrame(step.outcome.block).block = step.outcome.block
    BY FrameFields
  <2>3. "Collect" \in PcdPhase
    BY DEF PcdPhase, PcdWaiting
  <2> QED BY <1>1, <1>4, <2>1, <2>2, <2>3, AwaitEffect DEF step
<1> QED BY <1>2, <1>3, <1>4 DEF CollectBlock, step

LEMMA ReplyUnansweredEffect ==
  ASSUME pcd \in PcdType, NEW f \in Frame, ReplyUnanswered(f)
  PROVE  /\ pcd' \in PcdType /\ pcd.phase = "Collect"
         /\ \/ PcdReturned(pcd.handler) /\ pcd'.result.kind = "Err"
            \/ /\ pcd'.phase = "Collect" /\ pcd'.handler = pcd.handler
               /\ pcd.retries < MaxRetries /\ pcd'.retries = pcd.retries + 1
               /\ pcd'.result = pcd.result
               /\ toPicc' = <<BlockFrame(RAck(pcd.handler))>> /\ toPicc' \in Air
<1>1. CASE Return("Idle", pcd.handler, Fails("Other"))
  BY <1>1, ReturnEffect, PcdFields, Outcomes DEF PcdReturned, ReplyUnanswered
<1>2. CASE /\ pcd.retries < MaxRetries
           /\ pcd' = [pcd EXCEPT !.retries = @ + 1]
           /\ Transmit(BlockFrame(RAck(pcd.handler)))
  <2>1. pcd.retries + 1 \in 0..MaxRetries
    BY <1>2, PcdFields DEF MaxRetries
  <2>2. /\ pcd' \in PcdType /\ pcd'.retries = pcd.retries + 1
        /\ pcd'.phase = pcd.phase /\ pcd'.handler = pcd.handler
        /\ pcd'.result = pcd.result
    BY <1>2, <2>1 DEF PcdType
  <2>3. BlockFrame(RAck(pcd.handler)) \in Frame
    BY PcdFields, BlockTypes, FrameTypes
  <2> QED BY <1>2, <2>2, <2>3 DEF Transmit, Air, ReplyUnanswered
<1> QED BY <1>1, <1>2 DEF ReplyUnanswered

LEMMA DeselectAnsweredEffect ==
  ASSUME pcd \in PcdType, NEW f \in Frame, DeselectAnswered(f)
  PROVE  /\ pcd' \in PcdType /\ pcd.phase \in {"Deselecting", "DeselectRetry"}
         /\ \/ /\ PcdReturned(pcd.handler)
               /\ \/ IsDeselectFrame(f) /\ pcd'.result = Ok
                  \/ pcd'.result.kind = "Err"
            \/ /\ pcd'.phase = "DeselectRetry" /\ pcd'.handler = pcd.handler
               /\ pcd'.retries = 0 /\ toPicc' \in Air
               /\ toPicc' = <<BlockFrame(SBlock("Deselect", <<>>))>>
<1>1. "DeselectRetry" \in PcdPhase
  BY DEF PcdPhase, PcdWaiting
<1>2. CASE IsDeselectFrame(f) /\ Return("Idle", pcd.handler, Ok)
  BY <1>2, ReturnEffect, PcdFields, Outcomes DEF DeselectAnswered, PcdReturned
<1>3. CASE Await("DeselectRetry", pcd.handler, BlockFrame(SBlock("Deselect", <<>>)))
  BY <1>1, <1>3, AwaitEffect, PcdFields, DeselectFrame DEF DeselectAnswered
<1>4. CASE Return("Idle", pcd.handler, Fails("Other"))
  BY <1>4, ReturnEffect, PcdFields, Outcomes DEF DeselectAnswered, PcdReturned
<1> QED BY <1>2, <1>3, <1>4 DEF DeselectAnswered
=============================================================================
