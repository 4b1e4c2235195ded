------------------------------ MODULE PiccProofs ------------------------------
(***************************************************************************)
(* What holds of PiccMachine for every set of limits, frame size, UID and  *)
(* reader: its types, how often an exchange is answered, and that what is  *)
(* said stays in step with the session.                                    *)
(***************************************************************************)
EXTENDS PiccMachine, PiccLemmas

-----------------------------------------------------------------------------
(* Type correctness.                                                       *)

LEMMA NewPiccFields ==
  ASSUME NEW ats \in BOOLEAN
  PROVE  LET p == NewPicc(ats, "Idle") IN
         /\ p \in PiccType /\ p.call = "None" /\ p.state = "Idle" /\ p.result = Ok
         /\ p.handler = NewHandler("Picc", PiccLimits)
<1>1. NewHandler("Picc", PiccLimits) \in Handler
  BY PiccAssumption, SessionStartType DEF Role
<1>2. /\ "None" \in PiccCall /\ "Idle" \in PiccState /\ <<>> \in Seq(Byte)
      /\ 0 \in Nat /\ 0 \in 0..2
  BY DEF PiccCall, PiccState
<1> QED BY <1>1, <1>2, PiccResults DEF NewPicc, PiccType

LEMMA InitTypeOK == Init => TypeOK /\ CallsInOrder
<1> SUFFICES ASSUME Init PROVE TypeOK /\ CallsInOrder
  OBVIOUS
<1>1. PICK ats \in BOOLEAN : picc = NewPicc(ats, "Idle")
  BY DEF Init
<1>2. picc \in PiccType /\ picc.call = "None"
  BY <1>1, NewPiccFields
<1>3. toPcd \in Air
  BY DEF Init, Air
<1> QED BY <1>2, <1>3, OneOnAir DEF Init, TypeOK, CallsInOrder

\* The card and the air keep their types in every step.
LEMMA StepTypes ==
  ASSUME picc \in PiccType, CallsInOrder, Next
  PROVE  /\ picc' \in PiccType /\ toPcd' \in Air \cup {toPcd}
         /\ CallsInOrder'
<1> USE DEF CallsInOrder
<1>1. CASE WaitForActivation
  BY <1>1, WaitForActivationEffect
<1>2. CASE picc.state = "Active" /\ WaitForRats
  BY <1>2, WaitForRatsEffect
<1>3. CASE ReceiveCommand
  BY <1>3, ReceiveCommandEffect
<1>4. ASSUME NEW data \in Responses, SendResponse(data)
      PROVE  picc' \in PiccType /\ toPcd' \in Air \cup {toPcd} /\ CallsInOrder'
  <2>1. data \in Seq(Byte) /\ 0 \in 0..Len(data)
    BY PiccMachineAssumption, LenProperties
  <2>2. CASE CallEnded(picc, Fails("Other"))
    BY <2>2 DEF CallEnded
  <2>3. CASE PiccSendsChunk(picc, data, 0)
    BY <2>1, <2>3, SendsChunkEffect, OneBlock
  <2> QED BY <1>4, <2>1, <2>2, <2>3, SendResponseEffect
<1>5. ASSUME NEW f \in Frame, PiccHears(f)
      PROVE  picc' \in PiccType /\ toPcd' \in Air \cup {toPcd} /\ CallsInOrder'
  <2>1. CASE ReceiveFails(f)
    BY <2>1, ReceiveFailsEffect DEF CallEnded
  <2>2. CASE HearInIdle(f)
    BY <2>2, HearInIdleEffect
  <2>3. CASE HearInReady(f)
    BY <2>3, HearInReadyEffect
  <2>4. CASE HearInActive(f)
    <3>1. picc.state = "Active"
      BY <2>4 DEF HearInActive
    <3> QED BY <2>4, <3>1, HearInActiveEffect
  <2>5. CASE HearPps(f)
    <3>1. Counted(picc.handler) \in Handler
      BY PiccFields, NoteFrameEffect
    <3> QED BY <2>5, <3>1, HearPpsEffect, WithFields DEF CallFailed, CallEnded
  <2>6. CASE HearNoBlock(f)
    BY <2>6, HearNoBlockEffect DEF CallFailed, CallEnded
  <2>7. CASE HearCommandBlock(f) \/ HearAcknowledgement(f)
    <3> DEFINE step == ProcessReceived(picc.handler, f.block)
    <3>1. /\ picc.call \in {"Receive", "Respond"} /\ step.handler \in Handler
          /\ With(step.handler) \in PiccType /\ IsStep(step)
      BY <2>7, HearBlockEffect DEF IsStep
    <3>2. /\ With(step.handler).call = picc.call /\ With(step.handler).iblock = picc.iblock
          /\ With(step.handler).response = picc.response
          /\ picc.response \in Seq(Byte)
      BY <3>1, WithFields, PiccFields
    <3>3. /\ picc.lastSent # <<>> => picc.lastSent[1] \in Block
          /\ picc.call = "Respond" => picc.iblock[1] \in Block
          /\ step.outcome.kind = "Reply" => step.outcome.block \in Block
      BY <3>1, PiccFields, OneBlock, OutcomeFields DEF IsStep
    <3>4. ASSUME NEW b \in Block, Said(b, With(step.handler))
          PROVE  picc' \in PiccType /\ toPcd' \in Air \cup {toPcd} /\ CallsInOrder'
      BY <3>1, <3>2, <3>4, SaidEffect
    <3>5. CASE step.outcome.kind = "Reply" /\ PiccReplies(step)
      <4>1. CASE ~ IsDeselect(step.outcome.block)
        BY <3>1, <3>3, <3>4, <3>5, <4>1, ReplyEffect
      <4>2. CASE IsDeselect(step.outcome.block)
        <5>1. picc' \in PiccType /\ toPcd' \in Air \cup {toPcd} /\ picc'.call = "None"
          BY <3>1, <3>5, <4>2, ReplyEffect
        <5> QED BY <5>1
      <4> QED BY <4>1, <4>2
    <3>6. ASSUME NEW offset \in 0..Len(picc.response),
                 PiccSendsChunk(With(step.handler), picc.response, offset)
          PROVE  picc' \in PiccType /\ toPcd' \in Air \cup {toPcd} /\ CallsInOrder'
      <4>1. PICK b \in Block :
              /\ picc' \in PiccType /\ toPcd' \in Air \cup {toPcd}
              /\ \/ picc'.call = "Respond" /\ picc'.iblock = <<b>>
                 \/ picc'.call = "None"
        BY <3>1, <3>2, <3>6, SendsChunkEffect
      <4> QED BY <4>1, OneBlock
    <3>7. CASE \/ CallEnded(With(step.handler), step.outcome)
               \/ CallFailed(With(step.handler))
      BY <3>7 DEF CallFailed, CallEnded
    <3> QED BY <2>7, <3>3, <3>4, <3>5, <3>6, <3>7, HearBlockEffect
  <2> QED BY <1>5, <2>1, <2>2, <2>3, <2>4, <2>5, <2>6, <2>7 DEF PiccHears
<1> QED BY <1>1, <1>2, <1>3, <1>4, <1>5, PiccMachineAssumption
        DEF Next, Call, AskForActivation, AskForRats, AskForCommand, Answer, Hear

LEMMA LimitType == PiccLimits.max_frames \in Nat
<1>1. PiccLimits.max_frames \in 0..U16Max
  BY PiccAssumption DEF LimitsType, U16
<1> QED BY <1>1, WidthsAreNat

LEMMA NextTypeOK ==
  ASSUME TypeOK, CallsInOrder, [Next]_vars
  PROVE  TypeOK' /\ CallsInOrder'
<1>1. CASE UNCHANGED vars
  BY <1>1 DEF vars, history, TypeOK, CallsInOrder
<1>2. CASE Next
  <2>1. /\ picc' \in PiccType /\ toPcd' \in Air \cup {toPcd} /\ CallsInOrder'
    BY <1>2, StepTypes DEF TypeOK
  <2>2. Len(toPcd') <= 1 /\ \A i \in DOMAIN toPcd' : toPcd'[i] \in Frame
    BY <2>1, OneOnAir DEF TypeOK
  <2>3. picc'.lastSent \in {<<>>} \cup [1..1 -> Block]
    BY <2>1, PiccFields
  <2>4. /\ answered' \in Nat /\ said' \in {<<>>} \cup [1..1 -> Block]
        /\ orderly' \in BOOLEAN /\ halted' \in BOOLEAN
    <3>1. CASE Call
      BY <2>3, <3>1 DEF TypeOK, Call, AskForActivation, AskForRats, AskForCommand,
                        Answer, history
    <3>2. ASSUME NEW f \in ReaderFrames,
                 /\ answered' = IF InExchange /\ picc'.call \in {"Receive", "Respond"}
                                THEN CountAnswer ELSE answered
                 /\ NoteBlockSaid(f)
                 /\ orderly' = (BeginsSession(f) \/ (orderly /\ ~ OutOfTurn(f)))
                 /\ halted' = CASE picc'.state = "Halted" -> TRUE
                                [] f.kind = "Wupa" -> FALSE
                                [] OTHER -> halted
          PROVE  /\ answered' \in Nat /\ said' \in {<<>>} \cup [1..1 -> Block]
                 /\ orderly' \in BOOLEAN /\ halted' \in BOOLEAN
      <4>1. answered' \in Nat
        BY <3>2 DEF CountAnswer, TypeOK
      <4>2. said' \in {<<>>} \cup [1..1 -> Block]
        BY <2>3, <3>2 DEF NoteBlockSaid, TypeOK
      <4>3. halted' \in BOOLEAN
        BY <3>2 DEF TypeOK
      <4>4. orderly' \in BOOLEAN
        BY <3>2 DEF BeginsSession
      <4> QED BY <4>1, <4>2, <4>3, <4>4
    <3> QED BY <1>2, <3>1, <3>2 DEF Next, Hear
  <2> QED BY <2>1, <2>2, <2>4 DEF TypeOK
<1> QED BY <1>1, <1>2

\* The card keeps its types whatever the reader sends, the transceiver fails
\* and the application answers: its state machine does not leave its states,
\* and a response that waits for an acknowledgement has a chunk in flight.
THEOREM PiccTypeCorrect == Spec => []TypeOK
<1>1. TypeOK /\ CallsInOrder /\ [Next]_vars => (TypeOK /\ CallsInOrder)'
  BY NextTypeOK
<1> QED BY <1>1, InitTypeOK, PTL DEF Spec

-----------------------------------------------------------------------------
(* Bounded work.                                                           *)

PiccFrames == picc.handler.counters.frames

LEMMA PiccFramesType ==
  ASSUME picc \in PiccType
  PROVE  PiccFrames \in Nat
<1>1. picc.handler.counters.frames \in 0..U16Max
  BY PiccFields, HandlerFields DEF CountersType, U16
<1> QED BY <1>1, WidthsAreNat DEF PiccFrames

\* A block takes the handler on, a call that goes on has accepted it, and a
\* command is received with the block that completes it.
LEMMA HearBlockKept ==
  ASSUME picc \in PiccType, CallsInOrder, NEW f \in Frame,
         HearCommandBlock(f) \/ HearAcknowledgement(f)
  PROVE  LET step == ProcessReceived(picc.handler, f.block) IN
         /\ InExchange /\ f.block \in Block
         /\ picc'.handler = step.handler
         /\ picc'.call \in {"None", "Receive", "Respond"}
         /\ picc'.call # "None" => step.outcome.kind # "Err" /\ ~ IsDeselect(f.block)
         /\ picc'.call = "None" /\ picc'.result.kind = "Complete" =>
              step.outcome.kind # "Err" /\ ~ IsDeselect(f.block)
<1> DEFINE step == ProcessReceived(picc.handler, f.block)
<1>1. /\ picc.call \in {"Receive", "Respond"} /\ f.block \in Block
      /\ IsStep(step) /\ step.handler \in Handler
      /\ With(step.handler) \in PiccType /\ picc.handler \in Handler
      /\ picc.response \in Seq(Byte)
  BY HearBlockEffect, PiccFields DEF IsStep, CallsInOrder
<1>2. /\ With(step.handler).call = picc.call /\ With(step.handler).handler = step.handler
  BY <1>1, WithFields
<1>3. /\ picc.lastSent # <<>> => picc.lastSent[1] \in Block
      /\ picc.call = "Respond" => picc.iblock[1] \in Block
      /\ step.outcome.kind = "Reply" => step.outcome.block \in Block
  BY <1>1, PiccFields, OneBlock, OutcomeFields DEF IsStep, CallsInOrder
<1>4. step.outcome.kind \in {"ChainingAck", "ChainingRetransmit", "Complete"} =>
        step.outcome.kind # "Err" /\ ~ IsDeselect(f.block)
  BY <1>1, ReceivedNumbers DEF IsDeselect
<1>5. step.outcome.kind = "Reply" /\ ~ IsDeselect(step.outcome.block) =>
        step.outcome.kind # "Err" /\ ~ IsDeselect(f.block)
  BY <1>1, DeselectEchoed
<1> DEFINE Kept == /\ picc'.handler = step.handler
                   /\ picc'.call \in {"None", "Receive", "Respond"}
                   /\ picc'.call # "None" =>
                        step.outcome.kind # "Err" /\ ~ IsDeselect(f.block)
                   /\ picc'.call = "None" /\ picc'.result.kind = "Complete" =>
                        step.outcome.kind # "Err" /\ ~ IsDeselect(f.block)
<1> SUFFICES Kept
  BY <1>1 DEF InExchange
<1>6. CASE step.outcome.kind = "Reply" /\ PiccReplies(step)
  <2>1. CASE /\ ~ IsDeselect(step.outcome.block)
             /\ Said(step.outcome.block, With(step.handler))
    BY <1>1, <1>2, <1>3, <1>5, <1>6, <2>1, SaidEffect
  <2>2. CASE picc'.call = "None" /\ picc'.result.kind = "Err" /\ picc'.handler = step.handler
    BY <2>2
  <2> QED BY <1>1, <1>6, <2>1, <2>2, ReplyEffect
<1>7. CASE /\ step.outcome.kind = "ChainingRetransmit"
           /\ \E b \in Block : Said(b, With(step.handler))
  BY <1>1, <1>2, <1>4, <1>7, SaidEffect
<1>8. CASE /\ step.outcome.kind = "ChainingAck"
           /\ \E offset \in 0..Len(picc.response) :
                PiccSendsChunk(With(step.handler), picc.response, offset)
  BY <1>1, <1>2, <1>4, <1>8, SendsChunkEffect
<1>9. CASE step.outcome.kind = "Complete" /\ CallEnded(With(step.handler), step.outcome)
  BY <1>2, <1>4, <1>9 DEF CallEnded
<1>10. CASE CallFailed(With(step.handler))
  BY <1>2, <1>10 DEF CallFailed, CallEnded
<1> HIDE DEF Kept
<1> QED BY <1>3, <1>6, <1>7, <1>8, <1>9, <1>10, HearBlockEffect DEF CallsInOrder

LEMMA InitAnswersPaid == Init => HandlerKept /\ AnswersPaid
<1> SUFFICES ASSUME Init PROVE HandlerKept /\ AnswersPaid
  OBVIOUS
<1>1. PICK ats \in BOOLEAN : picc = NewPicc(ats, "Idle")
  BY DEF Init
<1>2. /\ NewHandler("Picc", PiccLimits).role = "Picc"
      /\ NewHandler("Picc", PiccLimits).limits = PiccLimits
  BY DEF NewHandler
<1>3. /\ picc.call = "None" /\ picc.state = "Idle"
      /\ picc.handler = NewHandler("Picc", PiccLimits)
  BY <1>1, NewPiccFields
<1> QED BY <1>2, <1>3, LimitType
       DEF Init, HandlerKept, AnswersPaid, InExchange, Answering

LEMMA NextHandlerKept ==
  ASSUME TypeOK, CallsInOrder, HandlerKept, [Next]_vars
  PROVE  HandlerKept'
<1>1. /\ picc \in PiccType /\ picc.handler \in Handler
      /\ picc.handler.role = "Picc" /\ picc.handler.limits = PiccLimits
  BY PiccFields DEF TypeOK, HandlerKept
<1>2. ASSUME SameSession(picc'.handler, picc.handler)
      PROVE  HandlerKept'
  BY <1>1, <1>2 DEF SameSession, HandlerKept
<1>3. ASSUME picc'.handler = picc.handler
      PROVE  HandlerKept'
  BY <1>1, <1>3 DEF HandlerKept
<1>4. CASE UNCHANGED vars
  BY <1>3, <1>4 DEF vars
<1>5. CASE WaitForActivation \/ WaitForRats
  BY <1>1, <1>3, <1>5, WaitForActivationEffect, WaitForRatsEffect DEF ActivationKept
<1>6. CASE ReceiveCommand
  BY <1>1, <1>6, ReceiveCommandEffect, SessionStartFields DEF HandlerKept
<1>7. ASSUME NEW data \in Responses, SendResponse(data)
      PROVE  HandlerKept'
  <2>1. data \in Seq(Byte) /\ 0 \in 0..Len(data)
    BY PiccMachineAssumption, LenProperties
  <2>2. CASE PiccSendsChunk(picc, data, 0)
    BY <1>1, <1>3, <2>1, <2>2, SendsChunkEffect
  <2> QED BY <1>1, <1>3, <1>7, <2>1, <2>2, SendResponseEffect DEF CallEnded
<1>8. ASSUME NEW f \in Frame, PiccHears(f)
      PROVE  HandlerKept'
  <2>1. CASE ReceiveFails(f)
    BY <1>1, <1>3, <2>1, ReceiveFailsEffect DEF CallEnded
  <2>2. CASE HearInIdle(f) \/ HearInReady(f)
    BY <1>1, <1>3, <2>2, HearInIdleEffect, HearInReadyEffect DEF ActivationKept
  <2>3. CASE HearInActive(f)
    <3>1. picc.state = "Active"
      BY <2>3 DEF HearInActive, CallsInOrder
    <3>2. picc'.handler \in {picc.handler, NewHandler("Picc", PiccLimits)}
      BY <1>1, <2>3, <3>1, HearInActiveEffect
    <3> QED BY <1>1, <3>2 DEF NewHandler, HandlerKept
  <2>4. ASSUME NEW h \in Handler, SameSession(h, picc.handler), CallFailed(With(h))
        PROVE  HandlerKept'
    BY <1>1, <1>2, <2>4, WithFields DEF CallFailed, CallEnded
  <2>5. CASE HearPps(f)
    <3>1. Counted(picc.handler) \in Handler /\ SameSession(Counted(picc.handler), picc.handler)
      BY <1>1, NoteFrameEffect
    <3> QED BY <1>1, <1>2, <2>4, <2>5, <3>1, HearPpsEffect, WithFields
  <2>6. CASE HearNoBlock(f)
    BY <1>1, <2>4, <2>6, HearNoBlockEffect
  <2>7. CASE HearCommandBlock(f) \/ HearAcknowledgement(f)
    BY <1>1, <2>7, HearBlockKept, ReceivedCounts DEF HandlerKept
  <2> QED BY <1>8, <2>1, <2>2, <2>3, <2>5, <2>6, <2>7 DEF PiccHears
<1> QED BY <1>4, <1>5, <1>6, <1>7, <1>8, PiccMachineAssumption
        DEF Next, Call, AskForActivation, AskForRats, AskForCommand, Answer, Hear

LEMMA NextAnswersPaid ==
  ASSUME TypeOK, CallsInOrder, HandlerKept, AnswersPaid, [Next]_vars,
         PiccLimits.max_frames < U16Max
  PROVE  AnswersPaid'
<1>0. CASE UNCHANGED vars
  BY <1>0 DEF vars, history, AnswersPaid, InExchange, Answering
<1>1. /\ picc \in PiccType /\ picc.handler \in Handler /\ answered \in Nat
      /\ PiccFrames \in Nat /\ PiccLimits.max_frames \in Nat
      /\ picc.handler.role = "Picc" /\ picc.handler.limits = PiccLimits
      /\ answered <= PiccLimits.max_frames
      /\ InExchange \/ Answering => answered <= PiccFrames
  BY PiccFields, PiccFramesType, LimitType
     DEF TypeOK, HandlerKept, AnswersPaid, PiccFrames
<1>2. ASSUME answered' = answered, ~ InExchange', ~ Answering'
      PROVE  AnswersPaid'
  BY <1>1, <1>2 DEF AnswersPaid
<1>3. CASE Call
  <2>1. CASE AskForActivation
    BY <1>1, <1>2, <2>1, WaitForActivationEffect
       DEF AskForActivation, ActivationKept, history, InExchange, Answering
  <2>2. CASE AskForRats
    BY <1>1, <1>2, <2>2, WaitForRatsEffect
       DEF AskForRats, ActivationKept, history, InExchange, Answering
  <2>3. CASE AskForCommand
    <3>1. picc'.handler = BeginExchange(picc.handler) /\ answered' = 0
      BY <1>1, <2>3, ReceiveCommandEffect DEF AskForCommand
    <3>2. picc'.handler.counters.frames = 0
      BY <1>1, <3>1, SessionStartFields DEF ZeroCounters
    <3> QED BY <1>1, <3>1, <3>2 DEF AnswersPaid
  <2>4. ASSUME NEW data \in Responses, Answer(data)
        PROVE  AnswersPaid'
    <3>1. data \in Seq(Byte) /\ 0 \in 0..Len(data) /\ Answering /\ answered' = answered
      BY <2>4, PiccMachineAssumption, LenProperties DEF Answer, Answering
    <3>2. picc'.handler = picc.handler
      <4>1. CASE CallEnded(picc, Fails("Other"))
        BY <4>1 DEF CallEnded
      <4>2. CASE PiccSendsChunk(picc, data, 0)
        BY <1>1, <3>1, <4>2, SendsChunkEffect
      <4> QED BY <1>1, <2>4, <3>1, <4>1, <4>2, SendResponseEffect DEF Answer
    <3> QED BY <1>1, <3>1, <3>2 DEF AnswersPaid, PiccFrames
  <2> QED BY <1>3, <2>1, <2>2, <2>3, <2>4 DEF Call
<1>4. ASSUME NEW f \in Frame, PiccHears(f),
             answered' = IF InExchange /\ picc'.call \in {"Receive", "Respond"}
                         THEN CountAnswer ELSE answered
      PROVE  AnswersPaid'
  <2>1. CASE ReceiveFails(f)
    BY <1>1, <1>2, <1>4, <2>1, ReceiveFailsEffect, Failures
       DEF CallEnded, InExchange, Answering
  <2>2. CASE HearInIdle(f)
    BY <1>1, <1>2, <1>4, <2>2, HearInIdleEffect DEF ActivationKept, InExchange, Answering
  <2>3. CASE HearInReady(f)
    BY <1>1, <1>2, <1>4, <2>3, HearInReadyEffect DEF ActivationKept, InExchange, Answering
  <2>4. CASE HearInActive(f)
    <3>1. picc.state = "Active"
      BY <2>4 DEF HearInActive, CallsInOrder
    <3>2. picc'.call = "None" /\ (picc'.state = "Protocol" => picc'.result = Ok)
      BY <1>1, <2>4, <3>1, HearInActiveEffect
    <3> QED BY <1>2, <1>4, <3>2, OutcomeKinds DEF InExchange, Answering
  <2>5. CASE \E h : CallFailed(With(h))
    BY <1>2, <1>4, <2>5 DEF CallFailed, CallEnded, InExchange, Answering
  <2>6. ASSUME PiccFrames' = PiccFrames + 1, PiccFrames' <= PiccLimits.max_frames,
               InExchange
        PROVE  AnswersPaid'
    <3>1. answered' <= answered + 1 /\ answered' \in Nat
      BY <1>1, <1>4 DEF CountAnswer
    <3>2. answered' <= PiccFrames'
      BY <1>1, <2>6, <3>1
    <3>3. answered' <= PiccLimits.max_frames
      BY <1>1, <2>6, <3>1, <3>2
    <3> QED BY <2>6, <3>2, <3>3 DEF AnswersPaid, PiccFrames
  <2>7. CASE HearPps(f)
    <3> DEFINE counted == Counted(picc.handler)
    <3>1. /\ counted \in Handler /\ SameSession(counted, picc.handler)
          /\ counted.counters.frames =
               SaturatingIncrement(picc.handler.counters.frames, U16Max)
      BY <1>1, NoteFrameEffect, HandlerFields DEF CountFrame, CountersType
    <3>2. CASE picc' = With(counted) /\ counted.counters.frames <= PiccLimits.max_frames
      <4>1. picc'.handler = counted
        BY <1>1, <3>1, <3>2, WithFields
      <4>2. PiccFrames \in 0..U16Max /\ U16Max \in Nat
        BY <1>1, HandlerFields, WidthsAreNat DEF CountersType, U16, PiccFrames
      <4>3. PiccFrames' = PiccFrames + 1 /\ PiccFrames' <= PiccLimits.max_frames
        BY <1>1, <3>1, <3>2, <4>1, <4>2 DEF SaturatingIncrement, PiccFrames
      <4>4. InExchange
        BY <2>7 DEF HearPps, InExchange
      <4> QED BY <2>6, <4>3, <4>4
    <3>3. CASE \E h \in Handler : SameSession(h, picc.handler) /\ CallFailed(With(h))
      BY <2>5, <3>3
    <3> QED BY <1>1, <2>7, <3>2, <3>3, HearPpsEffect
  <2>8. CASE HearNoBlock(f)
    BY <1>1, <2>5, <2>8, HearNoBlockEffect
  <2>9. CASE HearCommandBlock(f) \/ HearAcknowledgement(f)
    <3> DEFINE step == ProcessReceived(picc.handler, f.block)
    <3>1. /\ InExchange /\ f.block \in Block /\ picc'.handler = step.handler
          /\ picc'.call \in {"None", "Receive", "Respond"}
          /\ picc'.call # "None" => step.outcome.kind # "Err" /\ ~ IsDeselect(f.block)
          /\ picc'.call = "None" /\ picc'.result.kind = "Complete" =>
               step.outcome.kind # "Err" /\ ~ IsDeselect(f.block)
      BY <1>1, <2>9, HearBlockKept
    <3>3. CASE step.outcome.kind # "Err" /\ ~ IsDeselect(f.block)
      <4>1. PiccFrames' = PiccFrames + 1 /\ PiccFrames' <= PiccLimits.max_frames
        BY <1>1, <3>1, <3>3, AcceptedCounts DEF PiccFrames
      <4> QED BY <2>6, <3>1, <4>1
    <3>4. CASE ~ (step.outcome.kind # "Err" /\ ~ IsDeselect(f.block))
      <4>1. ~ InExchange' /\ ~ Answering' /\ answered' = answered
        BY <1>4, <3>1, <3>4 DEF InExchange, Answering
      <4> QED BY <1>2, <4>1
    <3> QED BY <3>3, <3>4
  <2> QED BY <1>4, <2>1, <2>2, <2>3, <2>4, <2>7, <2>8, <2>9 DEF PiccHears
<1> QED BY <1>0, <1>3, <1>4, PiccMachineAssumption DEF Next, Hear

\* "Bounds the total work of an exchange whatever the peer sends"
\* (limits.rs:73), for every limit below the width of the frame counter: no
\* mix of PPS, repeats, waiting times and presence checks is answered more
\* often, over a command and its response together.
THEOREM AnswersBoundedAlways ==
  ASSUME PiccLimits.max_frames < U16Max
  PROVE  Spec => []AnswersBounded
<1> DEFINE IInv == TypeOK /\ CallsInOrder /\ HandlerKept /\ AnswersPaid
<1>1. Init => IInv
  BY InitTypeOK, InitAnswersPaid
<1>2. IInv /\ [Next]_vars => IInv'
  BY NextTypeOK, NextHandlerKept, NextAnswersPaid
<1>3. IInv => AnswersBounded
  BY DEF AnswersPaid, AnswersBounded
<1> QED BY <1>1, <1>2, <1>3, PTL DEF Spec

-----------------------------------------------------------------------------
(* Numbering.                                                              *)

\* How a frame changes the history of what was said.
HistoryNotes(f) == /\ NoteBlockSaid(f)
                   /\ orderly' = (BeginsSession(f) \/ (orderly /\ ~ OutOfTurn(f)))

LEMMA SaidIsLastSent ==
  ASSUME picc \in PiccType, said # <<>> => said = picc.lastSent, [Next]_vars
  PROVE  said' # <<>> => said' = picc'.lastSent
<1>1. CASE UNCHANGED vars
  BY <1>1 DEF vars, history
<1>2. CASE AskForActivation \/ AskForRats \/ AskForCommand
  <2>1. picc'.lastSent = picc.lastSent
    BY <1>2, WaitForActivationEffect, WaitForRatsEffect, ReceiveCommandEffect
       DEF AskForActivation, AskForRats, AskForCommand, ActivationKept
  <2> QED BY <1>2, <2>1 DEF AskForActivation, AskForRats, AskForCommand, history
<1>3. CASE \E data \in Responses : Answer(data)
  BY <1>3 DEF Answer
<1>4. CASE Hear
  BY <1>4 DEF Hear, NoteBlockSaid
<1> QED BY <1>1, <1>2, <1>3, <1>4 DEF Next, Call

\* A block in turn that the handler takes without moving on, or to which the
\* card answers with its next chunk.
LEMMA InTurn ==
  ASSUME picc \in PiccType, HandlerKept, NEW f \in Frame, f.kind = "Block",
         f.block \in Block, ~ OutOfTurn(f)
  PROVE  LET step == ProcessReceived(picc.handler, f.block) IN
         /\ step.outcome.kind \in {"ChainingAck", "ChainingRetransmit", "Complete",
                                   "Reply", "Err"}
         /\ step.outcome.kind \in {"ChainingRetransmit", "Err"} =>
              step.handler.number = picc.handler.number
         /\ step.outcome.kind = "ChainingRetransmit" => said # <<>>
         /\ step.outcome.kind = "ChainingAck" => picc.call # "Receive"
         /\ step.outcome.kind = "Complete" => picc.call # "Respond"
         /\ /\ step.outcome.kind = "Reply" /\ picc.call = "Respond"
            /\ ~ IsDeselect(step.outcome.block)
            => step.handler.number = picc.handler.number
<1> DEFINE step == ProcessReceived(picc.handler, f.block)
<1>1. picc.handler \in Handler /\ picc.handler.role = "Picc"
  BY PiccFields DEF HandlerKept
<1>2. /\ Carries(f, "I") => picc.call # "Respond"
      /\ Carries(f, "R") => said # <<>>
      /\ /\ Carries(f, "R") /\ f.block.subtype = "Ack"
         /\ f.block.number # picc.handler.number
         => picc.call # "Receive"
  BY DEF OutOfTurn, CarriesOn
<1>3. \A type : Carries(f, type) <=> f.block.type = type
  BY DEF Carries
<1>4. step.outcome.kind = "Reply" /\ ~ IsDeselect(step.outcome.block) =>
        ~ IsDeselect(f.block)
  BY <1>1, DeselectEchoed
<1>5. /\ step.outcome.kind \in {"ChainingAck", "ChainingRetransmit", "Complete",
                                 "Reply", "Err"}
      /\ step.outcome.kind = "Err" => step.handler.number = picc.handler.number
      /\ step.outcome.kind = "ChainingAck" =>
           /\ f.block.type = "R" /\ f.block.subtype = "Ack"
           /\ f.block.number # picc.handler.number
      /\ step.outcome.kind = "ChainingRetransmit" =>
           f.block.type = "R" /\ step.handler.number = picc.handler.number
      /\ step.outcome.kind = "Complete" => f.block.type = "I"
      /\ step.outcome.kind = "Reply" /\ f.block.type # "I" /\ ~ IsDeselect(f.block) =>
           step.handler.number = picc.handler.number
  BY <1>1, ReceivedNumbers
<1> HIDE DEF step
<1> QED BY <1>2, <1>3, <1>4, <1>5 DEF step

\* A block of the handler's is numbered by it.
LEMMA ReplyNumbered ==
  ASSUME NEW h \in Handler, NEW b \in Block,
         ProcessReceived(h, b).outcome.kind = "Reply"
  PROVE  Numbered(ProcessReceived(h, b).outcome.block, ProcessReceived(h, b).handler)
<1> DEFINE step == ProcessReceived(h, b)
<1>1. IsReply(b, step)
  BY ReceivedReply
<1>2. RAck(step.handler).number = step.handler.number
  BY DEF RAck, RBlock
<1> HIDE DEF step
<1>3. step.outcome.kind = "Reply" => Numbered(step.outcome.block, step.handler)
  BY <1>1, <1>2 DEF IsReply, Numbered
<1> QED BY <1>3 DEF step

\* What one block of the exchange does to the numbers.
LEMMA BlockSaidInStep ==
  ASSUME TypeOK, CallsInOrder, HandlerKept, SaidInStep, NEW f \in Frame,
         HearCommandBlock(f) \/ HearAcknowledgement(f),
         orderly, ~ OutOfTurn(f)
  PROVE  /\ InExchange /\ picc.handler \in Handler /\ picc'.handler \in Handler
         /\ \/ /\ picc'.call = "None" /\ picc'.result.kind = "Complete"
               /\ picc'.state = picc.state
            \/ /\ picc'.lastSent = picc.lastSent /\ picc'.call = "None"
               /\ picc'.handler.number = picc.handler.number
            \/ /\ picc'.lastSent # <<>> /\ Numbered(picc'.lastSent[1], picc'.handler)
               /\ picc'.call # "None" => /\ toPcd' = <<BlockFrame(picc'.lastSent[1])>>
                                         /\ picc'.lastSent[1] \in Block
               /\ picc'.call = "Respond" => Numbered(picc'.iblock[1], picc'.handler)
<1> DEFINE step == ProcessReceived(picc.handler, f.block)
           InStep ==
             \/ /\ picc'.call = "None" /\ picc'.result.kind = "Complete"
                /\ picc'.state = picc.state
             \/ /\ picc'.lastSent = picc.lastSent /\ picc'.call = "None"
                /\ picc'.handler.number = picc.handler.number
             \/ /\ picc'.lastSent # <<>> /\ Numbered(picc'.lastSent[1], picc'.handler)
                /\ picc'.call # "None" => /\ toPcd' = <<BlockFrame(picc'.lastSent[1])>>
                                          /\ picc'.lastSent[1] \in Block
                /\ picc'.call = "Respond" => Numbered(picc'.iblock[1], picc'.handler)
<1>1. /\ picc \in PiccType /\ picc.call \in {"Receive", "Respond"} /\ f.kind = "Block"
      /\ f.block \in Block /\ IsStep(step) /\ step.handler \in Handler
      /\ picc.handler \in Handler /\ With(step.handler) \in PiccType
      /\ picc.response \in Seq(Byte)
  BY HearBlockEffect, PiccFields DEF IsStep, CallsInOrder, TypeOK
<1>2. /\ With(step.handler).call = picc.call /\ With(step.handler).handler = step.handler
      /\ With(step.handler).iblock = picc.iblock
      /\ With(step.handler).lastSent = picc.lastSent
      /\ With(step.handler).state = picc.state
  BY <1>1, WithFields
<1>3. /\ picc.lastSent # <<>> => picc.lastSent[1] \in Block
      /\ picc.call = "Respond" => picc.iblock[1] \in Block
      /\ step.outcome.kind = "Reply" => step.outcome.block \in Block
  BY <1>1, PiccFields, OneBlock, OutcomeFields DEF IsStep, CallsInOrder
<1>4. /\ step.outcome.kind \in {"ChainingRetransmit", "Err"} =>
           step.handler.number = picc.handler.number
      /\ step.outcome.kind = "ChainingRetransmit" => said # <<>>
      /\ step.outcome.kind = "ChainingAck" => picc.call # "Receive"
      /\ step.outcome.kind = "Complete" => picc.call # "Respond"
      /\ /\ step.outcome.kind = "Reply" /\ picc.call = "Respond"
         /\ ~ IsDeselect(step.outcome.block)
         => step.handler.number = picc.handler.number
      /\ step.outcome.kind \in {"ChainingAck", "ChainingRetransmit", "Complete",
                                "Reply", "Err"}
  BY <1>1, InTurn
<1>5. /\ said # <<>> => said = picc.lastSent /\ Numbered(said[1], picc.handler)
      /\ picc.call = "Respond" => Numbered(picc.iblock[1], picc.handler)
  BY <1>1 DEF SaidInStep, InSession, InExchange
<1>6. step.outcome.kind = "Reply" => Numbered(step.outcome.block, step.handler)
  BY <1>1, ReplyNumbered
<1>7. picc'.handler = step.handler
  BY <1>1, HearBlockKept
<1> HIDE DEF step
<1> SUFFICES InStep
  BY <1>1, <1>7 DEF InExchange
<1> HIDE DEF InStep
<1>8. ASSUME NEW b \in Block, Said(b, With(step.handler)), Numbered(b, step.handler),
             picc.call = "Respond" => step.handler.number = picc.handler.number
      PROVE  InStep
  <2>1. /\ picc'.handler = step.handler /\ picc'.lastSent = <<b>>
        /\ \/ /\ picc'.call = picc.call /\ picc'.iblock = picc.iblock
              /\ toPcd' = <<BlockFrame(b)>>
           \/ picc'.call = "None"
    BY <1>1, <1>2, <1>8, SaidEffect
  <2>2. picc'.lastSent # <<>> /\ picc'.lastSent[1] = b
    BY <2>1, OneBlock
  <2>3. picc'.call = "Respond" => Numbered(picc'.iblock[1], picc'.handler)
    BY <1>5, <1>8, <2>1 DEF Numbered
  <2> QED BY <1>8, <2>1, <2>2, <2>3 DEF InStep
<1>9. CASE step.outcome.kind = "Reply" /\ PiccReplies(step)
  <2>1. CASE /\ ~ IsDeselect(step.outcome.block)
             /\ Said(step.outcome.block, With(step.handler))
    BY <1>3, <1>4, <1>6, <1>8, <1>9, <2>1
  <2>2. CASE /\ picc'.call = "None" /\ picc'.lastSent = <<SBlock("Deselect", <<>>)>>
    <3>1. /\ SBlock("Deselect", <<>>) \in Block /\ SBlock("Deselect", <<>>).type = "S"
      BY DeselectBlock DEF SBlock
    <3>2. picc'.lastSent # <<>> /\ picc'.lastSent[1] = SBlock("Deselect", <<>>)
      BY <2>2, <3>1, OneBlock
    <3> QED BY <2>2, <3>1, <3>2 DEF Numbered, InStep
  <2> QED BY <1>1, <1>9, <2>1, <2>2, ReplyEffect
<1>10. CASE /\ step.outcome.kind = "ChainingRetransmit"
            /\ \/ /\ picc.call = "Receive" /\ picc.lastSent # <<>>
                  /\ Said(picc.lastSent[1], With(step.handler))
               \/ picc.call = "Respond" /\ Said(picc.iblock[1], With(step.handler))
  <2>1. CASE /\ picc.call = "Receive" /\ picc.lastSent # <<>>
             /\ Said(picc.lastSent[1], With(step.handler))
    <3>1. Numbered(picc.lastSent[1], step.handler)
      BY <1>4, <1>5, <1>10 DEF Numbered
    <3> QED BY <1>3, <1>4, <1>8, <1>10, <2>1, <3>1
  <2>2. CASE picc.call = "Respond" /\ Said(picc.iblock[1], With(step.handler))
    <3>1. Numbered(picc.iblock[1], step.handler)
      BY <1>4, <1>5, <1>10, <2>2 DEF Numbered
    <3> QED BY <1>3, <1>4, <1>8, <1>10, <2>2, <3>1
  <2> QED BY <1>10, <2>1, <2>2
<1>11. CASE \E offset \in 0..Len(picc.response) :
              PiccSendsChunk(With(step.handler), picc.response, offset)
  <2>1. PICK b \in Block :
          /\ b.number = step.handler.number
          /\ picc'.lastSent = <<b>>
          /\ \/ /\ picc'.call = "Respond" /\ picc'.iblock = <<b>>
                /\ toPcd' = <<BlockFrame(b)>>
             \/ picc'.call = "None"
    BY <1>1, <1>2, <1>11, SendsChunkEffect
  <2>2. <<b>> # <<>> /\ <<b>>[1] = b
    BY OneBlock
  <2> QED BY <1>7, <2>1, <2>2 DEF Numbered, InStep
<1>12. CASE step.outcome.kind = "Complete" /\ CallEnded(With(step.handler), step.outcome)
  BY <1>2, <1>12 DEF CallEnded, InStep
<1>13. CASE /\ step.outcome.kind = "ChainingAck" => picc.call = "Receive"
            /\ step.outcome.kind = "Complete" => picc.call = "Respond"
            /\ step.outcome.kind # "Reply"
            /\ CallFailed(With(step.handler))
  <2>1. step.handler.number = picc.handler.number
    BY <1>4, <1>13
  <2> QED BY <1>2, <1>7, <1>13, <2>1 DEF CallFailed, CallEnded, InStep
<1> QED BY <1>9, <1>10, <1>11, <1>12, <1>13, HearBlockEffect DEF CallsInOrder, TypeOK, step

\* The three parts of the invariant after a step that leaves the session.
LEMMA OutOfSession ==
  ASSUME said' # <<>> => said' = picc'.lastSent, ~ InSession'
  PROVE  SaidInStep'
BY DEF SaidInStep, InSession, InExchange

\* A call that ends, or goes on, with the last block and the number unchanged.
LEMMA NothingSaid ==
  ASSUME SaidInStep, InSession, said' # <<>> => said' = picc'.lastSent,
         orderly' => orderly, said' = said, picc'.handler.number = picc.handler.number,
         picc'.call # "Respond"
  PROVE  SaidInStep'
BY DEF SaidInStep, Numbered

LEMMA NextSaidInStep ==
  ASSUME TypeOK, CallsInOrder, HandlerKept, SaidInStep, [Next]_vars, PiccMaxInf # 0
  PROVE  SaidInStep'
<1>1. /\ picc \in PiccType /\ picc.handler \in Handler
  BY PiccFields DEF TypeOK
<1>2. said' # <<>> => said' = picc'.lastSent
  BY <1>1, SaidIsLastSent DEF SaidInStep
<1>3. CASE UNCHANGED vars
  BY <1>3 DEF vars, history, SaidInStep, InSession, InExchange, Answering, Numbered
<1>4. CASE Call
  <2>1. CASE AskForActivation
    <3>1. picc'.call = "Activation"
      BY <1>1, <2>1, WaitForActivationEffect DEF AskForActivation
    <3> QED BY <1>2, <3>1, OutOfSession DEF InSession, InExchange
  <2>2. CASE AskForRats
    <3>1. picc'.call = "Rats"
      BY <1>1, <2>2, WaitForRatsEffect DEF AskForRats
    <3> QED BY <1>2, <3>1, OutOfSession DEF InSession, InExchange
  <2>3. CASE AskForCommand
    <3>1. /\ InSession /\ said' = said /\ orderly' = orderly
      BY <2>3 DEF AskForCommand, ReceiveCommand, InSession, Answering
    <3>2. picc'.call = "Receive" /\ picc'.handler.number = picc.handler.number
      BY <1>1, <2>3, ReceiveCommandEffect, SessionStartFields DEF AskForCommand
    <3> QED BY <1>2, <3>1, <3>2, NothingSaid
  <2>4. ASSUME NEW data \in Responses, Answer(data)
        PROVE  SaidInStep'
    <3>1. data \in Seq(Byte) /\ 0 \in 0..Len(data) /\ PiccSendsChunk(picc, data, 0)
      BY <1>1, <2>4, PiccMachineAssumption, LenProperties, SendResponseEffect DEF Answer
    <3>2. PICK b \in Block :
            /\ b.number = picc.handler.number /\ picc'.handler = picc.handler
            /\ picc'.lastSent = <<b>>
            /\ picc'.call = "Respond" => picc'.iblock = <<b>>
      BY <1>1, <3>1, SendsChunkEffect
    <3>3. said' = <<b>> /\ <<b>> # <<>> /\ <<b>>[1] = b
      BY <2>4, <3>2, OneBlock DEF Answer
    <3> QED BY <1>2, <3>2, <3>3 DEF SaidInStep, Numbered
  <2> QED BY <1>4, <2>1, <2>2, <2>3, <2>4 DEF Call
<1>5. ASSUME NEW f \in Frame, PiccHears(f), HistoryNotes(f)
      PROVE  SaidInStep'
  <2>1. /\ f.kind # "Rats" => (orderly' => orderly /\ ~ OutOfTurn(f))
        /\ f.kind = "Rats" /\ picc.call = "Rats" => said' = <<>>
        /\ f.kind # "Rats" /\ picc'.lastSent = picc.lastSent
             /\ ~ (InExchange /\ InExchange' /\ toPcd'[1].kind = "Block")
             => said' = said
        /\ f.kind # "Rats" /\ picc'.lastSent # picc.lastSent => said' = picc'.lastSent
    <3>1. orderly' = (BeginsSession(f) \/ (orderly /\ ~ OutOfTurn(f)))
      BY <1>5 DEF HistoryNotes
    <3>2. /\ f.kind # "Rats" => ~ BeginsSession(f)
          /\ f.kind = "Rats" /\ picc.call = "Rats" => BeginsSession(f)
      BY DEF BeginsSession
    <3> DEFINE goesOn == \E type \in {"I", "R", "S"} : GoesOnWith(type)
               begins == BeginsSession(f)
    <3>3. said' = IF begins THEN <<>>
                  ELSE IF picc'.lastSent # picc.lastSent \/ goesOn
                       THEN picc'.lastSent ELSE said
      BY <1>5 DEF HistoryNotes, NoteBlockSaid
    <3> HIDE DEF goesOn, begins
    <3>5. /\ BeginsSession(f) => said' = <<>>
          /\ ~ BeginsSession(f) /\ picc'.lastSent # picc.lastSent => said' = picc'.lastSent
          /\ /\ ~ BeginsSession(f) /\ picc'.lastSent = picc.lastSent
             /\ ~ \E type \in {"I", "R", "S"} : GoesOnWith(type)
             => said' = said
      BY <3>3 DEF begins, goesOn
    <3>4. \A type : GoesOnWith(type) =>
            InExchange /\ InExchange' /\ toPcd'[1].kind = "Block"
      BY DEF GoesOnWith, Carries
    <3> QED BY <3>1, <3>2, <3>4, <3>5
  <2>2. CASE ReceiveFails(f)
    <3>1. /\ picc'.call = "None" /\ picc'.state = picc.state
          /\ picc'.handler = picc.handler /\ picc'.lastSent = picc.lastSent
          /\ f.kind = "Silence" /\ picc.call # "None"
      BY <1>1, <2>2, ReceiveFailsEffect DEF CallEnded, ReceiveFails
    <3>2. CASE InExchange
      <4>1. InSession /\ said' = said /\ (orderly' => orderly)
        BY <2>1, <3>1, <3>2 DEF InSession, InExchange
      <4> QED BY <1>2, <3>1, <4>1, NothingSaid
    <3>3. CASE ~ InExchange
      <4>1. picc.call \in {"Activation", "Rats"}
        BY <1>1, <3>1, <3>3, PiccFields DEF PiccCall, InExchange
      <4>2. ~ InSession'
        BY <3>1, <4>1 DEF CallsInOrder, InSession, InExchange
      <4> QED BY <1>2, <4>2, OutOfSession
    <3> QED BY <3>2, <3>3
  <2>3. CASE HearInIdle(f) \/ HearInReady(f)
    <3>1. ~ InSession'
      BY <1>1, <2>3, HearInIdleEffect, HearInReadyEffect DEF InSession, InExchange
    <3> QED BY <1>2, <3>1, OutOfSession
  <2>4. CASE HearInActive(f)
    <3>1. picc.state = "Active" /\ picc.call = "Rats"
      BY <2>4 DEF HearInActive, CallsInOrder
    <3>2. /\ picc'.call = "None"
          /\ f.kind # "Rats" => picc'.state \in {"Active", "Halted"}
      BY <1>1, <2>4, <3>1, HearInActiveEffect
    <3>3. CASE f.kind = "Rats"
      BY <2>1, <3>1, <3>2, <3>3 DEF SaidInStep
    <3>4. CASE f.kind # "Rats"
      <4>1. ~ InSession'
        BY <3>2, <3>4 DEF InSession, InExchange
      <4> QED BY <1>2, <4>1, OutOfSession
    <3> QED BY <3>3, <3>4
  <2>5. ASSUME NEW h \in Handler, SameSession(h, picc.handler), CallFailed(With(h)),
               InExchange, f.kind # "Rats" \/ picc.call # "Rats"
        PROVE  SaidInStep'
    <3>1. /\ picc'.call = "None" /\ picc'.handler.number = picc.handler.number
          /\ picc'.lastSent = picc.lastSent
      BY <1>1, <2>5, WithFields DEF CallFailed, CallEnded, SameSession
    <3>2. InSession /\ ~ InExchange'
      BY <2>5, <3>1 DEF InSession, InExchange
    <3>3. said' = said /\ (orderly' => orderly)
      BY <1>5, <2>5, <3>1, <3>2 DEF HistoryNotes, NoteBlockSaid, BeginsSession, GoesOnWith
    <3> QED BY <1>2, <3>1, <3>2, <3>3, NothingSaid
  <2>6. CASE HearPps(f)
    <3> DEFINE counted == Counted(picc.handler)
    <3>1. counted \in Handler /\ SameSession(counted, picc.handler)
      BY <1>1, NoteFrameEffect
    <3>2. picc.call = "Receive" /\ f.kind = "Pps"
      BY <2>6 DEF HearPps
    <3>3. CASE picc' = With(counted) /\ toPcd' = <<Plain("Ppss")>>
      <4>1. /\ picc'.call = "Receive" /\ picc'.handler.number = picc.handler.number
            /\ picc'.lastSent = picc.lastSent
        BY <1>1, <3>1, <3>2, <3>3, WithFields DEF SameSession
      <4>2. toPcd'[1].kind # "Block"
        BY <3>3, FrameFields
      <4>3. InSession /\ said' = said /\ (orderly' => orderly)
        BY <2>1, <3>2, <4>1, <4>2 DEF InSession, InExchange
      <4> QED BY <1>2, <4>1, <4>3, NothingSaid
    <3>4. CASE \E h \in Handler : SameSession(h, picc.handler) /\ CallFailed(With(h))
      BY <2>5, <3>2, <3>4 DEF InExchange
    <3> QED BY <1>1, <2>6, <3>3, <3>4, HearPpsEffect
  <2>7. CASE HearNoBlock(f)
    <3>1. picc.call \in {"Receive", "Respond"}
      BY <2>7 DEF HearNoBlock
    <3> QED BY <1>1, <2>5, <2>7, <3>1, HearNoBlockEffect DEF InExchange
  <2>8. CASE (HearCommandBlock(f) \/ HearAcknowledgement(f)) /\ orderly'
    <3>1. f.kind = "Block"
      BY <2>8 DEF HearCommandBlock, HearAcknowledgement
    <3>2. orderly /\ ~ OutOfTurn(f)
      BY <2>1, <2>8, <3>1
    <3>3. /\ InExchange
          /\ \/ /\ picc'.call = "None" /\ picc'.result.kind = "Complete"
                /\ picc'.state = picc.state
             \/ /\ picc'.lastSent = picc.lastSent /\ picc'.call = "None"
                /\ picc'.handler.number = picc.handler.number
             \/ /\ picc'.lastSent # <<>> /\ Numbered(picc'.lastSent[1], picc'.handler)
                /\ picc'.call # "None" => /\ toPcd' = <<BlockFrame(picc'.lastSent[1])>>
                                          /\ picc'.lastSent[1] \in Block
                /\ picc'.call = "Respond" => Numbered(picc'.iblock[1], picc'.handler)
      BY <2>8, <3>2, BlockSaidInStep
    <3>4. CASE picc'.call = "None" /\ picc'.result.kind = "Complete"
      BY <1>2, <3>4, OutOfSession DEF InSession, InExchange, Answering
    <3>5. CASE /\ picc'.lastSent = picc.lastSent /\ picc'.call = "None"
               /\ picc'.handler.number = picc.handler.number
      <4>1. InSession /\ said' = said
        BY <2>1, <3>1, <3>3, <3>5 DEF InSession, InExchange
      <4> QED BY <1>2, <3>2, <3>5, <4>1, NothingSaid
    <3>6. CASE /\ picc'.lastSent # <<>> /\ Numbered(picc'.lastSent[1], picc'.handler)
               /\ picc'.call # "None" => /\ toPcd' = <<BlockFrame(picc'.lastSent[1])>>
                                         /\ picc'.lastSent[1] \in Block
               /\ picc'.call = "Respond" => Numbered(picc'.iblock[1], picc'.handler)
      <4>1. picc'.call = "Respond" => said' = picc'.lastSent
        <5> SUFFICES ASSUME picc'.call = "Respond" PROVE said' = picc'.lastSent
          OBVIOUS
        <5>1. InExchange /\ InExchange'
          BY <3>3 DEF InExchange
        <5>2. toPcd'[1] = BlockFrame(picc'.lastSent[1]) /\ picc'.lastSent[1] \in Block
          BY <3>6
        <5>3. \E type \in {"I", "R", "S"} : Carries(toPcd'[1], type)
          BY <5>2, FrameFields DEF Carries, Block
        <5>4. \E type \in {"I", "R", "S"} : GoesOnWith(type)
          BY <5>1, <5>3 DEF GoesOnWith
        <5>5. ~ BeginsSession(f)
          BY <3>1 DEF BeginsSession
        <5> QED BY <1>5, <5>4, <5>5 DEF HistoryNotes, NoteBlockSaid
      <4>2. said' # <<>> => Numbered(said'[1], picc'.handler)
        BY <1>2, <3>6
      <4> QED BY <1>2, <3>6, <4>1, <4>2 DEF SaidInStep, Numbered
    <3> QED BY <3>3, <3>4, <3>5, <3>6
  <2>9. CASE (HearCommandBlock(f) \/ HearAcknowledgement(f)) /\ ~ orderly'
    BY <1>2, <2>9 DEF SaidInStep
  <2> QED BY <1>5, <2>2, <2>3, <2>4, <2>6, <2>7, <2>8, <2>9 DEF PiccHears
<1> QED BY <1>3, <1>4, <1>5, PiccMachineAssumption DEF Next, Hear, HistoryNotes

LEMMA InitSaidInStep == Init => HandlerKept /\ SaidInStep
<1> SUFFICES ASSUME Init PROVE HandlerKept /\ SaidInStep
  OBVIOUS
<1>1. PICK ats \in BOOLEAN : picc = NewPicc(ats, "Idle")
  BY DEF Init
<1>2. picc.call = "None" /\ picc.handler = NewHandler("Picc", PiccLimits)
  BY <1>1, NewPiccFields
<1>3. picc.handler.role = "Picc" /\ picc.handler.limits = PiccLimits
  BY <1>2 DEF NewHandler
<1> QED BY <1>2, <1>3 DEF Init, HandlerKept, SaidInStep

\* A call that goes on with a numbered block heard a block, and said the last
\* block it keeps.
LEMMA GoesOnInStep ==
  ASSUME TypeOK, CallsInOrder, HandlerKept, SaidInStep, Next,
         orderly', NEW type \in {"I", "R"}, GoesOnWith(type)
  PROVE  toPcd'[1].block.number = picc'.handler.number
<1>1. /\ picc \in PiccType /\ picc.handler \in Handler
  BY PiccFields DEF TypeOK
<1>2. /\ picc.call \in {"Receive", "Respond"} /\ picc'.call \in {"Receive", "Respond"}
      /\ toPcd'[1].kind = "Block" /\ toPcd'[1].block.type = type
  BY DEF GoesOnWith, InExchange, Carries
<1>3. CASE Call
  <2>1. ~ AskForActivation /\ ~ AskForRats /\ ~ AskForCommand
    BY <1>2 DEF AskForActivation, AskForRats, AskForCommand, WaitForActivation,
       WaitForRats, ReceiveCommand
  <2>2. \A data : ~ Answer(data)
    BY <1>2 DEF Answer, SendResponse
  <2> QED BY <1>3, <2>1, <2>2 DEF Call
<1>4. ASSUME NEW f \in Frame, PiccHears(f), HistoryNotes(f)
      PROVE  toPcd'[1].block.number = picc'.handler.number
  <2>1. ~ ReceiveFails(f)
    BY <1>1, <1>2, ReceiveFailsEffect DEF CallEnded
  <2>2. ~ HearInIdle(f) /\ ~ HearInReady(f) /\ ~ HearInActive(f)
    BY <1>2 DEF HearInIdle, HearInReady, HearInActive
  <2>3. ~ HearNoBlock(f)
    BY <1>1, <1>2, HearNoBlockEffect, WithFields DEF CallFailed, CallEnded
  <2>4. ASSUME HearPps(f)
        PROVE  FALSE
    <3>1. CASE picc' = With(Counted(picc.handler)) /\ toPcd' = <<Plain("Ppss")>>
      BY <1>2, <3>1, FrameFields
    <3>2. CASE \E h \in Handler : SameSession(h, picc.handler) /\ CallFailed(With(h))
      BY <1>1, <1>2, <3>2, WithFields DEF CallFailed, CallEnded
    <3> QED BY <1>1, <2>4, <3>1, <3>2, HearPpsEffect
  <2>5. HearCommandBlock(f) \/ HearAcknowledgement(f)
    BY <1>4, <2>1, <2>2, <2>3, <2>4 DEF PiccHears
  <2>6. f.kind = "Block"
    BY <2>5 DEF HearCommandBlock, HearAcknowledgement
  <2>7. orderly /\ ~ OutOfTurn(f)
    BY <1>4, <2>6 DEF HistoryNotes, BeginsSession
  <2>8. /\ Numbered(picc'.lastSent[1], picc'.handler)
        /\ toPcd' = <<BlockFrame(picc'.lastSent[1])>> /\ picc'.lastSent[1] \in Block
    BY <1>2, <2>5, <2>7, BlockSaidInStep
  <2>9. toPcd'[1].block = picc'.lastSent[1]
    BY <2>8, FrameFields
  <2> QED BY <1>2, <2>8, <2>9 DEF Numbered
<1> QED BY <1>3, <1>4, PiccMachineAssumption DEF Next, Hear, HistoryNotes

\* Rule D (BlocksInStep): whatever the reader sends, the card never goes on
\* with an I-Block or R-Block whose number is not the session's, a repeated
\* block and the chunks of a response included, as long as nothing came out
\* of turn.  A payload of no byte, which no frame size of a RATS gives
\* (picc.rs:303-304), would let a failed send_response pass for an answer.
THEOREM BlocksInStepAlways ==
  ASSUME PiccMaxInf # 0
  PROVE  Spec => BlocksInStep
<1> DEFINE IInv == TypeOK /\ CallsInOrder /\ HandlerKept /\ SaidInStep
           InStep == orderly' /\ (GoesOnWith("I") \/ GoesOnWith("R")) =>
                       toPcd'[1].block.number = picc'.handler.number
<1>1. Init => IInv
  BY InitTypeOK, InitSaidInStep
<1>2. IInv /\ [Next]_vars => IInv'
  BY NextTypeOK, NextHandlerKept, NextSaidInStep
<1>3. IInv /\ [Next]_vars => [InStep]_vars
  <2>1. ASSUME IInv, Next
        PROVE  InStep
    BY <2>1, GoesOnInStep
  <2> QED BY <2>1
<1> QED BY <1>1, <1>2, <1>3, PTL DEF Spec, BlocksInStep
=============================================================================
