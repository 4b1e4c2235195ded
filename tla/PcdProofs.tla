------------------------------ MODULE PcdProofs ------------------------------
(***************************************************************************)
(* What holds of PcdMachine for every set of limits, frame size and peer:  *)
(* its types, how chunks and recoveries are numbered, and how often an     *)
(* exchange puts a frame on the air.                                       *)
(***************************************************************************)
EXTENDS PcdMachine, PcdLemmas

-----------------------------------------------------------------------------
(* Type correctness.                                                       *)

LEMMA InitTypeOK == Init => TypeOK
<1> SUFFICES ASSUME Init PROVE TypeOK
  OBVIOUS
<1>1. NewHandler("Pcd", PcdLimits) \in Handler
  BY SessionStartType, PcdAssumption DEF Role
<1>2. pcd \in PcdType
  BY <1>1, Outcomes, BlockTypes, ZeroRetries DEF Init, PcdInit, PcdType, PcdPhase
<1> QED BY <1>2 DEF Init, TypeOK

\* The session and the air keep their types in every step.
LEMMA StepTypes ==
  ASSUME pcd \in PcdType,
         \/ Connect \/ NegotiatePps \/ Deselect
         \/ \E apdu \in Apdus : Exchange(apdu)
         \/ \E f \in PeerFrames : PcdHears(f)
  PROVE  pcd' \in PcdType /\ (toPicc' = toPicc \/ toPicc' \in Air)
<1> USE PcdAssumption, PcdMachineAssumption
<1>1. CASE Connect \/ NegotiatePps \/ Deselect
  BY <1>1, ConnectEffect, NegotiatePpsEffect, DeselectEffect
<1>2. ASSUME NEW apdu \in Apdus, Exchange(apdu)
      PROVE  pcd' \in PcdType /\ (toPicc' = toPicc \/ toPicc' \in Air)
  BY <1>2, ExchangeEffect
<1>3. ASSUME NEW f \in PeerFrames, PcdHears(f)
      PROVE  pcd' \in PcdType /\ (toPicc' = toPicc \/ toPicc' \in Air)
  <2>1. f \in Frame
    OBVIOUS
  <2>2. CASE ConnectAnswered(f)
    BY <2>1, <2>2, ConnectAnsweredEffect
  <2>3. CASE PpsAnswered(f)
    BY <2>1, <2>3, PpsAnsweredEffect DEF PcdReturned
  <2>4. CASE CommandUnanswered(f)
    BY <2>1, <2>4, CommandUnansweredEffect DEF PcdReturned
  <2>5. CASE ChunkAnswered(f)
    BY <2>1, <2>5, ChunkAnsweredEffect DEF PcdReturned
  <2>6. CASE LastChunkAnswered(f)
    BY <2>1, <2>6, BlockOfFrame, CollectBlockEffect DEF LastChunkAnswered, PcdReturned
  <2>7. CASE ReplyAnswered(f)
    BY <2>1, <2>7, BlockOfFrame, CollectBlockEffect DEF ReplyAnswered, PcdReturned
  <2>8. CASE ReplyUnanswered(f)
    BY <2>1, <2>8, ReplyUnansweredEffect DEF PcdReturned
  <2>9. CASE DeselectAnswered(f)
    BY <2>1, <2>9, DeselectAnsweredEffect DEF PcdReturned
  <2> QED BY <1>3, <2>2, <2>3, <2>4, <2>5, <2>6, <2>7, <2>8, <2>9 DEF PcdHears
<1> QED BY <1>1, <1>2, <1>3

LEMMA SentType ==
  ASSUME sent \in Nat, Next
  PROVE  sent' \in Nat /\ sent' <= sent + 1
<1>1. CASE Call
  BY <1>1 DEF Call, Called
<1>2. CASE Hear
  BY <1>2 DEF Hear, CountSent
<1> QED BY <1>1, <1>2 DEF Next

LEMMA NextTypeOK == TypeOK /\ [Next]_vars => TypeOK'
<1> SUFFICES ASSUME TypeOK, [Next]_vars PROVE TypeOK'
  OBVIOUS
<1>1. CASE Next
  <2>1. pcd' \in PcdType /\ (toPicc' = toPicc \/ toPicc' \in Air)
    BY <1>1, StepTypes DEF Next, Call, Hear, TypeOK
  <2>2. sent' \in Nat
    BY <1>1, SentType DEF TypeOK
  <2> QED BY <2>1, <2>2, OneOnAir DEF TypeOK
<1>2. CASE UNCHANGED vars
  BY <1>2 DEF vars, TypeOK
<1> QED BY <1>1, <1>2

\* The session keeps its types whatever the application calls and the peer
\* sends: no call waits outside its phases, and no more than MAX_RETRIES
\* recoveries are under way.
THEOREM PcdTypeCorrect == Spec => []TypeOK
BY InitTypeOK, NextTypeOK, PTL DEF Spec

-----------------------------------------------------------------------------
(* Numbering.                                                              *)

\* A step that leaves the session in an exchange is one of four: it sends the
\* first chunk, sends the next or the same chunk, replies, or recovers.
FirstChunk == /\ pcd'.phase = "Command" /\ pcd.phase = "Idle" /\ pcd'.retries = 0
              /\ pcd'.handler = BeginExchange(pcd.handler)
              /\ PcdMaxInf > 0 /\ pcd'.offset < Len(pcd'.apdu)
              /\ Carries(toPicc'[1], "I") /\ OnAir'.number = pcd'.handler.number

NextChunk(step) == /\ pcd'.phase = "Command" /\ pcd.phase = "Command"
                   /\ pcd'.retries = 0 /\ pcd'.handler = step.handler
                   /\ pcd'.offset < Len(pcd'.apdu)
                   /\ Carries(toPicc'[1], "I")
                   /\ OnAir'.number = step.handler.number
                   /\ \/ /\ step.outcome.kind = "ChainingAck"
                         /\ pcd'.offset = pcd.offset + PcdMaxInf
                      \/ /\ step.outcome.kind = "ChainingRetransmit"
                         /\ pcd'.offset = pcd.offset

Replied(step) == /\ pcd'.phase = "Collect" /\ AwaitingResponse
                 /\ pcd'.retries = 0 /\ pcd'.handler = step.handler
                 /\ step.outcome.kind = "Reply"
                 /\ OnAir' = step.outcome.block

Recovered == /\ pcd'.phase = "Collect" /\ pcd.phase = "Collect"
             /\ pcd'.handler = pcd.handler
             /\ pcd.retries < MaxRetries /\ pcd'.retries = pcd.retries + 1
             /\ toPicc'[1] = BlockFrame(RAck(pcd.handler))

LEMMA ExchangeSteps ==
  ASSUME TypeOK, Next
  PROVE  \/ pcd'.phase \notin {"Command", "Collect"} /\ pcd'.retries = 0
         \/ Call /\ FirstChunk
         \/ Hear /\ Recovered
         \/ \E f \in PeerFrames :
              /\ Hear /\ MayCome(f) /\ f.kind = "Block" /\ f.block \in Block
              /\ \/ NextChunk(ProcessReceived(pcd.handler, f.block))
                 \/ Replied(ProcessReceived(pcd.handler, f.block))
<1> USE PcdAssumption, PcdMachineAssumption DEF TypeOK
<1>1. CASE Connect \/ NegotiatePps \/ Deselect
  BY <1>1, ConnectEffect, NegotiatePpsEffect, DeselectEffect
<1>2. ASSUME NEW apdu \in Apdus, Exchange(apdu), Call
      PROVE  \/ pcd'.phase \notin {"Command", "Collect"} /\ pcd'.retries = 0
             \/ FirstChunk
  <2>1. pcd.phase = "Idle"
    BY <1>2 DEF Exchange
  <2> QED BY <1>2, <2>1, ExchangeEffect DEF FirstChunk, OnAir
<1>3. ASSUME NEW f \in PeerFrames, MayCome(f), PcdHears(f)
      PROVE  \/ pcd'.phase \notin {"Command", "Collect"} /\ pcd'.retries = 0
             \/ Recovered
             \/ /\ f.kind = "Block" /\ f.block \in Block
                /\ \/ NextChunk(ProcessReceived(pcd.handler, f.block))
                   \/ Replied(ProcessReceived(pcd.handler, f.block))
  <2>1. f \in Frame
    OBVIOUS
  <2>2. CASE ConnectAnswered(f)
    BY <2>1, <2>2, ConnectAnsweredEffect
  <2>3. CASE PpsAnswered(f)
    BY <2>1, <2>3, PpsAnsweredEffect DEF PcdReturned
  <2>4. CASE CommandUnanswered(f)
    BY <2>1, <2>4, CommandUnansweredEffect DEF PcdReturned
  <2>5. CASE ChunkAnswered(f)
    <3>1. f.kind = "Block"
      BY <2>5 DEF ChunkAnswered
    <3> QED BY <2>1, <2>5, <3>1, ChunkAnsweredEffect DEF PcdReturned, NextChunk, OnAir
  <2>6. CASE LastChunkAnswered(f)
    <3>1. f.kind = "Block" /\ f.block \in Block /\ AwaitingResponse /\ CollectBlock(f.block)
      BY <2>1, <2>6, BlockOfFrame DEF LastChunkAnswered, AwaitingResponse
    <3> QED BY <3>1, CollectBlockEffect DEF PcdReturned, Replied, OnAir
  <2>7. CASE ReplyAnswered(f)
    <3>1. f.kind = "Block" /\ f.block \in Block /\ AwaitingResponse /\ CollectBlock(f.block)
      BY <2>1, <2>7, BlockOfFrame DEF ReplyAnswered, AwaitingResponse
    <3> QED BY <3>1, CollectBlockEffect DEF PcdReturned, Replied, OnAir
  <2>8. CASE ReplyUnanswered(f)
    BY <2>1, <2>8, ReplyUnansweredEffect DEF PcdReturned, Recovered
  <2>9. CASE DeselectAnswered(f)
    BY <2>1, <2>9, DeselectAnsweredEffect DEF PcdReturned
  <2> QED BY <1>3, <2>2, <2>3, <2>4, <2>5, <2>6, <2>7, <2>8, <2>9 DEF PcdHears
<1> QED BY <1>1, <1>2, <1>3 DEF Next, Call, Hear

LEMMA InitOnAirInStep == Init => OnAirInStep
BY DEF Init, PcdInit, OnAirInStep

LEMMA RAckFrame ==
  \A h : LET f == BlockFrame(RAck(h)) IN
        f.block = RAck(h) /\ Carries(f, "R") /\ f.block.number = h.number
BY FrameFields DEF Carries, RAck, RBlock

LEMMA NextOnAirInStep ==
  ASSUME TypeOK, OnAirInStep, [Next]_vars
  PROVE  OnAirInStep'
<1>1. CASE pcd'.phase \notin {"Command", "Collect"}
  BY <1>1 DEF OnAirInStep
<1>2. CASE FirstChunk
  BY <1>2 DEF FirstChunk, OnAirInStep
<1>3. CASE Recovered
  BY <1>3, RAckFrame DEF Recovered, OnAirInStep, OnAir
<1>4. ASSUME NEW b \in Block, NextChunk(ProcessReceived(pcd.handler, b))
      PROVE  OnAirInStep'
  BY <1>4 DEF NextChunk, OnAirInStep
<1>5. ASSUME NEW b \in Block, Replied(ProcessReceived(pcd.handler, b))
      PROVE  OnAirInStep'
  <2> DEFINE step == ProcessReceived(pcd.handler, b)
  <2>1. pcd.handler \in Handler
    BY PcdFields DEF TypeOK
  <2>2. \/ step.outcome.block = RAck(step.handler)
        \/ step.outcome.block.type = "S"
    BY <1>5, <2>1, ReceivedReply DEF IsReply, Replied
  <2>3. RAck(step.handler).number = step.handler.number
    BY DEF RAck, RBlock
  <2> HIDE DEF step
  <2>4. /\ pcd'.phase = "Collect" /\ OnAir' = step.outcome.block
        /\ pcd'.handler = step.handler
    BY <1>5 DEF Replied, step
  <2>5. Carries(toPicc'[1], "R") => OnAir'.number = pcd'.handler.number
    BY <2>2, <2>3, <2>4 DEF Carries, OnAir
  <2> QED BY <2>4, <2>5 DEF OnAirInStep
<1>6. CASE UNCHANGED vars
  BY <1>6 DEF vars, OnAirInStep, OnAir
<1> QED BY <1>1, <1>2, <1>3, <1>4, <1>5, <1>6, ExchangeSteps

LEMMA OnAirAlwaysInStep == Spec => [](TypeOK /\ OnAirInStep)
<1>1. Init => TypeOK /\ OnAirInStep
  BY InitTypeOK, InitOnAirInStep
<1>2. TypeOK /\ OnAirInStep /\ [Next]_vars => (TypeOK /\ OnAirInStep)'
  BY NextTypeOK, NextOnAirInStep
<1> QED BY <1>1, <1>2, PTL DEF Spec

\* A chunk sent again keeps its block number and the next chunk changes it,
\* for every command, frame size and peer (exchange).
THEOREM ChunksNumberedAlways == Spec => ChunksNumbered
<1> DEFINE Numbered == pcd.phase = "Command" /\ pcd'.phase = "Command" =>
                        ((pcd'.offset = pcd.offset) <=> (OnAir'.number = OnAir.number))
<1>1. ASSUME TypeOK, OnAirInStep, [Next]_vars
      PROVE  [Numbered]_vars
  <2> SUFFICES ASSUME Next, pcd.phase = "Command", pcd'.phase = "Command"
               PROVE  (pcd'.offset = pcd.offset) <=> (OnAir'.number = OnAir.number)
    BY <1>1
  <2>1. /\ PcdMaxInf > 0 /\ OnAir.number = pcd.handler.number
        /\ pcd.offset \in Nat /\ pcd.handler \in Handler /\ PcdMaxInf \in Nat
        /\ pcd.handler.number \in Bit
    BY <1>1, PcdFields, HandlerFields, PcdAssumption DEF OnAirInStep, TypeOK
  <2>2. PICK b \in Block : NextChunk(ProcessReceived(pcd.handler, b))
    BY <1>1, ExchangeSteps DEF FirstChunk, Recovered, Replied
  <2> DEFINE step == ProcessReceived(pcd.handler, b)
  <2>3. /\ step.outcome.kind = "ChainingAck" => step.handler.number = 1 - pcd.handler.number
        /\ step.outcome.kind = "ChainingRetransmit" =>
             step.handler.number = pcd.handler.number
    BY <2>1, ReceivedNumbers
  <2> HIDE DEF step
  <2>4. OnAir'.number = step.handler.number
    BY <2>2 DEF NextChunk, step
  <2>5. \/ /\ step.outcome.kind = "ChainingAck"
           /\ pcd'.offset = pcd.offset + PcdMaxInf
        \/ /\ step.outcome.kind = "ChainingRetransmit"
           /\ pcd'.offset = pcd.offset
    BY <2>2 DEF NextChunk, step
  <2> QED BY <2>1, <2>3, <2>4, <2>5 DEF Bit
<1>2. [][Next]_vars /\ [](TypeOK /\ OnAirInStep) => [][Numbered]_vars
  BY <1>1, PTL
<1> QED BY <1>2, OnAirAlwaysInStep, PTL DEF Spec, ChunksNumbered

\* A recovery asks again with the number of the acknowledgement it repeats,
\* however many frames were lost (transceive_with_recovery).
THEOREM RecoveryRepeatsNumberAlways == Spec => RecoveryRepeatsNumber
<1> DEFINE Repeats == pcd'.retries > pcd.retries =>
                        /\ Carries(toPicc'[1], "R")
                        /\ Carries(toPicc[1], "R") => OnAir'.number = OnAir.number
<1>1. ASSUME TypeOK, OnAirInStep, [Next]_vars
      PROVE  [Repeats]_vars
  <2> SUFFICES ASSUME Next, pcd'.retries > pcd.retries
               PROVE  /\ Carries(toPicc'[1], "R")
                      /\ Carries(toPicc[1], "R") => OnAir'.number = OnAir.number
    BY <1>1
  <2>1. pcd.retries \in Nat /\ ~ (0 > pcd.retries)
    BY <1>1, PcdFields DEF TypeOK, MaxRetries
  <2>2. Recovered
    BY <1>1, <2>1, ExchangeSteps DEF FirstChunk, NextChunk, Replied
  <2> QED BY <1>1, <2>2, RAckFrame DEF Recovered, OnAirInStep, OnAir
<1>2. [][Next]_vars /\ [](TypeOK /\ OnAirInStep) => [][Repeats]_vars
  BY <1>1, PTL
<1> QED BY <1>2, OnAirAlwaysInStep, PTL DEF Spec, RecoveryRepeatsNumber
-----------------------------------------------------------------------------
(* Bounded work.                                                           *)

\* The handler is kept, made anew, or taken through the protocol.
LEMMA HandlerSteps ==
  ASSUME TypeOK, Next
  PROVE  \/ pcd'.handler \in {pcd.handler, NewHandler("Pcd", PcdLimits),
                              BeginExchange(pcd.handler)}
         \/ \E b \in Block : pcd'.handler = ProcessReceived(pcd.handler, b).handler
<1> USE PcdAssumption, PcdMachineAssumption DEF TypeOK
<1>1. CASE Connect \/ NegotiatePps \/ Deselect
  BY <1>1, ConnectEffect, NegotiatePpsEffect, DeselectEffect
<1>2. CASE \E apdu \in Apdus : Exchange(apdu)
  BY <1>2, ExchangeEffect
<1>3. ASSUME NEW f \in PeerFrames, PcdHears(f)
      PROVE  \/ pcd'.handler \in {pcd.handler, NewHandler("Pcd", PcdLimits)}
             \/ \E b \in Block : pcd'.handler = ProcessReceived(pcd.handler, b).handler
  <2>1. f \in Frame
    OBVIOUS
  <2>2. CASE \/ ConnectAnswered(f) \/ PpsAnswered(f) \/ CommandUnanswered(f)
             \/ ReplyUnanswered(f) \/ DeselectAnswered(f)
    BY <2>1, <2>2, ConnectAnsweredEffect, PpsAnsweredEffect, CommandUnansweredEffect,
       ReplyUnansweredEffect, DeselectAnsweredEffect DEF PcdReturned
  <2>3. CASE ChunkAnswered(f)
    BY <2>1, <2>3, ChunkAnsweredEffect DEF PcdReturned
  <2>4. CASE LastChunkAnswered(f) \/ ReplyAnswered(f)
    <3>1. f.block \in Block /\ CollectBlock(f.block)
      BY <2>1, <2>4, BlockOfFrame DEF LastChunkAnswered, ReplyAnswered
    <3> QED BY <3>1, CollectBlockEffect DEF PcdReturned
  <2> QED BY <1>3, <2>2, <2>3, <2>4 DEF PcdHears
<1> QED BY <1>1, <1>2, <1>3 DEF Next, Call, Hear

LEMMA SessionKept ==
  ASSUME TypeOK, Next, pcd.handler.role = "Pcd", pcd.handler.limits = PcdLimits
  PROVE  pcd'.handler.role = "Pcd" /\ pcd'.handler.limits = PcdLimits
<1>1. pcd.handler \in Handler
  BY PcdFields DEF TypeOK
<1>2. /\ NewHandler("Pcd", PcdLimits).role = "Pcd"
      /\ NewHandler("Pcd", PcdLimits).limits = PcdLimits
  BY DEF NewHandler
<1> QED BY <1>1, <1>2, HandlerSteps, SessionStartFields, ReceivedCounts

LEMMA FramesType ==
  ASSUME pcd \in PcdType
  PROVE  FramesCounted \in Nat
<1>1. pcd.handler.counters.frames \in 0..U16Max
  BY PcdFields, HandlerFields DEF CountersType, U16
<1> QED BY <1>1, WidthsAreNat DEF FramesCounted

LEMMA InitWorkPaid == Init => WorkPaid
<1>1. /\ NewHandler("Pcd", PcdLimits).role = "Pcd"
      /\ NewHandler("Pcd", PcdLimits).limits = PcdLimits
  BY DEF NewHandler
<1> QED BY <1>1 DEF Init, PcdInit, WorkPaid, Exchanging

LEMMA NextWorkPaid ==
  ASSUME TypeOK, WorkPaid, [Next]_vars, ~ SpontaneousDeselect,
         PcdLimits.max_frames < U16Max
  PROVE  WorkPaid'
<1>0. CASE UNCHANGED vars
  BY <1>0 DEF vars, WorkPaid, Exchanging, FramesCounted
<1> SUFFICES ASSUME Next PROVE WorkPaid'
  BY <1>0
<1>1. pcd'.handler.role = "Pcd" /\ pcd'.handler.limits = PcdLimits
  BY SessionKept DEF WorkPaid
<1>2. /\ sent \in Nat /\ sent' \in Nat /\ sent' <= sent + 1
      /\ FramesCounted \in Nat /\ pcd.retries \in 0..2 /\ pcd.handler \in Handler
      /\ MaxRetries = 2 /\ pcd.handler.limits = PcdLimits
      /\ PcdLimits.max_frames \in Nat
  <2>1. PcdLimits.max_frames \in 0..U16Max
    BY PcdAssumption DEF LimitsType, U16
  <2> QED BY <2>1, SentType, FramesType, PcdFields, WidthsAreNat
          DEF TypeOK, MaxRetries, WorkPaid
<1>3. CASE pcd'.phase \notin {"Command", "Collect"}
  BY <1>1, <1>3 DEF WorkPaid, Exchanging
<1>4. CASE Call /\ FirstChunk
  <2>1. sent' = 1
    BY <1>4 DEF Call, Called, FirstChunk, PcdWaiting
  <2>2. FramesCounted' = 0
    BY <1>2, <1>4, SessionStartFields DEF FirstChunk, FramesCounted, ZeroCounters
  <2>3. pcd'.phase = "Command" /\ pcd'.retries = 0
    BY <1>4 DEF FirstChunk
  <2> QED BY <1>1, <1>2, <2>1, <2>2, <2>3 DEF WorkPaid, Exchanging
<1>5. CASE Recovered
  <2>1. FramesCounted' = FramesCounted
    BY <1>5 DEF Recovered, FramesCounted
  <2>2. /\ FramesCounted <= PcdLimits.max_frames
        /\ sent + (2 - pcd.retries) <= 1 + FramesCounted * 3
    BY <1>2, <1>5 DEF WorkPaid, Recovered, Exchanging
  <2>3. /\ pcd'.phase = "Collect" /\ pcd'.retries = pcd.retries + 1
    BY <1>5 DEF Recovered
  <2> QED BY <1>1, <1>2, <2>1, <2>2, <2>3 DEF WorkPaid, Exchanging
<1>6. ASSUME NEW f \in PeerFrames, f.block \in Block,
             NextChunk(ProcessReceived(pcd.handler, f.block))
      PROVE  WorkPaid'
  <2> DEFINE step == ProcessReceived(pcd.handler, f.block)
  <2>1. /\ pcd.phase = "Command" /\ pcd'.phase = "Command" /\ pcd'.retries = 0
        /\ pcd'.handler = step.handler
        /\ step.outcome.kind \in {"ChainingAck", "ChainingRetransmit"}
    BY <1>6 DEF NextChunk
  <2>2. f.block.type = "R"
    BY <1>2, <1>6, <2>1, ReceivedNumbers
  <2>3. ~ IsDeselect(f.block)
    BY <2>2 DEF IsDeselect
  <2>4. FramesCounted' = FramesCounted + 1 /\ FramesCounted' <= PcdLimits.max_frames
    BY <1>2, <1>6, <2>1, <2>3, AcceptedCounts DEF FramesCounted
  <2>5. sent <= 1 + FramesCounted
    BY <2>1 DEF WorkPaid
  <2> HIDE DEF step
  <2> QED BY <1>1, <1>2, <2>1, <2>4, <2>5 DEF WorkPaid, Exchanging
<1>7. ASSUME NEW f \in PeerFrames, MayCome(f), f.kind = "Block", f.block \in Block,
             Replied(ProcessReceived(pcd.handler, f.block))
      PROVE  WorkPaid'
  <2> DEFINE step == ProcessReceived(pcd.handler, f.block)
  <2>1. /\ pcd.phase \in {"Command", "Collect"} /\ AwaitingResponse
        /\ pcd'.phase = "Collect" /\ pcd'.retries = 0
        /\ pcd'.handler = step.handler /\ step.outcome.kind = "Reply"
    BY <1>7 DEF Replied, AwaitingResponse
  <2>2. ~ IsDeselect(f.block)
    BY <1>7, <2>1 DEF MayCome, IsDeselectFrame
  <2>3. FramesCounted' = FramesCounted + 1 /\ FramesCounted' <= PcdLimits.max_frames
    BY <1>2, <1>7, <2>1, <2>2, AcceptedCounts DEF FramesCounted
  <2>4. sent <= 1 + FramesCounted * 3
    BY <1>2, <2>1 DEF WorkPaid
  <2>5. sent' + 2 <= 1 + FramesCounted' * 3
    <3>1. /\ sent \in Nat /\ sent' \in Nat /\ sent' <= sent + 1
          /\ FramesCounted \in Nat
      BY <1>2
    <3>2. sent' <= 2 + FramesCounted * 3
      BY <2>4, <3>1
    <3>3. FramesCounted' * 3 = FramesCounted * 3 + 3
      BY <2>3, <3>1
    <3> QED BY <3>1, <3>2, <3>3
  <2>6. pcd'.phase = "Collect" /\ pcd'.retries = 0
    BY <2>1
  <2>7. sent' + (MaxRetries - pcd'.retries) <= 1 + FramesCounted' * (1 + MaxRetries)
    BY <2>5, <2>6, <1>2
  <2> QED BY <1>1, <2>3, <2>6, <2>7 DEF WorkPaid, Exchanging
<1> QED BY <1>3, <1>4, <1>5, <1>6, <1>7, ExchangeSteps

\* "Bounds the total work of an exchange whatever the peer sends"
\* (limits.rs:73), for every limit below the width of the frame counter and as
\* long as no S(DESELECT) comes back, which starts the counters afresh.
THEOREM AirTimeBoundedAlways ==
  ASSUME ~ SpontaneousDeselect, PcdLimits.max_frames < U16Max
  PROVE  Spec => []AirTimeBounded
<1>1. Init => TypeOK /\ WorkPaid
  BY InitTypeOK, InitWorkPaid
<1>2. TypeOK /\ WorkPaid /\ [Next]_vars => (TypeOK /\ WorkPaid)'
  BY NextTypeOK, NextWorkPaid
<1>3. TypeOK /\ WorkPaid => AirTimeBounded
  <2> SUFFICES ASSUME TypeOK, WorkPaid, Exchanging PROVE sent <= AirTimeBound
    BY DEF AirTimeBounded
  <2>1. PcdLimits.max_frames \in 0..U16Max
    BY PcdAssumption DEF LimitsType, U16
  <2>2. /\ sent \in Nat /\ FramesCounted \in Nat /\ pcd.retries \in 0..2
        /\ PcdLimits.max_frames \in Nat /\ MaxRetries = 2
        /\ FramesCounted <= PcdLimits.max_frames
    BY <2>1, FramesType, PcdFields, WidthsAreNat DEF TypeOK, MaxRetries, WorkPaid
  <2>3. sent <= 1 + FramesCounted * 3
    BY <2>2 DEF WorkPaid, Exchanging
  <2> QED BY <2>2, <2>3 DEF AirTimeBound
<1> QED BY <1>1, <1>2, <1>3, PTL DEF Spec
=============================================================================
