---------------------------- MODULE HandlerLemmas ----------------------------
(***************************************************************************)
(* What the operators of ProtocolHandler return, for every handler and     *)
(* every block: their types, and what each outcome of process_received()   *)
(* does to the handler.  Then the same of the frames and chunks of Wire.   *)
(* The proofs about the handler and the two sessions rest on these.        *)
(***************************************************************************)
EXTENDS ProtocolHandler, Wire, SequenceTheorems, TLAPS

LEMMA SaturatingIncrementEffect ==
  ASSUME NEW max \in Nat, NEW n \in 0..max
  PROVE  /\ SaturatingIncrement(n, max) \in 0..max
         /\ n < max => SaturatingIncrement(n, max) = n + 1
         /\ SaturatingIncrement(n, max) >= n
BY DEF SaturatingIncrement

LEMMA WidthsAreNat == /\ U8Max \in Nat /\ U16Max \in Nat
                      /\ 0 \in U8 /\ 0 \in U16
BY DEF U8, U16, U8Max, U16Max

LEMMA CountersEffect ==
  ASSUME NEW c \in CountersType
  PROVE  /\ CountFrame(c) \in CountersType
         /\ CountRetransmission(c) \in CountersType
         /\ CountConsecutiveWtx(c) \in CountersType
         /\ CountTotalWtx(c) \in CountersType
         /\ NoteProgress(c) \in CountersType
         /\ ZeroCounters \in CountersType
<1>1. /\ c.frames \in U16 /\ c.total_wtx \in U16
      /\ c.retransmissions \in U8 /\ c.consecutive_wtx \in U8
  BY DEF CountersType
<1>2. /\ SaturatingIncrement(c.frames, U16Max) \in U16
      /\ SaturatingIncrement(c.total_wtx, U16Max) \in U16
      /\ SaturatingIncrement(c.retransmissions, U8Max) \in U8
      /\ SaturatingIncrement(c.consecutive_wtx, U8Max) \in U8
      /\ 0 \in U8 /\ 0 \in U16
  BY <1>1, SaturatingIncrementEffect, WidthsAreNat DEF U8, U16
<1> QED BY <1>1, <1>2 DEF CountersType, CountFrame, CountRetransmission, CountConsecutiveWtx,
       CountTotalWtx, NoteProgress, ZeroCounters

LEMMA HandlerUpdate ==
  ASSUME NEW h \in Handler
  PROVE  /\ \A c \in CountersType : [h EXCEPT !.counters = c] \in Handler
         /\ \A s \in Seq(Byte) : [h EXCEPT !.chain = s] \in Handler
         /\ \A l \in LimitsType : [h EXCEPT !.limits = l] \in Handler
         /\ \A n \in Bit : [h EXCEPT !.number = n] \in Handler
         /\ Toggle(h) \in Handler
BY DEF Handler, Toggle, Bit

LEMMA OutcomeTypes ==
  /\ Ok \in Outcome /\ ChainingAck \in Outcome /\ Retransmit \in Outcome
  /\ \A e \in Error : Fails(e) \in Outcome
  /\ \A b \in Block : Reply(b) \in Outcome
  /\ \A d \in Seq(Byte) : Complete(d) \in Outcome
BY DEF Outcome, Ok, ChainingAck, Retransmit, Fails, Reply, Complete

LEMMA OutcomeKinds ==
  /\ Ok.kind = "Ok" /\ ChainingAck.kind = "ChainingAck"
  /\ Retransmit.kind = "ChainingRetransmit"
  /\ \A e : Fails(e).kind = "Err"
  /\ \A b : Reply(b).kind = "Reply" /\ Reply(b).block = b
  /\ \A d : Complete(d).kind = "Complete" /\ Complete(d).data = d
BY DEF Ok, ChainingAck, Retransmit, Fails, Reply, Complete

LEMMA BlockTypes ==
  /\ \A h \in Handler : RAck(h) \in Block
  /\ \A s \in Subtype, p \in Seq(Byte) : SBlock(s, p) \in Block
  /\ <<>> \in Seq(Byte)
BY DEF Handler, RAck, RBlock, SBlock, Block, Subtype, Bit

LEMMA StepFields == \A h, o : Step(h, o).handler = h /\ Step(h, o).outcome = o
BY DEF Step

LEMMA HandlerFields ==
  ASSUME NEW h \in Handler
  PROVE  /\ h.role \in Role /\ h.number \in Bit /\ h.chain \in Seq(Byte)
         /\ h.limits \in LimitsType /\ h.counters \in CountersType
BY DEF Handler

\* What the methods return, whatever the block.
IsStep(step) == step.handler \in Handler /\ step.outcome \in Outcome

LEMMA ExceededType ==
  ASSUME NEW h \in Handler, NEW limit \in Limit
  PROVE  IsStep(Exceeded(h, limit))
<1>1. [h EXCEPT !.chain = <<>>] \in Handler
  BY HandlerUpdate, BlockTypes
<1>2. Fails(limit) \in Outcome
  BY OutcomeTypes DEF Error
<1> QED BY <1>1, <1>2, StepFields DEF IsStep, Exceeded

LEMMA CountedTypes ==
  ASSUME NEW h \in Handler
  PROVE  /\ [h EXCEPT !.counters = CountFrame(@)] \in Handler
         /\ [h EXCEPT !.counters = CountRetransmission(@)] \in Handler
         /\ [h EXCEPT !.counters = CountConsecutiveWtx(@)] \in Handler
         /\ [h EXCEPT !.counters = CountTotalWtx(@)] \in Handler
         /\ [h EXCEPT !.counters = NoteProgress(@)] \in Handler
<1>1. h.counters \in CountersType
  BY HandlerFields
<1>2. \A c \in CountersType : [h EXCEPT !.counters = c] \in Handler
  BY HandlerUpdate
<1> QED BY <1>1, <1>2, CountersEffect

LEMMA NoteFrameType ==
  ASSUME NEW h \in Handler
  PROVE  IsStep(NoteFrame(h))
<1> DEFINE counted == [h EXCEPT !.counters = CountFrame(@)]
<1>1. counted \in Handler
  BY CountedTypes
<1>2. IsStep(Exceeded(counted, "Frames"))
  BY <1>1, ExceededType DEF Limit
<1>3. IsStep(Step(counted, Ok))
  BY <1>1, OutcomeTypes, StepFields DEF IsStep
<1> QED BY <1>2, <1>3 DEF NoteFrame

LEMMA NoteRetransmitType ==
  ASSUME NEW h \in Handler, NEW o \in Outcome
  PROVE  IsStep(NoteRetransmit(h, o))
<1> DEFINE counted == [h EXCEPT !.counters = CountRetransmission(@)]
<1>1. counted \in Handler
  BY CountedTypes
<1>2. IsStep(Exceeded(counted, "Retransmissions"))
  BY <1>1, ExceededType DEF Limit
<1>3. IsStep(Step(counted, o))
  BY <1>1, StepFields DEF IsStep
<1> QED BY <1>2, <1>3 DEF NoteRetransmit

LEMMA AdvanceType ==
  ASSUME NEW h \in Handler, NEW o \in Outcome
  PROVE  IsStep(Advance(h, o))
<1>1. [h EXCEPT !.counters = NoteProgress(@)] \in Handler
  BY CountedTypes
<1>2. Toggle([h EXCEPT !.counters = NoteProgress(@)]) \in Handler
  BY <1>1, HandlerUpdate
<1> QED BY <1>2, StepFields DEF Advance, IsStep

LEMMA TakeIBlockType ==
  ASSUME NEW h \in Handler, NEW b \in Block
  PROVE  IsStep(TakeIBlock(h, b))
<1> DEFINE grown == [h EXCEPT !.counters = NoteProgress(@),
                              !.chain = @ \o b.payload]
           taken == Toggle(grown)
<1>1. h.chain \o b.payload \in Seq(Byte) /\ NoteProgress(h.counters) \in CountersType
  BY HandlerFields, CountersEffect DEF Block
<1>2. grown \in Handler
  BY <1>1 DEF Handler
<1>3. taken \in Handler
  BY <1>2, HandlerUpdate
<1>4. taken.chain \in Seq(Byte)
  BY <1>3, HandlerFields
<1>5. [taken EXCEPT !.chain = <<>>] \in Handler
  BY <1>3, HandlerUpdate, BlockTypes
<1>6. Reply(RAck(taken)) \in Outcome /\ Complete(taken.chain) \in Outcome
  BY <1>3, <1>4, OutcomeTypes, BlockTypes
<1>7. TakeIBlock(h, b) = IF b.chaining
                         THEN Step(taken, Reply(RAck(taken)))
                         ELSE Step([taken EXCEPT !.chain = <<>>],
                                   Complete(taken.chain))
  BY DEF TakeIBlock
<1> HIDE DEF taken
<1>8. CASE b.chaining
  BY <1>3, <1>6, <1>7, <1>8, StepFields DEF IsStep
<1>9. CASE ~ b.chaining
  BY <1>5, <1>6, <1>7, <1>9, StepFields DEF IsStep
<1> QED BY <1>8, <1>9

LEMMA ProcessIBlockType ==
  ASSUME NEW h \in Handler, NEW b \in Block
  PROVE  IsStep(ProcessIBlock(h, b))
<1>1. IsStep(NoteRetransmit(h, Reply(RAck(h))))
  BY NoteRetransmitType, OutcomeTypes, BlockTypes
<1>2. IsStep(Exceeded(h, "ChainLength"))
  BY ExceededType DEF Limit
<1>3. IsStep(Step([h EXCEPT !.counters = NoteProgress(@)], Fails("BufferFull")))
  <2>1. Fails("BufferFull") \in Outcome
    BY OutcomeTypes DEF Error
  <2>2. [h EXCEPT !.counters = NoteProgress(@)] \in Handler
    BY CountedTypes
  <2> QED BY <2>1, <2>2, StepFields DEF IsStep
<1> QED BY <1>1, <1>2, <1>3, TakeIBlockType DEF ProcessIBlock

LEMMA ProcessRBlockType ==
  ASSUME NEW h \in Handler, NEW b \in Block
  PROVE  IsStep(ProcessRBlock(h, b))
<1>1. IsStep(Step(h, Fails("InvalidPcb")))
  <2>1. Fails("InvalidPcb") \in Outcome
    BY OutcomeTypes DEF Error
  <2> QED BY <2>1, StepFields DEF IsStep
<1>2. IsStep(Step(h, Reply(RAck(h))))
  <2>1. Reply(RAck(h)) \in Outcome
    BY OutcomeTypes, BlockTypes
  <2> QED BY <2>1, StepFields DEF IsStep
<1>3. IsStep(Advance(h, ChainingAck)) /\ IsStep(NoteRetransmit(h, Retransmit))
  BY AdvanceType, NoteRetransmitType, OutcomeTypes
<1> QED BY <1>1, <1>2, <1>3 DEF ProcessRBlock

LEMMA ProcessWtxType ==
  ASSUME NEW h \in Handler, NEW b \in Block
  PROVE  IsStep(ProcessWtx(h, b))
<1> DEFINE consecutive == [h EXCEPT !.counters = CountConsecutiveWtx(@)]
           counted == [consecutive EXCEPT !.counters = CountTotalWtx(@)]
<1>1. consecutive \in Handler
  BY CountedTypes
<1>2. counted \in Handler
  BY <1>1, CountedTypes
<1>3. Reply(SBlock("Wtx", b.payload)) \in Outcome
  BY BlockTypes, OutcomeTypes DEF Block, Subtype
<1>4. /\ IsStep(Exceeded(h, "WtxValue"))
      /\ IsStep(Exceeded(consecutive, "ConsecutiveWtx"))
      /\ IsStep(Exceeded(counted, "TotalWtx"))
  BY <1>1, <1>2, ExceededType DEF Limit
<1>5. IsStep(Step(counted, Reply(SBlock("Wtx", b.payload))))
  BY <1>2, <1>3, StepFields DEF IsStep
<1> QED BY <1>4, <1>5 DEF ProcessWtx

LEMMA SessionStartType ==
  /\ \A h \in Handler : BeginExchange(h) \in Handler /\ Reset(h) \in Handler
  /\ \A role \in Role, limits \in LimitsType : NewHandler(role, limits) \in Handler
<1>1. ZeroCounters \in CountersType
  BY WidthsAreNat DEF ZeroCounters, CountersType
<1>2. \A role \in Role : InitialBlockNumber(role) \in Bit
  BY DEF InitialBlockNumber, Bit
<1>3. ASSUME NEW h \in Handler PROVE BeginExchange(h) \in Handler
  BY <1>1, BlockTypes DEF BeginExchange, Handler
<1>4. ASSUME NEW h \in Handler
      PROVE  [h EXCEPT !.number = InitialBlockNumber(h.role)] \in Handler
  BY <1>2, HandlerFields, HandlerUpdate
<1>5. ASSUME NEW role \in Role, NEW limits \in LimitsType
      PROVE  NewHandler(role, limits) \in Handler
  BY <1>1, <1>2, BlockTypes DEF NewHandler, Handler
<1> QED BY <1>3, <1>4, <1>5 DEF Reset

LEMMA ProcessSBlockType ==
  ASSUME NEW h \in Handler, NEW b \in Block
  PROVE  IsStep(ProcessSBlock(h, b))
<1>1. IsStep(Step(Reset(h), Reply(SBlock("Deselect", <<>>))))
  <2>1. Reply(SBlock("Deselect", <<>>)) \in Outcome
    BY OutcomeTypes, BlockTypes DEF Subtype
  <2> QED BY <2>1, SessionStartType, StepFields DEF IsStep
<1>2. IsStep(Step(h, Fails("Other")))
  <2>1. Fails("Other") \in Outcome
    BY OutcomeTypes DEF Error
  <2> QED BY <2>1, StepFields DEF IsStep
<1> QED BY <1>1, <1>2, ProcessWtxType DEF ProcessSBlock

\* process_received maps handlers to handlers and answers with an Action or an
\* error, whatever block the peer sends.
THEOREM ProcessReceivedType ==
  ASSUME NEW h \in Handler, NEW b \in Block
  PROVE  IsStep(ProcessReceived(h, b))
<1>1. IsStep(NoteFrame(h))
  BY NoteFrameType
<1>2. NoteFrame(h).handler \in Handler
  BY <1>1 DEF IsStep
<1> QED BY <1>1, <1>2, ProcessIBlockType, ProcessRBlockType, ProcessSBlockType
        DEF ProcessReceived

-----------------------------------------------------------------------------
(* What one block does to the handler: g is the handler once the frame has *)
(* been counted.  One predicate per kind of answer.                        *)

Counted(h) == [h EXCEPT !.counters = CountFrame(@)]

SameSession(g, h) == g.role = h.role /\ g.number = h.number /\ g.limits = h.limits

Failed(g, step) == step.outcome.kind = "Err" /\ SameSession(step.handler, g)

AskedAgain(g, b, step) ==
  /\ \/ step.outcome.kind = "ChainingRetransmit" /\ b.type = "R"
     \/ step.outcome.kind = "Reply" /\ b.type = "I" /\ RepeatsLastIBlock(g, b)
  /\ ~ IsDeselect(b)
  /\ b.type = "R" /\ b.subtype = "Ack" =>
       ((g.role = "Pcd") <=> (b.number # g.number))
  /\ SameSession(step.handler, g) /\ step.handler.chain = g.chain
  /\ step.handler.counters = CountRetransmission(g.counters)
  /\ step.handler.counters.retransmissions <= g.limits.max_retransmissions

MovedOn(g, step) ==
  /\ step.handler.role = g.role /\ step.handler.limits = g.limits
  /\ step.handler.number = 1 - g.number
  /\ step.handler.counters = NoteProgress(g.counters)

Acknowledged(g, b, step) ==
  /\ b.type = "R" /\ b.subtype = "Ack"
  /\ step.outcome.kind = "ChainingAck" /\ MovedOn(g, step)
  /\ step.handler.chain = g.chain
  /\ (g.role = "Pcd") <=> (b.number = g.number)

TookIBlock(g, b, step) ==
  /\ b.type = "I" /\ ~ RepeatsLastIBlock(g, b) /\ MovedOn(g, step)
  /\ Len(g.chain) + Len(b.payload) <= g.limits.max_chain_len
  /\ \/ /\ step.outcome.kind = "Reply" /\ b.chaining
        /\ step.handler.chain = g.chain \o b.payload
     \/ /\ step.outcome.kind = "Complete" /\ ~ b.chaining
        /\ step.outcome.data = g.chain \o b.payload
        /\ step.handler.chain = <<>>

Polled(g, b, step) ==
  /\ b.type = "R" /\ b.subtype # "Ack"
  /\ step.outcome.kind = "Reply" /\ step.handler = g

ExtendedWait(g, b, step) ==
  /\ b.type = "S" /\ ~ IsDeselect(b) /\ step.outcome.kind = "Reply"
  /\ SameSession(step.handler, g) /\ step.handler.chain = g.chain
  /\ step.handler.counters = CountTotalWtx(CountConsecutiveWtx(g.counters))
  /\ step.handler.counters.consecutive_wtx <= g.limits.max_consecutive_wtx
  /\ step.handler.counters.total_wtx <= g.limits.max_total_wtx

Deselected(g, b, step) ==
  /\ IsDeselect(b) /\ step.outcome.kind = "Reply" /\ step.handler = Reset(g)
  /\ step.outcome.block = SBlock("Deselect", <<>>)

BlockEffect(g, b, step) ==
  \/ Failed(g, step)
  \/ AskedAgain(g, b, step)
  \/ Acknowledged(g, b, step)
  \/ TookIBlock(g, b, step)
  \/ Polled(g, b, step)
  \/ ExtendedWait(g, b, step)
  \/ Deselected(g, b, step)

LEMMA ChainUpdate ==
  ASSUME NEW h \in Handler, NEW s
  PROVE  LET g == [h EXCEPT !.chain = s] IN
         SameSession(g, h) /\ g.chain = s /\ g.counters = h.counters
BY DEF Handler, SameSession

LEMMA CountersUpdate ==
  ASSUME NEW h \in Handler, NEW c
  PROVE  LET g == [h EXCEPT !.counters = c] IN
         SameSession(g, h) /\ g.chain = h.chain /\ g.counters = c
BY DEF Handler, SameSession

LEMMA ExceededEffect ==
  ASSUME NEW h \in Handler, NEW limit
  PROVE  Failed(h, Exceeded(h, limit))
<1>1. SameSession([h EXCEPT !.chain = <<>>], h)
  BY ChainUpdate
<1> QED BY <1>1, StepFields, OutcomeKinds DEF Failed, Exceeded

LEMMA SameSessionTransitive ==
  ASSUME NEW f, NEW g, NEW h, SameSession(f, g), SameSession(g, h)
  PROVE  SameSession(f, h)
BY DEF SameSession

LEMMA NoteRetransmitEffect ==
  ASSUME NEW h \in Handler, NEW o
  PROVE  LET step == NoteRetransmit(h, o) IN
         \/ Failed(h, step)
         \/ /\ step.outcome = o
            /\ SameSession(step.handler, h) /\ step.handler.chain = h.chain
            /\ step.handler.counters = CountRetransmission(h.counters)
            /\ step.handler.counters.retransmissions <= h.limits.max_retransmissions
<1> DEFINE counted == [h EXCEPT !.counters = CountRetransmission(@)]
<1>1. /\ counted \in Handler /\ SameSession(counted, h) /\ counted.chain = h.chain
      /\ counted.counters = CountRetransmission(h.counters)
  BY CountedTypes, CountersUpdate
<1>2. NoteRetransmit(h, o) = IF counted.counters.retransmissions > h.limits.max_retransmissions
                             THEN Exceeded(counted, "Retransmissions") ELSE Step(counted, o)
  BY DEF NoteRetransmit
<1>3. Failed(h, Exceeded(counted, "Retransmissions"))
  BY <1>1, ExceededEffect, SameSessionTransitive DEF Failed
<1>4. counted.counters.retransmissions \in Nat /\ h.limits.max_retransmissions \in Nat
  <2>1. counted.counters.retransmissions \in U8
    BY <1>1, HandlerFields DEF CountersType
  <2>2. h.limits.max_retransmissions \in U8
    BY HandlerFields DEF LimitsType
  <2> QED BY <2>1, <2>2, WidthsAreNat DEF U8
<1> HIDE DEF counted
<1> QED BY <1>1, <1>2, <1>3, <1>4, StepFields

LEMMA ToggleUpdate ==
  ASSUME NEW h \in Handler
  PROVE  /\ Toggle(h).role = h.role /\ Toggle(h).limits = h.limits
         /\ Toggle(h).number = 1 - h.number /\ Toggle(h).chain = h.chain
         /\ Toggle(h).counters = h.counters
BY DEF Toggle, Handler

LEMMA TakeIBlockEffect ==
  ASSUME NEW h \in Handler, NEW b \in Block, b.type = "I",
         ~ RepeatsLastIBlock(h, b),
         Len(h.chain) + Len(b.payload) <= h.limits.max_chain_len
  PROVE  TookIBlock(h, b, TakeIBlock(h, b))
<1> DEFINE grown == [h EXCEPT !.counters = NoteProgress(@),
                              !.chain = @ \o b.payload]
           taken == Toggle(grown)
           emptied == [taken EXCEPT !.chain = <<>>]
<1>1. /\ h.chain \o b.payload \in Seq(Byte)
      /\ NoteProgress(h.counters) \in CountersType
  BY HandlerFields, CountersEffect DEF Block
<1>2. /\ grown \in Handler /\ grown.role = h.role /\ grown.limits = h.limits
      /\ grown.number = h.number /\ grown.chain = h.chain \o b.payload
      /\ grown.counters = NoteProgress(h.counters)
  BY <1>1 DEF Handler
<1> HIDE DEF grown
<1>3. /\ taken \in Handler /\ taken.role = h.role /\ taken.limits = h.limits
      /\ taken.number = 1 - h.number /\ taken.chain = h.chain \o b.payload
      /\ taken.counters = NoteProgress(h.counters)
  BY <1>2, HandlerUpdate, ToggleUpdate
<1> HIDE DEF taken
<1>4. /\ emptied.role = h.role /\ emptied.limits = h.limits
      /\ emptied.number = 1 - h.number /\ emptied.chain = <<>>
      /\ emptied.counters = NoteProgress(h.counters)
  BY <1>3, ChainUpdate DEF SameSession
<1> HIDE DEF emptied
<1>5. TakeIBlock(h, b) = IF b.chaining THEN Step(taken, Reply(RAck(taken)))
                         ELSE Step(emptied, Complete(taken.chain))
  BY DEF TakeIBlock, taken, grown, emptied
<1>6. CASE b.chaining
  <2>1. /\ TakeIBlock(h, b).handler = taken
        /\ TakeIBlock(h, b).outcome = Reply(RAck(taken))
    BY <1>5, <1>6, StepFields
  <2>2. TakeIBlock(h, b).outcome.kind = "Reply"
    BY <2>1, OutcomeKinds
  <2> QED BY <1>3, <1>6, <2>1, <2>2 DEF TookIBlock, MovedOn
<1>7. CASE ~ b.chaining
  <2>1. /\ TakeIBlock(h, b).handler = emptied
        /\ TakeIBlock(h, b).outcome = Complete(taken.chain)
    BY <1>5, <1>7, StepFields
  <2>2. /\ TakeIBlock(h, b).outcome.kind = "Complete"
        /\ TakeIBlock(h, b).outcome.data = h.chain \o b.payload
    BY <1>3, <2>1, OutcomeKinds
  <2> QED BY <1>4, <1>7, <2>1, <2>2 DEF TookIBlock, MovedOn
<1> QED BY <1>6, <1>7

LEMMA ProcessIBlockEffect ==
  ASSUME NEW h \in Handler, NEW b \in Block, b.type = "I"
  PROVE  BlockEffect(h, b, ProcessIBlock(h, b))
<1> DEFINE length == Len(h.chain) + Len(b.payload)
           full == Step([h EXCEPT !.counters = NoteProgress(@)], Fails("BufferFull"))
<1>1. length \in Nat /\ h.limits.max_chain_len \in Nat
  BY HandlerFields DEF Block, LimitsType
<1>2. ASSUME RepeatsLastIBlock(h, b)
      PROVE  BlockEffect(h, b, NoteRetransmit(h, Reply(RAck(h))))
  <2>1. Reply(RAck(h)).kind = "Reply" /\ ~ IsDeselect(b)
    BY OutcomeKinds DEF IsDeselect
  <2>2. \/ Failed(h, NoteRetransmit(h, Reply(RAck(h))))
        \/ AskedAgain(h, b, NoteRetransmit(h, Reply(RAck(h))))
    BY <1>2, <2>1, NoteRetransmitEffect DEF AskedAgain
  <2> QED BY <2>2 DEF BlockEffect
<1>3. BlockEffect(h, b, Exceeded(h, "ChainLength"))
  BY ExceededEffect DEF BlockEffect
<1>4. BlockEffect(h, b, full)
  <2>1. SameSession([h EXCEPT !.counters = NoteProgress(@)], h)
    BY CountersUpdate
  <2>2. Failed(h, full)
    BY <2>1, StepFields, OutcomeKinds DEF Failed
  <2> QED BY <2>2 DEF BlockEffect
<1>5. ASSUME ~ RepeatsLastIBlock(h, b), length <= h.limits.max_chain_len
      PROVE  BlockEffect(h, b, TakeIBlock(h, b))
  <2>1. TookIBlock(h, b, TakeIBlock(h, b))
    BY <1>5, TakeIBlockEffect
  <2> QED BY <2>1 DEF BlockEffect
<1>6. ProcessIBlock(h, b) =
        IF RepeatsLastIBlock(h, b) THEN NoteRetransmit(h, Reply(RAck(h)))
        ELSE IF length > h.limits.max_chain_len THEN Exceeded(h, "ChainLength")
        ELSE IF length > ChainCapacity THEN full
        ELSE TakeIBlock(h, b)
  BY DEF ProcessIBlock
<1> HIDE DEF length, full
<1> QED BY <1>1, <1>2, <1>3, <1>4, <1>5, <1>6

LEMMA ProcessRBlockEffect ==
  ASSUME NEW h \in Handler, NEW b \in Block, b.type = "R"
  PROVE  BlockEffect(h, b, ProcessRBlock(h, b))
<1> DEFINE mine == b.number = h.number
<1>1. ~ IsDeselect(b) /\ h.role \in {"Pcd", "Picc"}
  BY HandlerFields DEF IsDeselect, Role
<1>2. BlockEffect(h, b, Step(h, Fails("InvalidPcb")))
  <2>1. Failed(h, Step(h, Fails("InvalidPcb")))
    BY StepFields, OutcomeKinds DEF Failed, SameSession
  <2> QED BY <2>1 DEF BlockEffect
<1>3. ASSUME b.subtype = "Ack", (h.role = "Pcd") <=> mine
      PROVE  BlockEffect(h, b, Advance(h, ChainingAck))
  <2> DEFINE g == [h EXCEPT !.counters = NoteProgress(@)]
  <2>1. /\ g \in Handler /\ SameSession(g, h) /\ g.chain = h.chain
        /\ g.counters = NoteProgress(h.counters)
    BY CountedTypes, CountersUpdate
  <2>2. /\ Advance(h, ChainingAck).handler = Toggle(g)
        /\ Advance(h, ChainingAck).outcome.kind = "ChainingAck"
    BY StepFields, OutcomeKinds DEF Advance
  <2> HIDE DEF g
  <2>3. /\ Toggle(g).role = h.role /\ Toggle(g).limits = h.limits
        /\ Toggle(g).number = 1 - h.number /\ Toggle(g).chain = h.chain
        /\ Toggle(g).counters = NoteProgress(h.counters)
    BY <2>1, ToggleUpdate DEF SameSession
  <2>4. Acknowledged(h, b, Advance(h, ChainingAck))
    BY <1>3, <2>2, <2>3 DEF Acknowledged, MovedOn
  <2> QED BY <2>4 DEF BlockEffect
<1>4. ASSUME b.subtype = "Ack" => ((h.role = "Pcd") <=> ~ mine)
      PROVE  BlockEffect(h, b, NoteRetransmit(h, Retransmit))
  <2>1. Retransmit.kind = "ChainingRetransmit"
    BY OutcomeKinds
  <2>2. \/ Failed(h, NoteRetransmit(h, Retransmit))
        \/ AskedAgain(h, b, NoteRetransmit(h, Retransmit))
    BY <1>1, <1>4, <2>1, NoteRetransmitEffect DEF AskedAgain
  <2> QED BY <2>2 DEF BlockEffect
<1>5. ASSUME b.subtype # "Ack"
      PROVE  BlockEffect(h, b, Step(h, Reply(RAck(h))))
  <2>1. Polled(h, b, Step(h, Reply(RAck(h))))
    BY <1>5, StepFields, OutcomeKinds DEF Polled
  <2> QED BY <2>1 DEF BlockEffect
<1>6. CASE b.subtype \notin {"Ack", "Nak"}
  BY <1>2, <1>6 DEF ProcessRBlock
<1>7. CASE b.subtype \in {"Ack", "Nak"} /\ h.role = "Pcd"
  BY <1>3, <1>4, <1>7 DEF ProcessRBlock
<1>8. CASE b.subtype \in {"Ack", "Nak"} /\ h.role = "Picc"
  BY <1>3, <1>4, <1>5, <1>8 DEF ProcessRBlock
<1> QED BY <1>1, <1>6, <1>7, <1>8

LEMMA ProcessWtxEffect ==
  ASSUME NEW h \in Handler, NEW b \in Block, b.type = "S", b.subtype = "Wtx"
  PROVE  BlockEffect(h, b, ProcessWtx(h, b))
<1> DEFINE consecutive == [h EXCEPT !.counters = CountConsecutiveWtx(@)]
           counted == [consecutive EXCEPT !.counters = CountTotalWtx(@)]
           echo == Reply(SBlock("Wtx", b.payload))
<1>1. /\ consecutive \in Handler /\ SameSession(consecutive, h)
      /\ consecutive.chain = h.chain
      /\ consecutive.counters = CountConsecutiveWtx(h.counters)
  BY CountedTypes, CountersUpdate
<1> HIDE DEF consecutive
<1>2. /\ counted \in Handler /\ SameSession(counted, h) /\ counted.chain = h.chain
      /\ counted.counters = CountTotalWtx(CountConsecutiveWtx(h.counters))
  BY <1>1, CountedTypes, CountersUpdate, SameSessionTransitive
<1> HIDE DEF counted, echo
<1>3. ProcessWtx(h, b) =
        IF ~ ValidWtx(b) THEN Exceeded(h, "WtxValue")
        ELSE IF consecutive.counters.consecutive_wtx > h.limits.max_consecutive_wtx
        THEN Exceeded(consecutive, "ConsecutiveWtx")
        ELSE IF counted.counters.total_wtx > h.limits.max_total_wtx
        THEN Exceeded(counted, "TotalWtx")
        ELSE Step(counted, echo)
  BY DEF ProcessWtx, consecutive, counted, echo
<1>4. /\ Failed(h, Exceeded(h, "WtxValue"))
      /\ Failed(h, Exceeded(consecutive, "ConsecutiveWtx"))
      /\ Failed(h, Exceeded(counted, "TotalWtx"))
  BY <1>1, <1>2, ExceededEffect, SameSessionTransitive DEF Failed
<1>5. /\ consecutive.counters.consecutive_wtx = counted.counters.consecutive_wtx
      /\ counted.counters.consecutive_wtx \in Nat /\ counted.counters.total_wtx \in Nat
      /\ h.limits.max_consecutive_wtx \in Nat /\ h.limits.max_total_wtx \in Nat
  <2>1. counted.counters.consecutive_wtx \in U8 /\ counted.counters.total_wtx \in U16
    BY <1>2, HandlerFields DEF CountersType
  <2>2. h.limits.max_consecutive_wtx \in U8 /\ h.limits.max_total_wtx \in U16
    BY HandlerFields DEF LimitsType
  <2>3. consecutive.counters.consecutive_wtx = counted.counters.consecutive_wtx
    <3>1. consecutive.counters \in CountersType
      BY <1>1, HandlerFields
    <3>2. counted.counters = CountTotalWtx(consecutive.counters)
      BY <1>1, <1>2
    <3> QED BY <3>1, <3>2 DEF CountTotalWtx, CountersType
  <2> QED BY <2>1, <2>2, <2>3, WidthsAreNat DEF U8, U16
<1>6. ASSUME counted.counters.consecutive_wtx <= h.limits.max_consecutive_wtx,
             counted.counters.total_wtx <= h.limits.max_total_wtx
      PROVE  ExtendedWait(h, b, Step(counted, echo))
  <2>1. echo.kind = "Reply" /\ ~ IsDeselect(b)
    BY OutcomeKinds DEF echo, IsDeselect
  <2> QED BY <1>2, <1>6, <2>1, StepFields DEF ExtendedWait
<1>7. Failed(h, ProcessWtx(h, b)) \/ ExtendedWait(h, b, ProcessWtx(h, b))
  BY <1>3, <1>4, <1>5, <1>6
<1> QED BY <1>7 DEF BlockEffect

LEMMA ProcessSBlockEffect ==
  ASSUME NEW h \in Handler, NEW b \in Block, b.type = "S"
  PROVE  BlockEffect(h, b, ProcessSBlock(h, b))
<1>1. CASE b.subtype = "Wtx"
  BY <1>1, ProcessWtxEffect DEF ProcessSBlock
<1>2. CASE b.subtype = "Deselect"
  <2>1. ProcessSBlock(h, b) = Step(Reset(h), Reply(SBlock("Deselect", <<>>)))
    BY <1>2 DEF ProcessSBlock
  <2>2. Deselected(h, b, ProcessSBlock(h, b))
    BY <1>2, <2>1, StepFields, OutcomeKinds DEF Deselected, IsDeselect
  <2> QED BY <2>2 DEF BlockEffect
<1>3. CASE b.subtype \notin {"Wtx", "Deselect"}
  <2>1. ProcessSBlock(h, b) = Step(h, Fails("Other"))
    BY <1>3 DEF ProcessSBlock
  <2>2. Failed(h, ProcessSBlock(h, b))
    BY <2>1, StepFields, OutcomeKinds DEF Failed, SameSession
  <2> QED BY <2>2 DEF BlockEffect
<1> QED BY <1>1, <1>2, <1>3

LEMMA NoteFrameEffect ==
  ASSUME NEW h \in Handler
  PROVE  /\ Counted(h) \in Handler /\ SameSession(Counted(h), h)
         /\ Counted(h).chain = h.chain /\ Counted(h).counters = CountFrame(h.counters)
         /\ \/ NoteFrame(h).outcome # Ok /\ Failed(h, NoteFrame(h))
            \/ /\ NoteFrame(h) = Step(Counted(h), Ok)
               /\ Counted(h).counters.frames <= h.limits.max_frames
<1>1. /\ Counted(h) \in Handler /\ SameSession(Counted(h), h)
      /\ Counted(h).chain = h.chain /\ Counted(h).counters = CountFrame(h.counters)
  BY CountedTypes, CountersUpdate DEF Counted
<1>2. Counted(h).counters.frames \in Nat /\ h.limits.max_frames \in Nat
  <2>1. Counted(h).counters.frames \in U16
    BY <1>1, HandlerFields DEF CountersType
  <2>2. h.limits.max_frames \in U16
    BY HandlerFields DEF LimitsType
  <2> QED BY <2>1, <2>2, WidthsAreNat DEF U16
<1>3. NoteFrame(h) = IF Counted(h).counters.frames > h.limits.max_frames
                     THEN Exceeded(Counted(h), "Frames") ELSE Step(Counted(h), Ok)
  BY DEF NoteFrame, Counted
<1>4. Failed(h, Exceeded(Counted(h), "Frames"))
  BY <1>1, ExceededEffect, SameSessionTransitive DEF Failed
<1>5. \A step : Failed(h, step) => step.outcome # Ok
  BY OutcomeKinds DEF Failed
<1> QED BY <1>1, <1>2, <1>3, <1>4, <1>5

LEMMA ProcessReceivedEffect ==
  ASSUME NEW h \in Handler, NEW b \in Block
  PROVE  \/ Failed(h, ProcessReceived(h, b))
         \/ /\ Counted(h).counters.frames <= h.limits.max_frames
            /\ BlockEffect(Counted(h), b, ProcessReceived(h, b))
<1>1. CASE NoteFrame(h).outcome # Ok
  <2>1. ProcessReceived(h, b) = NoteFrame(h)
    BY <1>1 DEF ProcessReceived
  <2>2. Failed(h, NoteFrame(h))
    BY <1>1, NoteFrameEffect, StepFields
  <2> QED BY <2>1, <2>2
<1>2. CASE NoteFrame(h).outcome = Ok
  <2>1. /\ NoteFrame(h).handler = Counted(h) /\ Counted(h) \in Handler
        /\ Counted(h).counters.frames <= h.limits.max_frames
    BY <1>2, NoteFrameEffect, StepFields
  <2>2. b.type \in {"I", "R", "S"}
    BY DEF Block
  <2>3. CASE b.type = "I"
    <3>1. ProcessReceived(h, b) = ProcessIBlock(Counted(h), b)
      BY <1>2, <2>1, <2>3 DEF ProcessReceived
    <3> QED BY <2>1, <2>3, <3>1, ProcessIBlockEffect
  <2>4. CASE b.type = "R"
    <3>1. ProcessReceived(h, b) = ProcessRBlock(Counted(h), b)
      BY <1>2, <2>1, <2>4 DEF ProcessReceived
    <3> QED BY <2>1, <2>4, <3>1, ProcessRBlockEffect
  <2>5. CASE b.type = "S"
    <3>1. ProcessReceived(h, b) = ProcessSBlock(Counted(h), b)
      BY <1>2, <2>1, <2>5 DEF ProcessReceived
    <3> QED BY <2>1, <2>5, <3>1, ProcessSBlockEffect
  <2> QED BY <2>2, <2>3, <2>4, <2>5
<1> QED BY <1>1, <1>2

LEMMA SessionStartFields ==
  ASSUME NEW h \in Handler
  PROVE  /\ BeginExchange(h).role = h.role /\ BeginExchange(h).limits = h.limits
         /\ BeginExchange(h).number = h.number /\ BeginExchange(h).chain = <<>>
         /\ BeginExchange(h).counters = ZeroCounters
         /\ Reset(h).role = h.role /\ Reset(h).limits = h.limits
         /\ Reset(h).number = InitialBlockNumber(h.role) /\ Reset(h).chain = <<>>
         /\ Reset(h).counters = ZeroCounters
<1>1. \A g \in Handler :
        /\ BeginExchange(g).role = g.role /\ BeginExchange(g).limits = g.limits
        /\ BeginExchange(g).number = g.number /\ BeginExchange(g).chain = <<>>
        /\ BeginExchange(g).counters = ZeroCounters
  BY DEF BeginExchange, Handler
<1> DEFINE g == [h EXCEPT !.number = InitialBlockNumber(h.role)]
<1>2. /\ g \in Handler /\ g.role = h.role /\ g.limits = h.limits
      /\ g.number = InitialBlockNumber(h.role)
  <2>1. InitialBlockNumber(h.role) \in Bit
    BY DEF InitialBlockNumber, Bit
  <2> QED BY <2>1, HandlerUpdate DEF Handler
<1> HIDE DEF g
<1>3. Reset(h) = BeginExchange(g)
  BY DEF Reset, g
<1> QED BY <1>1, <1>2, <1>3

-----------------------------------------------------------------------------
(* What the callers rely on.                                               *)

LEMMA OutcomeFields ==
  ASSUME NEW o \in Outcome
  PROVE  /\ o.kind \in {"Ok", "ChainingAck", "ChainingRetransmit", "Complete",
                        "Reply", "Err"}
         /\ o.kind = "Complete" => o.data \in Seq(Byte)
         /\ o.kind = "Reply" => o.block \in Block
BY DEF Outcome, Ok, ChainingAck, Retransmit

\* The handler never changes its role or its limits, counts what it accepts
\* and stops at the limit.  A deselect starts the counters afresh.
LEMMA ReceivedCounts ==
  ASSUME NEW h \in Handler, NEW b \in Block
  PROVE  LET step == ProcessReceived(h, b) IN
         /\ step.handler.role = h.role /\ step.handler.limits = h.limits
         /\ step.outcome.kind # "Err" /\ ~ IsDeselect(b) =>
              /\ step.handler.counters.frames =
                   SaturatingIncrement(h.counters.frames, U16Max)
              /\ step.handler.counters.frames <= h.limits.max_frames
<1> DEFINE g == Counted(h)
           step == ProcessReceived(h, b)
<1>1. /\ g \in Handler /\ SameSession(g, h)
      /\ g.counters = CountFrame(h.counters)
  BY NoteFrameEffect
<1>2. /\ h.counters \in CountersType /\ g.counters \in CountersType
      /\ CountRetransmission(g.counters) \in CountersType
      /\ CountConsecutiveWtx(g.counters) \in CountersType
  BY <1>1, HandlerFields, CountersEffect
<1>3. /\ g.counters.frames = SaturatingIncrement(h.counters.frames, U16Max)
      /\ CountRetransmission(g.counters).frames = g.counters.frames
      /\ NoteProgress(g.counters).frames = g.counters.frames
      /\ CountTotalWtx(CountConsecutiveWtx(g.counters)).frames = g.counters.frames
  BY <1>1, <1>2 DEF CountFrame, CountRetransmission, NoteProgress, CountTotalWtx,
                    CountConsecutiveWtx, CountersType
<1> HIDE DEF g, step
<1>4. CASE Failed(h, step)
  BY <1>4 DEF Failed, SameSession, step
<1>5. CASE g.counters.frames <= h.limits.max_frames /\ BlockEffect(g, b, step)
  <2>1. /\ Reset(g).role = g.role /\ Reset(g).limits = g.limits
    BY <1>1, SessionStartFields
  <2>2. step.handler.role = g.role /\ step.handler.limits = g.limits
    BY <1>5, <2>1 DEF BlockEffect, Failed, AskedAgain, Acknowledged, TookIBlock,
                      MovedOn, Polled, ExtendedWait, Deselected, SameSession
  <2>3. step.outcome.kind # "Err" /\ ~ IsDeselect(b) =>
          step.handler.counters.frames = g.counters.frames
    BY <1>3, <1>5 DEF BlockEffect, Failed, AskedAgain, Acknowledged, TookIBlock,
                      MovedOn, Polled, ExtendedWait, Deselected
  <2> QED BY <1>1, <1>3, <1>5, <2>2, <2>3 DEF SameSession, step
<1> QED BY <1>4, <1>5, ProcessReceivedEffect DEF g, step

\* Below the width of its counter a block that is accepted counts as one.
LEMMA AcceptedCounts ==
  ASSUME NEW h \in Handler, NEW b \in Block, ~ IsDeselect(b),
         h.limits.max_frames < U16Max,
         ProcessReceived(h, b).outcome.kind # "Err"
  PROVE  LET counted == ProcessReceived(h, b).handler.counters.frames IN
         counted = h.counters.frames + 1 /\ counted <= h.limits.max_frames
<1>1. h.counters.frames \in 0..U16Max /\ h.limits.max_frames \in 0..U16Max
  BY HandlerFields DEF CountersType, LimitsType, U16
<1>2. U16Max \in Nat
  BY WidthsAreNat
<1> DEFINE counted == ProcessReceived(h, b).handler.counters.frames
<1>3. counted = SaturatingIncrement(h.counters.frames, U16Max)
      /\ counted <= h.limits.max_frames
  BY ReceivedCounts
<1> HIDE DEF counted
<1>4. counted = h.counters.frames + 1 /\ counted <= h.limits.max_frames
  BY <1>1, <1>2, <1>3 DEF SaturatingIncrement
<1> QED BY <1>4 DEF counted

\* An S(DESELECT) that is accepted is echoed.
LEMMA DeselectEchoed ==
  ASSUME NEW h \in Handler, NEW b \in Block, IsDeselect(b),
         ProcessReceived(h, b).outcome.kind = "Reply"
  PROVE  IsDeselect(ProcessReceived(h, b).outcome.block)
<1> DEFINE step == ProcessReceived(h, b)
<1>1. IsDeselect(SBlock("Deselect", <<>>))
  BY DEF IsDeselect, SBlock
<1>2. Deselected(Counted(h), b, step)
  BY ProcessReceivedEffect DEF BlockEffect, Failed, AskedAgain, Acknowledged,
     TookIBlock, Polled, ExtendedWait, IsDeselect
<1> QED BY <1>1, <1>2 DEF Deselected

\* When the block number moves on, and on which block.
LEMMA ReceivedNumbers ==
  ASSUME NEW h \in Handler, NEW b \in Block
  PROVE  LET step == ProcessReceived(h, b) IN
         /\ step.outcome.kind \in {"ChainingAck", "ChainingRetransmit", "Complete",
                                   "Reply", "Err"}
         /\ step.outcome.kind = "Err" => step.handler.number = h.number
         /\ step.outcome.kind = "ChainingAck" =>
              /\ b.type = "R" /\ b.subtype = "Ack"
              /\ step.handler.number = 1 - h.number
              /\ (h.role = "Pcd") <=> (b.number = h.number)
         /\ step.outcome.kind = "ChainingRetransmit" =>
              b.type = "R" /\ step.handler.number = h.number
         /\ step.outcome.kind = "Complete" =>
              /\ b.type = "I" /\ ~ RepeatsLastIBlock(h, b)
              /\ step.handler.number = 1 - h.number
         /\ step.outcome.kind = "Reply" /\ b.type # "I" /\ ~ IsDeselect(b) =>
              step.handler.number = h.number
<1> DEFINE g == Counted(h)
           step == ProcessReceived(h, b)
<1>1. SameSession(g, h)
  BY NoteFrameEffect
<1>2. RepeatsLastIBlock(g, b) <=> RepeatsLastIBlock(h, b)
  BY <1>1 DEF SameSession, RepeatsLastIBlock
<1> HIDE DEF g, step
<1>3. CASE Failed(h, step)
  BY <1>3 DEF Failed, SameSession, step
<1>4. CASE BlockEffect(g, b, step)
  BY <1>1, <1>2, <1>4 DEF BlockEffect, Failed, AskedAgain, Acknowledged, TookIBlock,
       MovedOn, Polled, ExtendedWait, Deselected, SameSession, IsDeselect, step
<1> QED BY <1>3, <1>4, ProcessReceivedEffect DEF g, step

\* The reply to b is an R(ACK) with the number the handler is at, or answers an
\* S-Block with one.
IsReply(b, step) == step.outcome.kind = "Reply" =>
                      \/ step.outcome.block = RAck(step.handler)
                      \/ b.type = "S" /\ step.outcome.block.type = "S"

LEMMA NoReply ==
  ASSUME NEW b, NEW h, NEW o, o.kind # "Reply"
  PROVE  /\ IsReply(b, Step(h, o))
         /\ IsReply(b, NoteRetransmit(h, o))
         /\ IsReply(b, Advance(h, o))
         /\ \A limit : IsReply(b, Exceeded(h, limit))
<1>1. \A g : IsReply(b, Step(g, o))
  BY StepFields DEF IsReply
<1>2. \A g, limit : IsReply(b, Exceeded(g, limit))
  BY StepFields, OutcomeKinds DEF IsReply, Exceeded
<1> QED BY <1>1, <1>2 DEF NoteRetransmit, Advance

LEMMA SReply ==
  ASSUME NEW b, b.type = "S", NEW h, NEW subtype, NEW payload
  PROVE  IsReply(b, Step(h, Reply(SBlock(subtype, payload))))
BY StepFields, OutcomeKinds DEF IsReply, SBlock

LEMMA RepeatedIBlockReply ==
  ASSUME NEW b, NEW h \in Handler
  PROVE  IsReply(b, NoteRetransmit(h, Reply(RAck(h))))
<1> DEFINE step == NoteRetransmit(h, Reply(RAck(h)))
<1>1. CASE Failed(h, step)
  BY <1>1 DEF Failed, IsReply
<1>2. CASE step.outcome = Reply(RAck(h)) /\ SameSession(step.handler, h)
  BY <1>2, OutcomeKinds DEF IsReply, SameSession, RAck
<1> QED BY <1>1, <1>2, NoteRetransmitEffect

LEMMA ReceivedReply ==
  ASSUME NEW h \in Handler, NEW b \in Block
  PROVE  IsReply(b, ProcessReceived(h, b))
<1>1. /\ ChainingAck.kind # "Reply" /\ Retransmit.kind # "Reply"
      /\ \A e : Fails(e).kind # "Reply"
      /\ \A d : Complete(d).kind # "Reply"
      /\ Ok.kind # "Reply"
  BY OutcomeKinds
<1>2. ASSUME NEW g \in Handler
      PROVE  IsReply(b, ProcessIBlock(g, b))
  <2>1. IsReply(b, TakeIBlock(g, b))
    <3>1. \A t : IsReply(b, Step(t, Reply(RAck(t))))
      BY StepFields, OutcomeKinds DEF IsReply
    <3>2. \A t, d : IsReply(b, Step(t, Complete(d)))
      BY <1>1, NoReply
    <3> QED BY <3>1, <3>2 DEF TakeIBlock
  <2> QED BY <1>1, <2>1, NoReply, RepeatedIBlockReply DEF ProcessIBlock
<1>3. ASSUME NEW g \in Handler
      PROVE  IsReply(b, ProcessRBlock(g, b))
  <2>1. IsReply(b, Step(g, Reply(RAck(g))))
    BY StepFields, OutcomeKinds DEF IsReply
  <2>2. /\ IsReply(b, Advance(g, ChainingAck)) /\ IsReply(b, NoteRetransmit(g, Retransmit))
        /\ IsReply(b, Step(g, Fails("InvalidPcb")))
    BY <1>1, NoReply
  <2> QED BY <2>1, <2>2 DEF ProcessRBlock
<1>4. ASSUME NEW g \in Handler
      PROVE  b.type = "S" => IsReply(b, ProcessSBlock(g, b))
  <2> SUFFICES ASSUME b.type = "S" PROVE IsReply(b, ProcessSBlock(g, b))
    OBVIOUS
  <2>1. IsReply(b, ProcessWtx(g, b))
    <3>1. \A t, limit : IsReply(b, Exceeded(t, limit))
      BY <1>1, NoReply
    <3>2. \A t : IsReply(b, Step(t, Reply(SBlock("Wtx", b.payload))))
      BY SReply
    <3> QED BY <3>1, <3>2 DEF ProcessWtx
  <2>2. IsReply(b, Step(Reset(g), Reply(SBlock("Deselect", <<>>))))
    BY SReply
  <2>3. IsReply(b, Step(g, Fails("Other")))
    BY <1>1, NoReply
  <2> QED BY <2>1, <2>2, <2>3 DEF ProcessSBlock
<1>5. CASE NoteFrame(h).outcome # Ok
  <2>1. ProcessReceived(h, b) = NoteFrame(h) /\ Failed(h, NoteFrame(h))
    BY <1>5, NoteFrameEffect, StepFields DEF ProcessReceived
  <2> QED BY <2>1 DEF Failed, IsReply
<1>6. CASE NoteFrame(h).outcome = Ok
  <2>1. NoteFrame(h).handler \in Handler
    BY NoteFrameType DEF IsStep
  <2>2. b.type \in {"I", "R", "S"}
    BY DEF Block
  <2> QED BY <1>2, <1>3, <1>4, <1>6, <2>1, <2>2 DEF ProcessReceived
<1> QED BY <1>5, <1>6

\* What a side that expects its peer's R(ACK) does with it (Rules B, D and E).
LEMMA ReceivedAck ==
  ASSUME NEW h \in Handler, NEW b \in Block, b.type = "R", b.subtype = "Ack"
  PROVE  LET step == ProcessReceived(h, b) IN
         /\ step.outcome.kind \in {"ChainingAck", "ChainingRetransmit", "Err"}
         /\ step.outcome.kind = "ChainingAck" =>
              /\ (h.role = "Pcd") <=> (b.number = h.number)
              /\ step.handler.number = 1 - h.number
         /\ step.outcome.kind = "ChainingRetransmit" =>
              /\ (h.role = "Pcd") <=> (b.number # h.number)
              /\ step.handler.number = h.number
         /\ step.outcome.kind = "Err" => step.handler.number = h.number
         /\ step.outcome.kind # "Err" => step.handler.chain = h.chain
<1> DEFINE g == Counted(h)
           step == ProcessReceived(h, b)
<1>1. SameSession(g, h) /\ g.chain = h.chain
  BY NoteFrameEffect
<1> HIDE DEF g, step
<1>2. CASE Failed(h, step)
  BY <1>2 DEF Failed, SameSession, step
<1>3. CASE BlockEffect(g, b, step)
  BY <1>1, <1>3 DEF BlockEffect, Failed, AskedAgain, Acknowledged, TookIBlock,
       MovedOn, Polled, ExtendedWait, Deselected, SameSession, IsDeselect, step
<1> QED BY <1>2, <1>3, ProcessReceivedEffect DEF g, step

\* A new I-Block moves the number on and lengthens the chain, a repeated one does
\* neither; what is not the end of a chain is acknowledged with the number that
\* results.
LEMMA ReceivedIBlock ==
  ASSUME NEW h \in Handler, NEW b \in Block, b.type = "I"
  PROVE  LET step == ProcessReceived(h, b) IN
         /\ step.outcome.kind \in {"Complete", "Reply", "Err"}
         /\ step.outcome.kind = "Complete" =>
              /\ ~ RepeatsLastIBlock(h, b) /\ ~ b.chaining
              /\ step.handler.number = 1 - h.number
              /\ step.outcome.data = h.chain \o b.payload
              /\ step.handler.chain = <<>>
         /\ step.outcome.kind = "Reply" =>
              /\ step.outcome.block = RAck(step.handler)
              /\ IF RepeatsLastIBlock(h, b)
                 THEN step.handler.number = h.number /\ step.handler.chain = h.chain
                 ELSE /\ b.chaining /\ step.handler.number = 1 - h.number
                      /\ step.handler.chain = h.chain \o b.payload
         /\ step.outcome.kind = "Err" => step.handler.number = h.number
<1> DEFINE g == Counted(h)
           step == ProcessReceived(h, b)
<1>1. SameSession(g, h) /\ g.chain = h.chain
  BY NoteFrameEffect
<1>2. RepeatsLastIBlock(g, b) <=> RepeatsLastIBlock(h, b)
  BY <1>1 DEF SameSession, RepeatsLastIBlock
<1>3. step.outcome.kind = "Reply" => step.outcome.block = RAck(step.handler)
  BY ReceivedReply DEF IsReply
<1> HIDE DEF g, step
<1>4. CASE Failed(h, step)
  BY <1>4 DEF Failed, SameSession, step
<1>5. CASE BlockEffect(g, b, step)
  BY <1>1, <1>2, <1>3, <1>5 DEF BlockEffect, Failed, AskedAgain, Acknowledged, TookIBlock,
       MovedOn, Polled, ExtendedWait, Deselected, SameSession, IsDeselect, step
<1> QED BY <1>4, <1>5, ProcessReceivedEffect DEF g, step

LEMMA ReceivedDeselect ==
  ASSUME NEW h \in Handler, NEW b \in Block, IsDeselect(b)
  PROVE  LET step == ProcessReceived(h, b) IN
         \/ /\ step.outcome.kind = "Reply"
            /\ IsDeselect(step.outcome.block)
         \/ step.outcome.kind = "Err"
<1> DEFINE g == Counted(h)
           step == ProcessReceived(h, b)
<1> HIDE DEF g, step
<1>1. CASE Failed(h, step)
  BY <1>1 DEF Failed, step
<1>2. CASE BlockEffect(g, b, step)
  BY <1>2, DeselectEchoed DEF BlockEffect, Failed, AskedAgain, Acknowledged,
       TookIBlock, Polled, ExtendedWait, Deselected, IsDeselect, step
<1> QED BY <1>1, <1>2, ProcessReceivedEffect DEF g, step

-----------------------------------------------------------------------------
(* What is accepted: below its limits the handler refuses nothing that a   *)
(* peer in step would send.                                                *)

\* The room that is left for one more frame.
FrameRoom(h) == h.counters.frames < h.limits.max_frames

LEMMA CounterNats ==
  ASSUME NEW h \in Handler
  PROVE  /\ h.counters.frames \in 0..U16Max /\ h.counters.retransmissions \in 0..U8Max
         /\ h.limits.max_frames \in Nat /\ h.limits.max_retransmissions \in Nat
         /\ h.limits.max_chain_len \in Nat /\ Len(h.chain) \in Nat
         /\ U16Max \in Nat /\ U8Max \in Nat
BY HandlerFields, WidthsAreNat, LenProperties DEF CountersType, LimitsType, U16, U8

LEMMA FrameAccepted ==
  ASSUME NEW h \in Handler, FrameRoom(h)
  PROVE  /\ NoteFrame(h) = Step(Counted(h), Ok)
         /\ Counted(h) \in Handler /\ SameSession(Counted(h), h)
         /\ Counted(h).chain = h.chain
         /\ Counted(h).counters.retransmissions = h.counters.retransmissions
         /\ \A b \in Block :
              ProcessReceived(h, b) =
                CASE b.type = "I" -> ProcessIBlock(Counted(h), b)
                  [] b.type = "R" -> ProcessRBlock(Counted(h), b)
                  [] OTHER -> ProcessSBlock(Counted(h), b)
<1> DEFINE g == Counted(h)
<1>1. /\ g \in Handler /\ SameSession(g, h) /\ g.chain = h.chain
      /\ g.counters = CountFrame(h.counters)
  BY NoteFrameEffect
<1> HIDE DEF g
<1>2. /\ g.counters.frames = SaturatingIncrement(h.counters.frames, U16Max)
      /\ g.counters.retransmissions = h.counters.retransmissions
  BY <1>1, HandlerFields DEF CountFrame, CountersType
<1>3. /\ h.counters.frames \in 0..U16Max /\ h.limits.max_frames \in Nat /\ U16Max \in Nat
      /\ h.counters.frames < h.limits.max_frames
  BY CounterNats DEF FrameRoom
<1>4. g.counters.frames <= h.limits.max_frames
  BY <1>2, <1>3 DEF SaturatingIncrement
<1>5. NoteFrame(h) = Step(g, Ok)
  <2>1. NoteFrame(h) = IF g.counters.frames > h.limits.max_frames
                       THEN Exceeded(g, "Frames") ELSE Step(g, Ok)
    BY DEF NoteFrame, Counted, g
  <2>2. g.counters.frames \in Nat
    BY <1>2, <1>3 DEF SaturatingIncrement
  <2> QED BY <1>3, <1>4, <2>1, <2>2
<1>6. ASSUME NEW b \in Block
      PROVE  ProcessReceived(h, b) =
                CASE b.type = "I" -> ProcessIBlock(g, b)
                  [] b.type = "R" -> ProcessRBlock(g, b)
                  [] OTHER -> ProcessSBlock(g, b)
  <2>1. NoteFrame(h).outcome = Ok /\ NoteFrame(h).handler = g
    BY <1>5, StepFields
  <2>2. b.type \in {"I", "R", "S"}
    BY DEF Block
  <2> QED BY <2>1, <2>2 DEF ProcessReceived
<1> QED BY <1>1, <1>2, <1>5, <1>6 DEF g

\* Every block that is accepted counts at most as one frame.
LEMMA CountsOne ==
  ASSUME NEW h \in Handler, NEW b \in Block, ~ IsDeselect(b),
         ProcessReceived(h, b).outcome.kind # "Err"
  PROVE  LET counted == ProcessReceived(h, b).handler.counters.frames IN
         counted \in Nat /\ counted <= h.counters.frames + 1
<1> DEFINE counted == ProcessReceived(h, b).handler.counters.frames
<1>1. counted = SaturatingIncrement(h.counters.frames, U16Max)
  BY ReceivedCounts
<1> HIDE DEF counted
<1>2. h.counters.frames \in 0..U16Max /\ U16Max \in Nat
  BY CounterNats
<1>3. counted \in Nat /\ counted <= h.counters.frames + 1
  BY <1>1, <1>2 DEF SaturatingIncrement
<1> QED BY <1>3 DEF counted

\* The awaited acknowledgement carries on and clears the count of repeats.
LEMMA AckAccepted ==
  ASSUME NEW h \in Handler, NEW b \in Block, b.type = "R", b.subtype = "Ack",
         FrameRoom(h), (h.role = "Pcd") <=> (b.number = h.number)
  PROVE  LET step == ProcessReceived(h, b) IN
         /\ step.outcome.kind = "ChainingAck"
         /\ step.handler.counters.retransmissions = 0
<1> DEFINE g == Counted(h)
           step == ProcessReceived(h, b)
<1>1. /\ g \in Handler /\ g.role = h.role /\ g.number = h.number
      /\ step = ProcessRBlock(g, b)
  BY FrameAccepted DEF SameSession
<1> HIDE DEF g, step
<1>2. g.role \in {"Pcd", "Picc"}
  BY <1>1, HandlerFields DEF Role
<1>3. step = Advance(g, ChainingAck)
  BY <1>1, <1>2 DEF ProcessRBlock
<1> DEFINE cleared == [g EXCEPT !.counters = NoteProgress(@)]
<1>4. /\ cleared \in Handler /\ cleared.counters = NoteProgress(g.counters)
  BY <1>1, CountedTypes, CountersUpdate
<1>5. step.handler = Toggle(cleared) /\ step.outcome.kind = "ChainingAck"
  BY <1>3, StepFields, OutcomeKinds DEF Advance, cleared
<1> HIDE DEF cleared
<1>6. step.handler.counters.retransmissions = 0
  <2>1. step.handler.counters = NoteProgress(g.counters)
    BY <1>4, <1>5, ToggleUpdate
  <2>2. g.counters \in CountersType
    BY <1>1, HandlerFields
  <2> QED BY <2>1, <2>2 DEF NoteProgress, CountersType
<1> QED BY <1>5, <1>6 DEF step

\* The card repeats its last block as often as its limit says.
LEMMA RepeatAccepted ==
  ASSUME NEW h \in Handler, NEW b \in Block, b.type = "R", b.subtype = "Ack",
         FrameRoom(h), h.role = "Picc", b.number = h.number,
         h.counters.retransmissions < h.limits.max_retransmissions
  PROVE  LET step == ProcessReceived(h, b) IN
         /\ step.outcome.kind = "ChainingRetransmit"
         /\ step.handler.counters.retransmissions = h.counters.retransmissions + 1
<1> DEFINE g == Counted(h)
           step == ProcessReceived(h, b)
           c == [g EXCEPT !.counters = CountRetransmission(@)]
<1>1. /\ g \in Handler /\ g.role = h.role /\ g.number = h.number /\ g.limits = h.limits
      /\ g.counters.retransmissions = h.counters.retransmissions
      /\ step = ProcessRBlock(g, b)
  BY FrameAccepted DEF SameSession
<1> HIDE DEF g, step
<1>2. step = NoteRetransmit(g, Retransmit)
  BY <1>1 DEF ProcessRBlock
<1>3. c.counters = CountRetransmission(g.counters) /\ c.limits = g.limits
  BY <1>1, CountersUpdate DEF SameSession
<1>4. step = IF c.counters.retransmissions > g.limits.max_retransmissions
             THEN Exceeded(c, "Retransmissions") ELSE Step(c, Retransmit)
  BY <1>2, <1>3 DEF NoteRetransmit, c
<1> HIDE DEF c
<1>5. c.counters.retransmissions = SaturatingIncrement(g.counters.retransmissions, U8Max)
  BY <1>1, <1>3, HandlerFields DEF CountRetransmission, CountersType
<1>6. /\ h.counters.retransmissions \in 0..U8Max /\ U8Max \in Nat
      /\ h.limits.max_retransmissions \in 0..U8Max
  BY CounterNats, HandlerFields DEF LimitsType, U8
<1>7. /\ c.counters.retransmissions \in Nat
      /\ c.counters.retransmissions = h.counters.retransmissions + 1
      /\ c.counters.retransmissions <= g.limits.max_retransmissions
  BY <1>1, <1>5, <1>6 DEF SaturatingIncrement
<1>8. step = Step(c, Retransmit)
  BY <1>1, <1>4, <1>6, <1>7
<1>9. step.handler = c /\ step.outcome.kind = "ChainingRetransmit"
  BY <1>8, StepFields, OutcomeKinds
<1> QED BY <1>7, <1>9 DEF step

\* A new I-Block for which the chain has room is taken.
LEMMA IBlockAccepted ==
  ASSUME NEW h \in Handler, NEW b \in Block, b.type = "I", ~ RepeatsLastIBlock(h, b),
         FrameRoom(h),
         Len(h.chain) + Len(b.payload) <= h.limits.max_chain_len,
         Len(h.chain) + Len(b.payload) <= ChainCapacity
  PROVE  LET step == ProcessReceived(h, b) IN
         /\ step.outcome.kind = IF b.chaining THEN "Reply" ELSE "Complete"
         /\ step.handler.counters.retransmissions = 0
<1> DEFINE g == Counted(h)
           step == ProcessReceived(h, b)
           length == Len(g.chain) + Len(b.payload)
<1>1. /\ g \in Handler /\ SameSession(g, h) /\ g.chain = h.chain
      /\ step = ProcessIBlock(g, b)
  BY FrameAccepted
<1> HIDE DEF g, step
<1>2. ~ RepeatsLastIBlock(g, b) /\ g.limits = h.limits
  BY <1>1 DEF SameSession, RepeatsLastIBlock
<1>3. /\ length \in Nat /\ h.limits.max_chain_len \in Nat /\ ChainCapacity \in Nat
      /\ length <= g.limits.max_chain_len /\ length <= ChainCapacity
  BY <1>1, <1>2, HandlerFields, ChainCapacityAssumption DEF Block, LimitsType
<1>4. step = TakeIBlock(g, b)
  <2>1. ProcessIBlock(g, b) =
          IF RepeatsLastIBlock(g, b) THEN NoteRetransmit(g, Reply(RAck(g)))
          ELSE IF length > g.limits.max_chain_len THEN Exceeded(g, "ChainLength")
          ELSE IF length > ChainCapacity
          THEN Step([g EXCEPT !.counters = NoteProgress(@)], Fails("BufferFull"))
          ELSE TakeIBlock(g, b)
    BY DEF ProcessIBlock
  <2> HIDE DEF length
  <2> QED BY <1>1, <1>2, <1>3, <2>1
<1>5. TookIBlock(g, b, step)
  BY <1>1, <1>2, <1>3, <1>4, TakeIBlockEffect
<1>6. step.handler.counters.retransmissions = 0
  BY <1>1, <1>5, HandlerFields DEF TookIBlock, MovedOn, NoteProgress, CountersType
<1> QED BY <1>5, <1>6 DEF TookIBlock, step

\* An S(DESELECT) is always echoed.
LEMMA DeselectAccepted ==
  ASSUME NEW h \in Handler, NEW b \in Block, IsDeselect(b), FrameRoom(h)
  PROVE  ProcessReceived(h, b).outcome.kind = "Reply"
<1> DEFINE step == ProcessReceived(h, b)
<1>1. b.type = "S" /\ b.subtype = "Deselect"
  BY DEF IsDeselect
<1>2. step = ProcessSBlock(Counted(h), b)
  BY <1>1, FrameAccepted
<1>3. step = Step(Reset(Counted(h)), Reply(SBlock("Deselect", <<>>)))
  BY <1>1, <1>2 DEF ProcessSBlock
<1> QED BY <1>3, StepFields, OutcomeKinds

-----------------------------------------------------------------------------
(* Frames and chunks.                                                      *)

LEMMA FrameTypes ==
  /\ \A b \in Block : BlockFrame(b) \in Frame
  /\ \A k \in FrameKind \ {"Anticollision", "UidBcc", "Select", "Sak"} : Plain(k) \in Frame
  /\ \A k \in {"Anticollision", "Select"}, n \in 0..2 : LevelFrame(k, n) \in Frame
  /\ \A u \in [1..4 -> Byte] : UidFrame(u) \in Frame
  /\ \A c \in BOOLEAN : SakFrame(c) \in Frame
BY DEF Frame, BlockFrame, Plain, LevelFrame, UidFrame, SakFrame

LEMMA FrameFields ==
  /\ \A b : BlockFrame(b).kind = "Block" /\ BlockFrame(b).block = b
  /\ \A k : Plain(k).kind = k
  /\ \A k, n : LevelFrame(k, n).kind = k /\ LevelFrame(k, n).level = n
  /\ \A u : UidFrame(u).kind = "UidBcc" /\ UidFrame(u).uid = u
  /\ \A c : SakFrame(c).kind = "Sak" /\ SakFrame(c).complete = c
BY DEF BlockFrame, Plain, LevelFrame, UidFrame, SakFrame

LEMMA BlockOfFrame ==
  ASSUME NEW f \in Frame, f.kind = "Block"
  PROVE  f.block \in Block
BY DEF Frame, FrameKind

\* What is on the air: at most one frame.
Air == {<<>>} \cup {<<f>> : f \in Frame}

LEMMA OneOnAir ==
  ASSUME NEW air \in Air
  PROVE  Len(air) <= 1 /\ \A i \in DOMAIN air : air[i] \in Frame
<1>1. CASE air = <<>>
  BY <1>1
<1>2. CASE \E f \in Frame : air = <<f>>
  BY <1>2
<1> QED BY <1>1, <1>2 DEF Air

LEMMA AirIsSeq ==
  /\ <<>> \in Air
  /\ \A f \in Frame : /\ <<f>> \in Air /\ <<f>> # <<>> /\ <<f>>[1] = f
  /\ \A air \in Air : air \in Seq(Frame) /\ (air # <<>> => air[1] \in Frame)
<1>1. \A f \in Frame : <<f>> \in Seq(Frame) /\ <<f>> # <<>> /\ <<f>>[1] = f
  OBVIOUS
<1>2. ASSUME NEW f \in Frame
      PROVE  <<f>> \in Air
  BY DEF Air
<1>3. ASSUME NEW air \in Air
      PROVE  air \in Seq(Frame) /\ (air # <<>> => air[1] \in Frame)
  <2>1. CASE air = <<>>
    BY <2>1
  <2>2. ASSUME NEW f \in Frame, air = <<f>>
        PROVE  air \in Seq(Frame) /\ air[1] \in Frame
    BY <1>1, <2>2
  <2> QED BY <2>1, <2>2 DEF Air
<1>4. <<>> \in Air
  BY DEF Air
<1> QED BY <1>1, <1>2, <1>3, <1>4

LEMMA ChunkEndBounds ==
  ASSUME NEW apdu \in Seq(Byte), NEW offset \in 0..Len(apdu), NEW maxInf \in Nat
  PROVE  /\ ChunkEnd(apdu, offset, maxInf) \in offset..Len(apdu)
         /\ MoreToSend(apdu, offset, maxInf) =>
              /\ ChunkEnd(apdu, offset, maxInf) = offset + maxInf
              /\ ChunkEnd(apdu, offset, maxInf) < Len(apdu)
BY LenProperties DEF ChunkEnd, MoreToSend

\* The chunk at offset continues what was sent before it; the last one ends it.
LEMMA ChunkContinues ==
  ASSUME NEW number \in Bit, NEW apdu \in Seq(Byte), NEW offset \in 0..Len(apdu),
         NEW maxInf \in Nat
  PROVE  LET b    == Chunk(number, apdu, offset, maxInf)
             sent == SubSeq(apdu, 1, offset) \o b.payload
         IN  /\ sent = SubSeq(apdu, 1, ChunkEnd(apdu, offset, maxInf))
             /\ ~ b.chaining => sent = apdu
<1> DEFINE end == ChunkEnd(apdu, offset, maxInf)
           b == Chunk(number, apdu, offset, maxInf)
<1>1. /\ Len(apdu) \in Nat /\ end \in offset..Len(apdu)
      /\ b.payload = SubSeq(apdu, offset + 1, end)
      /\ end < Len(apdu) => b.chaining
  BY ChunkEndBounds, LenProperties DEF Chunk, IBlock, MoreToSend
<1> HIDE DEF end, b
<1>2. 1 \in 1..Len(apdu) + 1 /\ offset \in 1 - 1..Len(apdu)
  BY <1>1
<1>3. SubSeq(apdu, 1, offset) \o SubSeq(apdu, offset + 1, end) = SubSeq(apdu, 1, end)
  BY <1>1, <1>2, ConcatAdjacentSubSeq
<1>4. ~ b.chaining => end = Len(apdu)
  BY <1>1
<1>5. SubSeq(apdu, 1, Len(apdu)) = apdu
  BY SubSeqFull
<1> QED BY <1>1, <1>3, <1>4, <1>5 DEF b, end

LEMMA ChunkType ==
  ASSUME NEW number \in Bit, NEW apdu \in Seq(Byte), NEW offset \in 0..Len(apdu),
         NEW maxInf \in Nat
  PROVE  LET b == Chunk(number, apdu, offset, maxInf) IN
         /\ b \in Block /\ b.type = "I" /\ b.number = number
         /\ b.chaining = MoreToSend(apdu, offset, maxInf)
<1> DEFINE end == ChunkEnd(apdu, offset, maxInf)
<1>1. end \in offset..Len(apdu) /\ Len(apdu) \in Nat
  BY ChunkEndBounds, LenProperties
<1>2. \A i \in offset + 1..end : apdu[i] \in Byte
  BY <1>1, ElementOfSeq
<1> HIDE DEF end
<1>3. SubSeq(apdu, offset + 1, end) \in Seq(Byte)
  BY <1>1, <1>2, SubSeqProperties
<1>4. MoreToSend(apdu, offset, maxInf) \in BOOLEAN
  BY DEF MoreToSend
<1> QED BY <1>3, <1>4 DEF Chunk, IBlock, Block, Subtype, end
=============================================================================
