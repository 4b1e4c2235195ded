---------------------------- MODULE HandlerProofs ----------------------------
(***************************************************************************)
(* What holds of HandlerMachine for every role, peer, set of limits and    *)
(* buffer capacity: the inductive invariant IInv, one step per action, and *)
(* the bound on granted work, which needs limits below the width of their  *)
(* counters.                                                               *)
(***************************************************************************)
EXTENDS HandlerMachine, HandlerLemmas

-----------------------------------------------------------------------------
(* Type correctness of the machine.                                        *)

LEMMA InitTypeOK == Init => TypeOK
<1> SUFFICES ASSUME NEW role \in Role, NEW limits \in LimitChoices,
                    handler = NewHandler(role, limits), outcome = Ok,
                    lastTaken = 1, parity = 0, assembled = <<>>,
                    granted = NothingGranted, deselects = 0, agreed = limits
             PROVE  TypeOK
  BY DEF Init
<1>1. limits \in LimitsType
  BY HandlerMachineAssumption
<1>2. handler \in Handler /\ outcome \in Outcome
  BY <1>1, SessionStartType, OutcomeTypes
<1>3. granted \in Granted
  BY DEF NothingGranted, Granted
<1>4. deselects \in 0..MaxDeselects
  BY HandlerMachineAssumption
<1> QED BY <1>1, <1>2, <1>3, <1>4, BlockTypes DEF TypeOK, Bit

LEMMA ForgetSessionType ==
  ForgetSession => /\ lastTaken' \in Bit /\ parity' \in Bit
                   /\ assembled' \in Seq(Byte)
BY BlockTypes DEF ForgetSession, Bit

LEMMA NewExchangeType ==
  ASSUME TypeOK, NewExchange
  PROVE  /\ granted' \in Granted /\ deselects' \in 0..MaxDeselects
         /\ agreed' \in LimitsType
<1>1. handler.limits \in LimitsType
  BY HandlerFields DEF TypeOK
<1> QED BY <1>1, HandlerMachineAssumption DEF NewExchange, NothingGranted, Granted

LEMMA PendingType == TypeOK => Pending \in Seq(Byte)
BY BlockTypes DEF TypeOK, Pending

LEMMA GrantTypes ==
  ASSUME NEW g \in Granted
  PROVE  /\ GrantFrame(g) \in Granted /\ GrantRepeat(g) \in Granted
         /\ GrantWait(g) \in Granted /\ EndRuns(g) \in Granted
<1>1. /\ g.frames + 1 \in Nat /\ g.retransmissions + 1 \in Nat
      /\ g.consecutive_wtx + 1 \in Nat /\ g.total_wtx + 1 \in Nat
  BY DEF Granted
<1>2. GrantFrame(g) \in Granted
  BY <1>1 DEF Granted, GrantFrame
<1>3. GrantRepeat(g) \in Granted
  BY <1>1 DEF Granted, GrantRepeat
<1>4. GrantWait(g) \in Granted
  BY <1>1 DEF Granted, GrantWait
<1>5. EndRuns(g) \in Granted
  BY DEF Granted, EndRuns
<1> QED BY <1>2, <1>3, <1>4, <1>5

LEMMA ObserveType ==
  ASSUME TypeOK, NEW b \in Block, NEW o \in Outcome, Observe(b, o)
  PROVE  /\ lastTaken' \in Bit /\ parity' \in Bit /\ assembled' \in Seq(Byte)
         /\ granted' \in Granted
<1>1. b.number \in Bit /\ b.payload \in Seq(Byte)
  BY DEF Block
<1>2. lastTaken' \in Bit /\ parity' \in Bit
  BY <1>1 DEF TypeOK, Observe, Bit
<1>3. assembled' \in Seq(Byte)
  <2>1. Pending \in Seq(Byte) /\ Pending \o b.payload \in Seq(Byte)
    BY <1>1, PendingType
  <2> QED BY <2>1 DEF Observe
<1>4. granted' \in Granted
  <2>1. granted \in Granted
    BY DEF TypeOK
  <2>2. granted' = Charge(b, o)
    BY DEF Observe
  <2>3. /\ EndRuns(GrantFrame(granted)) \in Granted
        /\ GrantRepeat(GrantFrame(granted)) \in Granted
        /\ GrantWait(GrantFrame(granted)) \in Granted
        /\ GrantFrame(granted) \in Granted
    BY <2>1, GrantTypes
  <2> QED BY <2>1, <2>2, <2>3 DEF Charge
<1> QED BY <1>2, <1>3, <1>4

LEMMA NextTypeOK == TypeOK /\ [Next]_vars => TypeOK'
<1> SUFFICES ASSUME TypeOK, [Next]_vars PROVE TypeOK'
  OBVIOUS
<1>0. /\ handler \in Handler /\ outcome \in Outcome /\ granted \in Granted
      /\ handler.limits \in LimitsType
  BY HandlerFields DEF TypeOK
<1>1. CASE StartExchange
  <2>1. handler' \in Handler /\ outcome' \in Outcome
    BY <1>0, <1>1, SessionStartType, OutcomeTypes DEF StartExchange
  <2> QED BY <1>0, <1>1, <2>1, NewExchangeType, BlockTypes DEF StartExchange, TypeOK
<1>2. CASE Restart
  <2>1. handler' \in Handler /\ outcome' \in Outcome
    BY <1>0, <1>2, SessionStartType, OutcomeTypes DEF Restart
  <2> QED BY <1>2, <2>1, ForgetSessionType, NewExchangeType DEF Restart, TypeOK
<1>3. CASE ChangeLimits
  <2>1. handler' \in Handler /\ agreed' \in LimitsType
    <3>1. PICK limits \in LimitChoices : /\ handler' = WithLimits(handler, limits)
                                        /\ agreed' \in {agreed, limits}
      BY <1>3 DEF ChangeLimits
    <3>2. limits \in LimitsType
      BY HandlerMachineAssumption
    <3>3. agreed' \in LimitsType
      BY <3>1, <3>2 DEF TypeOK
    <3> QED BY <1>0, <3>1, <3>2, <3>3, HandlerUpdate DEF WithLimits
  <2> QED BY <1>3, <2>1 DEF ChangeLimits, TypeOK
<1>4. CASE AnswerPps
  <2>1. handler' \in Handler /\ outcome' \in Outcome
    BY <1>0, <1>4, NoteFrameType DEF AnswerPps, IsStep
  <2>2. granted' \in Granted
    BY <1>0, <1>4, GrantTypes DEF AnswerPps
  <2> QED BY <1>4, <2>1, <2>2, PendingType DEF AnswerPps, TypeOK
<1>5. ASSUME NEW b \in PeerBlocks, Receive(b) PROVE TypeOK'
  <2>1. b \in Block
    BY HandlerMachineAssumption
  <2>2. handler' \in Handler /\ outcome' \in Outcome
    BY <1>0, <1>5, <2>1, ProcessReceivedType DEF Receive, IsStep
  <2>3. agreed' \in LimitsType
    BY <1>5 DEF Receive, TypeOK
  <2>4. CASE IsDeselect(b) /\ ObserveDeselect
    <3>1. granted' \in Granted
      BY <1>0, <2>4, GrantTypes DEF ObserveDeselect
    <3>2. deselects' \in 0..MaxDeselects
      BY <1>5, <2>4, HandlerMachineAssumption DEF Receive, ObserveDeselect, TypeOK
    <3> QED BY <2>2, <2>3, <2>4, <3>1, <3>2, ForgetSessionType DEF ObserveDeselect, TypeOK
  <2>5. CASE Observe(b, outcome')
    <3>1. deselects' = deselects
      BY <2>5 DEF Observe
    <3> QED BY <2>1, <2>2, <2>3, <2>5, <3>1, ObserveType DEF TypeOK
  <2> QED BY <1>5, <2>4, <2>5 DEF Receive
<1>6. CASE UNCHANGED vars
  BY <1>6 DEF vars, history, exchange, TypeOK
<1> QED BY <1>1, <1>2, <1>3, <1>4, <1>5, <1>6 DEF Next

\* The handler keeps its types under every call and every block: the counters
\* stay in their widths, the block number stays a bit.
THEOREM TypeCorrect == Spec => []TypeOK
BY InitTypeOK, NextTypeOK, PTL DEF Spec

-----------------------------------------------------------------------------
(* The inductive invariant: numbering and assembly.                        *)

LEMMA InitIInv == Init => IInv
<1> SUFFICES ASSUME Init PROVE IInv
  OBVIOUS
<1>1. TypeOK
  BY InitTypeOK
<1>2. /\ handler.number = InitialBlockNumber(handler.role) /\ handler.chain = <<>>
      /\ outcome.kind = "Ok" /\ lastTaken = 1 /\ parity = 0 /\ assembled = <<>>
  BY OutcomeKinds DEF Init, NewHandler
<1> QED BY <1>1, <1>2 DEF IInv, InStep, InitialBlockNumber, NumbersAlternate,
           ChainAccounted, CompleteIsAssembled, Pending

\* What a bystander concludes when nothing was taken in.
LEMMA NothingTaken ==
  ASSUME IInv, NEW b \in Block, Observe(b, outcome'),
         ~ CarriesForward(b, outcome'), outcome'.kind # "Complete",
         handler'.role = handler.role, handler'.number = handler.number,
         outcome'.kind # "Err" => handler'.chain = handler.chain /\ outcome.kind # "Err"
  PROVE  (InStep /\ NumbersAlternate /\ ChainAccounted /\ CompleteIsAssembled)'
<1>1. lastTaken' = lastTaken /\ parity' = parity /\ assembled' = Pending
  BY DEF Observe
<1>2. Pending' = assembled'
  BY DEF Pending
<1> QED BY <1>1, <1>2 DEF IInv, InStep, NumbersAlternate, ChainAccounted, CompleteIsAssembled

LEMMA NextIInv == IInv /\ [Next]_vars => IInv'
<1> SUFFICES ASSUME IInv, [Next]_vars PROVE IInv'
  OBVIOUS
<1> DEFINE Goal == InStep /\ NumbersAlternate /\ ChainAccounted /\ CompleteIsAssembled
<1>0. TypeOK /\ TypeOK' /\ handler \in Handler /\ Goal
  BY NextTypeOK DEF IInv, TypeOK
<1>1. CASE StartExchange
  <2>1. /\ handler'.role = handler.role /\ handler'.number = handler.number
        /\ handler'.chain = <<>> /\ outcome'.kind = "Ok" /\ assembled' = <<>>
        /\ lastTaken' = lastTaken /\ parity' = parity
    BY <1>0, <1>1, SessionStartFields, OutcomeKinds DEF StartExchange
  <2> QED BY <1>0, <2>1 DEF IInv, InStep, NumbersAlternate, ChainAccounted,
             CompleteIsAssembled, Pending
<1>2. CASE Restart
  <2>1. /\ handler'.role = handler.role /\ handler'.chain = <<>>
        /\ handler'.number = InitialBlockNumber(handler.role)
        /\ outcome'.kind = "Ok" /\ assembled' = <<>>
        /\ lastTaken' = 1 /\ parity' = 0
    BY <1>0, <1>2, SessionStartFields, OutcomeKinds DEF Restart, ForgetSession
  <2> QED BY <1>0, <2>1 DEF IInv, InStep, InitialBlockNumber, NumbersAlternate,
             ChainAccounted, CompleteIsAssembled, Pending
<1>3. CASE ChangeLimits
  <2>1. PICK limits \in LimitChoices : handler' = WithLimits(handler, limits)
    BY <1>3 DEF ChangeLimits
  <2>2. /\ handler'.role = handler.role /\ handler'.number = handler.number
        /\ handler'.chain = handler.chain
    BY <1>0, <2>1 DEF WithLimits, Handler
  <2> QED BY <1>0, <1>3, <2>2 DEF ChangeLimits, IInv, InStep, NumbersAlternate,
             ChainAccounted, CompleteIsAssembled, Pending
<1>4. CASE AnswerPps
  <2>1. /\ handler'.role = handler.role /\ handler'.number = handler.number
        /\ outcome'.kind = "Err" \/ (outcome'.kind = "Ok" /\ handler'.chain = handler.chain)
    <3>1. CASE NoteFrame(handler).outcome # Ok
      <4>1. Failed(handler, NoteFrame(handler))
        BY <1>0, <3>1, NoteFrameEffect, StepFields
      <4> QED BY <1>4, <4>1 DEF AnswerPps, Failed, SameSession
    <3>2. CASE NoteFrame(handler).outcome = Ok
      <4>1. NoteFrame(handler).handler = Counted(handler)
        BY <1>0, <3>2, NoteFrameEffect, StepFields
      <4> QED BY <1>0, <1>4, <3>2, <4>1, NoteFrameEffect, OutcomeKinds
              DEF AnswerPps, SameSession
    <3> QED BY <3>1, <3>2
  <2>2. /\ lastTaken' = lastTaken /\ parity' = parity /\ assembled' = Pending
        /\ outcome.kind # "Err"
    BY <1>4 DEF AnswerPps
  <2> QED BY <1>0, <2>1, <2>2 DEF IInv, InStep, NumbersAlternate, ChainAccounted,
             CompleteIsAssembled, Pending
<1>5. ASSUME NEW b \in PeerBlocks, Receive(b) PROVE IInv'
  <2> DEFINE g == Counted(handler)
             step == ProcessReceived(handler, b)
  <2>1. b \in Block /\ outcome.kind # "Err"
    BY <1>5, HandlerMachineAssumption DEF Receive
  <2>2. handler' = step.handler /\ outcome' = step.outcome
    BY <1>5 DEF Receive
  <2>3. IF outcome'.kind # "Err" /\ IsDeselect(b) THEN ObserveDeselect
                                                  ELSE Observe(b, outcome')
    BY <1>5 DEF Receive
  <2>4. /\ g \in Handler /\ SameSession(g, handler) /\ g.chain = handler.chain
        /\ RepeatsLastIBlock(g, b) <=> RepeatsLastIBlock(handler, b)
    BY <1>0, NoteFrameEffect DEF SameSession, RepeatsLastIBlock
  <2>5. Failed(handler, step) \/ BlockEffect(g, b, step)
    BY <1>0, <2>1, ProcessReceivedEffect
  <2> HIDE DEF g, step
  <2>6. CASE Failed(handler, step)
    <3>1. /\ outcome'.kind = "Err" /\ handler'.role = handler.role
          /\ handler'.number = handler.number
      BY <2>2, <2>6 DEF Failed, SameSession
    <3>2. ~ CarriesForward(b, outcome')
      BY <3>1 DEF CarriesForward
    <3> QED BY <1>0, <2>1, <2>3, <3>1, <3>2, NothingTaken DEF IInv
  <2>7. CASE Failed(g, step)
    <3>1. /\ outcome'.kind = "Err" /\ handler'.role = handler.role
          /\ handler'.number = handler.number
      BY <2>2, <2>4, <2>7 DEF Failed, SameSession
    <3>2. ~ CarriesForward(b, outcome')
      BY <3>1 DEF CarriesForward
    <3> QED BY <1>0, <2>1, <2>3, <3>1, <3>2, NothingTaken DEF IInv
  <2>8. CASE AskedAgain(g, b, step)
    <3>1. /\ outcome'.kind \in {"ChainingRetransmit", "Reply"} /\ ~ IsDeselect(b)
          /\ handler'.role = handler.role /\ handler'.number = handler.number
          /\ handler'.chain = handler.chain /\ AsksAgain(b, outcome')
      BY <2>2, <2>4, <2>8 DEF AskedAgain, SameSession, AsksAgain
    <3>2. ~ CarriesForward(b, outcome')
      BY <3>1 DEF CarriesForward
    <3> QED BY <1>0, <2>1, <2>3, <3>1, <3>2, NothingTaken DEF IInv
  <2>9. CASE Polled(g, b, step) \/ ExtendedWait(g, b, step)
    <3>1. /\ outcome'.kind = "Reply" /\ ~ IsDeselect(b) /\ b.type # "I"
          /\ handler'.role = handler.role /\ handler'.number = handler.number
          /\ handler'.chain = handler.chain
      BY <2>2, <2>4, <2>9 DEF Polled, ExtendedWait, SameSession, IsDeselect
    <3>2. ~ CarriesForward(b, outcome')
      BY <3>1 DEF CarriesForward
    <3> QED BY <1>0, <2>1, <2>3, <3>1, <3>2, NothingTaken DEF IInv
  <2>10. CASE Acknowledged(g, b, step)
    <3>1. /\ outcome'.kind = "ChainingAck" /\ b.type = "R" /\ ~ IsDeselect(b)
          /\ handler'.role = handler.role /\ handler'.number = 1 - handler.number
          /\ handler'.chain = handler.chain
          /\ (handler.role = "Pcd") <=> (b.number = handler.number)
      BY <2>2, <2>4, <2>10 DEF Acknowledged, MovedOn, SameSession, IsDeselect
    <3>2. CarriesForward(b, outcome') /\ b.type # "I"
      BY <3>1 DEF CarriesForward
    <3>3. lastTaken' = b.number /\ parity' = 1 - parity /\ assembled' = Pending
      BY <2>3, <3>1, <3>2 DEF Observe
    <3>4. /\ b.number \in Bit /\ handler.number \in Bit /\ lastTaken \in Bit
          /\ parity \in Bit
      BY <1>0, <2>1, HandlerFields DEF Block, TypeOK
    <3>5. b.number = 1 - lastTaken
      BY <1>0, <3>1, <3>4 DEF InStep, Bit
    <3>6. InStep' /\ NumbersAlternate'
      BY <1>0, <3>1, <3>3, <3>4, <3>5 DEF InStep, NumbersAlternate, Bit
    <3>7. ChainAccounted' /\ CompleteIsAssembled'
      BY <1>0, <2>1, <3>1, <3>3 DEF ChainAccounted, CompleteIsAssembled, Pending
    <3> QED BY <1>0, <3>6, <3>7 DEF IInv
  <2>11. CASE TookIBlock(g, b, step)
    <3>1. /\ b.type = "I" /\ ~ IsDeselect(b) /\ ~ RepeatsLastIBlock(handler, b)
          /\ handler'.role = handler.role /\ handler'.number = 1 - handler.number
      BY <2>2, <2>4, <2>11 DEF TookIBlock, MovedOn, SameSession, IsDeselect
    <3>2. \/ /\ outcome'.kind = "Reply" /\ handler'.chain = handler.chain \o b.payload
          \/ /\ outcome'.kind = "Complete" /\ handler'.chain = <<>>
             /\ outcome'.data = handler.chain \o b.payload
      BY <2>2, <2>4, <2>11 DEF TookIBlock
    <3>3. CarriesForward(b, outcome')
      BY <3>1, <3>2 DEF CarriesForward, AsksAgain
    <3>4. /\ lastTaken' = b.number /\ parity' = 1 - parity
          /\ assembled' = Pending \o b.payload
      BY <2>3, <3>1, <3>3 DEF Observe
    <3>5. /\ b.number \in Bit /\ handler.number \in Bit /\ lastTaken \in Bit
          /\ parity \in Bit /\ handler.role \in {"Pcd", "Picc"}
      BY <1>0, <2>1, HandlerFields DEF Block, TypeOK, Role
    <3>6. b.number = 1 - lastTaken
      BY <1>0, <3>1, <3>5 DEF InStep, RepeatsLastIBlock, Bit
    <3>7. InStep' /\ NumbersAlternate'
      <4>1. b.number = IF handler.role = "Pcd" THEN handler.number ELSE 1 - handler.number
        BY <3>1, <3>5 DEF RepeatsLastIBlock, Bit
      <4> QED BY <1>0, <3>1, <3>4, <3>5, <3>6, <4>1 DEF InStep, NumbersAlternate, Bit
    <3>8. handler.chain = Pending
      BY <1>0, <2>1 DEF ChainAccounted
    <3>9. ChainAccounted' /\ CompleteIsAssembled'
      BY <3>2, <3>4, <3>8 DEF ChainAccounted, CompleteIsAssembled, Pending
    <3> QED BY <1>0, <3>7, <3>9 DEF IInv
  <2>12. CASE Deselected(g, b, step)
    <3>1. /\ outcome'.kind = "Reply" /\ IsDeselect(b) /\ handler' = Reset(g)
      BY <2>2, <2>12 DEF Deselected
    <3>2. lastTaken' = 1 /\ parity' = 0 /\ assembled' = <<>>
      BY <2>3, <3>1 DEF ObserveDeselect, ForgetSession
    <3>3. handler'.number = InitialBlockNumber(handler'.role) /\ handler'.chain = <<>>
      BY <2>4, <3>1, SessionStartFields
    <3> QED BY <1>0, <3>1, <3>2, <3>3 DEF IInv, InStep, InitialBlockNumber, NumbersAlternate,
               ChainAccounted, CompleteIsAssembled, Pending
  <2> QED BY <2>5, <2>6, <2>7, <2>8, <2>9, <2>10, <2>11, <2>12 DEF BlockEffect
<1>6. CASE UNCHANGED vars
  BY <1>6, <1>0 DEF vars, history, exchange, IInv, InStep, NumbersAlternate, ChainAccounted,
     CompleteIsAssembled, Pending
<1> QED BY <1>1, <1>2, <1>3, <1>4, <1>5, <1>6 DEF Next

\* Whatever the peer repeats or skips, the handler takes the blocks of a session
\* in as numbers 0, 1, 0, 1, ...
THEOREM NumbersAlternateAlways == Spec => []NumbersAlternate
<1>1. IInv => NumbersAlternate
  BY DEF IInv
<1> QED BY InitIInv, NextIInv, <1>1, PTL DEF Spec

\* A delivered APDU is what the I-Blocks taken in for it carried, for any limits
\* and any buffer size.
THEOREM CompleteIsAssembledAlways == Spec => []CompleteIsAssembled
<1>1. IInv => CompleteIsAssembled
  BY DEF IInv
<1> QED BY InitIInv, NextIInv, <1>1, PTL DEF Spec

-----------------------------------------------------------------------------
(* The work limits.  Below the width of the counters the saturating        *)
(* increments are exact, so the counters are what the bystander counts.    *)

LEMMA ExactCounts ==
  ASSUME NEW c \in CountersType
  PROVE  /\ CountFrame(c).frames < U16Max => CountFrame(c) = GrantFrame(c)
         /\ CountRetransmission(c).retransmissions < U8Max =>
              CountRetransmission(c) = GrantRepeat(c)
         /\ /\ CountTotalWtx(CountConsecutiveWtx(c)).consecutive_wtx < U8Max
            /\ CountTotalWtx(CountConsecutiveWtx(c)).total_wtx < U16Max
            => CountTotalWtx(CountConsecutiveWtx(c)) = GrantWait(c)
         /\ NoteProgress(c) = EndRuns(c)
<1>1. /\ c.frames \in U16 /\ c.total_wtx \in U16
      /\ c.retransmissions \in U8 /\ c.consecutive_wtx \in U8
  BY DEF CountersType
<1>2. \A n \in U8 : SaturatingIncrement(n, U8Max) < U8Max =>
                      SaturatingIncrement(n, U8Max) = n + 1
  BY WidthsAreNat DEF U8, SaturatingIncrement
<1>3. \A n \in U16 : SaturatingIncrement(n, U16Max) < U16Max =>
                       SaturatingIncrement(n, U16Max) = n + 1
  BY WidthsAreNat DEF U16, SaturatingIncrement
<1>4. CountFrame(c).frames = SaturatingIncrement(c.frames, U16Max)
  BY DEF CountFrame, CountersType
<1>5. CountFrame(c).frames < U16Max => CountFrame(c) = GrantFrame(c)
  BY <1>1, <1>3, <1>4 DEF CountFrame, GrantFrame
<1>6. CountRetransmission(c).retransmissions = SaturatingIncrement(c.retransmissions, U8Max)
  BY DEF CountRetransmission, CountersType
<1>7. CountRetransmission(c).retransmissions < U8Max =>
        CountRetransmission(c) = GrantRepeat(c)
  BY <1>1, <1>2, <1>6 DEF CountRetransmission, GrantRepeat
<1>8. LET w == CountTotalWtx(CountConsecutiveWtx(c)) IN
      /\ w.consecutive_wtx = SaturatingIncrement(c.consecutive_wtx, U8Max)
      /\ w.total_wtx = SaturatingIncrement(c.total_wtx, U16Max)
      /\ w = [c EXCEPT !.consecutive_wtx = SaturatingIncrement(c.consecutive_wtx, U8Max),
                       !.total_wtx = SaturatingIncrement(c.total_wtx, U16Max)]
  BY DEF CountTotalWtx, CountConsecutiveWtx, CountersType
<1>9. /\ CountTotalWtx(CountConsecutiveWtx(c)).consecutive_wtx < U8Max
      /\ CountTotalWtx(CountConsecutiveWtx(c)).total_wtx < U16Max
      => CountTotalWtx(CountConsecutiveWtx(c)) = GrantWait(c)
  BY <1>1, <1>2, <1>3, <1>8 DEF GrantWait
<1>10. NoteProgress(c) = EndRuns(c)
  BY DEF NoteProgress, EndRuns
<1> QED BY <1>5, <1>7, <1>9, <1>10

\* A limit is below the width of its counter, and both are natural numbers.
LEMMA LimitNumbers ==
  ASSUME NEW l \in LimitsType, BelowWidth(l)
  PROVE  /\ l.max_frames \in Nat /\ l.max_frames < U16Max
         /\ l.max_retransmissions \in Nat /\ l.max_retransmissions < U8Max
         /\ l.max_consecutive_wtx \in Nat /\ l.max_consecutive_wtx < U8Max
         /\ l.max_total_wtx \in Nat /\ l.max_total_wtx < U16Max
         /\ U8Max \in Nat /\ U16Max \in Nat
<1>1. /\ l.max_frames \in U16 /\ l.max_total_wtx \in U16
      /\ l.max_retransmissions \in U8 /\ l.max_consecutive_wtx \in U8
  BY DEF LimitsType
<1> QED BY <1>1, WidthsAreNat DEF U8, U16, BelowWidth

LEMMA CounterNumbers ==
  ASSUME NEW c \in CountersType
  PROVE  /\ c.frames \in Nat /\ c.retransmissions \in Nat
         /\ c.consecutive_wtx \in Nat /\ c.total_wtx \in Nat
<1>1. /\ c.frames \in U16 /\ c.total_wtx \in U16
      /\ c.retransmissions \in U8 /\ c.consecutive_wtx \in U8
  BY DEF CountersType
<1> QED BY <1>1, WidthsAreNat DEF U8, U16

\* GrantsWithin, field by field.
LEMMA GrantsFieldwise ==
  ASSUME NEW l \in LimitsType, granted \in Granted,
         granted'.frames > granted.frames => granted'.frames <= l.max_frames,
         granted'.retransmissions > granted.retransmissions =>
           granted'.retransmissions <= l.max_retransmissions,
         granted'.consecutive_wtx > granted.consecutive_wtx =>
           granted'.consecutive_wtx <= l.max_consecutive_wtx,
         granted'.total_wtx > granted.total_wtx =>
           granted'.total_wtx <= l.max_total_wtx,
         Len(assembled') > Len(assembled) => Len(assembled') <= l.max_chain_len
  PROVE  GrantsWithin(l)
<1>1. DOMAIN granted = {"frames", "retransmissions", "consecutive_wtx", "total_wtx"}
  BY DEF Granted
<1>2. ASSUME NEW w \in DOMAIN granted, granted'[w] > granted[w]
      PROVE  granted'[w] <= GrantBound(l)[w]
  <2>1. CASE w = "frames"
    BY <1>2, <2>1 DEF GrantBound
  <2>2. CASE w = "retransmissions"
    BY <1>2, <2>2 DEF GrantBound
  <2>3. CASE w = "consecutive_wtx"
    BY <1>2, <2>3 DEF GrantBound
  <2>4. CASE w = "total_wtx"
    BY <1>2, <2>4 DEF GrantBound
  <2> QED BY <1>1, <2>1, <2>2, <2>3, <2>4
<1> QED BY <1>2 DEF GrantsWithin

\* A step that grants nothing keeps within any limits.
LEMMA NothingNewGranted ==
  ASSUME TypeOK, granted' = granted \/ granted' = NothingGranted,
         assembled' \in {assembled, Pending, <<>>}
  PROVE  GrantsWithin(handler.limits)
<1>1. granted \in Granted /\ handler.limits \in LimitsType
  BY HandlerFields DEF TypeOK
<1>2. /\ granted'.frames <= granted.frames
      /\ granted'.retransmissions <= granted.retransmissions
      /\ granted'.consecutive_wtx <= granted.consecutive_wtx
      /\ granted'.total_wtx <= granted.total_wtx
  BY <1>1 DEF Granted, NothingGranted
<1>3. /\ granted'.frames \in Nat /\ granted'.retransmissions \in Nat
      /\ granted'.consecutive_wtx \in Nat /\ granted'.total_wtx \in Nat
      /\ granted.frames \in Nat /\ granted.retransmissions \in Nat
      /\ granted.consecutive_wtx \in Nat /\ granted.total_wtx \in Nat
  BY <1>1 DEF Granted, NothingGranted
<1>4. ~ (Len(assembled') > Len(assembled))
  <2>1. Pending \in {assembled, <<>>}
    BY DEF Pending
  <2>2. assembled \in Seq(Byte)
    BY DEF TypeOK
  <2> QED BY <2>1, <2>2
<1>5. /\ ~ (granted'.frames > granted.frames)
      /\ ~ (granted'.retransmissions > granted.retransmissions)
      /\ ~ (granted'.consecutive_wtx > granted.consecutive_wtx)
      /\ ~ (granted'.total_wtx > granted.total_wtx)
  BY <1>2, <1>3
<1> QED BY <1>1, <1>4, <1>5, GrantsFieldwise

WorkStep == WorkAccounted' /\ GrantsWithin(handler.limits)

\* Receiving a block, for the answers that grant something: what is granted is
\* what the counters of the handler say, and those were checked.
LEMMA ReceiveWork ==
  ASSUME LimitsBelowWidth, IInv, WorkAccounted, TypeOK', deselects = 0,
         NEW b \in PeerBlocks, Receive(b)
  PROVE  WorkStep
<1> DEFINE g == Counted(handler)
           l == handler.limits
           step == ProcessReceived(handler, b)
<1>1. /\ b \in Block /\ outcome.kind # "Err" /\ TypeOK /\ handler \in Handler
      /\ granted = handler.counters /\ l \in LimitChoices
  BY HandlerMachineAssumption DEF Receive, IInv, TypeOK, WorkAccounted
<1>2. /\ handler' = step.handler /\ outcome' = step.outcome
      /\ IF outcome'.kind # "Err" /\ IsDeselect(b) THEN ObserveDeselect
                                                    ELSE Observe(b, outcome')
  BY DEF Receive
<1>3. /\ g \in Handler /\ SameSession(g, handler) /\ g.chain = handler.chain
      /\ g.counters = CountFrame(handler.counters) /\ g.limits = l
      /\ RepeatsLastIBlock(g, b) <=> RepeatsLastIBlock(handler, b)
  BY <1>1, NoteFrameEffect DEF SameSession, RepeatsLastIBlock
<1>4. /\ l \in LimitsType /\ BelowWidth(l) /\ handler.counters \in CountersType
      /\ g.counters \in CountersType /\ granted \in Granted
      /\ handler'.counters \in CountersType
  BY <1>1, <1>3, HandlerFields DEF LimitsBelowWidth, TypeOK
<1>5. \/ Failed(handler, step)
      \/ g.counters.frames <= l.max_frames /\ BlockEffect(g, b, step)
  BY <1>1, ProcessReceivedEffect
<1>6. g.counters.frames <= l.max_frames => g.counters = GrantFrame(granted)
  <2>1. g.counters.frames \in Nat
    BY <1>4, CounterNumbers
  <2> QED BY <1>1, <1>3, <1>4, <2>1, ExactCounts, LimitNumbers
<1>7. /\ granted.frames \in Nat /\ granted.retransmissions \in Nat
      /\ granted.consecutive_wtx \in Nat /\ granted.total_wtx \in Nat
  BY <1>4 DEF Granted
<1> HIDE DEF g, l, step
<1>8. CASE Failed(handler, step) \/ Failed(g, step)
  <2>1. outcome'.kind = "Err" /\ handler'.limits = l
    BY <1>2, <1>3, <1>8 DEF Failed, SameSession, l
  <2>2. granted' = granted /\ assembled' = Pending
    BY <1>2, <2>1 DEF Observe, Charge, CarriesForward, AsksAgain
  <2>3. GrantsWithin(l)
    BY <1>1, <2>2, NothingNewGranted DEF l
  <2> QED BY <1>1, <2>1, <2>3 DEF WorkStep, WorkAccounted, l
<1>9. CASE g.counters.frames <= l.max_frames /\ AskedAgain(g, b, step)
  <2>1. /\ outcome'.kind \in {"ChainingRetransmit", "Reply"} /\ ~ IsDeselect(b)
        /\ handler'.limits = l /\ AsksAgain(b, outcome')
        /\ handler'.counters = CountRetransmission(g.counters)
        /\ handler'.counters.retransmissions <= l.max_retransmissions
    BY <1>2, <1>3, <1>9 DEF AskedAgain, SameSession, AsksAgain
  <2>2. ~ CarriesForward(b, outcome')
    BY <2>1 DEF CarriesForward
  <2>3. granted' = GrantRepeat(GrantFrame(granted)) /\ assembled' = Pending
    <3>1. ~ (outcome'.kind = "Reply" /\ b.type = "S") /\ outcome'.kind # "Err"
      BY <2>1 DEF AsksAgain
    <3> QED BY <1>2, <2>1, <2>2, <3>1 DEF Observe, Charge
  <2>4. handler'.counters = GrantRepeat(g.counters)
    <3>1. handler'.counters.retransmissions \in Nat
      BY <1>4, CounterNumbers
    <3> QED BY <1>4, <2>1, <3>1, ExactCounts, LimitNumbers
  <2>5. granted' = handler'.counters
    BY <1>6, <1>9, <2>3, <2>4
  <2>6. /\ granted'.frames = g.counters.frames
        /\ granted'.consecutive_wtx = granted.consecutive_wtx
        /\ granted'.total_wtx = granted.total_wtx
    BY <1>4, <1>6, <1>9, <2>3 DEF Granted, GrantFrame, GrantRepeat
  <2>7. ~ (Len(assembled') > Len(assembled))
    BY <1>1, <2>3 DEF Pending, TypeOK
  <2>8. GrantsWithin(l)
    BY <1>4, <1>7, <1>9, <2>1, <2>5, <2>6, <2>7, GrantsFieldwise
  <2> QED BY <1>1, <2>1, <2>5, <2>8 DEF WorkStep, WorkAccounted, l
<1>10. CASE g.counters.frames <= l.max_frames
            /\ (Acknowledged(g, b, step) \/ TookIBlock(g, b, step))
  <2>1. /\ outcome'.kind \in {"ChainingAck", "Complete", "Reply"} /\ ~ IsDeselect(b)
        /\ handler'.limits = l /\ CarriesForward(b, outcome')
        /\ handler'.counters = NoteProgress(g.counters)
    BY <1>2, <1>3, <1>10 DEF Acknowledged, TookIBlock, MovedOn, AsksAgain, CarriesForward,
       IsDeselect
  <2>2. granted' = EndRuns(GrantFrame(granted))
    <3>1. /\ ~ AsksAgain(b, outcome') /\ outcome'.kind # "Err"
          /\ ~ (outcome'.kind = "Reply" /\ b.type = "S")
      BY <2>1 DEF AsksAgain, CarriesForward
    <3> QED BY <1>2, <2>1, <3>1 DEF Observe, Charge
  <2>3. granted' = handler'.counters
    BY <1>4, <1>6, <1>10, <2>1, <2>2, ExactCounts
  <2>4. /\ granted'.frames = g.counters.frames /\ granted'.retransmissions = 0
        /\ granted'.consecutive_wtx = 0 /\ granted'.total_wtx = granted.total_wtx
    BY <1>4, <1>6, <1>10, <2>2 DEF Granted, GrantFrame, EndRuns
  <2>5. Len(assembled') > Len(assembled) => Len(assembled') <= l.max_chain_len
    <3>1. CASE Acknowledged(g, b, step)
      <4>1. assembled' = Pending
        BY <1>2, <2>1, <3>1 DEF Observe, Acknowledged
      <4> QED BY <1>1, <4>1 DEF Pending, TypeOK
    <3>2. CASE TookIBlock(g, b, step)
      <4>1. assembled' = Pending \o b.payload
        BY <1>2, <2>1, <3>2 DEF Observe, TookIBlock
      <4>2. Pending = g.chain
        BY <1>1, <1>3 DEF IInv, ChainAccounted
      <4>3. g.chain \in Seq(Byte) /\ b.payload \in Seq(Byte)
        BY <1>1, <1>3, HandlerFields DEF Block
      <4>4. Len(g.chain) + Len(b.payload) <= l.max_chain_len
        BY <1>3, <3>2 DEF TookIBlock
      <4>5. Len(g.chain \o b.payload) = Len(g.chain) + Len(b.payload)
        BY <4>3
      <4> QED BY <4>1, <4>2, <4>4, <4>5
    <3> QED BY <1>10, <3>1, <3>2
  <2>6. GrantsWithin(l)
    BY <1>4, <1>7, <1>10, <2>4, <2>5, GrantsFieldwise
  <2> QED BY <1>1, <2>1, <2>3, <2>6 DEF WorkStep, WorkAccounted, l
<1>11. CASE g.counters.frames <= l.max_frames /\ Polled(g, b, step)
  <2>1. /\ outcome'.kind = "Reply" /\ b.type = "R" /\ ~ IsDeselect(b)
        /\ handler' = g
    BY <1>2, <1>11 DEF Polled, IsDeselect
  <2>2. granted' = GrantFrame(granted) /\ assembled' = Pending
    BY <1>2, <2>1 DEF Observe, Charge, CarriesForward, AsksAgain
  <2>3. granted' = handler'.counters /\ handler'.limits = l
    BY <1>3, <1>6, <1>11, <2>1, <2>2
  <2>4. /\ granted'.frames = g.counters.frames
        /\ granted'.retransmissions = granted.retransmissions
        /\ granted'.consecutive_wtx = granted.consecutive_wtx
        /\ granted'.total_wtx = granted.total_wtx
    BY <1>4, <1>6, <1>11, <2>2 DEF Granted, GrantFrame
  <2>5. ~ (Len(assembled') > Len(assembled))
    BY <1>1, <2>2 DEF Pending, TypeOK
  <2>6. GrantsWithin(l)
    BY <1>4, <1>7, <1>11, <2>4, <2>5, GrantsFieldwise
  <2> QED BY <1>1, <2>3, <2>6 DEF WorkStep, WorkAccounted, l
<1>12. CASE g.counters.frames <= l.max_frames /\ ExtendedWait(g, b, step)
  <2>1. /\ outcome'.kind = "Reply" /\ b.type = "S" /\ ~ IsDeselect(b)
        /\ handler'.limits = l
        /\ handler'.counters = CountTotalWtx(CountConsecutiveWtx(g.counters))
        /\ handler'.counters.consecutive_wtx <= l.max_consecutive_wtx
        /\ handler'.counters.total_wtx <= l.max_total_wtx
    BY <1>2, <1>3, <1>12 DEF ExtendedWait, SameSession
  <2>2. granted' = GrantWait(GrantFrame(granted)) /\ assembled' = Pending
    BY <1>2, <2>1 DEF Observe, Charge, CarriesForward, AsksAgain
  <2>3. handler'.counters = GrantWait(g.counters)
    <3>1. handler'.counters.consecutive_wtx \in Nat /\ handler'.counters.total_wtx \in Nat
      BY <1>4, CounterNumbers
    <3> QED BY <1>4, <2>1, <3>1, ExactCounts, LimitNumbers
  <2>4. granted' = handler'.counters
    BY <1>6, <1>12, <2>2, <2>3
  <2>5. /\ granted'.frames = g.counters.frames
        /\ granted'.retransmissions = granted.retransmissions
    BY <1>4, <1>6, <1>12, <2>2 DEF Granted, GrantFrame, GrantWait
  <2>6. ~ (Len(assembled') > Len(assembled))
    BY <1>1, <2>2 DEF Pending, TypeOK
  <2>7. GrantsWithin(l)
    BY <1>4, <1>7, <1>12, <2>1, <2>4, <2>5, <2>6, GrantsFieldwise
  <2> QED BY <1>1, <2>1, <2>4, <2>7 DEF WorkStep, WorkAccounted, l
<1>13. CASE g.counters.frames <= l.max_frames /\ Deselected(g, b, step)
  <2>1. /\ outcome'.kind = "Reply" /\ IsDeselect(b) /\ handler' = Reset(g)
    BY <1>2, <1>13 DEF Deselected
  <2>2. granted' = GrantFrame(granted) /\ assembled' = <<>> /\ deselects' = 1
    BY <1>2, <2>1 DEF ObserveDeselect, ForgetSession
  <2>3. handler'.limits = l
    BY <1>3, <2>1, SessionStartFields
  <2>4. /\ granted'.frames = g.counters.frames /\ g.counters.frames <= l.max_frames
        /\ granted'.retransmissions = granted.retransmissions
        /\ granted'.consecutive_wtx = granted.consecutive_wtx
        /\ granted'.total_wtx = granted.total_wtx
    BY <1>4, <1>6, <1>13, <2>2 DEF Granted, GrantFrame
  <2>5. ~ (Len(assembled') > Len(assembled))
    BY <1>1, <2>2 DEF TypeOK
  <2>6. GrantsWithin(l)
    BY <1>4, <1>7, <2>4, <2>5, GrantsFieldwise
  <2> QED BY <1>1, <2>2, <2>3, <2>6 DEF WorkStep, WorkAccounted, l
<1> QED BY <1>5, <1>8, <1>9, <1>10, <1>11, <1>12, <1>13 DEF BlockEffect

LEMMA InitWork == Init => WorkAccounted
<1> SUFFICES ASSUME NEW role \in Role, NEW limits \in LimitChoices,
                    handler = NewHandler(role, limits), granted = NothingGranted
             PROVE  WorkAccounted
  BY DEF Init
<1> QED BY DEF WorkAccounted, NewHandler, ZeroCounters, NothingGranted

LEMMA NextWork ==
  ASSUME LimitsBelowWidth, IInv, WorkAccounted, [Next]_vars
  PROVE  WorkAccounted' /\ [deselects = 0 => GrantsWithin(handler.limits)]_vars
<1>0. /\ TypeOK /\ TypeOK' /\ handler \in Handler /\ handler.limits \in LimitChoices
      /\ handler.limits \in LimitsType /\ granted \in Granted /\ granted' \in Granted
  BY NextTypeOK, HandlerFields DEF IInv, TypeOK, WorkAccounted
<1>1. CASE StartExchange
  <2>1. /\ granted' = NothingGranted /\ assembled' = <<>>
        /\ handler'.counters = ZeroCounters /\ handler'.limits = handler.limits
    BY <1>0, <1>1, SessionStartFields DEF StartExchange, NewExchange
  <2>2. GrantsWithin(handler.limits)
    BY <1>0, <2>1, NothingNewGranted
  <2> QED BY <1>0, <2>1, <2>2 DEF WorkAccounted, ZeroCounters, NothingGranted
<1>2. CASE Restart
  <2>1. /\ granted' = NothingGranted /\ assembled' = <<>>
        /\ handler'.counters = ZeroCounters /\ handler'.limits = handler.limits
    BY <1>0, <1>2, SessionStartFields DEF Restart, ForgetSession, NewExchange
  <2>2. GrantsWithin(handler.limits)
    BY <1>0, <2>1, NothingNewGranted
  <2> QED BY <1>0, <2>1, <2>2 DEF WorkAccounted, ZeroCounters, NothingGranted
<1>3. CASE ChangeLimits
  <2>1. PICK limits \in LimitChoices : handler' = WithLimits(handler, limits)
    BY <1>3 DEF ChangeLimits
  <2>2. handler'.limits = limits /\ handler'.counters = handler.counters
    BY <1>0, <2>1 DEF WithLimits, Handler
  <2>3. /\ granted' = granted /\ assembled' = assembled /\ outcome' = outcome
        /\ deselects' = deselects
    BY <1>3 DEF ChangeLimits
  <2>4. GrantsWithin(handler.limits)
    BY <1>0, <2>3, NothingNewGranted
  <2> QED BY <2>2, <2>3, <2>4 DEF WorkAccounted
<1>4. CASE AnswerPps /\ deselects = 0
  <2>1. /\ outcome.kind # "Err" /\ granted = handler.counters /\ assembled' = Pending
        /\ outcome' = NoteFrame(handler).outcome /\ handler' = NoteFrame(handler).handler
    BY <1>4 DEF AnswerPps, WorkAccounted
  <2>2. CASE NoteFrame(handler).outcome # Ok
    <3>1. Failed(handler, NoteFrame(handler))
      BY <1>0, <2>2, NoteFrameEffect, StepFields
    <3>2. /\ outcome'.kind = "Err" /\ handler'.limits = handler.limits
          /\ granted' = granted
      BY <1>4, <2>1, <3>1 DEF AnswerPps, Failed, SameSession
    <3>3. GrantsWithin(handler.limits)
      BY <1>0, <2>1, <3>2, NothingNewGranted
    <3> QED BY <1>0, <3>2, <3>3 DEF WorkAccounted
  <2>3. CASE NoteFrame(handler).outcome = Ok
    <3>1. /\ handler' = Counted(handler) /\ handler'.limits = handler.limits
          /\ handler'.counters = CountFrame(handler.counters)
          /\ handler'.counters.frames <= handler.limits.max_frames
      BY <1>0, <2>1, <2>3, NoteFrameEffect, StepFields DEF SameSession
    <3>2. granted' = GrantFrame(granted)
      BY <1>4, <2>1, <2>3, OutcomeKinds DEF AnswerPps
    <3>3. handler'.counters = GrantFrame(granted)
      <4>1. /\ BelowWidth(handler.limits) /\ handler.counters \in CountersType
            /\ handler'.counters \in CountersType
        BY <1>0, HandlerFields DEF LimitsBelowWidth, TypeOK
      <4>2. handler'.counters.frames \in Nat
        BY <4>1, CounterNumbers
      <4> QED BY <1>0, <2>1, <3>1, <4>1, <4>2, ExactCounts, LimitNumbers
    <3>4. /\ granted'.frames <= handler.limits.max_frames
          /\ granted'.retransmissions = granted.retransmissions
          /\ granted'.consecutive_wtx = granted.consecutive_wtx
          /\ granted'.total_wtx = granted.total_wtx
      BY <1>0, <3>1, <3>2, <3>3 DEF Granted, GrantFrame
    <3>5. /\ granted.retransmissions \in Nat /\ granted.consecutive_wtx \in Nat
          /\ granted.total_wtx \in Nat
      BY <1>0 DEF Granted
    <3>6. ~ (Len(assembled') > Len(assembled))
      BY <1>0, <2>1 DEF Pending, TypeOK
    <3>7. GrantsWithin(handler.limits)
      BY <1>0, <3>4, <3>5, <3>6, GrantsFieldwise
    <3> QED BY <1>0, <3>1, <3>2, <3>3, <3>7 DEF WorkAccounted
  <2> QED BY <2>2, <2>3
<1>5. ASSUME NEW b \in PeerBlocks, Receive(b), deselects = 0
      PROVE  WorkAccounted' /\ GrantsWithin(handler.limits)
  BY <1>0, <1>5, ReceiveWork DEF WorkStep
<1>6. CASE deselects # 0 /\ (AnswerPps \/ \E b \in PeerBlocks : Receive(b))
  <2>1. handler'.limits = handler.limits
    <3>1. CASE AnswerPps
      <4>1. /\ SameSession(NoteFrame(handler).handler, handler)
        BY <1>0, NoteFrameEffect, StepFields DEF Failed
      <4> QED BY <3>1, <4>1 DEF AnswerPps, SameSession
    <3>2. ASSUME NEW b \in PeerBlocks, Receive(b) PROVE handler'.limits = handler.limits
      BY <1>0, <3>2, HandlerMachineAssumption, ReceivedCounts DEF Receive
    <3> QED BY <1>6, <3>1, <3>2
  <2>2. deselects \in Nat /\ deselects' \in {deselects, deselects + 1}
    BY <1>0, <1>6, HandlerMachineAssumption
       DEF AnswerPps, Receive, Observe, ObserveDeselect, TypeOK
  <2> QED BY <1>0, <1>6, <2>1, <2>2 DEF WorkAccounted
<1>7. CASE UNCHANGED vars
  BY <1>7 DEF vars, history, exchange, WorkAccounted
<1> QED BY <1>1, <1>2, <1>3, <1>4, <1>5, <1>6, <1>7 DEF Next

\* Until it deselects a reader, no peer gets more work out of an exchange than
\* the limits in force allow, as long as no limit is the largest value of its
\* counter: at that value the saturating counter never exceeds the limit.
THEOREM WorkBoundedAlways ==
  ASSUME LimitsBelowWidth
  PROVE  Spec => WorkBounded
<1>1. IInv /\ WorkAccounted /\ [Next]_vars =>
        [deselects = 0 => GrantsWithin(handler.limits)]_vars
  BY NextWork
<1>2. IInv /\ WorkAccounted /\ [Next]_vars => WorkAccounted'
  BY NextWork
<1> QED BY InitIInv, NextIInv, InitWork, <1>1, <1>2, PTL DEF Spec, WorkBounded
=============================================================================
