--------------------------- MODULE ProtocolHandler ---------------------------
(***************************************************************************)
(* The block handler of protocol.rs, shared by reader and card: block      *)
(* numbering, chain assembly and the work limits.  Every method of         *)
(* ProtocolHandler is an operator from a handler (and a block) to a Step:  *)
(* the handler afterwards and the outcome handed to the caller.            *)
(***************************************************************************)
EXTENDS Limits, Blocks

CONSTANT ChainCapacity     \* bytes a ChainVec holds (1024 without alloc)

ASSUME ChainCapacityAssumption == ChainCapacity \in Nat

Role == {"Pcd", "Picc"}

Handler == [role     : Role,
            number   : Bit,
            chain    : Seq(Byte),
            limits   : LimitsType,
            counters : CountersType]

-----------------------------------------------------------------------------
(* Outcomes: enum Action, or the error of a failed call.  "Ok" is the      *)
(* answer of a call that returns nothing.                                  *)

Ok             == [kind |-> "Ok"]
Complete(data) == [kind |-> "Complete", data |-> data]
Reply(block)   == [kind |-> "Reply", block |-> block]
ChainingAck    == [kind |-> "ChainingAck"]
Retransmit     == [kind |-> "ChainingRetransmit"]
Fails(error)   == [kind |-> "Err", error |-> error]

Error == Limit \cup {"BufferFull", "InvalidPcb", "Other"}

Outcome == {Ok, ChainingAck, Retransmit}
             \cup [kind : {"Complete"}, data : Seq(Byte)]
             \cup [kind : {"Reply"}, block : Block]
             \cup [kind : {"Err"}, error : Error]

Step(h, outcome) == [handler |-> h, outcome |-> outcome]

-----------------------------------------------------------------------------
InitialBlockNumber(role) == IF role = "Pcd" THEN 0 ELSE 1

NewHandler(role, limits) ==
    [role |-> role, number |-> InitialBlockNumber(role), chain |-> <<>>,
     limits |-> limits, counters |-> ZeroCounters]

WithLimits(h, limits) == [h EXCEPT !.limits = limits]

\* Mutant: a failed chain is kept for the next exchange.
BeginExchangeKeepingChain(h) == [h EXCEPT !.counters = ZeroCounters]

BeginExchange(h) == [h EXCEPT !.chain = <<>>, !.counters = ZeroCounters]

Reset(h) == BeginExchange([h EXCEPT !.number = InitialBlockNumber(h.role)])

\* Mutant: the block number is counted up, not toggled.
ToggleWithoutWrap(h) == [h EXCEPT !.number = @ + 1]

Toggle(h) == [h EXCEPT !.number = 1 - @]

RAck(h) == RBlock(h.number, "Ack")

\* A limit is exceeded: the exchange fails and the chain is dropped.
Exceeded(h, limit) == Step([h EXCEPT !.chain = <<>>], Fails(limit))

\* Mutant: the count that is checked is not kept.
NoteFrameLosingCount(h) ==
    IF CountFrame(h.counters).frames > h.limits.max_frames
    THEN Exceeded(h, "Frames") ELSE Step(h, Ok)

\* note_frame().
NoteFrame(h) ==
    LET counted == [h EXCEPT !.counters = CountFrame(@)]
    IN  IF counted.counters.frames > h.limits.max_frames
        THEN Exceeded(counted, "Frames")
        ELSE Step(counted, Ok)

\* Mutant: the count is checked before the repeat is charged.
NoteRetransmitLate(h, outcome) ==
    IF h.counters.retransmissions > h.limits.max_retransmissions
    THEN Exceeded(h, "Retransmissions")
    ELSE Step([h EXCEPT !.counters = CountRetransmission(@)], outcome)

\* note_retransmit(), then the outcome of the caller.
NoteRetransmit(h, outcome) ==
    LET counted == [h EXCEPT !.counters = CountRetransmission(@)]
    IN  IF counted.counters.retransmissions > h.limits.max_retransmissions
        THEN Exceeded(counted, "Retransmissions")
        ELSE Step(counted, outcome)

\* Mutant: an acknowledgement leaves the block number as it is.
AdvanceWithoutToggle(h, outcome) ==
    Step([h EXCEPT !.counters = NoteProgress(@)], outcome)

\* A block that carries the exchange forward, seen by process_rblock.
Advance(h, outcome) ==
    Step(Toggle([h EXCEPT !.counters = NoteProgress(@)]), outcome)

\* Mutant: both roles expect their own number back.
RepeatsForeignNumber(h, b) == b.number # h.number

\* In step, the PCD is sent its own number and the PICC the other one.
RepeatsLastIBlock(h, b) == IF h.role = "Pcd" THEN b.number # h.number
                                             ELSE b.number = h.number

\* The new I-Block b taken into the chain: toggle, then acknowledge or deliver.
TakeIBlock(h, b) ==
    LET taken == Toggle([h EXCEPT !.counters = NoteProgress(@),
                                  !.chain = @ \o b.payload])
    IN  IF b.chaining
        THEN Step(taken, Reply(RAck(taken)))
        ELSE Step([taken EXCEPT !.chain = <<>>], Complete(taken.chain))

ProcessIBlock(h, b) ==
    LET length == Len(h.chain) + Len(b.payload)
    IN  IF RepeatsLastIBlock(h, b)
        THEN NoteRetransmit(h, Reply(RAck(h)))
        ELSE IF length > h.limits.max_chain_len
        THEN Exceeded(h, "ChainLength")
        ELSE IF length > ChainCapacity     \* try_extend fails
        THEN Step([h EXCEPT !.counters = NoteProgress(@)], Fails("BufferFull"))
        ELSE TakeIBlock(h, b)

\* Rules 6, 7, 11, 12, 13, B and E.
ProcessRBlock(h, b) ==
    LET mine == b.number = h.number
    IN  CASE b.subtype \notin {"Ack", "Nak"} -> Step(h, Fails("InvalidPcb"))
          [] h.role = "Pcd" /\ b.subtype = "Ack" /\ mine ->
               Advance(h, ChainingAck)
          [] /\ h.role = "Pcd"
             /\ b.subtype \in {"Ack", "Nak"}
             /\ ~ (b.subtype = "Ack" /\ mine) ->
               NoteRetransmit(h, Retransmit)
          [] h.role = "Picc" /\ b.subtype \in {"Ack", "Nak"} /\ mine ->
               NoteRetransmit(h, Retransmit)
          [] h.role = "Picc" /\ b.subtype = "Ack" /\ ~ mine ->
               Advance(h, ChainingAck)
          [] OTHER ->     \* Rule 12: the PICC polled with a foreign R(NAK)
               Step(h, Reply(RAck(h)))

\* sec. 7.3: one byte of INF whose low six bits are 1 to 59.
ValidWtx(b) == /\ Len(b.payload) = 1
               /\ b.payload[1] % 64 \in 1..59

\* check_wtx(), then the echo: the consecutive count is charged first.
ProcessWtx(h, b) ==
    LET consecutive == [h EXCEPT !.counters = CountConsecutiveWtx(@)]
        counted == [consecutive EXCEPT !.counters = CountTotalWtx(@)]
    IN  IF ~ ValidWtx(b) THEN Exceeded(h, "WtxValue")
        ELSE IF consecutive.counters.consecutive_wtx
                  > h.limits.max_consecutive_wtx
        THEN Exceeded(consecutive, "ConsecutiveWtx")
        ELSE IF counted.counters.total_wtx > h.limits.max_total_wtx
        THEN Exceeded(counted, "TotalWtx")
        ELSE Step(counted, Reply(SBlock("Wtx", b.payload)))

ProcessSBlock(h, b) ==
    CASE b.subtype = "Wtx"      -> ProcessWtx(h, b)
      [] b.subtype = "Deselect" -> Step(Reset(h), Reply(SBlock("Deselect", <<>>)))
      [] OTHER                  -> Step(h, Fails("Other"))

\* process_received(): the frame is counted before the block is looked at.
ProcessReceived(h, b) ==
    LET counted == NoteFrame(h)
    IN  CASE counted.outcome # Ok -> counted
          [] counted.outcome = Ok /\ b.type = "I" ->
               ProcessIBlock(counted.handler, b)
          [] counted.outcome = Ok /\ b.type = "R" ->
               ProcessRBlock(counted.handler, b)
          [] OTHER -> ProcessSBlock(counted.handler, b)
=============================================================================
