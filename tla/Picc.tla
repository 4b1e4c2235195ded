-------------------------------- MODULE Picc --------------------------------
(***************************************************************************)
(* The card of picc.rs.  A call of Picc runs until receive() blocks or the *)
(* call returns; picc.call names the call that is blocked, and the         *)
(* parameter f of the actions is what its receive() brings: a frame, or    *)
(* "Silence" when the transceiver fails.                                   *)
(***************************************************************************)
EXTENDS ProtocolHandler, Wire

CONSTANTS PiccLimits,      \* the work limits of the card
          PiccMaxInf,      \* payload bytes of one I-Block (FSD - overhead)
          Uid,             \* 4, 7 or 10 bytes
          SendFaults       \* may the transceiver fail to send?

ASSUME PiccAssumption == /\ PiccLimits \in LimitsType
                         /\ PiccMaxInf \in Nat
                         /\ Uid \in Seq(Byte) /\ Len(Uid) \in {4, 7, 10}
                         /\ SendFaults \in BOOLEAN

VARIABLES picc,            \* the card and the call in progress
          toPcd            \* the frame last put on the air, as a sequence

PiccCall == {"None", "Activation", "Rats", "Receive", "Respond"}

PiccState == {"Idle", "Ready", "Active", "Protocol", "Halted"}

PiccResult == Outcome \cup {Fails("Deselected")}

PiccType == [ats      : BOOLEAN,           \* enable_14443_4() was called
             call     : PiccCall,
             state    : PiccState,
             level    : 0..2,              \* Ready { cascade_level }
             handler  : Handler,
             lastSent : {<<>>} \cup [1..1 -> Block],
             response : Seq(Byte),         \* send_response(): data
             offset   : Nat,               \* send_response(): acknowledged
             iblock   : {<<>>} \cup [1..1 -> Block],  \* send_response(): in flight
             result   : PiccResult]        \* what the last call returned

\* Picc::new(), in the given state.
NewPicc(ats, state) ==
    [ats |-> ats, call |-> "None", state |-> state, level |-> 0,
     handler |-> NewHandler("Picc", PiccLimits), lastSent |-> <<>>,
     response |-> <<>>, offset |-> 0, iblock |-> <<>>, result |-> Ok]

-----------------------------------------------------------------------------
(* p is the card as the handler of the frame leaves it.                    *)

\* The call in progress ends and its local variables are gone.
Ended(p, result) == [p EXCEPT !.call = "None", !.response = <<>>,
                              !.offset = 0, !.iblock = <<>>, !.result = result]

PiccReturns(p, result) == /\ picc' = Ended(p, result)
                          /\ UNCHANGED toPcd

PiccWaits(p) == picc' = p /\ UNCHANGED toPcd

\* transceiver.send(f)?: the card is p when it fails, and goes on as q.
PiccSends(f, p, q) == \/ /\ picc' = q
                         /\ toPcd' = <<f>>
                      \/ /\ SendFaults
                         /\ PiccReturns(p, Fails("Other"))

Saved(p, b) == [p EXCEPT !.lastSent = <<b>>]

\* send_block(b)?: the block is kept for Rule 11 before it is sent.
PiccSendsBlock(b, p, q) == PiccSends(BlockFrame(b), Saved(p, b), Saved(q, b))

-----------------------------------------------------------------------------
(* wait_for_activation(): HALT is left on entry.                           *)

WaitForActivation ==
    /\ picc.call = "None"
    /\ PiccWaits([picc EXCEPT !.call = "Activation", !.state = "Idle", !.level = 0])

\* receive()? of any call.
ReceiveFails(f) == /\ picc.call # "None"
                   /\ f.kind = "Silence"
                   /\ PiccReturns(picc, Fails("Other"))

\* handle_idle().
HearInIdle(f) ==
    /\ picc.call = "Activation" /\ picc.state = "Idle"
    /\ f.kind # "Silence"
    /\ IF f.kind \in {"Reqa", "Wupa"}
       THEN PiccSends(Plain("Atqa"), picc,
                      [picc EXCEPT !.state = "Ready", !.level = 0])
       ELSE PiccWaits(picc)

\* Mutant: the last level is not recognised.
SelectedAtAnyLevel(p) == [p EXCEPT !.level = @ + 1]

\* The SAK at the last level completes the activation.
Selected(p) == IF IsLastLevel(Uid, p.level)
               THEN Ended([p EXCEPT !.state = "Active", !.level = 0], Ok)
               ELSE [p EXCEPT !.level = @ + 1]

\* handle_ready(): everything but the expected SEL is ignored, REQA included.
\* Two bytes with that SEL ask for the UID, whatever the second and whatever
\* they were before noise.  A SELECT with a bad CRC ends the call.
HearInReady(f) ==
    /\ picc.call = "Activation" /\ picc.state = "Ready"
    /\ f.kind # "Silence"
    /\ \/ /\ f = LevelFrame("Anticollision", picc.level) \/ f.kind = "Noise"
          /\ PiccSends(UidFrame(UidPart(Uid, picc.level)), picc, picc)
       \/ /\ f = LevelFrame("Select", picc.level)
          /\ PiccSends(SakFrame(IsLastLevel(Uid, picc.level)), picc, Selected(picc))
       \/ /\ f.kind = "Noise"
          /\ PiccReturns(picc, Fails("Other"))
       \/ /\ f \notin {LevelFrame("Anticollision", picc.level),
                       LevelFrame("Select", picc.level)}
          /\ PiccWaits(picc)

-----------------------------------------------------------------------------
(* wait_for_rats(): one frame.  RATS renews the handler and keeps its      *)
(* limits; last_sent stays as it is.                                       *)

WaitForRats == /\ picc.call = "None"
               /\ PiccWaits([picc EXCEPT !.call = "Rats"])

\* Mutant: the session begins with the block number of the last one.
RenewedKeepingNumber(p) ==
    [p EXCEPT !.handler = BeginExchange(p.handler)]

Renewed(p) == [p EXCEPT !.handler = NewHandler("Picc", p.handler.limits)]

RatsResult(p) == IF p.state = "Protocol" THEN Ok ELSE Fails("Other")

\* Mutant: what is not for the active state is waited out.
HearInActiveIgnoring(f) ==
    /\ picc.call = "Rats"
    /\ f.kind # "Silence"
    /\ IF f.kind = "Rats" /\ picc.ats
       THEN PiccSends(Plain("Ats"), Renewed(picc),
                      Ended([Renewed(picc) EXCEPT !.state = "Protocol"], Ok))
       ELSE PiccWaits(picc)

\* handle_active().
HearInActive(f) ==
    /\ picc.call = "Rats"
    /\ f.kind # "Silence"
    /\ \/ /\ f.kind = "Rats" /\ picc.ats
          /\ PiccSends(Plain("Ats"), Renewed(picc),
                       Ended([Renewed(picc) EXCEPT !.state = "Protocol"], Ok))
       \/ /\ f.kind = "Rats" /\ ~ picc.ats
          /\ PiccReturns(Renewed(picc), Fails("Other"))
       \/ /\ f.kind = "Hlta"
          /\ PiccReturns([picc EXCEPT !.state = "Halted"], Fails("Other"))
       \/ /\ f.kind = "Noise"     \* a RATS or HLTA with a bad CRC or parameter
          /\ PiccReturns(picc, Fails("Other"))
       \/ /\ f.kind \notin {"Rats", "Hlta"}
          /\ PiccReturns(picc, RatsResult(picc))

-----------------------------------------------------------------------------
(* receive_command().                                                      *)

ReceiveCommand ==
    /\ picc.call = "None"
    /\ PiccWaits([picc EXCEPT !.call = "Receive",
                              !.handler = BeginExchange(picc.handler)])

With(h) == [picc EXCEPT !.handler = h]

\* Mutant: a PPS is answered for free.
HearPpsUncounted(f) == /\ picc.call = "Receive"
                       /\ f.kind = "Pps"
                       /\ PiccSends(Plain("Ppss"), picc, picc)

\* A PPS is counted, answered, and the call goes on.
HearPps(f) ==
    /\ picc.call = "Receive"
    /\ f.kind = "Pps"
    /\ LET step == NoteFrame(picc.handler)
       IN  IF step.outcome = Ok
           THEN PiccSends(Plain("Ppss"), With(step.handler), With(step.handler))
           ELSE PiccReturns(With(step.handler), step.outcome)

\* What is neither a PPS nor a block; it may begin like a PPS and be counted.
HearNoBlock(f) ==
    /\ picc.call \in {"Receive", "Respond"}
    /\ f.kind \notin {"Block", "Silence"}
    /\ picc.call = "Receive" => f.kind # "Pps"
    /\ \/ PiccReturns(picc, Fails("Other"))
       \/ /\ picc.call = "Receive" /\ f.kind = "Noise"
          /\ LET step == NoteFrame(picc.handler)
             IN  PiccReturns(With(step.handler),
                             IF step.outcome = Ok THEN Fails("Other")
                                                  ELSE step.outcome)

\* The echo of an S(DESELECT) goes out and the session is over.
PiccDeselected(h) ==
    PiccSendsBlock(SBlock("Deselect", <<>>), With(h),
                   Ended([With(h) EXCEPT !.state = "Halted"], Fails("Deselected")))

\* R(ACK) or S(WTX), in either call.
PiccReplies(step) ==
    IF IsDeselect(step.outcome.block)
    THEN PiccDeselected(step.handler)
    ELSE PiccSendsBlock(step.outcome.block, With(step.handler), With(step.handler))

HearCommandBlock(f) ==
    /\ picc.call = "Receive"
    /\ f.kind = "Block"
    /\ LET step == ProcessReceived(picc.handler, f.block)
       IN  \/ /\ step.outcome.kind \in {"Complete", "Err"}
              /\ PiccReturns(With(step.handler), step.outcome)
           \/ /\ step.outcome.kind = "Reply"
              /\ PiccReplies(step)
           \/ /\ step.outcome.kind = "ChainingRetransmit" /\ picc.lastSent # <<>>
              /\ PiccSendsBlock(picc.lastSent[1], With(step.handler),
                                With(step.handler))
           \/ /\ \/ step.outcome.kind = "ChainingAck"
                 \/ step.outcome.kind = "ChainingRetransmit" /\ picc.lastSent = <<>>
              /\ PiccReturns(With(step.handler), Fails("Other"))

-----------------------------------------------------------------------------
(* send_response(): the exchange of receive_command() goes on.             *)

\* Mutant: the block number toggles when the chunk is sent.
PiccSendsChunkToggling(p, data, offset) ==
    LET b    == Chunk(p.handler.number, data, offset, PiccMaxInf)
        more == [p EXCEPT !.call = "Respond", !.response = data,
                          !.offset = offset, !.iblock = <<b>>,
                          !.handler = Toggle(@)]
    IN  PiccSendsBlock(b, p, IF b.chaining THEN more ELSE Ended(p, Ok))

\* Mutant: the last chunk is sent without being kept for a repeat.
PiccSendsChunkUnsaved(p, data, offset) ==
    LET b    == Chunk(p.handler.number, data, offset, PiccMaxInf)
        more == [p EXCEPT !.call = "Respond", !.response = data,
                          !.offset = offset, !.iblock = <<b>>]
    IN  PiccSends(BlockFrame(b), p, IF b.chaining THEN more ELSE Ended(p, Ok))

\* p sends its chunk at offset, and waits for an R(ACK) if there is more.
PiccSendsChunk(p, data, offset) ==
    LET b    == Chunk(p.handler.number, data, offset, PiccMaxInf)
        more == [p EXCEPT !.call = "Respond", !.response = data,
                          !.offset = offset, !.iblock = <<b>>]
    IN  PiccSendsBlock(b, p, IF b.chaining THEN more ELSE Ended(p, Ok))

SendResponse(data) ==
    /\ picc.call = "None"
    /\ IF PiccMaxInf = 0
       THEN PiccReturns(picc, Fails("Other"))
       ELSE PiccSendsChunk(picc, data, 0)

HearAcknowledgement(f) ==
    /\ picc.call = "Respond"
    /\ f.kind = "Block"
    /\ LET step == ProcessReceived(picc.handler, f.block)
       IN  \/ /\ step.outcome.kind = "ChainingAck"
              /\ PiccSendsChunk(With(step.handler), picc.response,
                                ChunkEnd(picc.response, picc.offset, PiccMaxInf))
           \/ /\ step.outcome.kind = "ChainingRetransmit"
              /\ PiccSendsBlock(picc.iblock[1], With(step.handler),
                                With(step.handler))
           \/ /\ step.outcome.kind = "Reply"
              /\ PiccReplies(step)
           \/ /\ step.outcome.kind \in {"Complete", "Err"}
              /\ PiccReturns(With(step.handler),
                             IF step.outcome.kind = "Err" THEN step.outcome
                                                          ELSE Fails("Other"))

-----------------------------------------------------------------------------
\* receive() brings f to the blocked call.
PiccHears(f) == \/ ReceiveFails(f)
                \/ HearInIdle(f)
                \/ HearInReady(f)
                \/ HearInActive(f)
                \/ HearPps(f)
                \/ HearNoBlock(f)
                \/ HearCommandBlock(f)
                \/ HearAcknowledgement(f)
=============================================================================
