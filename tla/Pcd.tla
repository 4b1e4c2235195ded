--------------------------------- MODULE Pcd ---------------------------------
(***************************************************************************)
(* The reader session of pcd.rs.  A call of Pcd is a run of the phases     *)
(* below: it sends a frame, waits in its phase for what the transceiver    *)
(* brings back (the parameter f of the actions: a frame, noise or silence) *)
(* and either sends the next frame or returns to Idle with a result.       *)
(***************************************************************************)
EXTENDS ProtocolHandler, Wire

CONSTANTS PcdLimits,       \* the work limits of the session
          PcdMaxInf        \* payload bytes of one I-Block (FSC - overhead)

ASSUME PcdAssumption == PcdLimits \in LimitsType /\ PcdMaxInf \in Nat

MaxRetries == 2            \* MAX_RETRIES

VARIABLES pcd,             \* the session and the call in progress
          toPicc           \* the frame last put on the air, as a sequence

PcdWaiting == {"Connecting", "Pps", "Command", "Collect", "Deselecting",
               "DeselectRetry"}

\* No session exists before Connect succeeds.
PcdPhase == {"NoSession", "Idle"} \cup PcdWaiting

PcdType == [phase   : PcdPhase,
            handler : Handler,
            apdu    : Seq(Byte),       \* exchange(): the command
            offset  : Nat,             \* exchange(): sent and acknowledged
            retries : 0..MaxRetries,   \* transceive_with_recovery()
            result  : Outcome]         \* what the last call returned

PcdInit == pcd = [phase |-> "NoSession", handler |-> NewHandler("Pcd", PcdLimits),
                  apdu |-> <<>>, offset |-> 0, retries |-> 0, result |-> Ok]

-----------------------------------------------------------------------------
Transmit(f) == toPicc' = <<f>>

\* A call begins to wait in phase with handler h, its frame on the air.
Await(phase, h, f) ==
    /\ pcd' = [pcd EXCEPT !.phase = phase, !.handler = h, !.retries = 0]
    /\ Transmit(f)

\* A call returns: its local variables are gone.
Return(phase, h, result) ==
    /\ pcd' = [pcd EXCEPT !.phase = phase, !.handler = h, !.apdu = <<>>,
                          !.offset = 0, !.retries = 0, !.result = result]
    /\ UNCHANGED toPicc

\* The error of an outcome no branch of the caller expects.
Refusal(o) == IF o.kind = "Err" THEN o ELSE Fails("Other")

-----------------------------------------------------------------------------
(* connect(): RATS and ATS.  A failed connect leaves no session.           *)

Connect == /\ pcd.phase \in {"NoSession", "Idle"}
           /\ Await("Connecting", pcd.handler, Plain("Rats"))

ConnectAnswered(f) ==
    /\ pcd.phase = "Connecting"
    /\ IF f.kind = "Ats"
       THEN Return("Idle", NewHandler("Pcd", PcdLimits), Ok)
       ELSE Return("NoSession", pcd.handler, Fails("Other"))

-----------------------------------------------------------------------------
(* pps(): one request, one answer, no recovery.                            *)

NegotiatePps == /\ pcd.phase = "Idle"
                /\ Await("Pps", pcd.handler, Plain("Pps"))

PpsAnswered(f) ==
    /\ pcd.phase = "Pps"
    /\ Return("Idle", pcd.handler, IF f.kind = "Ppss" THEN Ok ELSE Fails("Other"))

-----------------------------------------------------------------------------
(* exchange(): the command goes out in chunks, then the response comes in. *)

SendChunk(h, apdu, offset) ==
    /\ pcd' = [pcd EXCEPT !.phase = "Command", !.handler = h, !.apdu = apdu,
                          !.offset = offset, !.retries = 0, !.result = Ok]
    /\ Transmit(BlockFrame(Chunk(h.number, apdu, offset, PcdMaxInf)))

\* An empty APDU sends nothing: the loop is not entered, last_resp is None.
Exchange(apdu) ==
    /\ pcd.phase = "Idle"
    /\ IF PcdMaxInf = 0 \/ apdu = <<>>
       THEN Return("Idle", BeginExchange(pcd.handler), Fails("Other"))
       ELSE SendChunk(BeginExchange(pcd.handler), apdu, 0)

MoreOfCommand == MoreToSend(pcd.apdu, pcd.offset, PcdMaxInf)

\* transceive_block(..)? in the command loop: no recovery.
CommandUnanswered(f) == /\ pcd.phase = "Command"
                        /\ f.kind # "Block"
                        /\ Return("Idle", pcd.handler, Fails("Other"))

\* A chunk with more to come is acknowledged, asked for again, or the call fails.
ChunkAnswered(f) ==
    /\ pcd.phase = "Command" /\ MoreOfCommand
    /\ f.kind = "Block"
    /\ LET step == ProcessReceived(pcd.handler, f.block)
       IN  \/ /\ step.outcome.kind = "ChainingAck"
              /\ SendChunk(step.handler, pcd.apdu,
                           ChunkEnd(pcd.apdu, pcd.offset, PcdMaxInf))
           \/ /\ step.outcome.kind = "ChainingRetransmit"
              /\ SendChunk(step.handler, pcd.apdu, pcd.offset)
           \/ /\ step.outcome.kind \in {"Complete", "Reply", "Err"}
              /\ Return("Idle", step.handler, Refusal(step.outcome))

\* collect_response(): b is a block of the response.
CollectBlock(b) ==
    LET step == ProcessReceived(pcd.handler, b)
    IN  \/ /\ step.outcome.kind = "Complete"
           /\ Return("Idle", step.handler, step.outcome)
        \/ /\ step.outcome.kind = "Reply"
           /\ Await("Collect", step.handler, BlockFrame(step.outcome.block))
        \/ /\ step.outcome.kind \in {"ChainingAck", "ChainingRetransmit", "Err"}
           /\ Return("Idle", step.handler, Refusal(step.outcome))

LastChunkAnswered(f) == /\ pcd.phase = "Command" /\ ~ MoreOfCommand
                        /\ f.kind = "Block"
                        /\ CollectBlock(f.block)

ReplyAnswered(f) == /\ pcd.phase = "Collect"
                    /\ f.kind = "Block"
                    /\ CollectBlock(f.block)

\* Mutant: one retry too many.
ReplyUnansweredOnceMore(f) ==
    /\ pcd.phase = "Collect"
    /\ f.kind # "Block"
    /\ \/ /\ pcd.retries <= MaxRetries
          /\ pcd' = [pcd EXCEPT !.retries = @ + 1]
          /\ Transmit(BlockFrame(RAck(pcd.handler)))
       \/ /\ pcd.retries > MaxRetries
          /\ Return("Idle", pcd.handler, Fails("Other"))

\* Mutant: a retry acknowledges a block that never came.
ReplyUnansweredToggling(f) ==
    /\ pcd.phase = "Collect"
    /\ f.kind # "Block"
    /\ \/ /\ pcd.retries < MaxRetries
          /\ pcd' = [pcd EXCEPT !.retries = @ + 1]
          /\ Transmit(BlockFrame(RAck(Toggle(pcd.handler))))
       \/ /\ pcd.retries >= MaxRetries
          /\ Return("Idle", pcd.handler, Fails("Other"))

\* Mutant: the retries are not counted.
ReplyUnansweredUncounted(f) ==
    /\ pcd.phase = "Collect"
    /\ f.kind # "Block"
    /\ UNCHANGED pcd
    /\ Transmit(BlockFrame(RAck(pcd.handler)))

\* transceive_with_recovery(): R(ACK) again, MAX_RETRIES times (Rule 5).
ReplyUnanswered(f) ==
    /\ pcd.phase = "Collect"
    /\ f.kind # "Block"
    /\ \/ /\ pcd.retries < MaxRetries
          /\ pcd' = [pcd EXCEPT !.retries = @ + 1]
          /\ Transmit(BlockFrame(RAck(pcd.handler)))
       \/ /\ pcd.retries >= MaxRetries
          /\ Return("Idle", pcd.handler, Fails("Other"))

-----------------------------------------------------------------------------
(* deselect(): retried once, whatever came back (Rule 8).  The handler is  *)
(* not reset.                                                              *)

Deselect == /\ pcd.phase = "Idle"
            /\ Await("Deselecting", pcd.handler, BlockFrame(SBlock("Deselect", <<>>)))

IsDeselectFrame(f) == f.kind = "Block" /\ IsDeselect(f.block)

\* Mutant: the second request counts as answered.
DeselectAssumed(f) ==
    /\ pcd.phase \in {"Deselecting", "DeselectRetry"}
    /\ IF IsDeselectFrame(f) \/ pcd.phase = "DeselectRetry"
       THEN Return("Idle", pcd.handler, Ok)
       ELSE Await("DeselectRetry", pcd.handler,
                  BlockFrame(SBlock("Deselect", <<>>)))

DeselectAnswered(f) ==
    /\ pcd.phase \in {"Deselecting", "DeselectRetry"}
    /\ \/ /\ IsDeselectFrame(f)
          /\ Return("Idle", pcd.handler, Ok)
       \/ /\ ~ IsDeselectFrame(f) /\ pcd.phase = "Deselecting"
          /\ Await("DeselectRetry", pcd.handler,
                   BlockFrame(SBlock("Deselect", <<>>)))
       \/ /\ ~ IsDeselectFrame(f) /\ pcd.phase = "DeselectRetry"
          /\ Return("Idle", pcd.handler, Fails("Other"))

-----------------------------------------------------------------------------
\* The transceiver brings back f.
PcdHears(f) == \/ ConnectAnswered(f)
               \/ PpsAnswered(f)
               \/ CommandUnanswered(f)
               \/ ChunkAnswered(f)
               \/ LastChunkAnswered(f)
               \/ ReplyAnswered(f)
               \/ ReplyUnanswered(f)
               \/ DeselectAnswered(f)
=============================================================================
