--------------------------- MODULE LinkInvariants ---------------------------
(***************************************************************************)
(* The strengthening that makes the safety properties of Link inductive:   *)
(* who may speak (Orderly), what each phase of the reader says of the card *)
(* and of the frame on the air (InStep), and of the bytes of the exchange  *)
(* under way (Whole), and what is left to recover with (Recovering).       *)
(***************************************************************************)
EXTENDS Link

CardCalls ==
    /\ picc.call = "Activation" => picc.state \in {"Idle", "Ready"}
    /\ picc.call = "Rats" => picc.state = "Active"
    /\ picc.call \in {"Receive", "Respond"} => picc.state = "Protocol"
    /\ picc.call = "Respond" => picc.iblock # <<>>
    /\ picc.call = "None" /\ picc.result.kind = "Complete" => picc.state = "Protocol"

\* The reader has a part of the UID for each level that is done.
PartsPerLevel == /\ scan.phase = "Anticollision" => Len(scan.parts) = scan.level
                 /\ scan.phase = "Select" => Len(scan.parts) = scan.level + 1

\* The activation ends before the session begins, and an exchange goes on only
\* as long as nothing of it failed.
OneAtATime ==
    /\ scan.phase # "Idle" =>
         scan.result = "None" /\ reader = "Over" /\ pcd.phase = "NoSession"
    /\ pcd.phase \in {"NoSession", "Deselecting", "DeselectRetry"} => reader = "Over"
    /\ pcd.phase = "Connecting" => reader = "New"
    /\ pcd.phase \in {"Pps", "Command", "Collect"} => reader = "Running"
    /\ pcd.phase \in {"Command", "Collect"} => pcd.result = Ok
    /\ scan.result = "Ok" => reader = "Over" /\ pcd.phase = "NoSession"

\* The card's application is at work on a command.
AtWork == picc.call = "None" /\ picc.result.kind = "Complete"

ReaderWaits == scan.phase # "Idle" \/ pcd.phase \in PcdWaiting

Quiet == toPicc = <<>> /\ toPcd = <<>>

HalfDuplex == (toPicc = <<>> \/ toPcd = <<>>) /\ (Quiet \/ ReaderWaits)

\* Without late answers reader and card speak by turns.
InTurns == HalfDuplex /\ (AtWork => Quiet /\ ReaderWaits)

Orderly == TypeOK /\ CardCalls /\ PartsPerLevel /\ OneAtATime /\ (LateAnswers \/ InTurns)

-----------------------------------------------------------------------------
RolesKept == pcd.handler.role = "Pcd" /\ picc.handler.role = "Picc"

\* The card takes the block number for a new one.
Expects(number) ==
    picc.state = "Protocol" =>
      ~ AtWork /\ picc.call # "Respond" /\ picc.handler.number # number

NotInSession == picc.state \in {"Idle", "Ready", "Active"}

\* While nobody is found the air may carry what is left of a session.
SearchingOK ==
    /\ scan.phase \in {"Idle", "Request"} /\ scan.result # "Ok"
    /\ reader = "Over" /\ pcd.phase \in {"NoSession", "Idle"}
    => /\ toPicc # <<>> => toPicc[1].kind \in {"Reqa", "Wupa", "Noise"}
       /\ toPcd # <<>> /\ toPcd[1].kind = "Atqa" => picc.state \in {"Idle", "Ready"}
       /\ pcd.phase = "Idle" /\ pcd.result = Ok => picc.state # "Protocol"

SelectingOK ==
    scan.phase \in {"Anticollision", "Select"} \/ scan.result = "Ok" =>
      /\ HalfDuplex /\ NotInSession
      /\ toPicc # <<>> => toPicc[1].kind \in {"Anticollision", "Select", "Noise"}

ConnectingOK ==
    pcd.phase = "Connecting" =>
      /\ HalfDuplex /\ Expects(0)
      /\ toPicc # <<>> => toPicc[1].kind \in {"Rats", "Noise"} /\ NotInSession

ReadyOK == pcd.phase = "Idle" /\ reader # "Over" => Quiet /\ Expects(pcd.handler.number)

PpsOK ==
    pcd.phase = "Pps" =>
      /\ HalfDuplex /\ Expects(pcd.handler.number)
      /\ toPicc # <<>> => toPicc[1].kind \in {"Pps", "Noise"}

\* The card sent a block and waits, for the R(ACK) of a chunk or a command.
CardHolds == picc.state = "Protocol" /\ (picc.call = "None" => picc.result = Ok)

\* b is the response, or a chunk of it that waits for its R(ACK).
RespondedWith(b) == /\ picc.lastSent = <<b>> /\ b.type = "I"
                    /\ picc.call = "Respond" => picc.iblock = <<b>> /\ b.chaining

CommandOK ==
    pcd.phase = "Command" =>
      /\ HalfDuplex
      /\ AtWork => Quiet /\ picc.handler.number = pcd.handler.number
      /\ toPicc # <<>> =>
           /\ Expects(pcd.handler.number)
           /\ \/ toPicc[1].kind = "Noise"
              \/ /\ Carries(toPicc[1], "I")
                 /\ toPicc[1].block.number = pcd.handler.number
      /\ toPcd # <<>> /\ toPcd[1].kind = "Block" =>
           /\ CardHolds
           /\ picc.handler.number = pcd.handler.number
           /\ toPcd[1].block.number = pcd.handler.number
           /\ \/ toPcd[1].block = RAck(picc.handler) /\ picc.call = "Receive"
              \/ RespondedWith(toPcd[1].block)

\* The last block of a response keeps the number of both sides.
CollectOK ==
    pcd.phase = "Collect" =>
      /\ HalfDuplex /\ ~ AtWork
      /\ toPicc # <<>> => \/ toPicc[1].kind = "Noise"
                          \/ toPicc[1] = BlockFrame(RAck(pcd.handler))
      /\ toPcd # <<>> /\ toPcd[1].kind = "Block" =>
           CardHolds /\ picc.lastSent = <<toPcd[1].block>>
      /\ picc.state = "Protocol" =>
           /\ picc.lastSent # <<>> /\ RespondedWith(picc.lastSent[1])
           /\ IF picc.call = "Respond"
              THEN picc.lastSent[1].number = picc.handler.number
              ELSE ~ picc.lastSent[1].chaining =>
                     /\ picc.lastSent[1].number = picc.handler.number
                     /\ picc.handler.number = pcd.handler.number

DeselectingOK ==
    pcd.phase \in {"Deselecting", "DeselectRetry"} =>
      /\ HalfDuplex
      /\ picc.state = "Protocol" => ~ AtWork /\ picc.call # "Respond"
      /\ toPicc # <<>> => \/ toPicc[1].kind = "Noise"
                          \/ toPicc[1] = BlockFrame(SBlock("Deselect", <<>>))
      /\ toPcd # <<>> /\ IsDeselectFrame(toPcd[1]) => picc.state \in {"Halted", "Idle"}

InStep == /\ RolesKept
          /\ SearchingOK /\ SelectingOK /\ ConnectingOK /\ ReadyOK
          /\ PpsOK /\ CommandOK /\ CollectOK /\ DeselectingOK
-----------------------------------------------------------------------------
(* The bytes of the exchange under way.                                    *)

\* The card that waits for a command has taken nothing of one.
Fresh == picc.call = "Receive" => picc.handler.chain = <<>>

FreshOK == \/ pcd.phase \in {"Connecting", "Pps"}
           \/ pcd.phase = "Idle" /\ reader # "Over"
           => Fresh

\* The card is at the chunk of the response that begins at offset, and the
\* reader has what comes before it, or the chunk too.
RespondingAt(offset) ==
    LET response == ResponseTo(command)
        number   == picc.lastSent[1].number
    IN  /\ picc.lastSent = <<Chunk(number, response, offset, PiccMaxInf)>>
        /\ picc.call = "Respond" => picc.response = response /\ picc.offset = offset
        /\ pcd.handler.chain =
             SubSeq(response, 1, IF number = pcd.handler.number THEN offset
                                 ELSE ChunkEnd(response, offset, PiccMaxInf))

Responding == /\ executed = <<command>> /\ Fresh
              /\ \E offset \in 0..Len(ResponseTo(command)) : RespondingAt(offset)

\* The chunk of the command on the air continues what the card has of it.
CommandUnderWay ==
    /\ executed = <<>>
    /\ toPicc[1].kind = "Block" =>
         /\ toPicc[1].block = Chunk(pcd.handler.number, command, pcd.offset, PcdMaxInf)
         /\ IF picc.call = "Receive"
            THEN picc.handler.chain = SubSeq(command, 1, pcd.offset)
            ELSE pcd.offset = 0

ChunkTaken ==
    /\ executed = <<>> /\ MoreOfCommand
    /\ picc.handler.chain = SubSeq(command, 1, ChunkEnd(command, pcd.offset, PcdMaxInf))

CommandWhole ==
    pcd.phase = "Command" =>
      /\ pcd.apdu = command /\ pcd.handler.chain = <<>>
      /\ pcd.offset \in 0..Len(command)
      /\ AtWork => executed = <<command>> /\ picc.result.data = command
      /\ toPicc # <<>> => CommandUnderWay
      /\ toPcd # <<>> /\ toPcd[1].kind = "Block" =>
           IF toPcd[1].block.type = "R" THEN ChunkTaken ELSE Responding

CollectWhole ==
    pcd.phase = "Collect" =>
      executed = <<command>> /\ (picc.state = "Protocol" => Responding)

Whole == FreshOK /\ CommandWhole /\ CollectWhole
-----------------------------------------------------------------------------
(* What is left to recover with, as long as nothing was lost that this     *)
(* protocol cannot recover.                                                *)

\* Blocks that n bytes take.
Pieces(n, maxInf) == (n + maxInf - 1) \div maxInf

CommandPieces(c)  == Pieces(Len(c), PcdMaxInf)
ResponsePieces(c) == Pieces(Len(ResponseTo(c)), PiccMaxInf)

\* The limits leave room for every command and its response, with MAX_RETRIES
\* repeats of each block of the response, those of the one before included.
AmpleLimits ==
    /\ PcdMaxInf > 0 /\ PiccMaxInf > 0
    /\ PiccLimits.max_retransmissions >= MaxRetries
    /\ PiccLimits.max_frames > MaxRetries
    /\ \A c \in Commands :
         /\ PcdLimits.max_frames >= CommandPieces(c) + ResponsePieces(c)
         /\ PiccLimits.max_frames >=
              MaxRetries + CommandPieces(c) + (1 + MaxRetries) * ResponsePieces(c)
         /\ Len(c) <= PiccLimits.max_chain_len /\ Len(c) <= ChainCapacity
         /\ Len(ResponseTo(c)) <= PcdLimits.max_chain_len
         /\ Len(ResponseTo(c)) <= ChainCapacity

\* The card's application has called for RATS, or is about to.
Activated == picc.state = "Active" /\ (picc.call = "None" => picc.result = Ok)

\* A complete SAK and what follows it find the card waiting for RATS.
ActivatedOK ==
    /\ picc.ats
    /\ picc.handler.limits = PiccLimits /\ pcd.handler.limits = PcdLimits
    /\ scan.phase = "Select" /\ toPcd = <<SakFrame(TRUE)>> => Activated
    /\ scan.result = "Ok" => Activated
    /\ scan.phase # "Idle" \/ scan.result = "Ok" => pcd.result = Ok

\* The card's application has called for a command, or is about to.
Listening == CardHolds /\ picc.call # "Respond"

\* The frames and the repeats that the card's call has counted.
CardFrames  == IF picc.call = "None" /\ picc.result = Ok
               THEN 0 ELSE picc.handler.counters.frames
CardRepeats == IF picc.call = "None"
               THEN 0 ELSE picc.handler.counters.retransmissions

ConnectRecovers ==
    pcd.phase = "Connecting" =>
      \/ toPicc = <<Plain("Rats")>> /\ Activated
      \/ toPcd = <<Plain("Ats")>> /\ Listening /\ CardFrames = 0

ReadyRecovers ==
    pcd.phase = "Idle" /\ reader # "Over" =>
      /\ Listening
      /\ CardFrames <= IF reader = "New" THEN 0 ELSE MaxRetries

PpsRecovers ==
    pcd.phase = "Pps" =>
      /\ Listening
      /\ \/ toPicc = <<Plain("Pps")>> /\ CardFrames = 0
         \/ toPcd = <<Plain("Ppss")>> /\ CardFrames <= 1

\* Reader and card have counted a frame for each chunk, the card those of
\* repeats before it as well.
ChunksCounted(offset) ==
    CardFrames * PcdMaxInf <= MaxRetries * PcdMaxInf + offset

BlockOnAir(air) == air # <<>> /\ air[1].kind = "Block"

CommandCounted == CardFrames <= MaxRetries + CommandPieces(command)

\* The first block of the response is on the air.
ResponseBegins ==
    /\ Carries(toPcd[1], "I") /\ ~ MoreOfCommand
    /\ IF picc.call = "Respond"
       THEN toPcd[1].block.chaining /\ CommandCounted
       ELSE ~ toPcd[1].block.chaining /\ CardFrames = 0

CommandRecovers ==
    pcd.phase = "Command" =>
      /\ command \in Commands
      /\ pcd.handler.counters.frames * PcdMaxInf <= pcd.offset
      /\ pcd.offset < Len(command)
      /\ \/ BlockOnAir(toPicc) /\ Listening /\ ChunksCounted(pcd.offset)
         \/ AtWork /\ ~ MoreOfCommand /\ CommandCounted
         \/ /\ BlockOnAir(toPcd)
            /\ \/ /\ Carries(toPcd[1], "R")
                  /\ ChunksCounted(ChunkEnd(command, pcd.offset, PcdMaxInf))
               \/ ResponseBegins

\* A frame was lost that the reader has not noticed yet.
Unnoticed == IF toPicc = <<>> /\ ~ BlockOnAir(toPcd) THEN 1 ELSE 0

\* The card sent the next block, and the reader has still to get it.
Ahead == picc.lastSent[1].number = pcd.handler.number

\* The card has counted f frames: those of the command, one for each m bytes
\* that the reader has of the response, with MAX_RETRIES repeats each, and k
\* for the block that the reader has still to get.
WithinResponse(f, m, pieces, done, k) ==
    (f + 1 + MaxRetries) * m <=
      (MaxRetries + pieces) * m + (1 + MaxRetries) * done + k * m

CollectRecovers ==
    pcd.phase = "Collect" =>
      /\ CardHolds /\ command \in Commands
      /\ Len(pcd.handler.chain) < Len(ResponseTo(command))
      /\ toPicc # <<>> => toPicc[1].kind # "Noise"
      /\ lossRun <= MaxRetries /\ pcd.retries + Unnoticed <= lossRun
      /\ picc.lastSent[1].chaining <=> picc.call = "Respond"
      /\ pcd.handler.counters.frames * PiccMaxInf <=
           CommandPieces(command) * PiccMaxInf + Len(pcd.handler.chain)
      /\ Ahead => CardRepeats + (IF BlockOnAir(toPcd) THEN 0 ELSE 1) <= lossRun
      /\ ~ Ahead => ~ BlockOnAir(toPcd) /\ picc.call = "Respond"
      /\ picc.call # "Respond" => CardFrames <= CardRepeats
      /\ picc.call = "Respond" =>
           WithinResponse(CardFrames, PiccMaxInf, CommandPieces(command),
                          Len(pcd.handler.chain), IF Ahead THEN 1 + CardRepeats ELSE 0)

DeselectRecovers ==
    /\ pcd.phase # "DeselectRetry"
    /\ pcd.phase = "Deselecting" =>
         \/ /\ toPicc = <<BlockFrame(SBlock("Deselect", <<>>))>>
            /\ Listening /\ CardFrames <= MaxRetries
         \/ toPcd # <<>> /\ IsDeselectFrame(toPcd[1])

Recovering ==
    ~ beyond => /\ pcd.result.kind # "Err"
                /\ ConnectRecovers /\ ReadyRecovers /\ PpsRecovers
                /\ CommandRecovers /\ CollectRecovers /\ DeselectRecovers
=============================================================================
