----------------------------- MODULE PcdMachine -----------------------------
(***************************************************************************)
(* The reader session against an arbitrary peer: whatever it sends, the    *)
(* transceiver may bring back any frame, noise or silence.                 *)
(***************************************************************************)
EXTENDS Pcd

CONSTANTS Apdus,                \* the commands the application exchanges
          PeerFrames,           \* what may come back to a transceive
          SpontaneousDeselect   \* may S(DESELECT) come back as a response?

ASSUME PcdMachineAssumption == /\ Apdus \subseteq Seq(Byte)
                               /\ PeerFrames \subseteq Frame
                               /\ SpontaneousDeselect \in BOOLEAN

VARIABLE sent              \* history: frames put on the air by this call

vars == <<pcd, toPicc, sent>>

Init == PcdInit /\ toPicc = <<>> /\ sent = 0

Called == sent' = IF pcd'.phase \in PcdWaiting THEN 1 ELSE 0

Call == /\ \/ Connect
           \/ NegotiatePps
           \/ Deselect
           \/ \E apdu \in Apdus : Exchange(apdu)
        /\ Called

\* collect_response() is waiting for a block of the response.
AwaitingResponse == \/ pcd.phase = "Collect"
                    \/ pcd.phase = "Command" /\ ~ MoreOfCommand

MayCome(f) == IsDeselectFrame(f) /\ AwaitingResponse => SpontaneousDeselect

\* The first frame and, for each block the limits accept, a reply and its
\* recoveries.
AirTimeBound == 1 + PcdLimits.max_frames * (1 + MaxRetries)

\* Counted up to the first one too many.
CountSent == IF sent <= AirTimeBound THEN sent + 1 ELSE sent

Hear == \E f \in PeerFrames :
          /\ MayCome(f)
          /\ PcdHears(f)
          /\ sent' = IF pcd'.phase \in PcdWaiting THEN CountSent ELSE sent

Next == Call \/ Hear

\* transceive() returns: the timeout belongs to the transceiver (limits.rs).
Spec == Init /\ [][Next]_vars /\ WF_vars(Hear)

-----------------------------------------------------------------------------
TypeOK == /\ pcd \in PcdType
          /\ Len(toPicc) <= 1
          /\ \A i \in DOMAIN toPicc : toPicc[i] \in Frame
          /\ sent \in Nat

-----------------------------------------------------------------------------
\* Every call comes to an end, whatever the peer answers and however often
\* nothing comes back (exchange, collect_response, transceive_with_recovery).
CallsReturn == pcd.phase \in PcdWaiting ~> pcd.phase \notin PcdWaiting

Exchanging == pcd.phase \in {"Command", "Collect"}

\* "Bounds the total work of an exchange whatever the peer sends"
\* (limits.rs:73): an exchange puts the first frame on the air and, for each
\* block the limits accept, a reply and its MAX_RETRIES recoveries, no more.
AirTimeBounded == Exchanging => sent <= AirTimeBound

OnAir == toPicc[1].block

\* A chunk sent again keeps its block number and the next chunk changes it, so
\* that the card can tell them apart (Rules B, 6 and 7 in exchange).
ChunksNumbered ==
    [][pcd.phase = "Command" /\ pcd'.phase = "Command" =>
         ((pcd'.offset = pcd.offset) <=> (OnAir'.number = OnAir.number))]_vars

\* A recovery asks again for what went unanswered: an R(ACK) with the number
\* of the acknowledgement it repeats, so that the card does not take it for
\* the acknowledgement of its next chunk (transceive_with_recovery).
RecoveryRepeatsNumber ==
    [][pcd'.retries > pcd.retries =>
         /\ Carries(toPicc'[1], "R")
         /\ Carries(toPicc[1], "R") => OnAir'.number = OnAir.number]_vars

-----------------------------------------------------------------------------
(* The strengthening that makes the above inductive.                       *)

FramesCounted == pcd.handler.counters.frames

\* What was sent is paid for by the blocks that were counted: a chunk each
\* while the command goes out, a reply and its recoveries after that.
WorkPaid ==
    /\ pcd.handler.role = "Pcd" /\ pcd.handler.limits = PcdLimits
    /\ Exchanging => FramesCounted <= PcdLimits.max_frames
    /\ pcd.phase = "Command" => pcd.retries = 0 /\ sent <= 1 + FramesCounted
    /\ pcd.phase = "Collect" =>
         sent + (MaxRetries - pcd.retries) <= 1 + FramesCounted * (1 + MaxRetries)

\* The block on the air has the number the session is at.
OnAirInStep ==
    /\ pcd.phase = "Command" =>
         /\ PcdMaxInf > 0 /\ pcd.offset < Len(pcd.apdu)
         /\ Carries(toPicc[1], "I") /\ OnAir.number = pcd.handler.number
    /\ pcd.phase = "Collect" /\ Carries(toPicc[1], "R") =>
         OnAir.number = pcd.handler.number
=============================================================================
