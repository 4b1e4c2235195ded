-------------------------------- MODULE Link --------------------------------
(***************************************************************************)
(* Reader and card through one session after another, over a half-duplex   *)
(* air that loses and garbles frames.  The reader's application activates  *)
(* the card, opens a session, may negotiate a bit rate, exchanges commands *)
(* and ends with a deselect; the card's application waits for activation   *)
(* and RATS and answers every command (example/loopback.rs).  After an     *)
(* error the reader begins again with an activation, and so does the card, *)
(* unless it just waits for the next command.                              *)
(*                                                                         *)
(* transceive() times out when nothing is on the air and the card waits    *)
(* for a frame.  The card library itself answers at once, but its          *)
(* application may take longer than the frame waiting time: then the       *)
(* reader has given up when the answer comes.                              *)
(***************************************************************************)
EXTENDS Pcd, Picc

CONSTANTS Commands,        \* the APDUs of the reader's application
          LossPhases,      \* the phases of the reader in which frames are disturbed
          MaxLossRun,      \* frames disturbed with no block getting through
          LateAnswers,     \* may the card's application be too slow?
          GoesOnAfterError \* does the reader go on after a failed exchange?

VARIABLES
    scan,         \* the reader's activation
    lossRun,      \* frames disturbed since a block last got through
    reader,       \* the reader's application: "Over", "New" or "Running"
    \* History variables.
    command,      \* of the exchange under way, or of the last one
    executed,     \* the commands the card's application got for it
    answer,       \* the response the reader's application got for it
    beyond        \* a frame was disturbed that this protocol cannot recover

asked == <<command, executed, answer>>
history == <<asked, beyond>>
vars == <<scan, pcd, toPicc, picc, toPcd, lossRun, reader, history>>

\* The reader's activation, which shares the air with its session.
Scan == INSTANCE Activation

AnyPhase == Scan!ScanWaiting \cup PcdWaiting

ASSUME LinkAssumption == /\ Commands \subseteq Seq(Byte) \ {<<>>}
                         /\ LossPhases \subseteq AnyPhase
                         /\ MaxLossRun \in Nat
                         /\ LateAnswers \in BOOLEAN
                         /\ GoesOnAfterError \in BOOLEAN

\* Where transceive() waits.
Phase == IF scan.phase = "Idle" THEN pcd.phase ELSE scan.phase

\* The card's application: the command and a status (example/loopback.rs).
ResponseTo(data) == data \o <<144>>

Init == /\ Scan!ScanInit
        /\ PcdInit
        /\ picc = NewPicc(TRUE, "Idle")
        /\ toPicc = <<>> /\ toPcd = <<>>
        /\ lossRun = 0
        /\ reader = "Over"
        /\ command = <<>> /\ executed = <<>> /\ answer = <<>>
        /\ beyond = FALSE

-----------------------------------------------------------------------------
(* The reader's application.  A session that is over is dropped.           *)

DropSession == pcd' = [pcd EXCEPT !.phase = "NoSession", !.result = Ok,
                                  !.handler = NewHandler("Pcd", PcdLimits)]

\* A late answer may still be in the receiver.
Poll == /\ reader = "Over" /\ pcd.phase \in {"NoSession", "Idle"}
        /\ scan.result # "Ok"
        /\ \E request \in {"Reqa", "Wupa"} : Scan!Activate(request)
        /\ DropSession
        /\ toPcd' \in {toPcd, <<>>}
        /\ UNCHANGED <<picc, lossRun, reader, history>>

OpenSession == /\ reader = "Over" /\ scan.result = "Ok"
               /\ Connect
               /\ scan' = [scan EXCEPT !.result = "None", !.uid = <<>>]
               /\ reader' = "New"
               /\ beyond' = FALSE
               /\ UNCHANGED <<picc, toPcd, lossRun, asked>>

PcdReady == pcd.phase = "Idle" /\ reader # "Over"

\* "optional, call after connect/new" (pcd.rs:129).
ChangeBitRate == /\ PcdReady /\ reader = "New"
                 /\ NegotiatePps
                 /\ reader' = "Running"
                 /\ UNCHANGED <<scan, picc, toPcd, lossRun, history>>

Ask(c) == /\ PcdReady
          /\ Exchange(c)
          /\ reader' = "Running"
          /\ command' = c /\ executed' = <<>> /\ answer' = <<>>
          /\ UNCHANGED <<scan, picc, toPcd, lossRun, beyond>>

CloseSession == /\ PcdReady
                /\ Deselect
                /\ reader' = "Over"
                /\ UNCHANGED <<scan, picc, toPcd, lossRun, history>>

-----------------------------------------------------------------------------
(* The card's application.                                                 *)

CardStep == UNCHANGED <<scan, pcd, toPicc, lossRun, reader, history>>

CardAwaitsActivation == /\ picc.state \in {"Idle", "Ready", "Halted"}
                        /\ WaitForActivation
                        /\ CardStep

CardAwaitsRats == /\ picc.state = "Active" /\ picc.result = Ok
                  /\ WaitForRats
                  /\ CardStep

CardAwaitsCommand == /\ picc.state = "Protocol" /\ picc.result.kind # "Complete"
                     /\ ReceiveCommand
                     /\ CardStep

CardAnswers == /\ picc.state = "Protocol" /\ picc.result.kind = "Complete"
               /\ SendResponse(ResponseTo(picc.result.data))
               /\ CardStep

CardStartsOver == /\ picc.state \in {"Active", "Protocol"}
                  /\ picc.result.kind = "Err"
                  /\ WaitForActivation
                  /\ CardStep

CardRuns == \/ CardAwaitsActivation
            \/ CardAwaitsRats
            \/ CardAwaitsCommand
            \/ CardAnswers
            \/ CardStartsOver

-----------------------------------------------------------------------------
(* The air.                                                                *)

CardHears ==
    /\ toPicc # <<>>
    /\ PiccHears(toPicc[1])
    /\ toPicc' = <<>>
    /\ executed' = IF picc'.call = "None" /\ picc'.result.kind = "Complete"
                   THEN Append(executed, picc'.result.data) ELSE executed
    /\ UNCHANGED <<scan, pcd, lossRun, reader, command, answer, beyond>>

Exchanging == pcd.phase \in {"Command", "Collect"}

\* After an error a careful application gives the session up; a connect() that
\* fails leaves none.
SessionHears(f) ==
    /\ PcdHears(f)
    /\ lossRun' = IF f.kind = "Block" THEN 0 ELSE lossRun
    /\ reader' = IF \/ pcd'.phase = "NoSession"
                    \/ pcd'.result.kind = "Err" /\ ~ GoesOnAfterError
                 THEN "Over" ELSE reader
    /\ answer' = IF Exchanging /\ pcd'.result.kind = "Complete"
                 THEN <<pcd'.result.data>> ELSE answer
    /\ UNCHANGED <<scan, picc, command, executed>>

ActivationHears(f) == /\ Scan!ScanHears(f)
                      /\ UNCHANGED <<pcd, picc, lossRun, reader, asked>>

ReaderHears(f) == SessionHears(f) \/ ActivationHears(f)

ReaderHearsFrame == /\ toPcd # <<>>
                    /\ ReaderHears(toPcd[1])
                    /\ toPcd' = <<>>
                    /\ UNCHANGED beyond

TimesOut == /\ toPicc = <<>> /\ toPcd = <<>> /\ picc.call # "None"
            /\ ReaderHears(Plain("Silence"))
            /\ UNCHANGED <<toPcd, beyond>>

\* The card's application is at work on a command; what the reader sends
\* meanwhile may wait in the card's receiver.
GivesUp == /\ LateAnswers
           /\ picc.call = "None" /\ picc.result.kind = "Complete" /\ toPcd = <<>>
           /\ ReaderHears(Plain("Silence"))
           /\ beyond' = TRUE
           /\ UNCHANGED toPcd

\* Recovered are up to MAX_RETRIES frames in a row while the response is
\* collected, unless the card hears noise: that ends its call.
Recoverable == pcd.phase = "Collect" /\ lossRun < MaxRetries

\* A frame of either side is lost, or arrives as noise.
Disturb ==
    /\ Phase \in LossPhases
    /\ lossRun < MaxLossRun
    /\ lossRun' = lossRun + 1
    /\ \/ /\ toPicc # <<>>
          /\ toPicc' \in {<<>>, <<Plain("Noise")>>}
          /\ UNCHANGED toPcd
       \/ /\ toPcd # <<>>
          /\ toPcd' \in {<<>>, <<Plain("Noise")>>}
          /\ UNCHANGED toPicc
    /\ beyond' = (beyond \/ ~ Recoverable \/ toPicc' # <<>>)
    /\ UNCHANGED <<scan, pcd, picc, reader, asked>>

-----------------------------------------------------------------------------
Progress == CardRuns \/ CardHears \/ ReaderHearsFrame \/ TimesOut

Next == \/ Poll
        \/ GivesUp
        \/ OpenSession
        \/ ChangeBitRate
        \/ \E c \in Commands : Ask(c)
        \/ CloseSession
        \/ Progress
        \/ Disturb

\* The card's application answers, receive() and transceive() return.
Spec == Init /\ [][Next]_vars /\ WF_vars(Progress)

-----------------------------------------------------------------------------
TypeOK == /\ scan \in Scan!ScanType /\ pcd \in PcdType /\ picc \in PiccType
          /\ toPicc \in Seq(Frame) /\ toPcd \in Seq(Frame)
          /\ Len(toPicc) <= 1 /\ Len(toPcd) <= 1
          /\ LateAnswers \/ toPicc = <<>> \/ toPcd = <<>>   \* half-duplex
          /\ lossRun \in 0..MaxLossRun
          /\ reader \in {"Over", "New", "Running"}
          /\ command \in Seq(Byte)
          /\ executed \in Seq(Seq(Byte))
          /\ answer \in Seq(Seq(Byte))
          /\ beyond \in BOOLEAN

-----------------------------------------------------------------------------
(* What the two applications are promised.                                 *)

\* ApduChannel, seen from the state of reader and card.
Stage == IF Exchanging THEN "Open"
         ELSE IF reader = "Over" \/ pcd.phase \in {"NoSession", "Connecting"} THEN "Closed"
         ELSE "Ready"

Channel == INSTANCE ApduChannel WITH Command <- Commands, stage <- Stage

\* The session implements the channel: whatever the air does, a command
\* reaches the card's application whole and at most once, and a response that
\* the reader returns is whole and belongs to its command.  A failed exchange
\* closes the session; nothing of it, and nothing the card kept, reaches the
\* next session (exchange, receive_command, send_response and handle_active
\* together).
ImplementsChannel == Channel!Safety

\* Every exchange ends, with the response or with an error, whatever is lost
\* and however often the card has begun anew (transceive_with_recovery).
ExchangesConclude == Channel!Concludes

\* When neither side is in the middle of anything they agree on the number of
\* the next block, however many times frames were repeated and in whatever
\* state an earlier session was left (Rules B, D and E, handle_active).
NumbersAgree ==
    /\ reader # "Over"
    /\ pcd.phase = "Idle" /\ picc.call = "Receive"
    => pcd.handler.number # picc.handler.number

\* The reader is told that the session is closed only when the card has left
\* the protocol (deselect, receive_command).
DeselectAgreed ==
    reader = "Over" /\ pcd.phase = "Idle" /\ pcd.result = Ok => picc.state # "Protocol"

\* MAX_RETRIES lost frames in a row while the reader collects a response fail
\* no call, and the repeats trip no limit of either side: what the reader asks
\* for again the card has kept (transceive_with_recovery, Rule 11).
LossesRecovered == pcd.result.kind = "Err" => beyond

\* "Receive one complete APDU from the PCD" (picc.rs:242).
ReceivesWholeCommands ==
    \A i \in DOMAIN executed : executed[i] \in Commands

=============================================================================
