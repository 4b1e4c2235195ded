---------------------------- MODULE PiccMachine ----------------------------
(***************************************************************************)
(* The card against an arbitrary reader: any frame may come at any time.   *)
(* The application calls Picc in the order its documentation gives:        *)
(* wait_for_activation, wait_for_rats, then receive_command and            *)
(* send_response by turns, and activation again whenever it likes.         *)
(***************************************************************************)
EXTENDS Picc

CONSTANTS Responses,       \* what the application answers
          ReaderFrames     \* what receive() may bring

ASSUME PiccMachineAssumption == /\ Responses \subseteq Seq(Byte)
                                /\ ReaderFrames \subseteq Frame

VARIABLES
    \* History variables.
    answered,     \* frames of this exchange after which the call went on
    said,         \* the last block given to the transceiver in this session
    orderly,      \* no block came out of turn in this session
    halted        \* HALT was entered and no WUPA has come since

history == <<answered, said, orderly, halted>>
vars == <<picc, toPcd, history>>

Init == /\ picc \in {NewPicc(ats, "Idle") : ats \in BOOLEAN}
        /\ toPcd = <<>>
        /\ answered = 0
        /\ said = <<>>
        /\ orderly = TRUE
        /\ halted = FALSE

-----------------------------------------------------------------------------
InExchange == picc.call \in {"Receive", "Respond"}

\* Counted up to the first one too many.
CountAnswer == IF answered <= PiccLimits.max_frames THEN answered + 1 ELSE answered

\* A session begins when wait_for_rats renews the handler.
BeginsSession(f) == picc.call = "Rats" /\ f.kind = "Rats"

\* A call that goes on has sent something, the same block again perhaps.
GoesOnWith(type) == /\ InExchange /\ InExchange'
                    /\ Carries(toPcd'[1], type)

NoteBlockSaid(f) ==
    said' = IF BeginsSession(f) THEN <<>>
            ELSE IF \/ picc'.lastSent # picc.lastSent
                    \/ \E type \in {"I", "R", "S"} : GoesOnWith(type)
                 THEN picc'.lastSent
                 ELSE said

-----------------------------------------------------------------------------
AskForActivation == WaitForActivation /\ UNCHANGED history

AskForRats == /\ picc.state = "Active"
              /\ WaitForRats
              /\ UNCHANGED history

\* A command that was received is answered before the next one.
AskForCommand == /\ picc.state = "Protocol" /\ picc.result.kind # "Complete"
                 /\ ReceiveCommand
                 /\ answered' = 0
                 /\ UNCHANGED <<said, orderly, halted>>

Answer(data) == /\ picc.state = "Protocol" /\ picc.result.kind = "Complete"
                /\ SendResponse(data)
                /\ said' = picc'.lastSent
                /\ UNCHANGED <<answered, orderly, halted>>

Call == \/ AskForActivation
        \/ AskForRats
        \/ AskForCommand
        \/ \E data \in Responses : Answer(data)

\* An R(ACK) that carries on, not one that asks for the last block again.
CarriesOn(f) == /\ Carries(f, "R") /\ f.block.subtype = "Ack"
                /\ f.block.number # picc.handler.number

\* Out of turn: an I-Block while a chunk of the card waits for its R(ACK), an
\* R(ACK) that carries on while none does, or an R-Block before the card has
\* sent any block of this session.
OutOfTurn(f) == \/ Carries(f, "I") /\ picc.call = "Respond"
                \/ CarriesOn(f) /\ picc.call = "Receive"
                \/ Carries(f, "R") /\ said = <<>>

Hear == \E f \in ReaderFrames :
          /\ PiccHears(f)
          /\ answered' = IF InExchange /\ picc'.call \in {"Receive", "Respond"}
                         THEN CountAnswer ELSE answered
          /\ NoteBlockSaid(f)
          /\ orderly' = (BeginsSession(f) \/ (orderly /\ ~ OutOfTurn(f)))
          /\ halted' = CASE picc'.state = "Halted" -> TRUE
                         [] f.kind = "Wupa" -> FALSE
                         [] OTHER -> halted

Next == Call \/ Hear

\* receive() returns: a reader is in the field and sends something.
Spec == Init /\ [][Next]_vars /\ WF_vars(Hear)

-----------------------------------------------------------------------------
TypeOK == /\ picc \in PiccType
          /\ Len(toPcd) <= 1
          /\ \A i \in DOMAIN toPcd : toPcd[i] \in Frame
          /\ answered \in Nat
          /\ said \in {<<>>} \cup [1..1 -> Block]
          /\ orderly \in BOOLEAN
          /\ halted \in BOOLEAN

-----------------------------------------------------------------------------
\* "Bounds the total work of an exchange whatever the peer sends"
\* (limits.rs:73), over receive_command and the send_response that follows:
\* PPS, repeats, waiting times and presence checks together.
AnswersBounded == answered <= PiccLimits.max_frames

\* A command is received and a response sent, or the call fails, whatever
\* the reader sends (receive_command, send_response).
CommandsReturn == InExchange ~> ~ InExchange

\* Every numbered block carries the number the session is at, a repeated one
\* and a chunk of a response included: toggling happens when a block comes in
\* and never on the way out (send_response, Rule D).  Blocks out of turn can
\* part the two, and the reader has to activate the card again.
BlocksInStep ==
    [][orderly' /\ (GoesOnWith("I") \/ GoesOnWith("R")) =>
         toPcd'[1].block.number = picc'.handler.number]_vars

-----------------------------------------------------------------------------
\* "after DESELECT the PICC enters HALT state (only responds to WUPA, not
\* REQA)" (picc.rs:269-270): no ATQA is sent while HALT lasts.
HaltedUntilWupa ==
    [][halted /\ halted' /\ toPcd' # toPcd => toPcd'[1].kind # "Atqa"]_vars

-----------------------------------------------------------------------------
(* The strengthening that makes the above inductive.                       *)

\* What the blocked call keeps, and the state it was called in.
CallsInOrder ==
    /\ picc.call = "Activation" => picc.state \in {"Idle", "Ready"}
    /\ picc.call = "Rats" => picc.state = "Active"
    /\ picc.call = "Respond" => picc.iblock # <<>>

\* The response to a command belongs to the exchange that brought it.
Answering == picc.state = "Protocol" /\ picc.result.kind = "Complete"

\* RATS renews the handler, its limits stay.
HandlerKept == picc.handler.role = "Picc" /\ picc.handler.limits = PiccLimits

\* Each frame that was answered has been counted.
AnswersPaid ==
    /\ answered <= PiccLimits.max_frames
    /\ InExchange \/ Answering => answered <= picc.handler.counters.frames

\* Between a command and its response the block number is ahead.
InSession == \/ InExchange
             \/ picc.call = "None" /\ picc.state = "Protocol" /\ ~ Answering

Numbered(b, h) == b.type # "S" => b.number = h.number

\* What was said last, and would be said again, has the session's number.
SaidInStep ==
    /\ said # <<>> => said = picc.lastSent
    /\ orderly /\ InSession /\ said # <<>> => Numbered(said[1], picc.handler)
    /\ orderly /\ picc.call = "Respond" =>
         said # <<>> /\ Numbered(picc.iblock[1], picc.handler)
=============================================================================
