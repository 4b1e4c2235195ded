-------------------------------- MODULE Field --------------------------------
(***************************************************************************)
(* A reader that polls for a card and the card that waits in its field,    *)
(* over an air that loses frames.  The reader's application calls          *)
(* activate() or wakeup() until one succeeds; the card's application calls *)
(* wait_for_activation() again whenever it fails, and wait_for_rats() once *)
(* it succeeded.  transceive() times out only when nothing is on the air   *)
(* and the card waits for a frame.                                         *)
(***************************************************************************)
EXTENDS Activation, Picc

CONSTANTS LossKinds,       \* the kinds of frames that may be disturbed
          MaxLosses        \* how many frames are disturbed

ASSUME FieldAssumption == LossKinds \subseteq FrameKind /\ MaxLosses \in Nat

VARIABLES losses           \* frames disturbed so far

vars == <<scan, toPicc, picc, toPcd, losses>>

Init == /\ ScanInit
        /\ picc = NewPicc(TRUE, "Idle")
        /\ toPicc = <<>> /\ toPcd = <<>>
        /\ losses = 0

-----------------------------------------------------------------------------
Poll == /\ scan.result # "Ok"
        /\ \E request \in {"Reqa", "Wupa"} : Activate(request)
        /\ UNCHANGED <<picc, toPcd, losses>>

CardStep == UNCHANGED <<scan, toPicc, losses>>

CardAwaitsActivation == picc.state # "Active" /\ WaitForActivation /\ CardStep

\* The card that was polled again while it waited for RATS starts over.
CardAwaitsRats == /\ picc.state = "Active" /\ picc.result = Ok
                  /\ WaitForRats
                  /\ CardStep

CardStartsOver == /\ picc.state = "Active" /\ picc.result # Ok
                  /\ WaitForActivation
                  /\ CardStep

CardHears == /\ toPicc # <<>>
             /\ PiccHears(toPicc[1])
             /\ toPicc' = <<>>
             /\ UNCHANGED <<scan, losses>>

ReaderHearsFrame == /\ toPcd # <<>>
                    /\ ScanHears(toPcd[1])
                    /\ toPcd' = <<>>
                    /\ UNCHANGED <<picc, losses>>

TimesOut == /\ toPicc = <<>> /\ toPcd = <<>> /\ picc.call # "None"
            /\ ScanHears(Plain("Silence"))
            /\ UNCHANGED <<picc, toPcd, losses>>

Disturb == /\ losses < MaxLosses
           /\ losses' = losses + 1
           /\ \/ /\ toPicc # <<>> /\ toPicc[1].kind \in LossKinds
                 /\ toPicc' \in {<<>>, <<Plain("Noise")>>}
                 /\ UNCHANGED toPcd
              \/ /\ toPcd # <<>> /\ toPcd[1].kind \in LossKinds
                 /\ toPcd' \in {<<>>, <<Plain("Noise")>>}
                 /\ UNCHANGED toPicc
           /\ UNCHANGED <<scan, picc>>

CardRuns == CardAwaitsActivation \/ CardAwaitsRats \/ CardStartsOver

Progress == Poll \/ CardRuns \/ CardHears \/ ReaderHearsFrame \/ TimesOut

Next == Progress \/ Disturb

\* The reader keeps polling, receive() and transceive() return.
Spec == Init /\ [][Next]_vars /\ WF_vars(Progress)

-----------------------------------------------------------------------------
TypeOK == /\ scan \in ScanType /\ picc \in PiccType
          /\ toPicc \in Seq(Frame) /\ toPcd \in Seq(Frame)
          /\ Len(toPicc) + Len(toPcd) <= 1      \* half-duplex
          /\ losses \in 0..MaxLosses

-----------------------------------------------------------------------------
\* When the reader has activated a card, it is this card, selected at all its
\* levels and waiting for RATS, and the UID is the card's (do_activate,
\* build_activation, handle_ready, uid_bcc_for_level), whatever was lost
\* before.
ActivatesThisCard ==
    scan.result = "Ok" => scan.uid = Uid /\ picc.state = "Active"

Activated == scan.result = "Ok" /\ picc.state = "Active"

\* A reader that keeps polling activates the card once the air is quiet,
\* unless the card sits in READY, where it waits for the SELECT of a cascade
\* the reader gave up: no error, noise or missed RATS keeps it out otherwise
\* (wait_for_activation, wait_for_rats).
OnlyReadyBlocks == <>[]Activated \/ <>[](picc.state = "Ready")

\* "Handles REQA -> ATQA -> anticollision cascade -> SELECT -> SAK. Returns
\* when the UID is fully selected" (picc.rs:190-191): one lost frame does not
\* keep a polling reader from activating the card.
EventuallyActivated == <>[]Activated

-----------------------------------------------------------------------------
(* The strengthening that makes ActivatesThisCard inductive.               *)

\* The card is in the middle of no session.
CardCalls == /\ picc.call \in {"None", "Activation", "Rats"}
             /\ picc.call = "Activation" => picc.state \in {"Idle", "Ready"}
             /\ picc.call = "Rats" => picc.state = "Active"

CardSelected == /\ picc.state = "Active" /\ picc.result = Ok
                /\ picc.call \in {"None", "Rats"}

InCascade == scan.phase \in {"Anticollision", "Select"}

\* The reader transmits only while it waits for an answer, at its level.
Asked(f) == \/ f.kind = "Noise"
            \/ f.kind \in {"Reqa", "Wupa"} /\ scan.phase = "Request"
            \/ InCascade /\ f = LevelFrame(scan.phase, scan.level)

\* A card that waits for a SELECT waits for the one of this level.
AtLevel(n) == picc.call = "Activation" /\ picc.state = "Ready" => picc.level = n

\* The card answers for the level it was asked about, and goes on to the next.
\* A UID may have been asked for by noise.
Answered(f) ==
    /\ f.kind = "Atqa" => AtLevel(0)
    /\ f.kind = "UidBcc" /\ scan.phase = "Anticollision" =>
         f.uid = UidPart(Uid, scan.level)
    /\ f.kind = "Sak" =>
         /\ scan.phase = "Select" /\ f.complete = IsLastLevel(Uid, scan.level)
         /\ IF f.complete THEN CardSelected ELSE AtLevel(scan.level + 1)

AirOfScan == /\ scan.phase = "Idle" => toPicc = <<>> /\ toPcd = <<>>
             /\ toPicc # <<>> => Asked(toPicc[1])
             /\ toPcd # <<>> => Answered(toPcd[1])

\* Before each SELECT the card is at the reader's level, or in no cascade.
LevelsAgree == scan.phase = "Anticollision" => AtLevel(scan.level)

\* What the reader has of the UID is the card's, one part for each level done.
PartsOfUid ==
    InCascade =>
      /\ scan.level < CascadeLevels(Uid)
      /\ Len(scan.parts) = scan.level + (IF scan.phase = "Select" THEN 1 ELSE 0)
      /\ \A i \in DOMAIN scan.parts : scan.parts[i] = UidPart(Uid, i - 1)

\* Once activated the card stays so: nothing more is sent.
ActivatedForGood ==
    scan.result = "Ok" => scan.phase = "Idle" /\ scan.uid = Uid /\ CardSelected
=============================================================================
