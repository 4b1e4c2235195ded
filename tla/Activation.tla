----------------------------- MODULE Activation -----------------------------
(***************************************************************************)
(* The reader's activation of a card (activation.rs): REQA or WUPA, then   *)
(* anticollision and SELECT through up to three cascade levels.  The call  *)
(* ends at the first thing that is not the answer it waits for.            *)
(***************************************************************************)
EXTENDS Wire

VARIABLES scan,            \* the call of activate() or wakeup()
          toPicc           \* the frame last put on the air, as a sequence

ScanWaiting == {"Request", "Anticollision", "Select"}

ScanType == [phase  : {"Idle"} \cup ScanWaiting,
             level  : 0..2,
             parts  : Seq([1..4 -> Byte]),     \* uid_cl1, uid_cl2, uid_cl3
             result : {"None", "Ok", "Err"},   \* of the last call
             uid    : Seq(Byte)]               \* Activation.uid

ScanInit == scan = [phase |-> "Idle", level |-> 0, parts |-> <<>>,
                    result |-> "None", uid |-> <<>>]

-----------------------------------------------------------------------------
ScanSends(phase, level, parts, f) ==
    /\ scan' = [phase |-> phase, level |-> level, parts |-> parts,
                result |-> "None", uid |-> <<>>]
    /\ toPicc' = <<f>>

ScanReturns(result, uid) ==
    /\ scan' = [phase |-> "Idle", level |-> 0, parts |-> <<>>,
                result |-> result, uid |-> uid]
    /\ UNCHANGED toPicc

Anticollide(level, parts) ==
    ScanSends("Anticollision", level, parts, LevelFrame("Anticollision", level))

\* activate() sends REQA, wakeup() WUPA.
Activate(request) == /\ scan.phase = "Idle"
                     /\ request \in {"Reqa", "Wupa"}
                     /\ ScanSends("Request", 0, <<>>, Plain(request))

RequestAnswered(f) == /\ scan.phase = "Request"
                      /\ f.kind = "Atqa"
                      /\ Anticollide(0, <<>>)

AnticollisionAnswered(f) ==
    /\ scan.phase = "Anticollision"
    /\ f.kind = "UidBcc"
    /\ ScanSends("Select", scan.level, Append(scan.parts, f.uid),
                 LevelFrame("Select", scan.level))

\* Mutant: the cascade tags stay in the UID.
BuildUidWithTags(parts) ==
    CASE Len(parts) = 1 -> parts[1]
      [] Len(parts) = 2 -> parts[1] \o parts[2]
      [] Len(parts) = 3 -> parts[1] \o parts[2] \o parts[3]

\* build_activation(): the tag before three bytes of each level but the last.
BuildUid(parts) ==
    LET last == parts[Len(parts)]
    IN  CASE Len(parts) = 1 -> last
          [] Len(parts) = 2 -> Tail(parts[1]) \o last
          [] Len(parts) = 3 -> Tail(parts[1]) \o Tail(parts[2]) \o last

SelectAnswered(f) ==
    /\ scan.phase = "Select"
    /\ f.kind = "Sak"
    /\ \/ /\ f.complete
          /\ ScanReturns("Ok", BuildUid(scan.parts))
       \/ /\ ~ f.complete /\ scan.level < 2
          /\ Anticollide(scan.level + 1, scan.parts)
       \/ /\ ~ f.complete /\ scan.level = 2
          /\ ScanReturns("Err", <<>>)

Awaited == CASE scan.phase = "Request" -> "Atqa"
             [] scan.phase = "Anticollision" -> "UidBcc"
             [] OTHER -> "Sak"

Unanswered(f) == /\ scan.phase \in ScanWaiting
                 /\ f.kind # Awaited
                 /\ ScanReturns("Err", <<>>)

\* The transceiver brings back f.
ScanHears(f) == \/ RequestAnswered(f)
                \/ AnticollisionAnswered(f)
                \/ SelectAnswered(f)
                \/ Unanswered(f)
=============================================================================
