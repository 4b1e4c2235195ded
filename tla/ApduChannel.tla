----------------------------- MODULE ApduChannel -----------------------------
(***************************************************************************)
(* What a session promises its two applications: each exchange hands the   *)
(* command to the card's application at most once and unchanged, and       *)
(* either returns the response to that command or fails.  A failure or a   *)
(* deselect closes the session: the card executes nothing more until the   *)
(* next one is open.                                                       *)
(***************************************************************************)
EXTENDS Sequences

CONSTANTS Command,            \* the commands of the reader's application
          ResponseTo(_)       \* what the card's application answers

VARIABLES stage,              \* "Closed", "Ready", "Open" during an exchange
          command,            \* of the exchange under way, or of the last one
          executed,           \* what the card executed for it
          answer              \* what it returned: <<>> or one response

vars == <<stage, command, executed, answer>>

Init == /\ stage = "Closed"
        /\ command = <<>> /\ executed = <<>> /\ answer = <<>>

Begin == /\ stage = "Closed"
         /\ stage' = "Ready"
         /\ UNCHANGED <<command, executed, answer>>

Submit(c) == /\ stage = "Ready"
             /\ stage' = "Open" /\ command' = c
             /\ executed' = <<>> /\ answer' = <<>>

Execute == /\ stage = "Open" /\ executed = <<>>
           /\ executed' = <<command>>
           /\ UNCHANGED <<stage, command, answer>>

Answer == /\ stage = "Open" /\ executed = <<command>>
          /\ stage' = "Ready" /\ answer' = <<ResponseTo(command)>>
          /\ UNCHANGED <<command, executed>>

Fail == /\ stage = "Open"
        /\ stage' = "Closed"
        /\ UNCHANGED <<command, executed, answer>>

Close == /\ stage = "Ready"
         /\ stage' = "Closed"
         /\ UNCHANGED <<command, executed, answer>>

Next == \/ Begin
        \/ \E c \in Command : Submit(c)
        \/ Execute
        \/ Answer
        \/ Fail
        \/ Close

Safety == Init /\ [][Next]_vars

\* An exchange does not stay open: what WF_vars(Answer \/ Fail) says here, without
\* ENABLED, which TLC does not evaluate through a refinement mapping.
Concludes == stage = "Open" ~> stage # "Open"

Spec == Safety /\ Concludes
=============================================================================
