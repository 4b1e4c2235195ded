--------------------------- MODULE HandlerMachine ---------------------------
(***************************************************************************)
(* One ProtocolHandler under any sequence of the calls its callers make,   *)
(* fed any block a peer can send.  The peer is not trusted to follow the   *)
(* protocol: it repeats, skips, floods and restarts at will.               *)
(*                                                                         *)
(* Both transports abandon an exchange on the first error ("?" after every *)
(* call in pcd.rs and picc.rs), so after an Err the next call starts a new *)
(* exchange.                                                               *)
(***************************************************************************)
EXTENDS ProtocolHandler

CONSTANTS PeerBlocks,      \* the blocks the peer may send
          LimitChoices,    \* the limits an application may set
          MaxDeselects     \* S(DESELECT)s a peer sends in one exchange

ASSUME HandlerMachineAssumption == /\ PeerBlocks \subseteq Block
                                   /\ LimitChoices \subseteq LimitsType
                                   /\ MaxDeselects \in Nat

VARIABLES
    handler,      \* the ProtocolHandler
    outcome,      \* what its last call answered
    \* History variables: what a bystander knows from the blocks and answers.
    lastTaken,    \* number of the last block that carried the session forward
    parity,       \* how many such blocks since the activation, modulo 2
    assembled,    \* payload of the I-Blocks taken in since the last APDU began
    granted,      \* work granted to the peer in this exchange, never saturated
    deselects,    \* S(DESELECT)s answered in this exchange
    agreed        \* the limits that this exchange began with

exchange == <<granted, deselects, agreed>>
history == <<lastTaken, parity, assembled, exchange>>
vars == <<handler, outcome, history>>

NothingGranted == [frames |-> 0, retransmissions |-> 0,
                   consecutive_wtx |-> 0, total_wtx |-> 0]

Granted == [frames : Nat, retransmissions : Nat,
            consecutive_wtx : Nat, total_wtx : Nat]

-----------------------------------------------------------------------------
(* What the bystander concludes from block b answered with o.              *)

AsksAgain(b, o) == \/ o.kind = "ChainingRetransmit"
                   \/ o.kind = "Reply" /\ b.type = "I" /\ RepeatsLastIBlock(handler, b)

CarriesForward(b, o) == \/ o.kind \in {"Complete", "ChainingAck"}
                        \/ o.kind = "Reply" /\ b.type = "I" /\ ~ AsksAgain(b, o)

\* One more frame, and with it one more repeat or waiting time.
GrantFrame(g)  == [g EXCEPT !.frames = @ + 1]
GrantRepeat(g) == [g EXCEPT !.retransmissions = @ + 1]
GrantWait(g)   == [g EXCEPT !.consecutive_wtx = @ + 1, !.total_wtx = @ + 1]
EndRuns(g)     == [g EXCEPT !.retransmissions = 0, !.consecutive_wtx = 0]

Charge(b, o) ==
    CASE o.kind = "Err" -> granted
      [] CarriesForward(b, o) -> EndRuns(GrantFrame(granted))
      [] AsksAgain(b, o) -> GrantRepeat(GrantFrame(granted))
      [] o.kind = "Reply" /\ b.type = "S" -> GrantWait(GrantFrame(granted))
      [] OTHER -> GrantFrame(granted)

\* The payload pending once the APDU of an earlier Complete was handed over.
Pending == IF outcome.kind = "Complete" THEN <<>> ELSE assembled

\* The numbers start over, and no APDU is under way.
ForgetSession == /\ lastTaken' = 1
                 /\ parity' = 0
                 /\ assembled' = <<>>

\* An exchange begins where Pcd::exchange or Picc::receive_command begins it,
\* or the application restarts the handler.
NewExchange == /\ granted' = NothingGranted
               /\ deselects' = 0
               /\ agreed' = handler.limits

\* An accepted S(DESELECT) is one more frame of the exchange it comes in: the
\* card's call ends with it, but collect_response() goes on.
ObserveDeselect == /\ ForgetSession
                   /\ granted' = GrantFrame(granted)
                   /\ deselects' = deselects + 1

Observe(b, o) ==
    /\ lastTaken' = IF CarriesForward(b, o) THEN b.number ELSE lastTaken
    /\ parity' = IF CarriesForward(b, o) THEN 1 - parity ELSE parity
    /\ assembled' = IF CarriesForward(b, o) /\ b.type = "I"
                    THEN Pending \o b.payload ELSE Pending
    /\ granted' = Charge(b, o)
    /\ UNCHANGED deselects

-----------------------------------------------------------------------------
Init == \E role \in Role, limits \in LimitChoices :
          /\ handler = NewHandler(role, limits)
          /\ outcome = Ok
          /\ lastTaken = 1
          /\ parity = 0
          /\ assembled = <<>>
          /\ granted = NothingGranted
          /\ deselects = 0
          /\ agreed = limits

\* Pcd::exchange and Picc::receive_command begin with begin_exchange().
StartExchange == /\ handler' = BeginExchange(handler)
                 /\ outcome' = Ok
                 /\ assembled' = <<>>
                 /\ NewExchange
                 /\ UNCHANGED <<lastTaken, parity>>

\* reset(), called by an application that activates the peer again.
Restart == /\ handler' = Reset(handler)
           /\ outcome' = Ok
           /\ ForgetSession
           /\ NewExchange

\* The card's application works out its response: receive_command() returned,
\* and send_response() will go on with the same exchange.
Responding == handler.role = "Picc" /\ outcome.kind = "Complete"

\* set_limits(), at any moment.  What is set while the card's application
\* responds was not agreed upon when the exchange began; at other moments no
\* exchange goes on, or its caller holds the session.
ChangeLimits == \E limits \in LimitChoices :
                  /\ handler' = WithLimits(handler, limits)
                  /\ agreed' = IF Responding THEN agreed ELSE limits
                  /\ UNCHANGED <<outcome, lastTaken, parity, assembled,
                                 granted, deselects>>

\* A frame answered outside the block layer (PPS), charged with note_frame().
AnswerPps == /\ outcome.kind # "Err"
             /\ handler.role = "Picc"
             /\ handler' = NoteFrame(handler).handler
             /\ outcome' = NoteFrame(handler).outcome
             /\ assembled' = Pending
             /\ granted' = IF outcome'.kind = "Err" THEN granted
                           ELSE GrantFrame(granted)
             /\ UNCHANGED <<lastTaken, parity, deselects, agreed>>

\* process_received(b).
Receive(b) == /\ outcome.kind # "Err"
              /\ IsDeselect(b) => deselects < MaxDeselects
              /\ handler' = ProcessReceived(handler, b).handler
              /\ outcome' = ProcessReceived(handler, b).outcome
              /\ IF outcome'.kind # "Err" /\ IsDeselect(b)
                 THEN ObserveDeselect
                 ELSE Observe(b, outcome')
              /\ UNCHANGED agreed

Next == \/ StartExchange
        \/ Restart
        \/ ChangeLimits
        \/ AnswerPps
        \/ \E b \in PeerBlocks : Receive(b)

Spec == Init /\ [][Next]_vars

-----------------------------------------------------------------------------
TypeOK == /\ handler \in Handler
          /\ outcome \in Outcome
          /\ lastTaken \in Bit
          /\ parity \in Bit
          /\ assembled \in Seq(Byte)
          /\ granted \in Granted
          /\ deselects \in 0..MaxDeselects
          /\ agreed \in LimitsType

-----------------------------------------------------------------------------
(* Safety.                                                                 *)

\* No block is taken in twice and none is skipped: whatever the peer repeats,
\* the blocks that carried the session forward since the activation were
\* numbered 0, 1, 0, 1, ... (repeats_last_iblock, toggle_block_number).
NumbersAlternate == lastTaken = 1 - parity

\* A delivered APDU is the payload of the I-Blocks taken in for it, each once
\* and in order: nothing of an earlier exchange, of a failed chain or of a
\* repeated block is in it (process_iblock, begin_exchange, exceeded).
CompleteIsAssembled == outcome.kind = "Complete" => outcome.data = assembled

GrantBound(limits) == [frames          |-> limits.max_frames,
                       retransmissions |-> limits.max_retransmissions,
                       consecutive_wtx |-> limits.max_consecutive_wtx,
                       total_wtx       |-> limits.max_total_wtx]

\* A step that grants the peer one more frame, repeat or waiting time, or
\* accepts payload, stays within limits.
GrantsWithin(limits) ==
    /\ \A w \in DOMAIN granted :
         granted'[w] > granted[w] => granted'[w] <= GrantBound(limits)[w]
    /\ Len(assembled') > Len(assembled) =>
         Len(assembled') <= limits.max_chain_len

\* The peer never gets more out of an exchange than the limits in force allow,
\* counted by a bystander whose counts do not saturate (limits.rs), unless it
\* deselected a reader: the counters are cleared there and the exchange goes on
\* (process_sblock, collect_response).
WorkBounded == [][deselects = 0 => GrantsWithin(handler.limits)]_vars

\* "Replace the work limits. Takes effect on the next exchange." (set_limits):
\* what an exchange grants, the card's response included, is within the limits
\* that it began with.
LimitsTakeEffectNext == [][deselects = 0 => GrantsWithin(agreed)]_vars

-----------------------------------------------------------------------------
(* The strengthening that makes the above inductive.                       *)

\* The PCD expects its own number back, the PICC the number it has not seen.
InStep == handler.number = IF handler.role = "Pcd" THEN 1 - lastTaken
                                                   ELSE lastTaken

\* While an exchange goes on the chain holds what the bystander has seen.
ChainAccounted == outcome.kind # "Err" => handler.chain = Pending

IInv == TypeOK /\ InStep /\ NumbersAlternate /\ ChainAccounted /\ CompleteIsAssembled

\* No limit is the largest value of its counter, which never runs past it.
BelowWidth(limits) == /\ limits.max_frames < U16Max
                      /\ limits.max_retransmissions < U8Max
                      /\ limits.max_consecutive_wtx < U8Max
                      /\ limits.max_total_wtx < U16Max

LimitsBelowWidth == \A limits \in LimitChoices : BelowWidth(limits)

\* While an exchange goes on, and no S(DESELECT) cleared them, the counters are
\* exact.
WorkAccounted == /\ handler.limits \in LimitChoices
                 /\ outcome.kind # "Err" /\ deselects = 0 => granted = handler.counters
=============================================================================
