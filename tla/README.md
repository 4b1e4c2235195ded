# iso14443: models, checks and proofs

This directory is the verification development of the `iso14443` crate. Source
paths below are relative to `src/` of the crate inside the repository
(`src/type_a/...`), unless they begin with `example/`.

## The system

The crate implements ISO/IEC 14443 Type A for both ends of a contactless link.
It has no threads, timers or I/O of its own: an application on each end calls
the library, the library calls a transceiver (`PcdTransceiver::transceive`, or
`PiccTransceiver::receive` and `send`), and everything concurrent or
unreliable comes in through these calls.

| Part | State it keeps | Operations | What makes it correct |
|---|---|---|---|
| Work limits (`limits.rs`) | limits, four saturating counters | reset, note_progress | nobody gets more than the limits grant |
| Block handler (`protocol.rs`) | role, block number, chain, limits, counters | begin_exchange, reset, set_limits, note_frame, process_received | every block is taken in once; a delivered APDU is whole; work is bounded |
| Reader session (`pcd.rs`) | handler, and the locals of the call in progress | connect, pps, exchange, deselect | calls end; chunks and repeats are numbered so that the card can follow; losses are recovered |
| Card session (`picc.rs`) | handler, activation state, `last_sent`, locals | wait_for_activation, wait_for_rats, receive_command, send_response | calls end; the right block is repeated; HALT and READY are entered and left as the standard has it |
| Reader activation (`activation.rs`) | locals of the call | activate, wakeup | the UID is the card's and the card is selected |
| Blocks (`block.rs`, `pcb.rs`) | none | parse, serialise | every block is read as it was meant; reserved bits are refused |
| Codec (`mod.rs`, `ats.rs`, `rats.rs`, `pps.rs`, `sak.rs`, `atqa.rs`, `anticol_select.rs`, `crc.rs`) | none | parse, serialise | a frame says the same to sender, receiver and bystander, with the CRC in hardware or software; noise is refused |
| Buffers (`vec.rs`) | none | try_push, try_extend | the largest frame fits |
| Transceiver traits (`mod.rs`) | CRC in hardware or not | transceive, receive, send, try_enable_hw_crc | both strategies agree on every frame |
| Examples (`example/`) | none | loopback, CLI parser | loopback: the order of the calls; the parser agrees with the two ends |

The two sessions own a handler each and drive it with every block they hear.
They meet only on the air: reader frame, card frame, in turn. What is hard:

* **loss and noise**: any frame may be lost or garbled; the reader then repeats,
  gives up or starts again while the card is in whatever call it was in;
* **numbering**: one bit tells a new block from a repeated one, and the roles
  apply mirrored rules to it;
* **a peer that does not follow the protocol**: it may repeat, chain, extend and
  poll for ever;
* **errors that end a call** while the peer's call goes on;
* **what survives**: chain, counters, `last_sent` and state across failures,
  exchanges and activations;
* **bytes**: the first byte alone tells PPS, RATS, HLTA, SELECT and the blocks
  apart, absent interface bytes have defaults, and each of some ten code paths
  adds or strips the CRC by itself.

## Modules

| Module | Models | Role |
|---|---|---|
| `Limits` | `limits.rs` | limits, counters, increments with their widths |
| `Blocks` | `block.rs`, `pcb.rs` after parsing | blocks and their builders |
| `ProtocolHandler` | `protocol.rs` | each method as an operator from handler and block to handler and outcome |
| `HandlerMachine` | callers of `protocol.rs` | one handler under any calls and blocks, with history variables |
| `HandlerLemmas` | | what each method of `ProtocolHandler` returns, preserves and counts |
| `HandlerProofs` | | theorems about `HandlerMachine` |
| `Wire` | frames of both layers, chunking | shared by the sessions |
| `Pcd` | `pcd.rs` | a call is a phase; each answer of the transceiver is a step |
| `PcdMachine` | | the reader against an arbitrary peer |
| `PcdLemmas`, `PcdProofs` | | what a step of `Pcd` does; theorems about `PcdMachine` |
| `Picc` | `picc.rs` | `picc.call` names the blocked call; each `receive()` is a step |
| `PiccMachine` | | the card against an arbitrary reader |
| `PiccLemmas`, `PiccProofs` | | what a step of `Picc` does; theorems about `PiccMachine` |
| `Link` | `Activation`, `Pcd` and `Picc` over a lossy air | applications as in `example/loopback.rs`, one session after another |
| `LinkInvariants` | | what makes the safety properties of `Link` inductive |
| `LinkProofs` | | theorems about `Link`, the refinement of `ApduChannel` among them |
| `ApduChannel` | | what sessions promise: the abstract specification `Link` implements |
| `Activation` | `activation.rs` | the reader's scan |
| `Field` | `Activation` and `Picc` over a lossy air | polling until activated |
| `FieldProofs` | | theorems about `Field` |
| `Crc` | `crc.rs`, `vec.rs` | bytes, buffers, CRC_A |
| `BlockCodec` | `block.rs`, `pcb.rs` | blocks as bytes |
| `SelectionCodec` | `atqa.rs`, `sak.rs`, `anticol_select.rs` | the values of activation as bytes |
| `SessionCodec` | `rats.rs`, `ats.rs`, `pps.rs` | what opens a session as bytes |
| `CommandCodec` | `Command` and `Answer` of `mod.rs`, `example/cli_parser.rs` | parsing without context |
| `Frames` | the frames of `activation.rs`, `pcd.rs`, `picc.rs` | reader and card down to the bytes, over an air that garbles |
| `MCHandler`, `MCPcd`, `MCPicc`, `MCLink`, `MCField`, `MCFrames` | | constants for TLC |

How state and actions correspond to the code. A handler is a record with the
fields of `struct ProtocolHandler` (without the CID, on which no step depends).
`ProcessReceived` returns the handler and an outcome, which is an `Action` or an
error; the sessions branch on it as their `match` does. A call of `Pcd` is a
sequence of steps between two `transceive()` calls: an action `...Answered(f)`
runs the code from the moment `f` is returned to the next frame sent or to the
return of the call, so `pcd.phase` is the place in the code where `transceive()`
blocks. `Picc` is the same with `receive()`. The parameter `f` is a frame;
`Noise` is anything the receiver refuses to parse (bad CRC, bad PCB, a frame above
the frame size), `Silence` is an error of the transceiver. All protocol errors
that no caller tells apart are `Other`.

`Link` puts both machines on one air and lets the applications run: the reader
polls, opens a session, may negotiate a bit rate, exchanges commands, deselects
and polls again; the card waits for activation, for RATS and for commands, and
answers. An error of the reader sends it back to polling. `ApduChannel` sees of
this only which stage the session is in, what the card executed and what the
reader returned. Its `stage` is `Stage` of `Link`, a function of the reader's phase and
of its application; its other variables are `command`, `executed` and `answer`. The
safety part of the channel is `ImplementsChannel`, that no exchange stays open is
`ExchangesConclude`.

`Frames` is the layer below. The other models take a frame as understood or as
`Noise`; `Frames` has the bytes, and shows when that is so. A frame goes through
the builder of the reader's function, the transceiver (which adds, checks and
strips the CRC if its side has it in hardware), noise, the other transceiver and
the handler of the card's state, and the answer comes back the same way. What
was meant is kept in `said`, what was understood in `heard`: parsers return the
set of what they accept, one value or none. Blocks are chosen freely from those a
session can send, so `Frames` needs no session of its own.

Operators whose comment begins with "Mutant:" are not part of any model. Each
is a plausible mistake in the definition that follows it; with it in place of
that definition TLC finds the property violated that `PROJECT.json` names, so
the property does depend on the code.

## Runs

| Run | Checks | Result |
|---|---|---|
| `handler` | `NumbersAlternate`, `CompleteIsAssembled`, `WorkBounded` | hold; `WorkBounded` claims nothing of an exchange once the peer has deselected in it |
| `pcd` | `AirTimeBounded`, `CallsReturn`, `ChunksNumbered`, `RecoveryRepeatsNumber` | hold, for a card that sends no S(DESELECT) of its own as a response |
| `picc` | `AnswersBounded`, `CommandsReturn`, `BlocksInStep` | hold; sends may fail |
| `link` | `NumbersAgree`, `DeselectAgreed`, `LossesRecovered`, `ImplementsChannel`, `ExchangesConclude` | hold over any number of sessions, for a reader that gives the session up after an error, also when answers come late |
| `field` | `ActivatesThisCard`, `OnlyReadyBlocks` | hold |
| `frames` | `IntactIsUnderstood`, `GarbledIsRefused`, `CidAsAnnounced`, `ParsersAgree`, `OneReading` | hold |
| `pcd_deselect` | `AirTimeBounded` | violated: S(DESELECT) clears the reader's frame budget (`protocol.rs:347`) |
| `handler_limits` | `LimitsTakeEffectNext` | violated: `set_limits` acts on the exchange under way (`protocol.rs:119`) |
| `picc_halt` | `HaltedUntilWupa` | violated: `wait_for_activation` leaves HALT (`picc.rs:195`) |
| `link_next` | `ReceivesWholeCommands` | violated: the chunks of a failed command meet the next one (`picc.rs:247`) |
| `field_stuck` | `EventuallyActivated` | violated: READY ignores REQA and WUPA (`picc.rs:371`) |
| `frames_select` | `SelectedByUid` | violated: the UID of a SELECT is not compared (`picc.rs:395`) |

Each module also has one type invariant, `TypeOK`. The violated properties
quote the comment of the code they state; `findings` in `PROJECT.json` has the
details. Passing runs state what remains true next to a finding: `handler` bounds
the work of an exchange until the peer deselects and by the limits in force, `pcd`
leaves out the spontaneous S(DESELECT), `link` ends the session after an error, and
`field` has what is left of `EventuallyActivated`.

`WorkBounded` is about a bystander's count of what the peer was granted, which goes
on over an S(DESELECT), for `collect_response` goes on with the exchange. The
handler's own counters start from zero there, so the count of a reader's exchange
may pass the limits; that is the finding of `pcd_deselect`, and the exception is
written into the property (`deselects = 0`). `LimitsTakeEffectNext` measures the same
count by the limits the exchange began with (`agreed`). It is violated where the
library's own interface permits it: a card's application calls `Picc::set_limits`
after `receive_command` returned and before `send_response`, which go on with the
counters of the same exchange.

Bounds, and why they are enough:

* `handler`: two sets of limits with 1 to 6 allowed events of each kind, one with
  a chain limit above the buffer capacity so that the buffer fills first; payloads
  of 0 to 2 bytes, and every kind of block with both numbers, so every limit is
  reached and passed in both roles. One S(DESELECT) may come in each exchange
  (`MaxDeselects`), at any moment of it. The history's `granted` is bounded by the
  limits and `MaxDeselects`, so the state space is finite without a constraint.
* `handler_limits`: the same limits, a command of one block and repeats.
* `pcd`: commands of none to three chunks, five frames, two repeats, three waiting
  times: every phase meets every frame with every count up to its limit. `sent`
  stops at one above its bound (`AirTimeBound`).
* `picc`: a 7-byte UID (two levels), three frames, responses of one and two
  chunks, every frame at every moment. `answered` stops at one above its limit.
* `link`: blocks of one byte, commands of one to three and responses of two to four
  chunks, up to three disturbed frames with no block getting through between them:
  one more than `MAX_RETRIES`, so that recovery succeeds and fails. Frames are
  disturbed in every phase, the activation included. The number of exchanges and
  of sessions is not bounded, and every answer of the card's application may come
  after the reader gave up (`LateAnswers`). `max_frames` is 17, the least that
  satisfies `AmpleLimits` for three chunks and four: 2 + 3 + 3 * 4.
* `field`: a 10-byte UID (three levels) and three disturbed frames of any kind.
* `frames`: 24 setups: every mixture of hardware and software CRC with both ends of
  the frame sizes (16 and 256 bytes) on both sides and a full ATS; UIDs of 4, 7 and
  10 bytes; an ATS with all interface bytes, one that denies CID support, one that
  leaves the interface bytes out. I-Blocks have one byte or fill the frame, so the
  largest is as long as a buffer without `alloc` (`FrameCapacity`). One byte of a
  frame of up to 16 bytes is garbled, each bit alone and all together: every frame
  but the full blocks. Other readers' frames begin with every byte, alone and with
  three second bytes. `frames_select` has no noise.

Deadlock is checked in every run but those on `Field`, which may stop when the card
is activated, and on `Frames`, which stops when a call of the reader failed, when
nobody answers, or when the card is halted: `CHECK_DEADLOCK FALSE` stands there.

## Fairness

Weak fairness of one action in each specification, no strong fairness.

* `PcdMachine`, `Hear`: `transceive()` returns. The timeout belongs to the
  transceiver, as `limits.rs` says at its head.
* `PiccMachine`, `Hear`: `receive()` returns, that is, a reader is there. Without it
  `receive_command()` waits for ever, which is what it is for.
* `Link`, `Progress`: both `transceive()` and `receive()` return what is on the air,
  the reader times out when nothing is, and the card's application calls the
  library again. Loss is not part of `Progress` and is bounded in a row, so the
  air is not required to deliver anything in particular. New sessions and new
  exchanges are not fair: the application may stop asking.
* `Field`, `Progress`: the same, and the reader's application polls again.

Both composed models let `transceive()` time out when nothing is on the air and the
card waits for a frame. The library's card answers at once and never asks for a
waiting time extension of its own, so an application that takes longer than the
frame waiting time is too late: `Link` has this as `GivesUp`. What the reader sends
meanwhile may wait in the card's receiver, and the late answer may wait in the
reader's and meet its next frame, an activation, where it fails the call and does
no other harm. That is because the reader gives the session up. An application
that calls `exchange()` again instead is handed the late answer as the response
to its next command: the failed exchange left the block number as it was, so the
number fits.

## Proofs

| Theorem | Of | States | Hypotheses |
|---|---|---|---|
| `ProcessReceivedType` | `HandlerLemmas` | `process_received()` is total, and its outcomes are those its callers tell apart | none |
| `TypeCorrect` | `HandlerProofs` | `[]TypeOK` | none |
| `NumbersAlternateAlways`, `CompleteIsAssembledAlways` | `HandlerProofs` | `[]NumbersAlternate`, `[]CompleteIsAssembled` | none |
| `WorkBoundedAlways` | `HandlerProofs` | `WorkBounded`: the limits in force are kept until the peer deselects | `LimitsBelowWidth` |
| `PcdTypeCorrect` | `PcdProofs` | `[]TypeOK` | none |
| `ChunksNumberedAlways`, `RecoveryRepeatsNumberAlways` | `PcdProofs` | `ChunksNumbered`, `RecoveryRepeatsNumber` | none |
| `AirTimeBoundedAlways` | `PcdProofs` | `[]AirTimeBounded` | `~ SpontaneousDeselect`, `max_frames < U16Max` |
| `PiccTypeCorrect` | `PiccProofs` | `[]TypeOK` | none |
| `AnswersBoundedAlways` | `PiccProofs` | `[]AnswersBounded` | `max_frames < U16Max` |
| `BlocksInStepAlways` | `PiccProofs` | `BlocksInStep` | `PiccMaxInf # 0` |
| `BuildUidOfParts` | `FieldProofs` | `BuildUid` puts together what `UidPart` took apart | none |
| `FieldTypeCorrect`, `ActivatesThisCardAlways` | `FieldProofs` | `[]TypeOK`, `[]ActivatesThisCard` | none |
| `LinkTypeCorrect` | `LinkProofs` | `[]TypeOK` | none |
| `NumbersAgreeAlways`, `DeselectAgreedAlways` | `LinkProofs` | `[]NumbersAgree`, `[]DeselectAgreed` | `~ GoesOnAfterError` |
| `LinkImplementsChannel` | `LinkProofs` | `ImplementsChannel` | `~ GoesOnAfterError`, `PcdMaxInf # 0` |
| `LossesRecoveredAlways` | `LinkProofs` | `[]LossesRecovered` | `~ GoesOnAfterError`, `~ SendFaults`, `AmpleLimits` |

They hold for every set of limits, buffer and payload size, command, UID and
number of disturbed frames: no bound of the runs enters. The constants obey the
assumptions of the modules (`HandlerMachineAssumption`, `ChainCapacityAssumption`,
`PcdAssumption`, `PiccAssumption`, `LinkAssumption` and those of the two
machines and `Field`), which say that limits are limits and commands are
sequences of bytes; TLC evaluates each in a passing run.

The other hypotheses are necessary, and what happens without them:

* `LimitsBelowWidth`, `max_frames < U16Max`: a saturated counter never exceeds a
  limit as large as itself. With `max_retransmissions = 255` repeats are bounded
  by `max_frames` alone; with `max_frames = 65535` nothing bounds the exchange.
  `Limits::default()` is below. No run has a limit as wide as its counter.
* `~ SpontaneousDeselect`: the run `pcd_deselect` shows the reader's budget
  cleared by an S(DESELECT) that comes as a response.
* `PiccMaxInf # 0`: every FSD that RATS can carry leaves payload room
  (`picc.rs:303-304`). With none, `send_response` fails after `receive_command`
  has moved the number on, with the old block still in `last_sent`.
* `PcdMaxInf # 0`: the smallest FSC of an ATS is 16 bytes, the overhead at most 4
  (`pcd.rs:180-181`). With no room `exchange` fails before it sends anything and the
  session stays with the application.
* `~ GoesOnAfterError`: the run `link_next` has a reader that goes on after a
  failed exchange, with its block number and the card's no longer related.
* `~ SendFaults`: a send that fails ends the card's call with an error, and nobody is
  left to answer the reader's recovery.
* `AmpleLimits`: a command that is longer than a buffer, or an exchange that needs more
  frames than the limits allow, fails without any loss. Limits and buffers hold each
  command and its response, and the card may be asked `MAX_RETRIES` times for every
  block of the response, so its frames are `MAX_RETRIES + command + (1 + MAX_RETRIES) *
  response`, in blocks (the first term for repeats of the last block of the response
  before, which the card answers in the call that receives this command). `Limits::default()`
  qualifies: the smallest frames carry 12 bytes, so a command and a response that each
  fill a buffer of 1024 bytes take 86 blocks, and 2 + 86 + 3 * 86 = 346 is below its 512;
  its 3 retransmissions are above `MAX_RETRIES`. TLC evaluates `AmpleLimits` in the run
  `link`, whose limits satisfy it.

### Blocks (`HandlerLemmas`, `HandlerProofs`)

`ProcessReceivedEffect` says once what any block does to any handler: nothing but
counting and a failure, or one of six effects (a chain grown, a repeat asked for,
an acknowledgement, a poll, a waiting time, a deselect). Everything about the
sessions rests on it, by way of `ReceivedCounts` (frames), `ReceivedNumbers`,
`ReceivedAck`, `ReceivedIBlock` (numbers) and `ReceivedReply` (what is sent back).

Neither `NumbersAlternate` nor `CompleteIsAssembled` is inductive.
`NumbersAlternate` compares two history variables and says nothing of the
handler: `InStep` links the handler's number to the last block taken in, with
the roles mirrored, and then each outcome of `process_received` either leaves
number and history alone or advances both. `CompleteIsAssembled` looks at the
answer just given: `ChainAccounted` says that before it, while no call has failed,
the handler's chain is exactly the payload a bystander has seen. It does not hold
after an error, where the chain may be dropped (a limit) or kept (a full buffer),
and need not, because the callers go on with a new exchange; this is the one
assumption about the callers, and `Receive` has it as a guard.
`WorkBounded` compares unsaturated counts with the limits. It needs
`WorkAccounted`: while no call has failed and no S(DESELECT) came in the exchange,
the handler's counters equal the counts, as long as no counter saturates.

### The reader (`PcdLemmas`, `PcdProofs`)

`PcdLemmas` has one lemma for each step of `Pcd` (`ChunkAnsweredEffect`,
`CollectBlockEffect`, `ReplyUnansweredEffect`, ...); `ExchangeSteps` splits a step
that leaves the reader in an exchange into four: first chunk, next or same chunk,
reply, recovery. `AirTimeBounded` counts transmissions, the handler counts blocks
that came in, and the two are not proportional: `WorkPaid` is the account that
joins them. While the command goes out each transmission but the first has
been paid for by a counted block; while the response comes in each counted block
pays for a reply and the recoveries of it, and those not used yet are kept in hand.
`ChunksNumbered` and `RecoveryRepeatsNumber` speak of the frame on the air:
`OnAirInStep` says that it carries the handler's number.

### The card (`PiccLemmas`, `PiccProofs`)

`TypeOK` needs `CallsInOrder`: a `send_response` that waits for an R(ACK) has a
chunk to repeat. `AnswersBounded` needs `AnswersPaid` (each answer has been
counted, from the command to the end of its response, across the two calls) and
`HandlerKept`, for RATS makes a new handler and must keep the limits.
`BlocksInStep` needs `SaidInStep`: what was said last, and would be said again,
has the session's number as long as nothing came out of turn; this is where
`last_sent` and the block number could part, in a send that fails, a repeated
chunk or a PPS between two blocks.

### Activation (`FieldProofs`)

`ActivatesThisCard` relates the reader's result to the card's state, which nothing
ties together while frames are lost. `AirOfScan` does: what the reader sends names its
phase and level, and an answer on the air is the answer to that, so a SAK that
says "complete" is on its way only while the card is selected. A UID need not be an
answer to anything: in READY the card sends it for any two bytes that begin with the
right SEL, whatever noise they were (`picc.rs:387`). `LevelsAgree` says that such a UID
is still that of the reader's level when the reader takes it. `PartsOfUid`
says which parts of the UID the reader has, `ActivatedForGood` that nothing
disturbs the card after success, and `BuildUidOfParts` that the parts make the UID.

### Sessions (`LinkProofs`)

`LinkTypeCorrect` needs `Orderly`: the state of the card for each call
(`CardCalls`), the reader's application and activation in order (`PartsPerLevel`,
`OneAtATime`), and `InTurns`: without late answers the card's application is at
work only while the reader waits and the air is free. That is what makes the air
half-duplex.

`NumbersAgree` and `DeselectAgreed` are conclusions about moments of rest; in
between the two numbers are equal or not, depending on what is on the air. `InStep`
says it, one part for each state of the reader. `CommandOK`: a block on its way
to the card is new to it (`Expects`), and a block on its way back has the number
the two now share. `CollectOK`: the card keeps what it last sent, which has the
shared number if it is the last block of the response, while a lost R(ACK) of a
chained block leaves the card one number behind. `ReadyOK`: between calls the air
is free and the card expects the reader's number, from RATS on (`ConnectingOK`).
`DeselectingOK`: an echo of S(DESELECT) is on the air only if the card has left the
protocol. `SearchingOK` bounds what a session given up may leave behind: the late
answer and the frame it meets. Each part is disturbed by a step of the other
side, so there is a lemma for each actor (`CallInStep`, `CardRunsInStep`,
`CardHearsInStep`, `SessionHearsInStep`, `DisturbInStep`) with a case for each state.

`LinkImplementsChannel` maps the initial states of `Link` to those of `ApduChannel` and
every step to a step or a stutter: `exchange` submits, the last I-Block of the
command at the card executes, the last I-Block of the response at the reader
answers, an error of the reader fails or closes, everything else stutters. Which of
these a step is follows from `InStep`; that the data is right needs `Whole`, about
the bytes of the exchange under way. It says three things. While the command goes
out, the chunk on the air is the one at the reader's offset, and what the card has
of the command ends where that chunk begins (`CommandUnderWay`), or, once the card's
R(ACK) is on the way back, where it ends (`ChunkTaken`). While the response comes in
(`Responding`), the card's `last_sent` is the chunk of the response at some offset,
and the reader has the response up to that offset if the chunk has the number the
reader expects, and up to the end of the chunk if not: one bit tells the two apart,
which is why a repeated chunk is never appended twice and a lost one never skipped.
And a card that waits for a new command has nothing of an old one (`Fresh`), which
fails as soon as the reader goes on after an error (`link_next`). The lemmas follow the
actors again (`CallWhole`, `CardRunsWhole`, `CardHearsWhole`, `SessionHearsWhole`,
`DisturbWhole`); `ChunkContinues` of `HandlerLemmas` joins the chunks.

`LossesRecovered` says that no call of the reader has failed unless a disturbance was
beyond this protocol (`beyond`): outside the collection of a response, one more than
`MAX_RETRIES` in a row, a frame garbled on its way to the card, or an answer that was
late. So every place where a call may fail has to be excluded. `Recovering` has a part for
each phase that says the card is there to answer and how far the counters of both sides are. While the command goes out the
card's frames are the chunks it took in and the repeats of the response before
(`ChunksCounted`). While the response comes
in, the reader's `retries` and the loss it has not noticed yet (`Unnoticed`) are the
losses in a row, at most `MAX_RETRIES`, so `transceive_with_recovery` does not give up;
the card's repeats are no more than those losses, so it does not trip
`max_retransmissions`; and its frames are within the blocks of the response already
passed, times `1 + MAX_RETRIES`, plus those losses (`WithinResponse`). `Ahead` tells
whether the R(ACK) of the reader asks for the next chunk or for a repeat of the
last, which decides what is counted where. `Whole` converts bytes into blocks: the
offset of the chunk under way says how many blocks are left. `ActivatedOK` is about the
call before: a session begins only when the card is active and its application has
called for RATS, or is about to. `RoomForChunk`, `RoomForResponse` and `WithinCounts`
are the arithmetic, kept apart from the steps; the steps are in `CallRecovering`,
`CardRunsRecovering`, `CardHearsRecovering`, `SessionHearsRecovering` and
`DisturbRecovering`.

Each strengthening was checked by TLC as an invariant of the run of its machine
before it was proved, `Orderly` and `InStep` also without late answers and with
sends that fail.

### Only model-checked

* Liveness: `CallsReturn`, `CommandsReturn`, `OnlyReadyBlocks` and `ExchangesConclude`. The
  prover has no rule for fairness.
* `Frames`: its properties are about bytes, CRC_A bit by bit with them, over
  finitely many setups; the run covers those whole.

## Not modelled

* Collisions of two cards in an anticollision frame, bit by bit, which the
  transceiver resolves. `Frames` has another card answer the anticollision as a
  whole (`StrangerSays`); it does not answer the SELECT that follows, so what the
  reader hears when both cards send a SAK is not modelled.
* The values of FSC and FSD in the session models, where they enter as the payload
  bytes of a block; `Frames` has them.
* Bytes this library never builds, beyond their first two: NAD is parsed by
  `BlockCodec` but no block has one, an ATS of one byte is parsed but no
  configuration sends it, and an ATS with more than 250 historical bytes, whose
  length byte would wrap with `alloc` (`ats.rs:61`), is outside the frame sizes of
  the standard.
* Readers other than this library's, against a card, beyond what `picc` says of them:
  its `BlocksInStep` claims nothing once a block came out of turn (`orderly`). What
  follows an R(ACK) that nobody owes (`protocol.rs:318`) or an I-Block while a chunk
  waits for its R(ACK) (`picc.rs:349`), both of which move the card's number on before
  the call fails, no property says, nor what becomes of a `last_sent` that survives
  RATS (`picc.rs:442`): the reader of this library sends none of the former and asks for
  a repeat only after a block of its session has come, so none of this happens in `Link`.
* Whether an exchange survives a frame that is garbled on its way to the card
  (`picc.rs:330`), or lost while the command is sent. The first ends the card's call.
  The second fails the exchange at once: `exchange()` sends the command with
  `transceive_block(..)?` (`pcd.rs:195`) and recovers only in `collect_response()`,
  though its comment promises "error recovery per ISO14443-4" (`pcd.rs:168-169`), and
  the R(NAK) branch of `transceive_with_recovery` is never reached.
  `LossesRecovered` counts both as `beyond`; `ImplementsChannel`, `NumbersAgree` and
  `ExchangesConclude` cover what follows.
* Time: frame waiting times, guard times (`Fwi::fwt`, `Sfgi::sfgt`) and the value of a waiting time extension
  are the transceiver's.
* Transceivers that fail to send on the reader's side are `Silence`: `transceive()` is
  one call.

## Plan

Built in this order: `Limits`, `Blocks`, `ProtocolHandler`, `HandlerMachine` with its
proofs, `Pcd`, `Picc`, `Link` against `ApduChannel`, `Activation` and `Field`; then the
codec modules and `Frames`, and `Link` over activation, several sessions and late
answers; then the theorems about `PcdMachine`, `PiccMachine`, `Field` and `Link`; then the
refinement of `ApduChannel`, and `LossesRecovered`. Every safety property of the runs is
a theorem now, those of `Frames` excepted. Next: readers that send blocks out of turn,
and what a card's session is worth after them.
