------------------------------- MODULE Limits -------------------------------
(***************************************************************************)
(* The per-exchange work limits of limits.rs and the counters checked      *)
(* against them.  Integers keep the width the source gives them.           *)
(***************************************************************************)
EXTENDS Naturals

U8Max  == 255
U16Max == 65535
U8     == 0..U8Max
U16    == 0..U16Max

\* The bounds the peer can run past inside the block handler (enum Limit;
\* FrameSize is raised by the transports before the handler sees the block).
Limit == {"Frames", "Retransmissions", "ConsecutiveWtx", "TotalWtx",
          "WtxValue", "ChainLength"}

\* struct Limits.
LimitsType == [max_frames          : U16,
               max_retransmissions : U8,
               max_consecutive_wtx : U8,
               max_total_wtx       : U16,
               max_chain_len       : Nat]

\* Limits::default(); the chain length is a build option (alloc or not).
DefaultLimits(maxChainLen) == [max_frames          |-> 512,
                               max_retransmissions |-> 3,
                               max_consecutive_wtx |-> 8,
                               max_total_wtx       |-> 32,
                               max_chain_len       |-> maxChainLen]

\* struct Counters.
CountersType == [frames          : U16,
                 retransmissions : U8,
                 consecutive_wtx : U8,
                 total_wtx       : U16]

\* Counters::reset().
ZeroCounters == [frames |-> 0, retransmissions |-> 0,
                 consecutive_wtx |-> 0, total_wtx |-> 0]

\* n.saturating_add(1) in an integer whose largest value is max.
SaturatingIncrement(n, max) == IF n < max THEN n + 1 ELSE max

\* The increments of note_frame, note_retransmit and check_wtx.
CountFrame(c)          == [c EXCEPT !.frames = SaturatingIncrement(@, U16Max)]
CountRetransmission(c) == [c EXCEPT !.retransmissions =
                               SaturatingIncrement(@, U8Max)]
CountConsecutiveWtx(c) == [c EXCEPT !.consecutive_wtx =
                               SaturatingIncrement(@, U8Max)]
CountTotalWtx(c)       == [c EXCEPT !.total_wtx = SaturatingIncrement(@, U16Max)]

\* Counters::note_progress(): only the counters of a run are cleared.
NoteProgress(c) == [c EXCEPT !.retransmissions = 0, !.consecutive_wtx = 0]
=============================================================================
