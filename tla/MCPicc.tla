------------------------------- MODULE MCPicc -------------------------------
(* PiccMachine with small limits and every kind of frame.                  *)
EXTENDS PiccMachine

MCUid == <<1, 2, 3, 4, 5, 6, 7>>

MCPiccLimits == [max_frames |-> 3, max_retransmissions |-> 2,
                 max_consecutive_wtx |-> 1, max_total_wtx |-> 2,
                 max_chain_len |-> 2]

\* Empty and two chunks of one byte.
MCResponses == {<<>>, <<1, 2>>}

MCActivationFrames ==
    {Plain(k) : k \in {"Reqa", "Wupa", "Hlta", "Rats", "Pps", "Noise", "Silence"}}
      \cup {LevelFrame(k, n) : k \in {"Anticollision", "Select"}, n \in 0..1}

MCReaderFrames ==
    MCActivationFrames \cup
    {BlockFrame(b) : b \in
        {IBlock(n, c, <<7>>) : n \in Bit, c \in BOOLEAN}
          \cup {RBlock(n, s) : n \in Bit, s \in {"Ack", "Nak"}}
          \cup {SBlock("Wtx", <<1>>), SBlock("Wtx", <<0>>), SBlock("Deselect", <<>>)}}
=============================================================================
