------------------------------- MODULE MCPcd -------------------------------
(* PcdMachine with small limits and every kind of answer.                  *)
EXTENDS PcdMachine

MCPcdLimits == [max_frames |-> 5, max_retransmissions |-> 2,
                max_consecutive_wtx |-> 2, max_total_wtx |-> 3,
                max_chain_len |-> 3]

\* For the run that only counts frames.
MCSmallLimits == [MCPcdLimits EXCEPT !.max_frames = 1]

\* Empty, one chunk, two chunks and three chunks of two bytes.
MCApdus == {<<>>, <<1>>, <<1, 2, 3>>, <<1, 2, 3, 4, 5>>}

MCPeerFrames ==
    {BlockFrame(b) : b \in
        {IBlock(n, c, p) : n \in Bit, c \in BOOLEAN, p \in {<<>>, <<7, 8>>}}
          \cup {RBlock(n, s) : n \in Bit, s \in {"Ack", "Nak"}}
          \cup {SBlock("Wtx", <<1>>), SBlock("Wtx", <<0>>), SBlock("Deselect", <<>>)}}
      \cup {Plain(k) : k \in {"Ats", "Ppss", "Noise", "Silence"}}
=============================================================================
