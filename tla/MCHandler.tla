----------------------------- MODULE MCHandler -----------------------------
(* HandlerMachine with small limits and every kind of block.               *)
EXTENDS HandlerMachine

Tight == [max_frames |-> 4, max_retransmissions |-> 1,
          max_consecutive_wtx |-> 1, max_total_wtx |-> 2,
          max_chain_len |-> 2]

\* A chain limit above ChainCapacity = 3, so that the buffer fills first.
Loose == [max_frames |-> 6, max_retransmissions |-> 2,
          max_consecutive_wtx |-> 2, max_total_wtx |-> 3,
          max_chain_len |-> 4]

MCLimitChoices == {Tight, Loose}

Payloads == {<<>>, <<1>>, <<2, 3>>}

MCPeerBlocks ==
    {IBlock(n, c, p) : n \in Bit, c \in BOOLEAN, p \in Payloads}
      \cup {RBlock(n, s) : n \in Bit, s \in {"Ack", "Nak"}}
      \cup {SBlock("Wtx", p) : p \in {<<>>, <<1>>, <<59>>, <<60>>, <<64>>}}
      \cup {SBlock("Deselect", <<>>)}

\* A reader that has one command and asks for the answer again.
CommandBlocks == {IBlock(0, FALSE, <<1>>)} \cup {RBlock(n, "Nak") : n \in Bit}
=============================================================================
