------------------------------- MODULE MCLink -------------------------------
(* Link with one-byte blocks: commands of one, two and three chunks, whose *)
(* responses take one chunk more.                                          *)
EXTENDS LinkInvariants

MCUid == <<1, 2, 3, 4>>

MCLimits == [max_frames |-> 17, max_retransmissions |-> 3,
             max_consecutive_wtx |-> 1, max_total_wtx |-> 1,
             max_chain_len |-> 4]

MCCommands == {<<1>>, <<2, 3>>, <<4, 5, 6>>}

ASSUME MCLinkAmple == AmpleLimits
=============================================================================
