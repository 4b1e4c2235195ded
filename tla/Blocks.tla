------------------------------- MODULE Blocks -------------------------------
(***************************************************************************)
(* Blocks of the half-duplex protocol (block.rs, pcb.rs) after parsing.    *)
(* A block keeps what the handler reads: the type, the block number, the   *)
(* chaining bit, the R- or S-block subtype and the payload.  The CID, the  *)
(* NAD and the CRC are left out: no step of the handler depends on them.   *)
(***************************************************************************)
EXTENDS Naturals, Sequences

Bit  == 0..1
Byte == 0..255

\* r_subtype and s_subtype are never both present; "None" is neither.
Subtype == {"None", "Ack", "Nak", "Wtx", "Deselect"}

Block == [type     : {"I", "R", "S"},
          number   : Bit,
          chaining : BOOLEAN,
          subtype  : Subtype,
          payload  : Seq(Byte)]

IBlock(number, chaining, payload) ==
    [type |-> "I", number |-> number, chaining |-> chaining,
     subtype |-> "None", payload |-> payload]

RBlock(number, subtype) ==
    [type |-> "R", number |-> number, chaining |-> FALSE,
     subtype |-> subtype, payload |-> <<>>]

SBlock(subtype, payload) ==
    [type |-> "S", number |-> 0, chaining |-> FALSE,
     subtype |-> subtype, payload |-> payload]

\* An S(DESELECT), the request and its echo alike.
IsDeselect(b) == b.type = "S" /\ b.subtype = "Deselect"
=============================================================================
