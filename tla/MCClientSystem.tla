---------------------------- MODULE MCClientSystem ----------------------------
(***************************************************************************)
(* ClientSystem with a command c, a data packet d of two chunks, the       *)
(* packet x that ends the sending thread, and a pool that delivers a       *)
(* packet that survives and one that does not, or none.                    *)
(***************************************************************************)
EXTENDS ClientSystem

MCPackets == {"c", "d", "x"}
MCKind    == [c |-> "CMD", d |-> "PASSDATA", x |-> "EXIT"]
MCChunks  == [c |-> 1, d |-> 2, x |-> 0]
Responses == {"LKA", "DATA"}

=============================================================================
