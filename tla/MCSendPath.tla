------------------------------ MODULE MCSendPath ------------------------------
(***************************************************************************)
(* SendPath for TLC: commands c1 and c2, a data packet d1, an information  *)
(* packet i1, and the packet x that ends the thread.                       *)
(***************************************************************************)
EXTENDS SendPath

MCPackets == {"c1", "c2", "d1", "i1", "x"}
MCKind    == [c1 |-> "CMD", c2 |-> "CMD", d1 |-> "PASSDATA", i1 |-> "PASSINFO", x |-> "EXIT"]
MCChunks  == [c1 |-> 1, c2 |-> 0, d1 |-> 2, i1 |-> 1, x |-> 0]

FewPackets == {"c1", "c2", "d1", "x"}
FewKind    == [p \in FewPackets |-> MCKind[p]]
FewChunks  == [p \in FewPackets |-> MCChunks[p]]

=============================================================================
