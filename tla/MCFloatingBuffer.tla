-------------------------- MODULE MCFloatingBuffer --------------------------
(***************************************************************************)
(* FloatingBuffer for TLC, scaled down: 4 stands for 1024, 14 for the      *)
(* limit of 1 MB, 3 for the 32 characters of a number.                     *)
(***************************************************************************)
EXTENDS FloatingBuffer

MCLengths == 0..7 \cup {11}
MCDigits == 1..2

=============================================================================
