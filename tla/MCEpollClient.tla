---------------------------- MODULE MCEpollClient -----------------------------
(* EpollClient with the callbacks of the program, and of another user.     *)
EXTENDS EpollClient

NoCallbacks == {}
RecvAndSend == {"recv", "send"}

=============================================================================
