------------------------------ MODULE PoolEvents ------------------------------
(***************************************************************************)
(* The event protocol of sdk_net/bufferpool.cpp: the calls its functions   *)
(* make on the three events of a pool, run on the event library.           *)
(*                                                                         *)
(* The four-argument WaitForMultipleEvents hands back the status of the    *)
(* wait and drops the index, so that a wait without a time limit gives 0   *)
(* whatever event ended it.  Every DataWrite and DataRead therefore takes  *)
(* its "exit" branch: wait, set the other side's event, return false.      *)
(***************************************************************************)
EXTENDS PEvents

(* BufferPool's constructor: all three are manual-reset, and only evWrite  *)
(* is created set.                                                         *)
PoolEventNames    == {"evCancel", "evRead", "evWrite"}
PoolAutoReset     == {}
PoolInitiallySet  == {"evWrite"}

PoolCall(op, evs) == {[op |-> op, evs |-> evs, ms |-> "infinite"]}

(* Mutant: DataRead does not set evRead.                                   *)
DataReadSilent == << PoolCall("WaitAny", <<"evCancel", "evWrite">>), PoolCall("ResetEvent", <<"evRead">>) >>

(* Both return at once if there is no pool (DataWrite 53-57, DataRead      *)
(* 144-148): these are the calls made while UnInit has not deleted it.     *)
DataWriteCalls == << PoolCall("WaitAny", <<"evCancel", "evRead">>), PoolCall("SetEvent", <<"evWrite">>) >>
DataReadCalls  == << PoolCall("WaitAny", <<"evCancel", "evWrite">>), PoolCall("SetEvent", <<"evRead">>) >>
CancelCalls    == << PoolCall("SetEvent", <<"evCancel">>) >>
UnInitCalls    == CancelCalls \o << PoolCall("WaitAll", <<"evCancel", "evWrite", "evRead">>) >>
DestructorCalls == << PoolCall("DestroyEvent", <<"evRead">>), PoolCall("DestroyEvent", <<"evWrite">>),
                      PoolCall("DestroyEvent", <<"evCancel">>) >>

-----------------------------------------------------------------------------
InUnInit(t) == pc[t] # "idle" /\ call[t].op = "WaitAll"

(* UnInit comes back: "Waited for all evevent exit!" (bufferpool.cpp:249). *)
UnInitReturns == \A t \in Threads : InUnInit(t) ~> ~InUnInit(t)

=============================================================================
