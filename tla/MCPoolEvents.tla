----------------------------- MODULE MCPoolEvents -----------------------------
(***************************************************************************)
(* The threads around a pool: the receiving thread writes, the processing  *)
(* thread reads, the closing thread tears the pool down.                   *)
(***************************************************************************)
EXTENDS PoolEvents

PoolScript == [receiver  |-> DataWriteCalls \o DataWriteCalls,
               processor |-> DataReadCalls \o DataReadCalls,
               closer    |-> UnInitCalls \o DestructorCalls]
PoolThreads == DOMAIN PoolScript

(* evCancel, evWrite and evRead are listed in this order by all waits.     *)
ASSUME PoolListsFollow == \E rank \in [Events -> 1..3] : ListsFollow(rank)

=============================================================================
