--------------------------- MODULE RingQueuePacket ---------------------------
(***************************************************************************)
(* The ring of packets between SendData and the socket:                    *)
(* sdk_net/ringqueuepacket.h.  Two semaphores count blanks and data, a     *)
(* mutex protects the ring, and cur_count_ is read without it.             *)
(*                                                                         *)
(* Producers call Push (EpollTcpClient::SendData).  Drainers run the loop  *)
(* of EpollTcpClient::Stop: they look at isEmpty before each Pop and leave *)
(* for good when it is true.  Writers pop without looking, each time they  *)
(* are called (EpollTcpClient::OnSocketWrite).                             *)
(***************************************************************************)
EXTENDS Integers, Sequences, FiniteSets

CONSTANTS Producers, Drainers, Writers,
          Cap,     \* cap_
          MaxPush  \* bound: pushes of each producer

Consumers == Drainers \cup Writers
Threads   == Producers \cup Consumers

ASSUME CapAssumption == Cap \in Nat \ {0} /\ MaxPush \in Nat
ASSUME ThreadsAssumption ==
  /\ IsFiniteSet(Threads)
  /\ Producers \cap Consumers = {} /\ Drainers \cap Writers = {}

(* The k-th packet of a producer; NoPacket fills the new vector.           *)
NoPacket == <<"none", 0>>
Packets  == Producers \X (1..MaxPush)

VARIABLES
  ring_queue, \* [0..Cap-1 -> packet]
  p_step, c_step, cur_count,
  blank_sem, data_sem,
  pc,         \* where each thread is in Push or Pop
  ret,        \* what sem_trywait returned to each consumer
  pushed,     \* pushes each producer has begun
  out         \* history: the packets popped, in order

vars == <<ring_queue, p_step, c_step, cur_count, blank_sem, data_sem, pc, ret, pushed, out>>

Goto(t, l) == pc' = [pc EXCEPT ![t] = l]

Init ==
  /\ ring_queue = [i \in 0..Cap - 1 |-> NoPacket]
  /\ p_step = 0 /\ c_step = 0 /\ cur_count = 0
  /\ blank_sem = Cap /\ data_sem = 0
  /\ pc = [t \in Threads |-> "idle"]
  /\ ret = [c \in Consumers |-> 0]
  /\ pushed = [p \in Producers |-> 0]
  /\ out = <<>>

-----------------------------------------------------------------------------
(* Push                                                                    *)

(* sem_wait(&blank_sem_).                                                  *)
PushWait(p) ==
  /\ pc[p] = "idle" /\ pushed[p] < MaxPush
  /\ blank_sem > 0
  /\ blank_sem' = blank_sem - 1
  /\ pushed' = [pushed EXCEPT ![p] = @ + 1]
  /\ Goto(p, "store")
  /\ UNCHANGED <<ring_queue, p_step, c_step, cur_count, data_sem, ret, out>>

(* Mutant: p_step_ is moved before the packet is stored.                   *)
PushStoreLate(p) ==
  /\ pc[p] = "store"
  /\ ring_queue' = [ring_queue EXCEPT ![(p_step + 1) % Cap] = <<p, pushed[p]>>]
  /\ p_step' = (p_step + 1) % Cap
  /\ cur_count' = cur_count + 1
  /\ Goto(p, "post")
  /\ UNCHANGED <<c_step, blank_sem, data_sem, ret, pushed, out>>

(* Mutant: p_step_ is not wrapped.                                         *)
PushStoreUnwrapped(p) ==
  /\ pc[p] = "store"
  /\ ring_queue' = [ring_queue EXCEPT ![p_step] = <<p, pushed[p]>>]
  /\ p_step' = p_step + 1
  /\ cur_count' = cur_count + 1
  /\ Goto(p, "post")
  /\ UNCHANGED <<c_step, blank_sem, data_sem, ret, pushed, out>>

(* The block under que_mtx_.                                               *)
PushStore(p) ==
  /\ pc[p] = "store"
  /\ ring_queue' = [ring_queue EXCEPT ![p_step] = <<p, pushed[p]>>]
  /\ p_step' = (p_step + 1) % Cap
  /\ cur_count' = cur_count + 1
  /\ Goto(p, "post")
  /\ UNCHANGED <<c_step, blank_sem, data_sem, ret, pushed, out>>

(* sem_post(&data_sem_).                                                   *)
PushPost(p) ==
  /\ pc[p] = "post"
  /\ data_sem' = data_sem + 1
  /\ Goto(p, "idle")
  /\ UNCHANGED <<ring_queue, p_step, c_step, cur_count, blank_sem, ret, pushed, out>>

-----------------------------------------------------------------------------
(* Pop                                                                     *)

(* Mutant: the test always says that there is something.                   *)
isEmptyNever == FALSE

isEmpty == cur_count = 0

(* Stop comes to its loop; OnSocketWrite is called.                        *)
PopBegin(c) ==
  /\ pc[c] = "idle"
  /\ Goto(c, IF c \in Drainers THEN "look" ELSE "try")
  /\ UNCHANGED <<ring_queue, p_step, c_step, cur_count, blank_sem, data_sem, ret, pushed, out>>

(* The while condition of Stop.                                            *)
DrainLook(c) ==
  /\ pc[c] = "look"
  /\ Goto(c, IF isEmpty THEN "gone" ELSE "try")
  /\ UNCHANGED <<ring_queue, p_step, c_step, cur_count, blank_sem, data_sem, ret, pushed, out>>

(* sem_trywait(&data_sem_) returns 0 or -1, never EAGAIN, so that Pop goes *)
(* on in both cases.                                                       *)
PopTry(c) ==
  /\ pc[c] = "try"
  /\ \/ /\ data_sem > 0
        /\ data_sem' = data_sem - 1
        /\ ret' = [ret EXCEPT ![c] = 0]
     \/ /\ data_sem = 0
        /\ ret' = [ret EXCEPT ![c] = -1]
        /\ UNCHANGED data_sem
  /\ Goto(c, "take")
  /\ UNCHANGED <<ring_queue, p_step, c_step, cur_count, blank_sem, pushed, out>>

(* The block under que_mtx_.                                               *)
PopTake(c) ==
  /\ pc[c] = "take"
  /\ out' = Append(out, ring_queue[c_step])
  /\ c_step' = (c_step + 1) % Cap
  /\ cur_count' = cur_count - 1
  /\ Goto(c, "unblank")
  /\ UNCHANGED <<ring_queue, p_step, blank_sem, data_sem, ret, pushed>>

Return(c) == Goto(c, IF c \in Drainers THEN "look" ELSE "idle")

(* Mutant: the sem_post is only reached when sem_trywait succeeded.        *)
PopPostIfData(c) ==
  /\ pc[c] = "unblank"
  /\ blank_sem' = IF ret[c] = 0 THEN blank_sem + 1 ELSE blank_sem
  /\ Return(c)
  /\ UNCHANGED <<ring_queue, p_step, c_step, cur_count, data_sem, ret, pushed, out>>

(* sem_post(&blank_sem_), and return ret.                                  *)
PopPost(c) ==
  /\ pc[c] = "unblank"
  /\ blank_sem' = blank_sem + 1
  /\ Return(c)
  /\ UNCHANGED <<ring_queue, p_step, c_step, cur_count, data_sem, ret, pushed, out>>

Push(p) == PushWait(p) \/ PushStore(p) \/ PushPost(p)
Pop(c)  == DrainLook(c) \/ PopTry(c) \/ PopTake(c) \/ PopPost(c)

Next == (\E p \in Producers : Push(p)) \/ (\E c \in Consumers : PopBegin(c) \/ Pop(c))

Spec == Init /\ [][Next]_vars

(* Threads that can run do run; nobody has to call Stop, and the loop of   *)
(* one that was called does not come back.                                 *)
FairSpec ==
  /\ Spec
  /\ \A p \in Producers : WF_vars(Push(p))
  /\ \A c \in Consumers : WF_vars(Pop(c))

-----------------------------------------------------------------------------
(* Properties                                                              *)

ProducerPcs == {"idle", "store", "post"}
ConsumerPcs == {"idle", "look", "try", "take", "unblank", "gone"}

(* Types; the indices stay inside the vector.                              *)
TypeOK ==
  /\ ring_queue \in [0..Cap - 1 -> Packets \cup {NoPacket}]
  /\ p_step \in 0..Cap - 1 /\ c_step \in 0..Cap - 1
  /\ cur_count \in Int
  /\ blank_sem \in Nat /\ data_sem \in Nat
  /\ pc \in [Threads -> ProducerPcs \cup ConsumerPcs]
  /\ \A p \in Producers : pc[p] \in ProducerPcs
  /\ \A c \in Consumers : pc[c] \in ConsumerPcs
  /\ ret \in [Consumers -> {0, -1}]
  /\ pushed \in [Producers -> 0..MaxPush]
  /\ \A p \in Producers : pc[p] # "idle" => pushed[p] > 0
  /\ out \in Seq(Packets \cup {NoPacket})

At(S, l) == {t \in S : pc[t] = l}

(* Every place in the ring is either blank, claimed by a Push that has     *)
(* waited for it, occupied, or about to be given back by a Pop: the two    *)
(* counters and the blank semaphore cannot drift apart.                    *)
BlankConservation ==
  blank_sem + Cardinality(At(Producers, "store")) + cur_count
            + Cardinality(At(Consumers, "unblank")) = Cap

(* The ring never holds fewer than no packets or more than its capacity:   *)
(* an unread packet is not overwritten and an empty place is not popped.   *)
CountInRange == cur_count \in 0..Cap

(* The write index is cur_count_ places after the read index, so that the  *)
(* packets between them are exactly the unread ones.                       *)
IndicesAgree == p_step = (c_step + cur_count) % Cap

(* The ring as the queue it implements: the packets from c_step_ on.       *)
queue == [i \in 1..cur_count |-> ring_queue[(c_step + i - 1) % Cap]]

Fifo == INSTANCE BoundedFifo

(* Push and Pop implement a bounded queue: every packet is popped once, in *)
(* the order of the stores, whatever the producers do meanwhile.           *)
FifoSpec == Fifo!Spec

(* What holds a Push for good is a full ring that nobody drains any more   *)
(* (or yet), and nothing else: the drain gives back each place it takes,   *)
(* however its failing sem_trywait and its unlocked isEmpty fall between   *)
(* the steps of the producers, and it leaves no Push behind at a ring with *)
(* room.                                                                   *)
Returned(p)   == pushed[p] = MaxPush /\ pc[p] = "idle"
NobodyDrains  == \A d \in Drainers : pc[d] \in {"idle", "gone"}
FullRingHolds == \A p \in Producers : <>[](Returned(p) \/ (cur_count = Cap /\ NobodyDrains))

=============================================================================
