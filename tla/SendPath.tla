------------------------------- MODULE SendPath -------------------------------
(***************************************************************************)
(* The way of a packet from the application to the epoll client:           *)
(* submitPacket, SendPacketThread and convertNetPackToSockPack of          *)
(* sdk_net/netclient.cpp, SendData and Stop of sdk_net/epollclient.cpp.    *)
(*                                                                         *)
(* submitPacket puts a packet into m_listSendNetPacket and posts a         *)
(* semaphore; the sending thread takes it, cuts it into chunks, files each *)
(* chunk in m_mapSendingNetPacket, hands it to SendData, and frees the     *)
(* packet.  send_queue_packet_ is the bounded queue that the packet ring   *)
(* implements (RingQueuePacketProofs).  The socket is registered for       *)
(* EPOLLIN | EPOLLET only, so that OnSocketWrite, which would take chunks  *)
(* out of it, has no step here: only Stop does.  The list and the          *)
(* semaphore are those of a TwoClassQueue.                                 *)
(***************************************************************************)
EXTENDS Integers, Sequences, FiniteSets, SequencesExt

CONSTANTS
  Packets,   \* the NET_PACKETs the application submits
  Kind,      \* byType of each
  Chunks,    \* pieces of at most MAX_SEND_PACKET_SIZE each is cut into
  MaxQueue,  \* MAX_SEND_QUEUE_SIZE
  RingCap,   \* capacity of send_queue_packet_
  Stops      \* when EpollTcpClient::Stop may be called

Kinds == {"CMD", "PASSDATA", "PASSINFO", "EXIT"}

(* CNetClient::UnInit joins the sending thread before it calls Stop; the   *)
(* destructor of EpollTcpClient and its other users do not.                *)
StopTimes == {"never", "afterJoin", "anytime"}

ASSUME SendPathAssumption ==
  /\ Kind \in [Packets -> Kinds] /\ Chunks \in [Packets -> Nat]
  /\ MaxQueue \in Nat /\ RingCap \in Nat \ {0} /\ Stops \in StopTimes

NotCalled == -3         \* submitPacket has not returned anything for the packet
NoPacket  == "nullptr"

VARIABLES
  list,      \* m_listSendNetPacket
  sem,       \* m_semSendNetPacket
  answer,    \* what submitPacket last returned for each packet
  accepted,  \* history: the packets it has taken, in order
  handled,   \* history: the packets the sending thread has taken, in order
  pc,        \* where SendPacketThread is
  cur,       \* its pNetPacket
  packCount, \* chunks of cur it has filed
  msgId,     \* m_msgId
  sending,   \* m_mapSendingNetPacket and its index map: <<msgId, packet, packCount>>
  freed,     \* packets that were deleted
  ring,      \* send_queue_packet_: <<msgId, packet, packCount>>
  taken,     \* history: what was popped from it
  running,   \* running_status_
  stop       \* where Stop is

vars == <<list, sem, answer, accepted, handled, pc, cur, packCount, msgId, sending, freed,
          ring, taken, running, stop>>

queueVars  == <<list, sem, answer, accepted>>
threadVars == <<handled, pc, cur, packCount, msgId, sending, freed>>
epollVars  == <<ring, taken, running, stop>>

ChunkRecords == Nat \X Packets \X Nat
Ring == INSTANCE BoundedFifo WITH Cap <- RingCap, Packets <- ChunkRecords,
                                  queue <- ring, out <- taken

IsCmd(p) == Kind[p] = "CMD"

Init ==
  /\ list = <<>> /\ sem = 0
  /\ answer = [p \in Packets |-> NotCalled]
  /\ accepted = <<>> /\ handled = <<>>
  /\ pc = "none" /\ cur = NoPacket /\ packCount = 0
  /\ msgId = 0 /\ sending = {} /\ freed = {}
  /\ Ring!Init
  /\ running = FALSE /\ stop = "no"

-----------------------------------------------------------------------------
(* CNetClient::Init: EpollTcpClient::Start, which ends with this if it     *)
(* succeeds, and behind it the thread, whatever it has returned.           *)
StartSucceeds ==
  /\ pc = "none" /\ ~running /\ stop = "no"
  /\ running' = TRUE
  /\ UNCHANGED <<queueVars, threadVars, ring, taken, stop>>

Launch ==
  /\ pc = "none"
  /\ pc' = "semWait"
  /\ UNCHANGED <<queueVars, handled, cur, packCount, msgId, sending, freed, epollVars>>

-----------------------------------------------------------------------------
(* submitPacket, under m_mutexSendNetPacket.  A null pointer changes       *)
(* nothing and gets -2.                                                    *)

(* The number of commands at the front of a list.                          *)
CmdPrefix(s) == Cardinality({i \in 1..Len(s) : \A j \in 1..i : IsCmd(s[j])})

(* Mutant: sem_post is missing for commands.                               *)
SubmitCmdSilent(p) ==
  /\ IsCmd(p)
  /\ list' = InsertAt(list, CmdPrefix(list) + 1, p)
  /\ answer' = [answer EXCEPT ![p] = CmdPrefix(list)]
  /\ accepted' = Append(accepted, p)
  /\ UNCHANGED sem

(* Mutant: push_front.                                                     *)
SubmitCmdFront(p) ==
  /\ IsCmd(p)
  /\ list' = <<p>> \o list
  /\ answer' = [answer EXCEPT ![p] = 0]
  /\ sem' = sem + 1
  /\ accepted' = Append(accepted, p)

(* A command goes behind the commands at the front, at any length.         *)
SubmitCmd(p) ==
  /\ IsCmd(p)
  /\ list' = InsertAt(list, CmdPrefix(list) + 1, p)
  /\ answer' = [answer EXCEPT ![p] = CmdPrefix(list)]
  /\ sem' = sem + 1
  /\ accepted' = Append(accepted, p)

Full == Len(list) >= MaxQueue

(* Anything else goes to the back, unless the list is full.                *)
SubmitOther(p) ==
  /\ ~IsCmd(p)
  /\ \/ /\ ~Full
        /\ list' = Append(list, p)
        /\ answer' = [answer EXCEPT ![p] = Len(list)]
        /\ sem' = sem + 1
        /\ accepted' = Append(accepted, p)
     \/ /\ Full
        /\ answer' = [answer EXCEPT ![p] = -1]
        /\ UNCHANGED <<list, sem, accepted>>

(* The application submits a packet until it is accepted, and then leaves  *)
(* it to the sending thread.                                               *)
Submit(p) ==
  /\ answer[p] < 0
  /\ SubmitCmd(p) \/ SubmitOther(p)
  /\ UNCHANGED <<threadVars, epollVars>>

-----------------------------------------------------------------------------
(* SendPacketThread                                                        *)

(* Mutant: sem_trywait, its result ignored.                                *)
SemTryWait ==
  /\ pc = "semWait"
  /\ sem' = sem - 1
  /\ pc' = "front"
  /\ UNCHANGED <<list, answer, accepted, handled, cur, packCount, msgId, sending, freed, epollVars>>

SemWait ==
  /\ pc = "semWait" /\ sem > 0
  /\ sem' = sem - 1
  /\ pc' = "front"
  /\ UNCHANGED <<list, answer, accepted, handled, cur, packCount, msgId, sending, freed, epollVars>>

(* front and pop_front under m_mutexSendNetPacket; TYPE_EXIT ends the      *)
(* thread and leaves that packet allocated.                                *)
TakeFront ==
  /\ pc = "front"
  /\ cur' = Head(list) /\ list' = Tail(list)
  /\ handled' = Append(handled, Head(list))
  /\ packCount' = 0
  /\ pc' = IF Kind[Head(list)] = "EXIT" THEN "exited" ELSE "convert"
  /\ UNCHANGED <<sem, answer, accepted, msgId, sending, freed, epollVars>>

(* Mutant: the packet is filed under m_msgId++.                            *)
FileChunkBehind ==
  /\ pc = "convert" /\ packCount < Chunks[cur]
  /\ msgId' = msgId + 1
  /\ sending' = sending \cup {<<msgId, cur, packCount>>}
  /\ packCount' = packCount + 1
  /\ pc' = "send"
  /\ UNCHANGED <<queueVars, handled, cur, freed, epollVars>>

(* One round of the loop of convertNetPackToSockPack: number the chunk and *)
(* file the packet under that number.                                      *)
FileChunk ==
  /\ pc = "convert" /\ packCount < Chunks[cur]
  /\ msgId' = msgId + 1
  /\ sending' = sending \cup {<<msgId + 1, cur, packCount>>}
  /\ packCount' = packCount + 1
  /\ pc' = "send"
  /\ UNCHANGED <<queueVars, handled, cur, freed, epollVars>>

(* SendData looks at running_status_; a refused chunk is given up.         *)
SendData ==
  /\ pc = "send"
  /\ pc' = IF running THEN "push" ELSE "convert"
  /\ UNCHANGED <<queueVars, handled, cur, packCount, msgId, sending, freed, epollVars>>

(* Mutant: the chunk is numbered ++packCount.                              *)
PushChunkAhead ==
  /\ pc = "push"
  /\ Ring!Put(<<msgId, cur, packCount>>)
  /\ pc' = "convert"
  /\ UNCHANGED <<queueVars, handled, cur, packCount, msgId, sending, freed, running, stop>>

(* Its Push, which waits for a free place.                                 *)
PushChunk ==
  /\ pc = "push"
  /\ Ring!Put(<<msgId, cur, packCount - 1>>)
  /\ pc' = "convert"
  /\ UNCHANGED <<queueVars, handled, cur, packCount, msgId, sending, freed, running, stop>>

(* All chunks handed over, in a way that always returns 0: no wait for an  *)
(* acknowledgement; the packet and its data are deleted.                   *)
FreePacket ==
  /\ pc = "convert" /\ packCount = Chunks[cur]
  /\ freed' = freed \cup {cur}
  /\ cur' = NoPacket
  /\ pc' = "semWait"
  /\ UNCHANGED <<queueVars, handled, packCount, msgId, sending, epollVars>>

SenderStep == SemWait \/ TakeFront \/ FileChunk \/ SendData \/ PushChunk \/ FreePacket

-----------------------------------------------------------------------------
(* EpollTcpClient::Stop                                                    *)

MayStop == Stops # "never" /\ (Stops = "afterJoin" => pc = "exited")

(* Behind the flag Stop joins the loop's thread, for as long as that takes *)
(* or for ever (EpollClient): here that is the time between this step and  *)
(* StopDrain, which need not come.  A Stop without a loop to join is the   *)
(* end of the program.                                                     *)
StopBegin ==
  /\ stop = "no" /\ running /\ MayStop
  /\ running' = FALSE
  /\ stop' = "drain"
  /\ UNCHANGED <<queueVars, threadVars, ring, taken>>

(* Mutant: "if" for "while".                                               *)
StopDrainOnce ==
  /\ stop = "drain"
  /\ stop' = "done"
  /\ Ring!Get \/ (ring = <<>> /\ UNCHANGED <<ring, taken>>)
  /\ UNCHANGED <<queueVars, threadVars, running>>

(* while (!isEmpty()) Pop.                                                 *)
StopDrain ==
  /\ stop = "drain"
  /\ \/ Ring!Get /\ UNCHANGED stop
     \/ ring = <<>> /\ stop' = "done" /\ UNCHANGED <<ring, taken>>
  /\ UNCHANGED <<queueVars, threadVars, running>>

StopStep == StopBegin \/ StopDrain

Next == StartSucceeds \/ Launch \/ (\E p \in Packets : Submit(p)) \/ SenderStep \/ StopStep

Spec == Init /\ [][Next]_vars

(* The sending thread runs whenever it can.  Nothing makes the application *)
(* submit or stop, and a Stop it has begun may never get to its drain.     *)
FairSpec == Spec /\ WF_vars(SenderStep)

-----------------------------------------------------------------------------
(* Properties                                                              *)

SenderPcs == {"none", "semWait", "front", "convert", "send", "push", "exited"}

TypeOK ==
  /\ list \in Seq(Packets) /\ sem \in Nat
  /\ answer \in [Packets -> Int]
  /\ accepted \in Seq(Packets) /\ handled \in Seq(Packets)
  /\ pc \in SenderPcs /\ cur \in Packets \cup {NoPacket} /\ packCount \in Nat
  /\ msgId \in Nat /\ sending \subseteq ChunkRecords /\ freed \subseteq Packets
  /\ ring \in Seq(ChunkRecords) /\ taken \in Seq(ChunkRecords)
  /\ running \in BOOLEAN /\ stop \in {"no", "drain", "done"}

(* The semaphore counts the list: together with the post the sending       *)
(* thread has consumed and not yet used, it is the length of the list.  So *)
(* front() is never called on an empty list, and no packet lies in it      *)
(* without a post that will fetch it.                                      *)
SemCountsList == sem + (IF pc = "front" THEN 1 ELSE 0) = Len(list)

(* Commands overtake everything else, whatever was submitted and taken in  *)
(* between.                                                                *)
CmdsFirst == \A i, j \in 1..Len(list) : i < j /\ IsCmd(list[j]) => IsCmd(list[i])

(* Commands overtake everything else and no command, the others are taken  *)
(* in their order, none is lost or taken twice, and others are refused     *)
(* when MAX_SEND_QUEUE_SIZE packets lie there, commands counted: the list  *)
(* is the two queues of TwoClassQueue, one behind the other.               *)
Cmds == SubSeq(list, 1, CmdPrefix(list))
Rest == SubSeq(list, CmdPrefix(list) + 1, Len(list))
Queue == INSTANCE TwoClassQueue WITH Items <- Packets, Urgent <- {p \in Packets : IsCmd(p)},
                                     Limit <- MaxQueue, first <- Cmds, rest <- Rest,
                                     out <- handled
QueueSpec == Queue!Spec

(* The number of a chunk leads to the packet and the place it came from,   *)
(* whenever SendData or a callback looks it up, and no number is used      *)
(* twice: every chunk handed over is in the maps, and the entries of a     *)
(* finished packet cover it without a gap.  (They outlive the packet.)     *)
ChunksFiled ==
  /\ ToSet(ring) \cup ToSet(taken) \subseteq sending
  /\ \A a, b \in sending : a[1] = b[1] => a = b
  /\ \A p \in freed : {e[3] : e \in {s \in sending : s[2] = p}} = 0..Chunks[p] - 1

(* The chunks of the packets the thread has taken, in order.               *)
ChunksOf(p) ==
  IF Kind[p] = "EXIT" THEN <<>> ELSE [k \in 1..Chunks[p] |-> <<p, k - 1>>]
StreamOf(s) ==
  LET upTo[n \in 0..Len(s)] == IF n = 0 THEN <<>> ELSE upTo[n - 1] \o ChunksOf(s[n])
  IN  upTo[Len(s)]
ChunkStream == StreamOf(handled)
Sent == [i \in DOMAIN (taken \o ring) |->
           <<(taken \o ring)[i][2], (taken \o ring)[i][3]>>]

(* What reaches the ring is an unbroken beginning of the chunks of the     *)
(* packets taken: a Stop cuts the stream, it never leaves a gap or mixes   *)
(* two packets.                                                            *)
StreamUnbroken == IsPrefix(Sent, ChunkStream)

(* A packet accepted before the thread was told to exit is taken and       *)
(* finished, once the thread has been started and unless it sits in a Push *)
(* that finds no place.                                                    *)
Blocked == pc = "push" /\ Len(ring) = RingCap
AcceptedIsHandled ==
  \A p \in Packets :
    (answer[p] >= 0 /\ pc # "none") ~> (p \in freed \/ pc = "exited" \/ Blocked)

(* A chunk given to SendData leaves the queue again: the socket is added   *)
(* to "focus on EPOLLIN and EPOLLOUT event" (epollclient.cpp:69).          *)
QueuedIsWritten == (ring # <<>>) ~> (ring = <<>>)

=============================================================================
