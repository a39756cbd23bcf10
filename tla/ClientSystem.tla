----------------------------- MODULE ClientSystem -----------------------------
(***************************************************************************)
(* A whole client: NetClient (sdk_net/netclient.cpp's Init, threads and    *)
(* UnInit) with the send path in the place of its sending thread, and with *)
(* what UnInit does behind its joins: the UnInit of the pool, of which     *)
(* PoolEvents has the details, and EpollTcpClient::Stop.                   *)
(*                                                                         *)
(* The two meet in Init, which runs EpollTcpClient::Start and goes on      *)
(* whatever that has returned; in the packet TYPE_EXIT, which the          *)
(* application submits like any other and which alone ends the sending     *)
(* thread; in UnInit's join of a thread that may sit in a Push into a full *)
(* ring; and in Stop, which alone would make room there and comes after    *)
(* that join.                                                              *)
(***************************************************************************)
EXTENDS NetClient, Sequences

CONSTANTS Packets, Kind, Chunks, MaxQueue, RingCap,   \* as in SendPath
          HeadReady   \* whether IsPacketReady may find a packet's head in the pool:
                      \* FALSE in the program, where every DataWrite exits

ASSUME SystemAssumption ==
  /\ Kind \in [Packets -> {"CMD", "PASSDATA", "PASSINFO", "EXIT"}] /\ Chunks \in [Packets -> Nat]
  /\ MaxQueue \in Nat /\ RingCap \in Nat \ {0} /\ HeadReady \in BOOLEAN

VARIABLES
  list, sem, answer, accepted, handled, pc, cur, packCount, msgId, sending, freed, ring, taken,
  stop,     \* as in SendPath
  status,   \* running_status_
  evRead,   \* m_evRead of the pool
  peerGone, \* the peer has closed or reset the connection
  closing   \* how far UnInit is behind its joins

Path == INSTANCE SendPath WITH running <- status, Stops <- "anytime"

pathVars == <<list, sem, answer, accepted, handled, pc, cur, packCount, msgId, sending, freed,
              ring, taken, status, stop>>
sysVars  == <<vars, pathVars, evRead, peerGone, closing>>

Alive == ~died /\ closing # "crashed"

SysInit == Init /\ Path!Init /\ evRead = FALSE /\ peerGone = FALSE /\ closing = "no"

-----------------------------------------------------------------------------
(* Init and the application's packets                                      *)

Start ==
  /\ InitClient
  /\ \/ reached' /\ Path!StartSucceeds
     \/ ~reached' /\ UNCHANGED pathVars
  /\ UNCHANGED <<evRead, peerGone, closing>>

StartSending ==
  /\ Spawn("send", "spawn send", "up")
  /\ Path!Launch
  /\ UNCHANGED <<evRead, peerGone, closing>>

(* From any of the application's threads, UnInit or not.                   *)
SubmitPacket(p) ==
  /\ Path!Submit(p)
  /\ IF Kind[p] = "EXIT" /\ answer'[p] >= 0 THEN SubmitExit ELSE UNCHANGED vars
  /\ UNCHANGED <<evRead, peerGone, closing>>

-----------------------------------------------------------------------------
(* The threads and UnInit's joins                                          *)

(* A PacketRead without a packet has come back at once, or from a DataRead *)
(* that took its exit branch and set m_evRead.                             *)
ReadsInVain == th["proc"] = "read" /\ th'["proc"] = "loop"

ThreadGoesOn(t) ==
  /\ ThreadStep(t)
  /\ evRead' \in IF HeadReady /\ ReadsInVain THEN {evRead, TRUE} ELSE {evRead}
  /\ UNCHANGED <<pathVars, peerGone, closing>>

Send ==
  /\ th["send"] = "loop" /\ Path!SenderStep
  /\ IF pc' = "exited" THEN SendExits ELSE UNCHANGED vars
  /\ UNCHANGED <<evRead, peerGone, closing>>

AppGoesOn ==
  /\ \/ Spawn("proc", "spawn proc", "spawn detect") \/ Spawn("detect", "spawn detect", "spawn send")
     \/ UnInitBegin
  /\ UNCHANGED <<pathVars, evRead, peerGone, closing>>

UnInitGoes ==
  /\ UnInitPoll \/ Joins
  /\ UNCHANGED <<pathVars, evRead, peerGone, closing>>

-----------------------------------------------------------------------------
(* UnInit behind its joins                                                 *)

(* BufferPool::UnInit sets evCancel itself and finds evWrite set; nobody   *)
(* but a reader sets the third event it waits for.                         *)
ClosePool ==
  /\ app = "pool" /\ closing = "no" /\ evRead
  /\ closing' = "stop"
  /\ UNCHANGED <<vars, pathVars, evRead, peerGone>>

(* Mutant: UnInit stops the client in front of its joins.                  *)
StopClientFirst ==
  /\ app = "join proc" /\ reached
  /\ Path!StopBegin
  /\ UNCHANGED <<vars, evRead, peerGone, closing>>

(* Stop resets loop_flag_ and running_status_ ...                          *)
StopClient ==
  /\ closing = "stop" /\ reached
  /\ Path!StopBegin
  /\ closing' = "join"
  /\ UNCHANGED <<vars, evRead, peerGone>>

(* ... and joins the loop's thread, which a failed Start has not made:     *)
(* th_loop_ is a null pointer.                                             *)
StopWithoutLoop ==
  /\ closing = "stop" /\ ~reached
  /\ closing' = "crashed"
  /\ UNCHANGED <<vars, pathVars, evRead, peerGone>>

(* The loop's thread has ended: by itself if it was in epoll_wait, but a   *)
(* read of the blocking socket may keep it until the peer goes             *)
(* (EpollClient has the details).                                          *)
JoinLoop ==
  /\ closing = "join"
  /\ closing' = "drain"
  /\ UNCHANGED <<vars, pathVars, evRead, peerGone>>

(* At any time of the connection, but nothing here looks at it in front of *)
(* the join.                                                               *)
PeerLeaves ==
  /\ reached /\ app = "pool" /\ ~peerGone
  /\ peerGone' = TRUE
  /\ UNCHANGED <<vars, pathVars, evRead, closing>>

(* Behind the loop over the ring UnRegisterOnRecvCallback asserts that     *)
(* there is a callback.  The program registers none.                       *)
Drain ==
  /\ closing = "drain" /\ Path!StopDrain
  /\ closing' = IF stop' = "done" THEN "crashed" ELSE closing
  /\ UNCHANGED <<vars, evRead, peerGone>>

CloseStep == ClosePool \/ StopClient \/ StopWithoutLoop \/ Drain

SysNext ==
  /\ Alive
  /\ \/ Start \/ AppGoesOn \/ StartSending \/ (\E p \in Packets : SubmitPacket(p))
     \/ UnInitGoes \/ CloseStep \/ JoinLoop \/ PeerLeaves
     \/ Send \/ \E t \in Workers : ThreadGoesOn(t)

SysSpec == SysInit /\ [][SysNext]_sysVars

(* Every thread runs when it can, and UnInit, once called, goes on when it *)
(* can; nothing makes the application submit packets or call UnInit, nor   *)
(* the peer leave.  Without that nothing makes the loop's thread end.      *)
SysFairSpec ==
  /\ SysSpec /\ \A t \in Workers : WF_sysVars(Alive /\ ThreadGoesOn(t))
  /\ WF_sysVars(Alive /\ Send) /\ WF_sysVars(Alive /\ UnInitGoes) /\ WF_sysVars(Alive /\ CloseStep)
  /\ WF_sysVars(Alive /\ peerGone /\ JoinLoop)

-----------------------------------------------------------------------------
(* Properties                                                              *)

(* The variables of the send path are typed by SendPathSpec.               *)
ClientTypeOK ==
  /\ TypeOK /\ evRead \in BOOLEAN /\ peerGone \in BOOLEAN
  /\ closing \in {"no", "stop", "join", "drain", "crashed"}

(* The order of UnInit's joins and its Stop keeps the assumption that      *)
(* SendPath makes with Stops = "afterJoin": once Init has started the      *)
(* client, the sending thread never sees running_status_ go, and never     *)
(* pushes into a ring that is being drained.                               *)
Promised == INSTANCE SendPath WITH running <- status, Stops <- "afterJoin"
SendPathSpec == Promised!Spec

(* When the sending thread has ended every chunk of every packet it took   *)
(* was handed to the epoll client, in order: all of them if Start had      *)
(* succeeded, and otherwise none, although submitPacket accepted them and  *)
(* Init returned true.                                                     *)
ChunksHandedOver ==
  th["send"] = "dead" => Path!Sent = IF reached THEN Path!ChunkStream ELSE <<>>

(* A TYPE_EXIT is enough to end UnInit's joins, however many packets were  *)
(* submitted in front of it and whether or not there is a connection -     *)
(* unless the sending thread meets a full ring, which Stop would empty but *)
(* UnInit has not come to: then it stays there.                            *)
ExitEndsJoins == (app = "join proc" /\ exitPosted) ~> (app = "pool" \/ Path!Blocked \/ died)

(* Behind its joins two things can hold UnInit for good, and no third:     *)
(* m_evRead, if no DataRead has set it (none does in the program), and the *)
(* loop's thread in a read, while the peer stays.  Otherwise it comes to   *)
(* the end of the program: to the null th_loop_ of a failed Start, or with *)
(* every chunk out of the ring to the assertion at the end of Stop.        *)
WaitsForReader == closing = "no" /\ ~evRead
WaitsForPeer   == closing = "join" /\ ~peerGone
ProgramEnds    == closing = "crashed" /\ (reached => ring = <<>>)
UnInitHeldBy   == (app = "pool") ~> (ProgramEnds \/ []WaitsForReader \/ []WaitsForPeer)

=============================================================================
