------------------------------ MODULE NetClient -------------------------------
(***************************************************************************)
(* The life of a CNetClient (sdk_net/netclient.cpp): Init, its three       *)
(* threads, and UnInit, called from the application's thread.  What the    *)
(* sending thread does until it gets the packet TYPE_EXIT is in SendPath,  *)
(* the UnInit of the pool that comes after the joins in PoolEvents, and    *)
(* the Start and Stop of the epoll client in EpollClient.                  *)
(*                                                                         *)
(* What PacketRead delivers is a parameter.  In the program no packet      *)
(* arrives (Arriving = {}): recv_callback_ is null, the pool stays empty,  *)
(* and PacketRead comes back at once with false, again and again.  Nobody  *)
(* waits for m_evAck, which is left out.                                   *)
(***************************************************************************)
EXTENDS Naturals

CONSTANT Arriving   \* byType of the packets PacketRead may deliver

Kinds == {"ACK", "LKA", "FUL", "DATA"}
ASSUME NetAssumption == Arriving \subseteq Kinds

Workers == {"proc", "detect", "send"}   \* the indices of m_bThreadsRunning

VARIABLES
  app,        \* where the application's thread is
  reached,    \* what EpollTcpClient::Start has returned
  connected,  \* m_bIsConnect
  endAll,     \* m_bEndAllThread
  running,    \* m_bThreadsRunning
  th,         \* where each thread is
  exitPosted, \* a packet TYPE_EXIT waits for the sending thread
  lka,        \* m_evLKA
  packet,     \* the kind of pNetPacket of ProcessDataThread
  died        \* it has used pNetPacket after setting it to nullptr

vars == <<app, reached, connected, endAll, running, th, exitPosted, lka, packet, died>>

Init ==
  /\ app = "new" /\ reached = FALSE /\ connected = FALSE /\ endAll = FALSE
  /\ running = [t \in Workers |-> FALSE] /\ th = [t \in Workers |-> "none"]
  /\ exitPosted = FALSE /\ lka = FALSE /\ packet = "none" /\ died = FALSE

Go(t, from, to) == th[t] = from /\ th' = [th EXCEPT ![t] = to]

-----------------------------------------------------------------------------
(* The application: Init, a TYPE_EXIT at any time, UnInit                  *)

(* Init returns true whatever Start does.                                  *)
InitClient ==
  /\ app = "new"
  /\ endAll' = FALSE
  /\ reached' \in BOOLEAN /\ connected' = reached'
  /\ app' = "spawn proc"
  /\ UNCHANGED <<running, th, exitPosted, lka, packet, died>>

Spawn(t, here, next) ==
  /\ app = here
  /\ Go(t, "none", "born")
  /\ app' = next
  /\ UNCHANGED <<reached, connected, endAll, running, exitPosted, lka, packet, died>>

SubmitExit ==
  /\ exitPosted' = TRUE
  /\ UNCHANGED <<app, reached, connected, endAll, running, th, lka, packet, died>>

UnInitBegin ==
  /\ app = "up"
  /\ endAll' = TRUE
  /\ app' = "poll"
  /\ UNCHANGED <<reached, connected, running, th, exitPosted, lka, packet, died>>

(* Mutant: the loop waits until all of the threads run.                    *)
UnInitPollAll ==
  /\ app = "poll" /\ \A t \in Workers : running[t]
  /\ app' = "join proc"
  /\ UNCHANGED <<reached, connected, endAll, running, th, exitPosted, lka, packet, died>>

(* The loop waits until one of the threads runs.                           *)
UnInitPoll ==
  /\ app = "poll" /\ \E t \in Workers : running[t]
  /\ app' = "join proc"
  /\ UNCHANGED <<reached, connected, endAll, running, th, exitPosted, lka, packet, died>>

(* Mutant: the thread is not waited for.                                   *)
JoinDetached(t, here, next) ==
  /\ app = here
  /\ app' = next
  /\ UNCHANGED <<reached, connected, endAll, running, th, exitPosted, lka, packet, died>>

(* join; the packets of m_pNetPacketArray, which nobody fills, are deleted *)
(* after the last one.                                                     *)
Join(t, here, next) ==
  /\ app = here /\ th[t] = "dead"
  /\ app' = next
  /\ UNCHANGED <<reached, connected, endAll, running, th, exitPosted, lka, packet, died>>

Joins ==
  \/ Join("proc", "join proc", "join detect") \/ Join("detect", "join detect", "join send")
  \/ Join("send", "join send", "pool")

App ==
  \/ InitClient
  \/ Spawn("proc", "spawn proc", "spawn detect") \/ Spawn("detect", "spawn detect", "spawn send")
  \/ Spawn("send", "spawn send", "up")
  \/ SubmitExit \/ UnInitBegin \/ UnInitPoll \/ Joins

-----------------------------------------------------------------------------
(* ThreadProcessData, ThreadConnectDetection, ThreadSendPacket             *)

Begin(t) ==
  /\ Go(t, "born", "loop")
  /\ running' = [running EXCEPT ![t] = TRUE]
  /\ UNCHANGED <<app, reached, connected, endAll, exitPosted, lka, packet, died>>

End(t) ==
  /\ Go(t, "ending", "dead")
  /\ running' = [running EXCEPT ![t] = FALSE]
  /\ UNCHANGED <<app, reached, connected, endAll, exitPosted, lka, packet, died>>

(* ProcessDataThread at the head of its loop.                              *)
ProcTurn ==
  /\ Go("proc", "loop", IF endAll THEN "ending" ELSE "read")
  /\ UNCHANGED <<app, reached, connected, endAll, running, exitPosted, lka, packet, died>>

(* PacketRead gives false.                                                 *)
ProcReadsNothing ==
  /\ Go("proc", "read", "loop")
  /\ UNCHANGED <<app, reached, connected, endAll, running, exitPosted, lka, packet, died>>

(* PacketRead gives true: events are set, and packets of the first two     *)
(* kinds are deleted and set to nullptr ...                                *)
ProcReads(k) ==
  /\ Go("proc", "read", "packet")
  /\ packet' = k
  /\ lka' = (lka \/ k = "LKA")
  /\ UNCHANGED <<app, reached, connected, endAll, running, exitPosted, died>>

(* ... before the type is looked at again.                                 *)
ProcHandles ==
  /\ Go("proc", "packet", "loop")
  /\ died' = (packet \in {"ACK", "LKA"})
  /\ packet' = "none"
  /\ UNCHANGED <<app, reached, connected, endAll, running, exitPosted, lka>>

(* Mutant: RunConnectDetectionThread does not look at m_bEndAllThread.     *)
DetectTurnForever ==
  /\ Go("detect", "loop", "wait")
  /\ UNCHANGED <<app, reached, connected, endAll, running, exitPosted, lka, packet, died>>

DetectTurn ==
  /\ Go("detect", "loop", IF endAll THEN "ending" ELSE "wait")
  /\ UNCHANGED <<app, reached, connected, endAll, running, exitPosted, lka, packet, died>>

(* WaitForEvent(m_evLKA, 15000) has ended, by the event or by the time,    *)
(* which may have run out with the event set since; then ResetEvent.       *)
DetectWakes ==
  /\ Go("detect", "wait", "loop")
  /\ connected' \in {FALSE, lka}
  /\ lka' = FALSE
  /\ UNCHANGED <<app, reached, endAll, running, exitPosted, packet, died>>

(* The front of the list is the TYPE_EXIT.  The thread may be blocked in   *)
(* front of it for ever (SendPath), so that this step is not a fair one.   *)
SendExits ==
  /\ ~died /\ exitPosted /\ Go("send", "loop", "ending")
  /\ UNCHANGED <<app, reached, connected, endAll, running, exitPosted, lka, packet, died>>

ThreadStep(t) ==
  /\ ~died
  /\ \/ Begin(t) \/ End(t)
     \/ t = "proc" /\ (ProcTurn \/ ProcReadsNothing \/ ProcHandles \/ \E k \in Arriving : ProcReads(k))
     \/ t = "detect" /\ (DetectTurn \/ DetectWakes)

Next == (~died /\ App) \/ (\E t \in Workers : ThreadStep(t)) \/ SendExits

Spec == Init /\ [][Next]_vars

-----------------------------------------------------------------------------
(* Properties                                                              *)

TypeOK ==
  /\ app \in {"new", "spawn proc", "spawn detect", "spawn send", "up", "poll",
              "join proc", "join detect", "join send", "pool"}
  /\ reached \in BOOLEAN /\ connected \in BOOLEAN /\ endAll \in BOOLEAN
  /\ th \in [Workers -> {"none", "born", "loop", "read", "packet", "wait", "ending", "dead"}]
  /\ running \in [Workers -> BOOLEAN]
  /\ \A t \in Workers : running[t] <=> th[t] \in {"loop", "read", "packet", "wait", "ending"}
  /\ exitPosted \in BOOLEAN /\ lka \in BOOLEAN /\ died \in BOOLEAN
  /\ packet \in Arriving \cup {"none"}

(* The pool, the queues and the events are torn down after the threads     *)
(* that use them have ended, however Init, the threads and UnInit          *)
(* interleave.                                                             *)
TornDownAlone == app = "pool" => \A t \in Workers : th[t] = "dead"

(* UnInit gets past its loop, which waits for a thread that runs, except   *)
(* when all of them have ended since: then it waits for ever.              *)
UnInitGoesOn == (app = "poll") ~> (app # "poll" \/ died \/ \A t \in Workers : th[t] = "dead")

=============================================================================
