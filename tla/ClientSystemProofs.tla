-------------------------- MODULE ClientSystemProofs --------------------------
(***************************************************************************)
(* The composition keeps what its two parts rest on: it is a NetClient,    *)
(* and a send path whose Stop comes behind the end of its thread, for any  *)
(* packets, limits and arrivals.  Linked is what ties them together.       *)
(***************************************************************************)
EXTENDS ClientSystem, NetClientProofs

(* The client reports the end of the sending thread only after it has      *)
(* ended, and UnInit gets behind its joins only after them.                *)
Linked ==
  /\ th["send"] \in {"ending", "dead"} => pc = "exited"
  /\ closing # "no" => app = "pool"

SysInv == NetInv /\ Linked

-----------------------------------------------------------------------------
(* Every step is one of NetClient or none                                  *)

LEMMA StepIsNet == [SysNext]_sysVars => [Next]_vars
<1> SUFFICES ASSUME [SysNext]_sysVars PROVE [Next]_vars
  OBVIOUS
<1>1. CASE UNCHANGED sysVars
  BY <1>1 DEF sysVars
<1>2. CASE Alive /\ (Start \/ AppGoesOn \/ StartSending)
  <2>1. App
    BY <1>2 DEF Start, AppGoesOn, StartSending, App
  <2> QED
    BY <1>2, <2>1 DEF Alive, Next
<1>3. ASSUME Alive, NEW p \in Packets, SubmitPacket(p) PROVE [Next]_vars
  <2>1. SubmitExit \/ UNCHANGED vars
    BY <1>3 DEF SubmitPacket
  <2> QED
    BY <1>3, <2>1 DEF Alive, App, Next
<1>4. CASE Alive /\ UnInitGoes
  BY <1>4 DEF Alive, UnInitGoes, App, Next
<1>5. CASE CloseStep \/ JoinLoop \/ PeerLeaves
  BY <1>5 DEF CloseStep, ClosePool, StopClient, StopWithoutLoop, Drain, JoinLoop, PeerLeaves
<1>6. CASE Send
  <2>1. SendExits \/ UNCHANGED vars
    BY <1>6 DEF Send
  <2> QED
    BY <2>1 DEF Next
<1>7. ASSUME NEW t \in Workers, ThreadGoesOn(t) PROVE [Next]_vars
  BY <1>7 DEF ThreadGoesOn, Next
<1> QED
  BY <1>1, <1>2, <1>3, <1>4, <1>5, <1>6, <1>7 DEF SysNext

(* The composition is a NetClient, with all that is proved of one.         *)
THEOREM SystemIsNetClient == SysSpec => Spec
<1>1. SysInit => Init
  BY DEF SysInit
<1> QED
  BY <1>1, StepIsNet, PTL DEF SysSpec, Spec

(* The pool is torn down after all threads that use it have ended, in the  *)
(* composition, too.                                                       *)
THEOREM TornDownAloneInSystem == SysSpec => []TornDownAlone
  BY SystemIsNetClient, NobodyLeftInPool, PTL

-----------------------------------------------------------------------------
(* The link between the two is kept                                        *)

LEMMA LinkKept == NetInv /\ NetInv' /\ Linked /\ [SysNext]_sysVars => Linked'
<1> SUFFICES ASSUME NetInv, NetInv', Linked, [SysNext]_sysVars PROVE Linked'
  OBVIOUS
<1>0. /\ "proc" \in Workers /\ "detect" \in Workers /\ "send" \in Workers
      /\ th \in [Workers -> Places]
  BY DEF Workers, NetInv, Reports
<1>1. CASE UNCHANGED sysVars
  BY <1>1 DEF sysVars, vars, pathVars, Linked
<1>2. CASE Start
  BY <1>2 DEF Start, InitClient, Linked, Path!StartSucceeds, Path!threadVars, pathVars
<1>3. CASE AppGoesOn
  <2>1. app \notin {"up", "pool"} => th'["send"] = th["send"]
    BY <1>3, <1>0 DEF AppGoesOn, Spawn, UnInitBegin, Go
  <2>2. app # "pool" /\ UNCHANGED <<pc, closing>>
    BY <1>3 DEF AppGoesOn, Spawn, UnInitBegin, pathVars
  <2>3. app = "up" => th' = th
    BY <1>3 DEF AppGoesOn, Spawn, UnInitBegin
  <2> QED
    BY <2>1, <2>2, <2>3 DEF Linked
<1>4. CASE StartSending
  <2>1. th'["send"] = "born" /\ app # "pool" /\ closing' = closing
    BY <1>4, <1>0 DEF StartSending, Spawn, Go
  <2> QED
    BY <2>1 DEF Linked
<1>5. ASSUME NEW p \in Packets, SubmitPacket(p) PROVE Linked'
  <2>1. UNCHANGED <<th, app, pc, closing>>
    BY <1>5 DEF SubmitPacket, SubmitExit, vars, Path!Submit, Path!threadVars
  <2> QED
    BY <2>1 DEF Linked
<1>6. CASE UnInitGoes
  <2>1. UNCHANGED <<th, pc, closing>> /\ app # "pool"
    BY <1>6 DEF UnInitGoes, UnInitPoll, Joins, Join, pathVars
  <2> QED
    BY <2>1 DEF Linked
<1>7. CASE CloseStep \/ JoinLoop \/ PeerLeaves
  <2>1. UNCHANGED <<th, app, pc>>
    BY <1>7 DEF CloseStep, ClosePool, StopClient, StopWithoutLoop, Drain, JoinLoop, PeerLeaves,
                vars, pathVars, Path!StopBegin, Path!StopDrain, Path!threadVars
  <2>2. closing' # "no" => app = "pool"
    <3>1. CASE ClosePool
      BY <3>1 DEF ClosePool
    <3>2. CASE StopClient \/ StopWithoutLoop \/ JoinLoop \/ PeerLeaves
      BY <3>2 DEF StopClient, StopWithoutLoop, JoinLoop, PeerLeaves, Linked
    <3>3. CASE Drain
      <4>1. closing # "no"
        BY <3>3 DEF Drain
      <4> QED
        BY <4>1 DEF Linked
    <3> QED
      BY <1>7, <3>1, <3>2, <3>3 DEF CloseStep
  <2> QED
    BY <2>1, <2>2 DEF Linked
<1>8. CASE Send
  <2>1. UNCHANGED <<app, closing>> /\ th["send"] = "loop"
    BY <1>8 DEF Send, SendExits, vars
  <2>2. pc' # "exited" => th'["send"] = "loop"
    BY <1>8, <2>1 DEF Send, vars
  <2> QED
    BY <2>1, <2>2 DEF Linked
<1>9. ASSUME NEW t \in Workers, ThreadGoesOn(t) PROVE Linked'
  <2>1. UNCHANGED <<app, closing, pc>>
    BY <1>9 DEF ThreadGoesOn, ThreadStep, Begin, End, ProcTurn, ProcReadsNothing, ProcHandles, ProcReads,
                DetectTurn, DetectWakes, pathVars
  <2>2. th'["send"] \in {"ending", "dead"} => th["send"] \in {"ending", "dead"}
    <3>1. ASSUME NEW from, NEW to, Go("proc", from, to) \/ Go("detect", from, to)
          PROVE  th'["send"] = th["send"]
      BY <3>1, <1>0 DEF Go
    <3>2. ASSUME Begin(t) PROVE th'["send"] \in {"loop", th["send"]}
      BY <3>2, <1>0 DEF Begin, Go
    <3>3. ASSUME End(t) PROVE th'["send"] = th["send"] \/ th["send"] = "ending"
      BY <3>3, <1>0 DEF End, Go
    <3>4. CASE \/ ProcTurn \/ ProcReadsNothing \/ ProcHandles \/ (\E k \in Arriving : ProcReads(k))
               \/ DetectTurn \/ DetectWakes
      BY <3>1, <3>4 DEF ProcTurn, ProcReadsNothing, ProcHandles, ProcReads, DetectTurn, DetectWakes
    <3> QED
      BY <1>9, <3>2, <3>3, <3>4 DEF ThreadGoesOn, ThreadStep
  <2> QED
    BY <2>1, <2>2 DEF Linked
<1> QED
  BY <1>1, <1>2, <1>3, <1>4, <1>5, <1>6, <1>7, <1>8, <1>9 DEF SysNext

LEMMA SysInvHolds == SysSpec => []SysInv
<1>1. SysInit => Linked
  BY DEF SysInit, Init, Linked, Workers
<1>2. SysSpec => []NetInv
  BY SystemIsNetClient, NetInvariant, PTL
<1> QED
  BY <1>1, <1>2, LinkKept, PTL DEF SysSpec, SysInv

-----------------------------------------------------------------------------
(* ... and makes Stop come behind the end of the sending thread            *)

LEMMA SamePrefix == \A s : Path!CmdPrefix(s) = Promised!CmdPrefix(s)
  BY Zenon DEF Path!CmdPrefix, Promised!CmdPrefix, Path!IsCmd, Promised!IsCmd, Path!Cardinality,
               Promised!Cardinality

LEMMA SameInsert == \A s, i, p : Path!InsertAt(s, i, p) = Promised!InsertAt(s, i, p)
  BY Zenon DEF Path!InsertAt, Promised!InsertAt

LEMMA StepIsPath == SysInv /\ [SysNext]_sysVars => [Promised!Next]_pathVars
<1> SUFFICES ASSUME SysInv, [SysNext]_sysVars PROVE [Promised!Next]_pathVars
  OBVIOUS
<1>1. CASE UNCHANGED sysVars
  BY <1>1 DEF sysVars
<1>2. CASE Start
  <2>1. Promised!StartSucceeds \/ UNCHANGED pathVars
    BY <1>2 DEF Start, Path!StartSucceeds, Promised!StartSucceeds, Path!queueVars, Promised!queueVars,
                Path!threadVars, Promised!threadVars
  <2> QED
    BY <2>1 DEF Promised!Next
<1>3. CASE StartSending
  <2>1. Promised!Launch
    BY <1>3 DEF StartSending, Path!Launch, Promised!Launch, Path!queueVars, Promised!queueVars,
                Path!epollVars, Promised!epollVars
  <2> QED
    BY <2>1 DEF Promised!Next
<1>4. ASSUME NEW p \in Packets, SubmitPacket(p) PROVE [Promised!Next]_pathVars
  <2>1. Promised!Submit(p)
    BY <1>4, SamePrefix, SameInsert DEF SubmitPacket, Path!Submit, Promised!Submit, Path!SubmitCmd, Promised!SubmitCmd,
                Path!SubmitOther, Promised!SubmitOther, Path!threadVars, Promised!threadVars,
                Path!epollVars, Promised!epollVars, Path!IsCmd, Promised!IsCmd, Path!Full, Promised!Full
  <2> QED
    BY <2>1 DEF Promised!Next
<1>5. CASE \/ AppGoesOn \/ UnInitGoes \/ ClosePool \/ StopWithoutLoop \/ JoinLoop \/ PeerLeaves
           \/ \E t \in Workers : ThreadGoesOn(t)
  BY <1>5 DEF AppGoesOn, UnInitGoes, ClosePool, StopWithoutLoop, JoinLoop, PeerLeaves, ThreadGoesOn
<1>6. CASE Send
  <2>1. Path!SenderStep
    BY <1>6 DEF Send
  <2>2. Promised!SenderStep
    BY <2>1 DEF Path!SenderStep, Promised!SenderStep, Path!SemWait, Promised!SemWait,
                Path!TakeFront, Promised!TakeFront, Path!FileChunk, Promised!FileChunk,
                Path!SendData, Promised!SendData, Path!PushChunk, Promised!PushChunk,
                Path!FreePacket, Promised!FreePacket, Path!queueVars, Promised!queueVars,
                Path!epollVars, Promised!epollVars, Path!NoPacket, Promised!NoPacket,
                Path!Ring!Put, Promised!Ring!Put
  <2> QED
    BY <2>2 DEF Promised!Next
<1>7. CASE StopClient
  <2>1. pc = "exited"
    BY <1>7 DEF StopClient, SysInv, Linked, NetInv, JoinedSoFar
  <2>2. Promised!StopBegin
    BY <1>7, <2>1 DEF StopClient, Path!StopBegin, Promised!StopBegin, Promised!MayStop,
                      Path!queueVars, Promised!queueVars, Path!threadVars, Promised!threadVars
  <2> QED
    BY <2>2 DEF Promised!Next, Promised!StopStep
<1>8. CASE Drain
  <2>1. Promised!StopDrain
    BY <1>8 DEF Drain, Path!StopDrain, Promised!StopDrain, Path!queueVars, Promised!queueVars,
                Path!threadVars, Promised!threadVars, Path!Ring!Get, Promised!Ring!Get
  <2> QED
    BY <2>1 DEF Promised!Next, Promised!StopStep
<1> QED
  BY <1>1, <1>2, <1>3, <1>4, <1>5, <1>6, <1>7, <1>8 DEF SysNext, CloseStep

(* UnInit's joins make the client a send path whose Stop comes behind the  *)
(* end of its thread (Stops = "afterJoin").                                *)
THEOREM StopComesLast == SysSpec => SendPathSpec
<1>1. SysInit => Promised!Init
  BY DEF SysInit, Path!Init, Promised!Init, Path!NotCalled, Promised!NotCalled, Path!NoPacket,
         Promised!NoPacket, Path!Ring!Init, Promised!Ring!Init
<1> QED
  BY <1>1, SysInvHolds, StepIsPath, PTL DEF SysSpec, SendPathSpec, Promised!Spec, Promised!vars, pathVars

-----------------------------------------------------------------------------
(* The variables of the composition keep their types: a thread reports in  *)
(* m_bThreadsRunning exactly while it runs, UnInit passes its steps in     *)
(* their order.                                                            *)
THEOREM ClientTyping == SysSpec => []ClientTypeOK
<1> DEFINE Added == /\ evRead \in BOOLEAN /\ peerGone \in BOOLEAN
                    /\ closing \in {"no", "stop", "join", "drain", "crashed"}
<1>1. SysInit => Added
  BY DEF SysInit
<1>2. Added /\ [SysNext]_sysVars => Added'
  <2> SUFFICES ASSUME Added, [SysNext]_sysVars PROVE Added'
    OBVIOUS
  <2>1. CASE UNCHANGED sysVars
    BY <2>1 DEF sysVars
  <2>2. CASE CloseStep \/ JoinLoop \/ PeerLeaves
    BY <2>2 DEF CloseStep, ClosePool, StopClient, StopWithoutLoop, Drain, JoinLoop, PeerLeaves
  <2>3. ASSUME NEW p \in Packets, SubmitPacket(p) PROVE Added'
    BY <2>3 DEF SubmitPacket
  <2>4. CASE Start \/ AppGoesOn \/ StartSending \/ UnInitGoes \/ Send
    BY <2>4 DEF Start, AppGoesOn, StartSending, UnInitGoes, Send
  <2>5. ASSUME NEW t \in Workers, ThreadGoesOn(t) PROVE Added'
    <3>1. evRead' \in BOOLEAN /\ UNCHANGED <<peerGone, closing>>
      BY <2>5 DEF ThreadGoesOn
    <3> QED
      BY <3>1
  <2> QED
    BY <2>1, <2>2, <2>3, <2>4, <2>5 DEF SysNext
<1>3. SysSpec => []TypeOK
  BY SystemIsNetClient, NetTyping, PTL
<1>4. TypeOK /\ Added => ClientTypeOK
  BY DEF ClientTypeOK
<1> QED
  BY <1>1, <1>2, <1>3, <1>4, PTL DEF SysSpec

-----------------------------------------------------------------------------
(* ... so that the stream of chunks is whole when that thread has ended    *)

PathProofs == INSTANCE SendPathProofs WITH running <- status, Stops <- "afterJoin"

LEMMA SameStream == Path!ChunkStream = PathProofs!ChunkStream /\ Path!Sent = PathProofs!Sent
  BY Zenon DEF Path!ChunkStream, PathProofs!ChunkStream, Path!StreamOf, PathProofs!StreamOf,
               Path!ChunksOf, PathProofs!ChunksOf, Path!Sent, PathProofs!Sent

LEMMA SameNext == Promised!Next => PathProofs!Next
  BY Zenon
  DEF Promised!Next, PathProofs!Next, Promised!StartSucceeds,
             PathProofs!StartSucceeds, Promised!Launch, PathProofs!Launch,
             Promised!Submit, PathProofs!Submit, Promised!SubmitCmd,
             PathProofs!SubmitCmd, Promised!SubmitOther, PathProofs!SubmitOther,
             Promised!Full, PathProofs!Full, Promised!IsCmd, PathProofs!IsCmd,
             Promised!CmdPrefix, PathProofs!CmdPrefix, Promised!InsertAt,
             PathProofs!InsertAt, Promised!Cardinality, PathProofs!Cardinality,
             Promised!SenderStep, PathProofs!SenderStep, Promised!SemWait,
             PathProofs!SemWait, Promised!TakeFront, PathProofs!TakeFront,
             Promised!FileChunk, PathProofs!FileChunk, Promised!SendData,
             PathProofs!SendData, Promised!PushChunk, PathProofs!PushChunk,
             Promised!FreePacket, PathProofs!FreePacket, Promised!StopStep,
             PathProofs!StopStep, Promised!StopBegin, PathProofs!StopBegin,
             Promised!MayStop, PathProofs!MayStop, Promised!StopDrain,
             PathProofs!StopDrain, Promised!queueVars, PathProofs!queueVars,
             Promised!threadVars, PathProofs!threadVars, Promised!epollVars,
             PathProofs!epollVars, Promised!NoPacket, PathProofs!NoPacket,
             Promised!Ring!Put, PathProofs!Ring!Put, Promised!Ring!Get,
             PathProofs!Ring!Get

LEMMA PathDelivers == SysSpec => []PathProofs!Delivered
<1>1. SendPathSpec => PathProofs!Spec
  <2>1. Promised!Init => PathProofs!Init
    BY Zenon DEF Promised!Init, PathProofs!Init, Promised!NotCalled, PathProofs!NotCalled,
                 Promised!NoPacket, PathProofs!NoPacket, Promised!Ring!Init, PathProofs!Ring!Init
  <2>2. [Promised!Next]_(Promised!vars) => [PathProofs!Next]_(PathProofs!vars)
    BY SameNext DEF Promised!vars, PathProofs!vars
  <2> QED
    BY <2>1, <2>2, PTL DEF SendPathSpec, Promised!Spec, PathProofs!Spec
<1>2. PathProofs!Spec => []PathProofs!Delivered
  <2>1. /\ Kind \in [Packets -> {"CMD", "PASSDATA", "PASSINFO", "EXIT"}]
        /\ Chunks \in [Packets -> Nat]
        /\ MaxQueue \in Nat /\ RingCap \in Nat \ {0} /\ "afterJoin" \in PathProofs!StopTimes
    BY SystemAssumption DEF PathProofs!StopTimes
  <2> QED
    BY <2>1, PathProofs!NothingCutOff DEF PathProofs!Kinds
<1> QED
  BY <1>1, <1>2, StopComesLast, PTL

(* Only a Start that succeeds sets running_status_, and only a Stop takes  *)
(* it away.                                                                *)
Started ==
  /\ reached <=> status \/ stop # "no"
  /\ app = "new" => ~reached

LEMMA StartedKept == SysInv /\ Started /\ [SysNext]_sysVars => Started'
<1> SUFFICES ASSUME SysInv, Started, [SysNext]_sysVars PROVE Started'
  OBVIOUS
<1>1. CASE UNCHANGED sysVars
  BY <1>1 DEF sysVars, vars, pathVars, Started
<1>2. CASE Start
  <2>1. app = "new" /\ app' = "spawn proc"
    BY <1>2 DEF Start, InitClient
  <2>2. CASE reached' /\ Path!StartSucceeds
    BY <2>1, <2>2 DEF Path!StartSucceeds, Started
  <2>3. CASE ~reached' /\ UNCHANGED pathVars
    BY <2>1, <2>3 DEF pathVars, Started
  <2> QED
    BY <1>2, <2>2, <2>3 DEF Start
<1>3. CASE UNCHANGED <<reached, status, stop>> /\ (app' = "new" => app = "new")
  BY <1>3 DEF Started
<1>4. CASE AppGoesOn \/ UnInitGoes
  <2>1. UNCHANGED <<reached, status, stop>> /\ app' # "new"
    BY <1>4 DEF AppGoesOn, UnInitGoes, Spawn, UnInitBegin, UnInitPoll, Joins, Join, pathVars
  <2> QED
    BY <2>1, <1>3
<1>5. CASE StartSending
  <2>1. UNCHANGED <<reached, status, stop>> /\ app' # "new"
    BY <1>5 DEF StartSending, Spawn, Path!Launch, Path!epollVars
  <2> QED
    BY <2>1, <1>3
<1>6. ASSUME NEW p \in Packets, SubmitPacket(p) PROVE Started'
  <2>1. UNCHANGED <<reached, status, stop, app>>
    BY <1>6 DEF SubmitPacket, SubmitExit, vars, Path!Submit, Path!epollVars
  <2> QED
    BY <2>1, <1>3
<1>7. CASE Send
  <2>1. UNCHANGED <<reached, app>>
    BY <1>7 DEF Send, SendExits, vars
  <2>2. UNCHANGED <<status, stop>>
    BY <1>7 DEF Send, Path!SenderStep, Path!SemWait, Path!TakeFront, Path!FileChunk, Path!SendData,
                Path!PushChunk, Path!FreePacket, Path!epollVars
  <2> QED
    BY <2>1, <2>2, <1>3
<1>8. ASSUME NEW t \in Workers, ThreadGoesOn(t) PROVE Started'
  <2>1. UNCHANGED <<reached, status, stop, app>>
    BY <1>8 DEF ThreadGoesOn, ThreadStep, Begin, End, ProcTurn, ProcReadsNothing, ProcHandles, ProcReads,
                DetectTurn, DetectWakes, pathVars
  <2> QED
    BY <2>1, <1>3
<1>9. CASE ClosePool \/ StopWithoutLoop \/ JoinLoop \/ PeerLeaves
  <2>1. UNCHANGED <<reached, status, stop, app>>
    BY <1>9 DEF ClosePool, StopWithoutLoop, JoinLoop, PeerLeaves, vars, pathVars
  <2> QED
    BY <2>1, <1>3
<1>10. CASE StopClient \/ Drain
  <2>1. UNCHANGED <<reached, app>>
    BY <1>10 DEF StopClient, Drain, vars
  <2>2. (status \/ stop # "no") /\ stop' # "no"
    BY <1>10 DEF StopClient, Drain, Path!StopBegin, Path!StopDrain
  <2> QED
    BY <2>1, <2>2 DEF Started
<1> QED
  BY <1>1, <1>2, <1>4, <1>5, <1>6, <1>7, <1>8, <1>9, <1>10 DEF SysNext, CloseStep

(* When the sending thread has ended, every chunk of every packet it took  *)
(* was handed to the epoll client, in order, if Start had succeeded, and   *)
(* none otherwise: whatever is submitted and whenever UnInit comes.        *)
THEOREM AllHandedOver == SysSpec => []ChunksHandedOver
<1>1. SysInit => Started
  BY DEF SysInit, Init, Path!Init, Started
<1>2. SysInv /\ Started /\ PathProofs!Delivered => ChunksHandedOver
  BY SameStream DEF SysInv, Linked, Started, PathProofs!Delivered, ChunksHandedOver
<1> QED
  BY <1>1, <1>2, StartedKept, SysInvHolds, PathDelivers, PTL DEF SysSpec

=============================================================================
