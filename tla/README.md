# Verification of epoll_client_demo

TLA+ specifications of the client in `src/sdk_net` and of the logger it uses in
`src/logger`, their model-checking configurations, and proofs checked with TLAPS.
Lines are those of the source at this commit; `PROJECT.json` maps every
definition to them.

## The system

`TcpIp` (tcpipsercnt.cpp) is the facade of the library.  It owns a `CNetClient`,
which has three threads and an `EpollTcpClient` with a thread of its own:

```
 application ── submitPacket ──> m_listSendNetPacket + semaphore
                                        │ SendPacketThread
                                        v  (chunks, m_mapSendingNetPacket)
                         EpollTcpClient::SendData ── Push ──> send_queue_packet_
                                                                   │ (OnSocketWrite: never runs)
 socket ── epoll_wait ── EpollLoop ── OnSocketRead ─ ─ recv_callback_ (never registered) ─ ─> BufferPool
                                                                   │ PacketRead
                         ProcessDataThread <───────────────────────┘
                              │ SetEvent(m_evLKA)
                         RunConnectDetectionThread ──> m_bIsConnect
 every thread ── RSLOG_x / LOG_x_F ──> RsLog (one mutex, one file)
```

| component | state | operations | what makes it correct |
|---|---|---|---|
| event library, rpevents.cpp | per event: state, mutex, condition variable, registered waits; per multi-event wait: status, reference count, EventsLeft | CreateEvent, WaitForEvent, WaitForMultipleEvents, SetEvent, ResetEvent, PulseEvent, DestroyEvent | no signal lost or given twice, wait objects freed once and by the last user, no deadlock of mutexes, no lost wakeup |
| buffer pool, bufferpool.cpp | ring of bytes, three events | Init, DataWrite, DataRead, PacketRead, Cancel, UnInit | an exit only after Cancel; UnInit returns |
| ring of chunks, ringqueuepacket.h | array, indices, count, two semaphores, a mutex | Push, Pop, isEmpty, isFull | a bounded first-in first-out queue for several producers |
| send path, netclient.cpp and epollclient.cpp | list, semaphore, maps of packets being sent, ring | submitPacket, SendPacketThread, convertNetPackToSockPack, SendData, Stop's drain | commands first, order kept, nothing lost, results true, no pointer to a freed packet |
| epoll client, epollclient.cpp | descriptors, thread, flags, callbacks | Start, Stop, EpollLoop, OnSocketRead, registration | reads only its own socket, misses no arrival, Stop ends |
| client's life, netclient.cpp | three threads, flags, m_evLKA, m_bIsConnect | Init, UnInit, the threads, detection of the connection | torn down after the threads; UnInit ends |
| receive side, netclient.cpp | array of packets | ProcessDataThread, GetPacket, DeletePacket, CallBackRecvData | packets are handled and freed once |
| text of a log line, floatingbuffer.cpp, logstream.cpp | memory, position, size | append and the stream's operators | no write past the end, nothing lost below the limit, terminated |
| log file, rslog.cpp, rslogging.cpp | directory, names, size, level, file | trace .. fatal, output, rollFile, the settings | lines in order, files bounded, rolling removes nothing |

Hard in this code: events with two kinds of waits whose objects outlive the
call; a semaphore and a list changed apart; a stop in the middle of everything;
edge-triggered notification with a read loop; descriptors closed by one thread
and kept by another; threads that are joined but not all told to end; log files
rolled by name and by number in the same second.  `PROJECT.json`, "hazards",
lists each at its line with the properties that cover it.

## Modules

| module | models | uses |
|---|---|---|
| PEvents, MCPEvents, PEventsProofs | the pthread build of rpevents.cpp; the proofs, the pool as well | |
| PoolEvents, MCPoolEvents | the calls bufferpool.cpp makes on its events | PEvents |
| BoundedFifo | a bounded first-in first-out queue, what the ring promises | |
| RingQueuePacket, RingQueuePacketProofs | ringqueuepacket.h | implements BoundedFifo |
| TwoClassQueue | a queue of two classes, what submitPacket promises | |
| SendPath, MCSendPath, SendPathProofs | submitPacket to the ring, with Start and Stop | implements TwoClassQueue; the ring as the BoundedFifo it implements |
| EpollClient, MCEpollClient, EpollClientProofs | Start, the loop's thread, Stop | |
| NetClient, NetClientProofs | Init, UnInit and the three threads | |
| ClientSystem, MCClientSystem, ClientSystemProofs | a whole client | NetClient and SendPath composed; implements SendPath |
| FloatingBuffer, MCFloatingBuffer, FloatingBufferProofs | the text of a log line | |
| LogFile, MCLogFile, LogFileProofs | RsLog and the statements that write to it | |

How state and actions correspond to the code:

**PEvents.**  A thread runs a script of calls; its `pc` says where in
rpevents.cpp it is.  A step is what a thread does between two points at which
another thread could see a difference: taking a mutex, an atomic load or store
outside of it, a condition variable, a reference count.  So WaitForMultipleEvents
is `Begin` (173-206), `RegisterUnlocked` and `RegisterLocked` for each event,
`CheckDone` and `WaitReturn`; SetEvent is `SetLock`, `SetScan` over the
registered waits, `SetFire`, `SetSignal`, `SetUnref`, `SetNotify`.
`SpuriousWake` and `Expire` are the condition variable's own steps.

**PoolEvents.**  The four-argument WaitForMultipleEvents returns the status and
drops the index (167-171), so that DataWrite and DataRead see 0 whichever event
ended the wait and always take their exit branch.  What they do on the events is
therefore a fixed sequence of calls, and the module instantiates PEvents with them.

**RingQueuePacket.**  `Push` is wait for a blank, store under the mutex, post;
`Pop` is the wait for data, the block under the mutex, the post.  A drainer
looks at isEmpty first, as Stop does, and at the first empty ring it sees it leaves for
good; a writer does not look, as OnSocketWrite would not.

**SendPath.**  `SubmitCmd` and `SubmitOther` are the two classes of submitPacket,
which runs under a mutex as a whole with its sem_post; the sending thread has a
step for sem_wait, for the front of the list, for each chunk it files, for
SendData's test of running_status_ and for its Push.  Bytes, checksums and CRC are
abstracted to the number of chunks.  `StartSucceeds` and `Launch` are what Init contributes, a
Start that sets running_status_ or does not and the thread behind it.  The parameter `Stops` is
when Stop may come: at any time, as the destructor of EpollTcpClient allows, or behind the
end of the sending thread, as in UnInit.

**TwoClassQueue.**  submitPacket keeps one list; what it promises is two first-in first-out
queues.  The refinement mapping cuts `list` at `CmdPrefix`, the place where
submitPacket inserts a command.

**EpollClient.**  `sock` is who has the descriptor whose number is handle_: nobody,
this client, or somebody else.  `edge` is a notification not yet reported.  The
loop's thread is at its test of loop_flag_, in epoll_wait, or in OnSocketRead,
whose `read` blocks: Connect sets O_NONBLOCK on the epoll descriptor (167-168).
Stop is split at its join, its closes and its assertions.

**NetClient.**  The application's thread goes through Init, the spawns and UnInit;
the three threads report in m_bThreadsRunning.  What the pool delivers is the
parameter `Arriving`, empty in the program; the sending thread is reduced to the
moment it takes TYPE_EXIT.  A turn of ProcessDataThread is its test of
m_bEndAllThread (`ProcTurn`) and a PacketRead with a packet or without (`ProcReads`, `ProcReadsNothing`).

**ClientSystem.**  NetClient with SendPath (instance `Path`) in the place of its sending
thread, and the rest of UnInit.  A step is one of NetClient, one of SendPath, or both:
`Start` is Init's Start, successful or not; `SubmitPacket` a submitPacket that may post
TYPE_EXIT; `Send` a step of the sending thread, which with TYPE_EXIT ends.
Behind the joins come `ClosePool` (264; of BufferPool::UnInit only the event it may wait for in
vain is kept, PoolEvents has the rest) and Stop: `StopClient`, `JoinLoop` and `Drain`, or
`StopWithoutLoop`, the null th_loop_ of a client whose Start failed.  The join may take for ever
as long as the peer stays (EpollClient, epoll_join), and the drain ends in the assertion of
UnRegisterOnRecvCallback (122, 299), since nobody has registered a callback.  m_evRead is set by a
DataRead that brings no packet (`ReadsInVain`): every DataRead exits.  PacketRead comes to a DataRead
only if enough bytes lie in the pool (`HeadReady`), which never happens in the program.

**FloatingBuffer.**  The buffer is its size, the position, and the characters in
memory, of which only zeros are told from the rest.
`AppendFits`, `AppendGrows`, `AppendCut` are the branches of append.

**LogFile.**  A file is named by directory, base name with second, and number; its
content is the sequence of lines, a line being its thread and count.  Everything
under mutex_ is one action (`PrintLine`, `output`, the settings); the building of a
line, outside of the mutex, is a step of its own (`Build`).

## Assumptions of the models

- Memory is sequentially consistent.  Plain flags that are read without a lock
  (loop_flag_, running_status_, m_bEndAllThread, m_bThreadsRunning) are read
  anew at every turn; each loop calls a function the compiler cannot see into.
- Signal handlers are not installed: no sem_wait, connect or read ends with EINTR.
- Assertions are on: no build file defines NDEBUG.
- The log's clock does not go back.
- Allocation succeeds, except in OnSocketRead, where the code has a branch for it.

CHECK_DEADLOCK is FALSE in all configurations: scripts end, threads exit, and
waits without a time limit may last for ever by design.  That nobody is stuck who
should not be is stated by NoMutexDeadlock and by the liveness properties.

## Runs

Nine runs pass:

| run | module | shows |
|---|---|---|
| events_mixed | MCPEvents | all kinds of waits and time limits against all operations on an auto-reset and a manual-reset event: the reference counts of the wait objects are exact, so that each is freed once and by its last user (RefCountExact), no signal of an auto-reset event is given twice (AutoResetExclusive), no wait succeeds without an event that was set while it waited (NoFalseWakeup) |
| events_live | MCPEvents | two waits without time limits, SetEvent and PulseEvent at once: EventsLeft is exact (EventsLeftExact), a consumed signal is reported (SignalNotLost); a satisfied wait returns, an event that stays set releases everybody, and a pulse releases the wait-anys that sleep with it (SatisfiedWaitReturns, SetEventReleases, PulseReleases) |
| pool_events | MCPoolEvents | the pool's threads never deadlock on mutexes (NoMutexDeadlock), and UnInit returns when somebody reads (UnInitReturns) |
| ring_drained | RingQueuePacket | the counters never drift apart (BlankConservation, CountInRange), the ring implements BoundedFifo (FifoSpec); a Push is held for good only by a full ring that its drainer has left (FullRingHolds) |
| send_main | MCSendPath | semaphore and list agree (SemCountsList), the list implements TwoClassQueue (QueueSpec), chunk numbers lead to one packet and place and cover finished packets (ChunksFiled), the chunks are an unbroken stream whenever Stop comes (StreamUnbroken); accepted packets are finished unless the ring blocks the thread (AcceptedIsHandled) |
| epoll_safe | MCEpollClient | the loop reads its own socket only and misses no arrival (LoopUsesOwnSocket, ArrivalSeen), Stop closes nobody else's descriptor while the peer is there (StopClosesOwn) and gets past its join once the peer goes |
| client_life | MCClientSystem | the pool is torn down behind the threads (TornDownAlone); the whole client implements the send path whose Stop waits for the sending thread (SendPathSpec), so no chunk is refused or lost after a successful Start, and none sent after a failed one (ChunksHandedOver); UnInit leaves its loop unless all threads have ended (UnInitGoesOn), a TYPE_EXIT ends its joins unless the sender sits in a full ring (ExitEndsJoins), and behind them only an unread pool or a loop that reads from a silent peer can hold UnInit, which otherwise comes to the end of the program, with the ring emptied if Start had succeeded (UnInitHeldBy) |
| buffer_line | MCFloatingBuffer | growing and cutting keep the text (PrefixKept), and below the limit the C string ends where the text does (TextEndsAtLen) |
| log_rolling | MCLogFile | a thread's lines stay in order (ThreadOrder), rolling into a new second, or twice in one, removes no line (NewSecondKeepsLines, TwoRollsKeepLines) |

Three runs end in a violation: they show where the code departs from what its
comments say.  `PROJECT.json`, "findings", quotes them.

| run | finding |
|---|---|
| events_cross | waits that list events in opposite orders deadlock with two SetEvents (rpevents.cpp:221) |
| send_unwritten | the socket is not registered for EPOLLOUT: nothing is ever written (epollclient.cpp:70) |
| epoll_join | O_NONBLOCK is set on the wrong descriptor: Stop hangs in its join while the peer is there (epollclient.cpp:101, 167) |

### Departures seen while modelling

The models contain what the code does at these lines.  They have no run of their own; properties
that they would break are stated for the calls the program makes.

- rpevents.cpp:293: a timed wait-any whose time runs out after SetEvent has reported
  to it returns WAIT_TIMEOUT and loses the signal of an auto-reset event.
- rpevents.cpp:476: a manual-reset event overwrites FiredEvent of a wait-any that an
  auto-reset event has ended in between.  (SignalNotLost is checked for waits without
  time limits that do not mix both kinds; the program has manual-reset events only.)
- rpevents.cpp:527: PulseEvent does not wait for the threads it wakes: a thread in
  WaitForEvent may find the event reset and sleep on.  (PulseReleases is stated of WaitForMultipleEvents.)
- bufferpool.cpp:60 and 152 read the wait's status as an index and always exit;
  bufferpool.cpp:248 waits for evRead, which nobody sets unless somebody reads.
- ringqueuepacket.h:62-63 compares sem_trywait's -1 with EAGAIN: Pop goes on without a packet, and
  returns -1 with one when it overtakes the Push's post.
- netclient.cpp:728: the map of packets being sent keeps pointers to freed packets.
- netclient.cpp:233: UnInit waits while no thread runs, the opposite of what its joins need;
  :449: a time-out clears m_bIsConnect whatever the socket's state; :376: pNetPacket is
  used after it has been set to nullptr.
- netclient.cpp:217: Init goes on, and returns true, after a failed Start.  Packets are accepted and their
  chunks refused one by one (ChunksHandedOver), and Stop joins a null th_loop_ (`StopWithoutLoop`).
- netclient.cpp:244: a sending thread blocked in Push keeps UnInit in its join, while the Stop that would
  free the ring comes behind it (the escape in ExitEndsJoins).  Since nothing else empties the
  ring, the 21st chunk of a client's life does it.
- netclient.cpp:264: in the program as it is nobody reads the pool, so UnInit does not
  get past BufferPool::UnInit at all (`ClosePool` needs m_evRead): the case WaitsForReader of
  UnInitHeldBy.  HeadReady lets the run go on behind it.
- tcpipsercnt.cpp:54: an index or an error code becomes a bool.
- epollclient.cpp:101: Stop without a loop dereferences null; :102: it closes a number that
  may be somebody else's once the peer has gone; :299, :307: assertions about callbacks that fail
  in the program; :395: the receive callback is behind two returns that are always taken.
- logstream.cpp:105: a number is left out if less than 32 places are free;
  floatingbuffer.cpp:102: a text of kLargeBuffer characters has no terminator (NoRoomAtLimit), and
  rslog.cpp:493 prints what lies behind its memory as well; rslog.cpp:681: the third roll in a second
  removes the newest full file; rslog.cpp:533: LOG_WARN_F and above are never written.

### Bounds

- Events: three or four threads, two or three events, one to four calls each.  Waits of
  both kinds meet both kinds of events and two setters at once, the least in which one wait
  is reported to twice or shares an event with another wait.
- Pool: three threads, two writes, two reads, one UnInit with the destructor behind it.
- Ring: capacity 2, two producers, three pushes each: it fills, wraps around and blocks both producers.
- Send path: five packets (two commands, one without a chunk, one data packet of two chunks,
  one information packet, one exit), list limit 2, ring capacity 2: both limits
  are reached and a packet is cut by Stop between its chunks.  send_unwritten has four packets
  and no Stop.
- Epoll: reads of at most 3 bytes and 7 bytes from the peer: the buffer grows twice and the peer
  leaves at every point.
- Client: three packets (a command, a data packet of two chunks, TYPE_EXIT), list limit 2, ring
  capacity 2, and a pool that delivers a packet that survives ProcessDataThread and one that does
  not: the three chunks fill the ring and block the sender, before or behind UnInit's call.
  HeadReady is TRUE, so that UnInit gets behind its pool in some behaviours and not in others.
  NetClient itself is finite without bounds.
- Log line: 4 for 1024, 14 for 1 MB, 3 for the 32 places of a number, 18
  characters: three sizes, the cut, and texts longer than a step.
- Log file: files of 2 lines, 3 lines of each of two threads, 2 seconds, two directories,
  levels INFO and WARN: rolls by number and by name, and three rolls in one second.

### Fairness

Every liveness run assumes that a thread that can take a step takes one some time
(weak fairness for each thread's steps), which a preemptive scheduler gives.  Finite time
limits run out (PEvents, ClientSystem).  Nothing is assumed of what the code does
not force: nobody has to call Stop, UnInit or submitPacket, the peer need not
send or leave, nobody has to begin to empty a ring, no spurious wakeup comes.  In SendPath a Stop
that has begun need not come to its drain, because its join may hang; in ClientSystem the join ends
some time once the peer has left.  There
UnInit, once called, goes on when it can; that the sending thread reaches a TYPE_EXIT is not
assumed but follows from its steps, as only finitely many packets are submitted in front of it.

## Proofs

All proofs hold for every value of the constants under the assumption named in the module.

- **PEventsProofs**: for any finite sets of events and threads and any scripts of calls.  The
  base is `Control`: where a thread is fits the call it is in, and an event's Mutex is held
  exactly by the SetEvent that goes through its registrations.  EventsTyping (TypeOK) follows
  with EventsRefCount.  Each further theorem adds an invariant, since what it states is not inductive:
  - EventsRefCount (RefCountExact) rests on `RefInv`: no event holds a wait twice or one that has
    not begun, and a wait that is still waiting is under way.  The lemmas about Unexpired say that the
    clean-up keeps the registrations of those waits and drops one reference for each other.
  - EventsExclusive (AutoResetExclusive) rests on `GivenOnce`: a signal is with the event, with
    the SetEvent that has it to give, or with the wait that consumed it, and the
    event keeps none while a wait may be registered to get it.
  - EventsLeft (EventsLeftExact) rests on `LeftInv`: SetEvent lets a registration go without
    reporting only when its wait is over.
  - EventsNoFalseWakeup (NoFalseWakeup) rests on `SeenInv`, which follows the signal from
    SetEvent through the status of the wait to its return.
  - EventsDeadlockFree (NoMutexDeadlock) rests on `LockInv`, which says who owns the Mutex of a
    wait, and takes the least event, along the order of the lists, in a set of threads that wait for each
    other.  Its hypothesis ListsFollow is that there is such an order; without one there is a
    deadlock (events_cross).  `PoolDeadlockFree` needs no hypothesis but that the calls are those of
    bufferpool.cpp: any number of threads may make them, in any order.
  - EventsSignalKept (SignalNotLost) rests on `GotInv`.  Its hypothesis SignalsApart is what the
    two departures at rpevents.cpp:293 and :476 make necessary; events_live satisfies it (LiveApart in MCPEvents).
- **RingQueuePacketProofs**: Typing, PlacesConserved, CountStaysInRange, IndicesStayInStep, and
  `RingIsFifo`: the ring implements BoundedFifo.  The semaphores, the threads
  inside and the count add up to the capacity (BlankConservation); a drainer has
  seen a packet that nobody else can take (DrainerSaw); from both every store has a
  place and every take a packet, so that the indices mean the queue.  CountStaysInRange and what
  follows need a single drainer that looks first (SingleDrainer), as in the program; a Pop without
  the look, as in OnSocketWrite, drives the count below zero.
- **SendPathProofs**: SendTyping, SemaphoreCounts, CommandsStayFirst, from `SendInv`, which
  adds that the thread has a packet when it uses one.  From it `ListIsTwoQueues`: the list
  implements TwoClassQueue.  Since commands stand in front (CmdsFirst), the length of the
  command prefix is where the list is cut, and the lemmas TakeCmd, TakeOther, PutCmd and
  PutOther say what taking and inserting do to both pieces.
  And `NumbersLeadBack`: ChunksFiled, from `FiledInv`, which adds that no
  number is above m_msgId, that the chunk on its way to the ring is filed before it gets there, and that
  the first packCount chunks of the packet at hand are filed.
  `StreamIsUnbroken` (StreamUnbroken) rests on `StreamInv`: the chunks in and behind the ring are
  the first of the chunks the thread has come past (`Past`), and all of them as long as the client runs or a Push
  has begun; the chunks of the packet at hand are the last ones of the stream.  From
  it, too, `NothingCutOff`: if Stop comes behind the end of the thread, nothing is missing then.
- **EpollClientProofs**: EpollTyping (with the bounds of the read buffer),
  LoopOnOwnSocket, NoArrivalMissed, ClosesOnlyItsOwn.  The strengthening: no loop runs once
  Stop is past its join, before Start nothing has arrived, and while the peer is there the
  number of the socket stays the client's until Stop closes it.
- **NetClientProofs**: NetTyping, NobodyLeftInPool.  The strengthening: at each of UnInit's joins
  the threads joined so far are dead, and dead threads stay dead.
- **ClientSystemProofs**: `SystemIsNetClient`: every step of the whole client is a step of
  NetClient or leaves it alone, by which TornDownAloneInSystem follows from NobodyLeftInPool;
  ClientTyping; and `StopComesLast`: the whole client implements SendPath with
  Stops = "afterJoin".  The strengthening `Linked` ties the two
  state machines together: the client's sending thread ends only after the send path's `pc` has
  exited, and UnInit gets behind its joins only after them.  `AllHandedOver` (ChunksHandedOver) is
  NothingCutOff, carried over along StopComesLast by an instance of SendPathProofs; it adds that
  running_status_ was set, and possibly reset by Stop, exactly if Start had succeeded (`Started`).
- **FloatingBufferProofs**: BufferTyping, NothingLostInside, and CStringIsText (TextEndsAtLen), from the
  invariants that the memory behind the text is cleared (RestCleared) and that below the limit a
  place of it is always left; NoRoomAtLimit says that at the limit none is.
- **LogFileProofs**: LogTyping (TypeOK), NamesNotAhead, LinesInOrder (ThreadOrder), and the action
  properties NewSecondLosesNothing and TwoRollsLoseNothing.  `LogInv` says what makes them inductive: no
  file is named ahead of the clock, so that a file made in a new second cannot
  exist yet; a thread has handed over every line but the one it builds, and the files hold none
  of the lines to come (`UpTo`); and lines are ordered over all files, older names first (`InOrder`).
  FreeNumberIs says that the number rollFile finds is free, because the
  files are finitely many, and RolledIs what the renaming leaves in each name.

IndicesAgree, NoNameAhead and UnterminatedAtLimit, which the runs do not list, are proved for
every instance; FifoSpec and NewSecondKeepsLines rest on the first two.

Every invariant and every action property of the runs is the subject of a theorem.  Two
have a hypothesis about what the program calls (ListsFollow, SignalsApart), CountInRange and
FifoSpec have SingleDrainer.

Where a definition computes something along a sequence (Unexpired, StreamOf) it is a recursive
function, and its proofs go by induction over the numbers: a nonempty set of numbers has a least
one (`NatMin`), so that there is no first number for which the function does not exist, or for which what
is said of it fails.

Out of the prover's reach and left to TLC: liveness and anything with ENABLED, that is
SatisfiedWaitReturns, SetEventReleases, PulseReleases, UnInitReturns, FullRingHolds,
AcceptedIsHandled, StopJoinsIfPeerGone, UnInitGoesOn, ExitEndsJoins and UnInitHeldBy, and
what the runs that end in a violation show.

## Not modelled

- The bytes of the pool's ring, PacketRead's parsing and CheckSum: no data reaches
  them, since every DataWrite and DataRead exits.
- OnSocketWrite, the branches for EPOLLOUT and EPOLLRDHUP, Connect behind
  EINPROGRESS: the events registered and the blocking socket keep them from running.
- CallBackRecvData, CallBackSendDataRes, recvDataSocketPacket, GetPacket,
  DeletePacket: registered or called by nobody, over containers nobody fills.
- The facade's queries and SetCallBackFun, which forward to getters or to a callback nobody
  calls; AbortTran and SetDataTranStatus, which set flags,
  and GetTransportfSpeed, which divides totals, that nobody else uses.
- clearExpiredLogs and setMaxLogFiles (called by nobody); RsLog::Instance, whose
  double-checked locking is a question of the C++ memory model.
- The Windows branch of rpevents.cpp and win/dirent.cpp (not compiled),
  ringqueuepacket.cpp (not the template in use), clocks, CRC, text formatting.

## Plan

Order of the work: events and pool, ring, send path, logger, epoll client, client's life, their
composition.  All of these exist, and what the program runs is modelled; the rest is above.  Next:

1. Prove that EpollClient's Start and Stop implement the ones of ClientSystem.
2. When the code changes.  If the wait hands its index back (rpevents.cpp:167), the pool's ring
   and PacketRead become reachable: model them against a queue of packets.  If the receive
   callback is registered, so do CallBackSendDataRes with its two mutexes, GetPacket and
   DeletePacket.  If EPOLLOUT is registered, OnSocketWrite is a second consumer of the ring, which
   SingleDrainer rules out today.
