----------------------------- MODULE EpollClient ------------------------------
(***************************************************************************)
(* EpollTcpClient (sdk_net/epollclient.cpp): Start, the thread of          *)
(* EpollLoop with OnSocketRead, the registration of callbacks, and Stop.   *)
(* The application's thread, the loop's thread, the peer and a thread that *)
(* opens other descriptors interleave.                                     *)
(*                                                                         *)
(* Connect sets O_NONBLOCK on the epoll descriptor and not on the socket:  *)
(* connect and read block.  The socket is registered for EPOLLIN | EPOLLET *)
(* only, so that OnSocketWrite and the branch for EPOLLRDHUP have no step; *)
(* the queue that Stop drains is in SendPath.                              *)
(***************************************************************************)
EXTENDS Integers

CONSTANTS
  ReadSize,   \* 4096: what one read takes at most, and by which buf grows
  MaxBytes,   \* bound on what the peer sends, for TLC
  Callbacks   \* which of "recv", "send" the user registers; the program none

ASSUME EpollAssumption ==
  /\ ReadSize \in Nat \ {0} /\ MaxBytes \in Nat /\ Callbacks \subseteq {"recv", "send"}

VARIABLES
  sock,       \* the descriptor whose number is handle_: "free", "own", "foreign"
  epoll,      \* efd_: "none", "open", "closed", "other": the set of another Start
  loop,       \* th_loop_ and where it is: "none", "check", "poll", "read", "exited"
  flag,       \* loop_flag_
  running,    \* running_status_
  registered, \* recv_callback_ and send_callback_ that are not null
  stop,       \* where Stop is: "no", "join", "close", "recv", "send", "done"
  died,       \* "no", or the assertion or the null pointer that ended the process
  bufLen,     \* buf_len of OnSocketRead
  total,      \* its total_read_len
  peer,       \* "open", "closed", "reset"
  inbox,      \* bytes the kernel holds for the socket
  sent,       \* history: bytes the peer has sent
  edge,       \* an arrival epoll_wait has not reported yet
  noMemory,   \* history: a malloc of OnSocketRead has failed
  stolen      \* history: Stop has closed a descriptor of somebody else

loopVars == <<loop, bufLen, total, noMemory>>
peerVars == <<peer, inbox, sent, edge>>
apiVars  == <<epoll, flag, running, registered, stop, died, stolen>>
vars == <<sock, loopVars, peerVars, apiVars>>

Init ==
  /\ sock = "free" /\ epoll = "none" /\ loop = "none" /\ flag = TRUE /\ running = FALSE
  /\ registered = {} /\ stop = "no" /\ died = "no"
  /\ bufLen = ReadSize /\ total = 0
  /\ peer = "open" /\ inbox = 0 /\ sent = 0 /\ edge = FALSE
  /\ noMemory = FALSE /\ stolen = FALSE

-----------------------------------------------------------------------------
(* The application                                                         *)

(* Connect has failed and has closed the socket, or UpdateEpollEvents has  *)
(* and Start closes handle_ itself: no loop, nothing registered, no socket *)
(* of its own.  efd_ stays open.                                           *)
StartFails ==
  /\ died = "no" /\ stop = "no" /\ loop = "none"
  /\ epoll' = "open"
  /\ UNCHANGED <<sock, loopVars, peerVars, flag, running, registered, stop, died, stolen>>

Start ==
  /\ died = "no" /\ stop = "no" /\ loop = "none"
  /\ epoll' = "open" /\ sock' = "own" /\ running' = TRUE
  /\ loop' = "check"
  /\ UNCHANGED <<bufLen, total, noMemory, peerVars, flag, registered, stop, died, stolen>>

(* A second Start, to connect again: efd_ is overwritten, so that the loop *)
(* waits on an epoll set without its socket; with a connection             *)
(* assert(!th_loop_) fails.                                                *)
StartAgain ==
  /\ died = "no" /\ stop = "no" /\ loop # "none"
  /\ epoll' = "other"
  /\ died' \in {"no", "start"}
  /\ UNCHANGED <<sock, loopVars, peerVars, flag, running, registered, stop, stolen>>

RegisterOnRecvCallback ==
  /\ died = "no" /\ stop = "no" /\ "recv" \in Callbacks \ registered
  /\ registered' = registered \cup {"recv"}
  /\ UNCHANGED <<sock, loopVars, peerVars, epoll, flag, running, stop, died, stolen>>

(* assert(send_callback_): that one is registered already.                 *)
RegisterOnSendCallback ==
  /\ died = "no" /\ stop = "no" /\ "send" \in Callbacks
  /\ IF "send" \in registered THEN UNCHANGED died ELSE died' = "registerSend"
  /\ registered' = registered \cup {"send"}
  /\ UNCHANGED <<sock, loopVars, peerVars, epoll, flag, running, stop, stolen>>

(* Mutant: Stop does not wait for the loop.                                *)
StopBeginDetached ==
  /\ died = "no" /\ stop = "no"
  /\ flag' = FALSE /\ running' = FALSE
  /\ stop' = "close"
  /\ UNCHANGED <<sock, loopVars, peerVars, epoll, registered, died, stolen>>

(* Stop, of the destructor or of CNetClient::UnInit: th_loop_->join()      *)
(* without a thread dereferences a null pointer.                           *)
StopBegin ==
  /\ died = "no" /\ stop = "no"
  /\ flag' = FALSE /\ running' = FALSE
  /\ IF loop = "none" THEN died' = "nullLoop" /\ UNCHANGED stop
                      ELSE stop' = "join" /\ UNCHANGED died
  /\ UNCHANGED <<sock, loopVars, peerVars, epoll, registered, stolen>>

StopJoin ==
  /\ stop = "join" /\ loop = "exited"
  /\ stop' = "close"
  /\ UNCHANGED <<sock, loopVars, peerVars, epoll, flag, running, registered, died, stolen>>

(* close(handle_), whoever has that number now, and close(efd_).           *)
StopClose ==
  /\ stop = "close"
  /\ stolen' = (sock = "foreign")
  /\ sock' = "free" /\ epoll' = "closed"
  /\ stop' = "recv"
  /\ UNCHANGED <<loopVars, peerVars, flag, running, registered, died>>

(* UnRegisterOnRecvCallback and UnRegisterOnSendCallback assert that there *)
(* is a callback.                                                          *)
Unregister(cb, next) ==
  /\ stop = cb /\ died = "no"
  /\ IF cb \in registered THEN UNCHANGED died ELSE died' = cb
  /\ registered' = registered \ {cb}
  /\ stop' = next
  /\ UNCHANGED <<sock, loopVars, peerVars, epoll, flag, running, stolen>>

StopRest == StopJoin \/ StopClose \/ Unregister("recv", "send") \/ Unregister("send", "done")

App == Start \/ StartFails \/ StartAgain \/ RegisterOnRecvCallback \/ RegisterOnSendCallback \/ StopBegin \/ StopRest

-----------------------------------------------------------------------------
(* EpollLoop                                                               *)

(* Mutant: the loop does not look at loop_flag_.                           *)
LoopCheckForever ==
  /\ loop = "check"
  /\ loop' = "poll"
  /\ UNCHANGED <<sock, bufLen, total, noMemory, peerVars, apiVars>>

LoopCheck ==
  /\ loop = "check"
  /\ loop' = IF flag THEN "poll" ELSE "exited"
  /\ UNCHANGED <<sock, bufLen, total, noMemory, peerVars, apiVars>>

(* A closed descriptor leaves the epoll set.                               *)
Reported == sock = "own" /\ epoll = "open" /\ edge

(* epoll_wait after kEpollWaitTime                                         *)
PollTimeout ==
  /\ loop = "poll" /\ ~Reported
  /\ loop' = "check"
  /\ UNCHANGED <<sock, bufLen, total, noMemory, peerVars, apiVars>>

(* EPOLLERR, EPOLLHUP                                                      *)
PollError ==
  /\ loop = "poll" /\ Reported /\ peer = "reset"
  /\ sock' = "free" /\ edge' = FALSE
  /\ loop' = "check"
  /\ UNCHANGED <<bufLen, total, noMemory, peer, inbox, sent, apiVars>>

(* EPOLLIN: OnSocketRead begins, unless its malloc fails.                  *)
PollIn ==
  /\ loop = "poll" /\ Reported /\ peer # "reset"
  /\ edge' = FALSE
  /\ bufLen' = ReadSize /\ total' = 0
  /\ loop' \in {"read", "check"}
  /\ noMemory' = (noMemory \/ loop' = "check")
  /\ UNCHANGED <<sock, peer, inbox, sent, apiVars>>

Tight(n) == bufLen - total < n

(* Mutant: the buffer grows only when it is full.                          *)
ReadSomeTight(n) ==
  /\ loop = "read" /\ n <= inbox
  /\ bufLen' = IF bufLen = total THEN bufLen + ReadSize ELSE bufLen
  /\ total' = total + n /\ inbox' = inbox - n
  /\ UNCHANGED <<sock, loop, noMemory, peer, sent, edge, apiVars>>

(* Mutant: one read per event, "if" for "while".                           *)
ReadSomeOnce(n) ==
  /\ loop = "read" /\ n <= inbox
  /\ bufLen' = IF Tight(n) THEN bufLen + ReadSize ELSE bufLen
  /\ total' = total + n /\ inbox' = inbox - n
  /\ loop' = "check"
  /\ UNCHANGED <<sock, noMemory, peer, sent, edge, apiVars>>

ReadSome(n) ==
  /\ loop = "read" /\ n <= inbox
  /\ bufLen' = IF Tight(n) THEN bufLen + ReadSize ELSE bufLen
  /\ total' = total + n /\ inbox' = inbox - n
  /\ UNCHANGED <<sock, loop, noMemory, peer, sent, edge, apiVars>>

(* Mutant: the socket is closed when malloc fails.                         *)
ReadNoMemoryClosing(n) ==
  /\ loop = "read" /\ n <= inbox /\ Tight(n)
  /\ inbox' = inbox - n /\ noMemory' = TRUE
  /\ sock' = "free"
  /\ loop' = "check"
  /\ UNCHANGED <<bufLen, total, peer, sent, edge, apiVars>>

(* malloc has failed: what was read is lost, the socket stays open.        *)
ReadNoMemory(n) ==
  /\ loop = "read" /\ n <= inbox /\ Tight(n)
  /\ inbox' = inbox - n /\ noMemory' = TRUE
  /\ loop' = "check"
  /\ UNCHANGED <<sock, bufLen, total, peer, sent, edge, apiVars>>

(* read has given 0, the end of the stream, or -1, after a reset.  Both    *)
(* are answered with close and return: the callback behind is not reached, *)
(* and buf is not freed.                                                   *)
ReadEnds ==
  /\ loop = "read" /\ inbox = 0 /\ peer # "open"
  /\ sock' = "free"
  /\ loop' = "check"
  /\ UNCHANGED <<bufLen, total, noMemory, peerVars, apiVars>>

LoopStep ==
  /\ died = "no"
  /\ \/ LoopCheck \/ PollTimeout \/ PollError \/ PollIn
     \/ \E n \in 1..ReadSize : ReadSome(n) \/ ReadNoMemory(n)
     \/ ReadEnds

-----------------------------------------------------------------------------
(* The peer, and the rest of the process                                   *)

PeerSends(n) ==
  /\ sock = "own" /\ peer = "open" /\ sent + n <= MaxBytes
  /\ inbox' = inbox + n /\ sent' = sent + n /\ edge' = TRUE
  /\ UNCHANGED <<sock, loopVars, peer, apiVars>>

PeerLeaves(how) ==
  /\ sock = "own" /\ peer = "open"
  /\ peer' = how /\ edge' = TRUE
  /\ inbox' \in IF how = "reset" THEN {0, inbox} ELSE {inbox}
  /\ UNCHANGED <<sock, loopVars, sent, apiVars>>

(* Any other thread opens something: it gets the lowest free number.       *)
OtherOpens ==
  /\ sock = "free" /\ epoll # "none" /\ loop # "none"
  /\ sock' = "foreign"
  /\ UNCHANGED <<loopVars, peerVars, apiVars>>

Environment ==
  /\ died = "no"
  /\ (\E n \in 1..ReadSize : PeerSends(n)) \/ (\E how \in {"closed", "reset"} : PeerLeaves(how)) \/ OtherOpens

Next == App \/ LoopStep \/ Environment

Spec == Init /\ [][Next]_vars

(* Threads run when they can; nobody has to call Stop, and the peer does   *)
(* what it wants.                                                          *)
FairSpec == Spec /\ WF_vars(LoopStep) /\ WF_vars(StopRest)

-----------------------------------------------------------------------------
(* Properties                                                              *)

TypeOK ==
  /\ sock \in {"free", "own", "foreign"} /\ epoll \in {"none", "open", "other", "closed"}
  /\ loop \in {"none", "check", "poll", "read", "exited"}
  /\ flag \in BOOLEAN /\ running \in BOOLEAN /\ registered \subseteq Callbacks
  /\ stop \in {"no", "join", "close", "recv", "send", "done"}
  /\ died \in {"no", "nullLoop", "start", "registerSend", "recv", "send"}
  /\ bufLen \in Nat /\ total \in 0..bufLen
  /\ peer \in {"open", "closed", "reset"} /\ inbox \in 0..sent /\ sent \in Nat
  /\ edge \in BOOLEAN /\ noMemory \in BOOLEAN /\ stolen \in BOOLEAN

InLoop == loop \in {"check", "poll", "read"}

(* The loop's thread reads from the client's own socket, never from a      *)
(* closed number or one that somebody else has got since, and the epoll    *)
(* descriptor outlives it.                                                 *)
LoopUsesOwnSocket == (loop = "read" => sock = "own") /\ (InLoop => epoll \in {"open", "other"})

(* EPOLLET reports an arrival once.  No bytes are left in the kernel       *)
(* behind a report already used: OnSocketRead does not come back before it *)
(* has everything, unless malloc fails.                                    *)
ArrivalSeen == loop \in {"check", "poll"} /\ sock = "own" /\ inbox > 0 /\ ~noMemory => edge

(* Once the peer has gone, Stop gets past its join.                        *)
StopJoinsIfPeerGone == (stop = "join" /\ peer # "open") ~> (stop # "join")

(* The loop closes the socket and leaves handle_ as it is, so that Stop    *)
(* may close a descriptor somebody else has got since: only after the peer *)
(* has gone, never while the connection stands.                            *)
StopClosesOwn == stolen => peer # "open"

(* "stop epoll tcp client and release epoll" (epollclient.cpp:96): Stop    *)
(* gets past its join.                                                     *)
StopJoins == (stop = "join") ~> (stop # "join")

=============================================================================
