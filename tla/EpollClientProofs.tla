--------------------------- MODULE EpollClientProofs --------------------------
(***************************************************************************)
(* EpollClient for every read size, every stream of the peer and every set *)
(* of callbacks.  That the loop only uses its own socket needs the join:   *)
(* no loop runs once Stop has come past it (StopAfterLoop).  That no byte  *)
(* is left behind a used edge needs that nothing arrives before Start.     *)
(* That Stop closes nothing foreign while the connection stands needs that *)
(* the number is the client's until then (OwnWhileOpen).                   *)
(***************************************************************************)
EXTENDS EpollClient, TLAPS

StopAfterLoop == InLoop => stop \in {"no", "join"}
NoneBefore == loop = "none" => stop = "no" /\ sock = "free" /\ inbox = 0
OwnWhileOpen ==
  loop # "none" /\ stop \in {"no", "join", "close"} /\ peer = "open" => sock = "own"

EpollInv ==
  /\ TypeOK /\ LoopUsesOwnSocket /\ ArrivalSeen /\ StopClosesOwn
  /\ StopAfterLoop /\ NoneBefore /\ OwnWhileOpen

LEMMA InitEpoll == Init => EpollInv
<1>1. Init => TypeOK
  <2>1. Init => bufLen \in Nat /\ total \in 0..bufLen /\ inbox \in 0..sent /\ sent \in Nat
    BY EpollAssumption DEF Init
  <2>2. Init => /\ flag \in BOOLEAN /\ running \in BOOLEAN /\ edge \in BOOLEAN
                /\ noMemory \in BOOLEAN /\ stolen \in BOOLEAN /\ registered \subseteq Callbacks
    BY Zenon DEF Init
  <2> QED BY <2>1, <2>2, Zenon DEF Init, TypeOK
<1> QED
  BY <1>1 DEF Init, EpollInv, LoopUsesOwnSocket, ArrivalSeen, StopAfterLoop, NoneBefore, OwnWhileOpen,
            StopClosesOwn, InLoop

LEMMA AppStep == EpollInv /\ App => EpollInv'
<1> SUFFICES ASSUME EpollInv, App PROVE EpollInv'
  OBVIOUS
<1> USE DEF EpollInv, LoopUsesOwnSocket, ArrivalSeen, StopAfterLoop, NoneBefore, OwnWhileOpen,
            StopClosesOwn, InLoop,
            loopVars, peerVars
<1>1. CASE Start
  BY <1>1 DEF Start, TypeOK
<1>2. CASE StartFails
  BY <1>2 DEF StartFails, TypeOK
<1>3. CASE StartAgain
  BY <1>3 DEF StartAgain, TypeOK
<1>4. CASE RegisterOnRecvCallback
  BY <1>4 DEF RegisterOnRecvCallback, TypeOK
<1>5. CASE RegisterOnSendCallback
  BY <1>5 DEF RegisterOnSendCallback, TypeOK
<1>6. CASE StopBegin
  BY <1>6 DEF StopBegin, TypeOK
<1>7. CASE StopJoin
  BY <1>7 DEF StopJoin, TypeOK
<1>8. CASE StopClose
  BY <1>8 DEF StopClose, TypeOK
<1>9. CASE Unregister("recv", "send")
  BY <1>9 DEF Unregister, TypeOK
<1>10. CASE Unregister("send", "done")
  BY <1>10 DEF Unregister, TypeOK
<1> QED
  BY <1>1, <1>2, <1>3, <1>4, <1>5, <1>6, <1>7, <1>8, <1>9, <1>10 DEF App, StopRest

LEMMA LoopKeeps == EpollInv /\ LoopStep => EpollInv'
<1> SUFFICES ASSUME EpollInv, LoopStep PROVE EpollInv'
  OBVIOUS
<1> USE EpollAssumption DEF EpollInv, LoopUsesOwnSocket, ArrivalSeen, StopAfterLoop, NoneBefore, OwnWhileOpen,
            StopClosesOwn, InLoop, apiVars, peerVars
<1>1. CASE LoopCheck
  BY <1>1 DEF LoopCheck, TypeOK
<1>2. CASE PollTimeout
  BY <1>2 DEF PollTimeout, TypeOK
<1>3. CASE PollError
  BY <1>3 DEF PollError, Reported, TypeOK
<1>4. CASE PollIn
  <2>1. bufLen' \in Nat /\ total' \in 0..bufLen'
    BY <1>4 DEF PollIn
  <2>2. edge' \in BOOLEAN
    BY <1>4, Zenon DEF PollIn
  <2>3. TypeOK'
    BY <1>4, <2>1, <2>2 DEF PollIn, TypeOK
  <2> QED BY <1>4, <2>3 DEF PollIn, Reported
<1>5. ASSUME NEW n \in 1..ReadSize, ReadSome(n) PROVE EpollInv'
  <2>1. n \in Nat /\ n <= ReadSize /\ bufLen \in Nat /\ total \in Nat /\ total <= bufLen
    BY DEF TypeOK
  <2>2. total' \in Nat /\ bufLen' \in Nat /\ total' <= bufLen'
    BY <1>5, <2>1 DEF ReadSome, Tight
  <2>3. inbox' \in 0..sent'
    BY <1>5, <2>1 DEF ReadSome, TypeOK
  <2>4. TypeOK'
    BY <1>5, <2>2, <2>3 DEF ReadSome, TypeOK
  <2> QED BY <1>5, <2>4 DEF ReadSome
<1>6. ASSUME NEW n \in 1..ReadSize, ReadNoMemory(n) PROVE EpollInv'
  <2>1. inbox' \in 0..sent'
    BY <1>6 DEF ReadNoMemory, TypeOK
  <2>2. TypeOK'
    BY <1>6, <2>1 DEF ReadNoMemory, TypeOK
  <2> QED BY <1>6, <2>2 DEF ReadNoMemory
<1>7. CASE ReadEnds
  BY <1>7 DEF ReadEnds, TypeOK
<1> QED
  BY <1>1, <1>2, <1>3, <1>4, <1>5, <1>6, <1>7 DEF LoopStep

LEMMA EnvironmentStep == EpollInv /\ Environment => EpollInv'
<1> SUFFICES ASSUME EpollInv, Environment PROVE EpollInv'
  OBVIOUS
<1> USE DEF EpollInv, LoopUsesOwnSocket, ArrivalSeen, StopAfterLoop, NoneBefore, OwnWhileOpen,
            StopClosesOwn, InLoop,
            apiVars, loopVars
<1>1. ASSUME NEW n \in 1..ReadSize, PeerSends(n) PROVE EpollInv'
  BY <1>1, EpollAssumption DEF PeerSends, TypeOK
<1>2. ASSUME NEW how \in {"closed", "reset"}, PeerLeaves(how) PROVE EpollInv'
  BY <1>2 DEF PeerLeaves, TypeOK
<1>3. CASE OtherOpens
  BY <1>3 DEF OtherOpens, TypeOK, peerVars
<1> QED
  BY <1>1, <1>2, <1>3 DEF Environment

LEMMA EpollInvariant == Spec => []EpollInv
<1>1. EpollInv /\ [Next]_vars => EpollInv'
  <2>1. EpollInv /\ UNCHANGED vars => EpollInv'
    BY DEF EpollInv, TypeOK, LoopUsesOwnSocket, ArrivalSeen, StopAfterLoop, NoneBefore, OwnWhileOpen,
            StopClosesOwn, InLoop,
       vars, loopVars, peerVars, apiVars
  <2> QED BY <2>1, AppStep, LoopKeeps, EnvironmentStep DEF Next
<1> QED BY <1>1, InitEpoll, PTL DEF Spec

(* OnSocketRead never writes behind buf: total_read_len stays within       *)
(* buf_len for every sequence of reads.                                    *)
THEOREM EpollTyping == Spec => []TypeOK
<1>1. EpollInv => TypeOK
  BY DEF EpollInv
<1> QED BY <1>1, EpollInvariant, PTL

(* No loop reads from a descriptor that Stop has closed or somebody else   *)
(* has opened.                                                             *)
THEOREM LoopOnOwnSocket == Spec => []LoopUsesOwnSocket
<1>1. EpollInv => LoopUsesOwnSocket
  BY DEF EpollInv
<1> QED BY <1>1, EpollInvariant, PTL

(* Edge-triggered epoll loses no arrival while malloc does not fail.       *)
THEOREM NoArrivalMissed == Spec => []ArrivalSeen
<1>1. EpollInv => ArrivalSeen
  BY DEF EpollInv
<1> QED BY <1>1, EpollInvariant, PTL

(* Stop never closes a descriptor of somebody else while the connection    *)
(* stands.                                                                 *)
THEOREM ClosesOnlyItsOwn == Spec => []StopClosesOwn
<1>1. EpollInv => StopClosesOwn
  BY DEF EpollInv
<1> QED BY <1>1, EpollInvariant, PTL

=============================================================================
