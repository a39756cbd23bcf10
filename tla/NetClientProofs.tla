--------------------------- MODULE NetClientProofs ----------------------------
(***************************************************************************)
(* NetClient for whatever the pool delivers.  UnInit joins one thread      *)
(* after the other, and a thread that is dead stays dead: JoinedSoFar is   *)
(* the part of TornDownAlone that holds on the way to it.                  *)
(***************************************************************************)
EXTENDS NetClient, TLAPS

JoinedSoFar ==
  /\ app \in {"join detect", "join send", "pool"} => th["proc"] = "dead"
  /\ app \in {"join send", "pool"} => th["detect"] = "dead"
  /\ app = "pool" => th["send"] = "dead"

Places == {"none", "born", "loop", "read", "packet", "wait", "ending", "dead"}
Inside == {"loop", "read", "packet", "wait", "ending"}

(* TypeOK, with what the threads report apart from the rest.               *)
Plain ==
  /\ app \in {"new", "spawn proc", "spawn detect", "spawn send", "up", "poll",
              "join proc", "join detect", "join send", "pool"}
  /\ reached \in BOOLEAN /\ connected \in BOOLEAN /\ endAll \in BOOLEAN
  /\ exitPosted \in BOOLEAN /\ lka \in BOOLEAN /\ died \in BOOLEAN
  /\ packet \in Arriving \cup {"none"}
Reports ==
  /\ th \in [Workers -> Places] /\ running \in [Workers -> BOOLEAN]
  /\ \A t \in Workers : running[t] <=> th[t] \in Inside

NetInv == Plain /\ Reports /\ JoinedSoFar

LEMMA InitNet == Init => NetInv
<1> SUFFICES ASSUME Init PROVE NetInv
  OBVIOUS
<1>1. Plain
  <2>1. /\ reached \in BOOLEAN /\ connected \in BOOLEAN /\ endAll \in BOOLEAN
        /\ exitPosted \in BOOLEAN /\ lka \in BOOLEAN /\ died \in BOOLEAN
    BY Zenon DEF Init
  <2> QED BY <2>1, Zenon DEF Init, Plain
<1>2. Reports
  <2>1. "none" \in Places /\ "none" \notin Inside
    BY DEF Places, Inside
  <2> QED BY <2>1, Zenon DEF Init, Reports
<1>3. JoinedSoFar
  BY DEF Init, JoinedSoFar
<1> QED BY <1>1, <1>2, <1>3 DEF NetInv

(* A step that leaves the flag alone leaves its thread inside or outside.  *)
LEMMA GoKeeps ==
  ASSUME NEW t \in Workers, NEW from, NEW to \in Places, NetInv, Go(t, from, to),
         from # "dead", running' = running, from \in Inside <=> to \in Inside
  PROVE  Reports' /\ \A u \in Workers : th[u] = "dead" => th'[u] = "dead"
<1>1. th' \in [Workers -> Places]
  BY DEF Go, NetInv, Reports
<1>2. th'[t] = to /\ \A u \in Workers \ {t} : th'[u] = th[u]
  BY DEF Go, NetInv, Reports
<1>3. \A u \in Workers : th'[u] \in Inside <=> th[u] \in Inside
  BY <1>2 DEF Go
<1>4. \A u \in Workers : th[u] = "dead" => th'[u] = "dead"
  BY <1>2 DEF Go
<1>5. Reports'
  BY <1>1, <1>3, Zenon DEF NetInv, Reports
<1> QED BY <1>4, <1>5

LEMMA AppStep == NetInv /\ App => NetInv'
<1> SUFFICES ASSUME NetInv, App PROVE NetInv'
  OBVIOUS
<1>0. (running' = running /\ th' = th) => Reports'
  BY Zenon DEF NetInv, Reports
<1> USE DEF NetInv, JoinedSoFar, Workers
<1>1. CASE InitClient
  BY <1>0, <1>1 DEF InitClient, Plain
<1>2. ASSUME NEW t \in Workers, NEW here, NEW next, Spawn(t, here, next),
             <<here, next>> \in {<<"spawn proc", "spawn detect">>, <<"spawn detect", "spawn send">>,
                                 <<"spawn send", "up">>}
      PROVE  NetInv'
  <2>1. Reports'
    BY <1>2, GoKeeps DEF Spawn, Places, Inside
  <2> QED BY <1>2, <2>1 DEF Spawn, Plain
<1>3. CASE SubmitExit
  BY <1>0, <1>3 DEF SubmitExit, Plain
<1>4. CASE UnInitBegin
  BY <1>0, <1>4 DEF UnInitBegin, Plain
<1>5. CASE UnInitPoll
  BY <1>0, <1>5 DEF UnInitPoll, Plain
<1>6. CASE Joins
  BY <1>0, <1>6 DEF Joins, Join, Plain
<1> QED BY <1>1, <1>2, <1>3, <1>4, <1>5, <1>6 DEF App

LEMMA WorkerStep == NetInv /\ (SendExits \/ \E t \in Workers : ThreadStep(t)) => NetInv'
<1> SUFFICES ASSUME NetInv, SendExits \/ \E t \in Workers : ThreadStep(t) PROVE NetInv'
  OBVIOUS
<1>0. "proc" \in Workers /\ "detect" \in Workers /\ "send" \in Workers
  BY DEF Workers
<1>j. (app' = app /\ \A u \in Workers : th[u] = "dead" => th'[u] = "dead") => JoinedSoFar'
  BY <1>0 DEF NetInv, JoinedSoFar
<1>1. ASSUME NEW t \in Workers, Begin(t) PROVE NetInv'
  <2>1. th' \in [Workers -> Places] /\ th'[t] = "loop" /\ \A u \in Workers \ {t} : th'[u] = th[u]
    BY <1>1 DEF Begin, Go, NetInv, Reports, Places
  <2>2. running' \in [Workers -> BOOLEAN] /\ running'[t] = TRUE /\ \A u \in Workers \ {t} : running'[u] = running[u]
    BY <1>1, Zenon DEF Begin, NetInv, Reports
  <2>3. th'[t] \in Inside
    BY <2>1 DEF Inside
  <2>4. \A u \in Workers : running'[u] <=> th'[u] \in Inside
    BY <2>1, <2>2, <2>3, Zenon DEF NetInv, Reports
  <2>5. \A u \in Workers : th[u] = "dead" => th'[u] = "dead"
    BY <1>1, <2>1 DEF Begin, Go
  <2>6. Plain'
    BY <1>1 DEF Begin, NetInv, Plain
  <2> QED BY <1>j, <1>1, <2>1, <2>2, <2>4, <2>5, <2>6, Zenon DEF Begin, NetInv, Reports
<1>2. ASSUME NEW t \in Workers, End(t) PROVE NetInv'
  <2>1. th' \in [Workers -> Places] /\ th'[t] = "dead" /\ \A u \in Workers \ {t} : th'[u] = th[u]
    BY <1>2 DEF End, Go, NetInv, Reports, Places
  <2>2. running' \in [Workers -> BOOLEAN] /\ running'[t] = FALSE /\ \A u \in Workers \ {t} : running'[u] = running[u]
    BY <1>2, Zenon DEF End, NetInv, Reports
  <2>3. th'[t] \notin Inside
    BY <2>1 DEF Inside
  <2>4. \A u \in Workers : running'[u] <=> th'[u] \in Inside
    BY <2>1, <2>2, <2>3, Zenon DEF NetInv, Reports
  <2>5. \A u \in Workers : th[u] = "dead" => th'[u] = "dead"
    BY <2>1, Zenon
  <2>6. Plain'
    BY <1>2 DEF End, NetInv, Plain
  <2> QED BY <1>j, <1>2, <2>1, <2>2, <2>4, <2>5, <2>6, Zenon DEF End, NetInv, Reports
<1>3. ASSUME NEW t \in Workers, NEW from \in Inside, NEW to \in Inside, Go(t, from, to),
             running' = running, app' = app, Plain'
      PROVE  NetInv'
  <2>1. Reports' /\ \A u \in Workers : th[u] = "dead" => th'[u] = "dead"
    BY <1>3, GoKeeps DEF Inside, Places
  <2> QED BY <1>j, <1>3, <2>1, Zenon DEF NetInv
<1>4. CASE ProcTurn \/ ProcReadsNothing
  <2>1. PICK from \in {"loop", "read"}, to \in {"ending", "read", "loop"} : Go("proc", from, to)
    BY <1>4 DEF ProcTurn, ProcReadsNothing
  <2>2. Plain'
    BY <1>4 DEF ProcTurn, ProcReadsNothing, NetInv, Plain
  <2>3. from \in Inside /\ to \in Inside
    BY DEF Inside
  <2> QED BY <1>0, <1>3, <1>4, <2>1, <2>2, <2>3 DEF ProcTurn, ProcReadsNothing
<1>5. ASSUME NEW k \in Arriving, ProcReads(k) PROVE NetInv'
  <2>1. lka' \in BOOLEAN
    BY <1>5, Zenon DEF ProcReads, NetInv, Plain
  <2>2. Plain'
    BY <1>5, <2>1 DEF ProcReads, NetInv, Plain
  <2> QED BY <1>0, <1>3, <1>5, <2>2 DEF ProcReads, Inside
<1>6. CASE ProcHandles
  <2>1. died' \in BOOLEAN
    BY <1>6 DEF ProcHandles
  <2>2. Plain'
    BY <1>6, <2>1 DEF ProcHandles, NetInv, Plain
  <2> QED BY <1>0, <1>3, <1>6, <2>2 DEF ProcHandles, Inside
<1>7. CASE DetectTurn
  <2>1. PICK to \in {"ending", "wait"} : Go("detect", "loop", to)
    BY <1>7 DEF DetectTurn
  <2>2. Plain'
    BY <1>7 DEF DetectTurn, NetInv, Plain
  <2>3. "loop" \in Inside /\ to \in Inside
    BY DEF Inside
  <2> QED BY <1>0, <1>3, <1>7, <2>1, <2>2, <2>3 DEF DetectTurn
<1>8. CASE DetectWakes
  <2>1. connected' \in BOOLEAN /\ lka' \in BOOLEAN
    BY <1>8 DEF DetectWakes, NetInv, Plain
  <2>2. Plain'
    BY <1>8, <2>1 DEF DetectWakes, NetInv, Plain
  <2> QED BY <1>0, <1>3, <1>8, <2>2 DEF DetectWakes, Inside
<1>9. CASE SendExits
  <2>1. Plain'
    BY <1>9 DEF SendExits, NetInv, Plain
  <2> QED BY <1>0, <1>3, <1>9, <2>1 DEF SendExits, Inside
<1> QED BY <1>1, <1>2, <1>4, <1>5, <1>6, <1>7, <1>8, <1>9 DEF ThreadStep

LEMMA NetInvariant == Spec => []NetInv
<1>1. NetInv /\ UNCHANGED vars => NetInv'
  BY Zenon DEF NetInv, Plain, Reports, JoinedSoFar, vars
<1>2. NetInv /\ [Next]_vars => NetInv'
  BY <1>1, AppStep, WorkerStep DEF Next
<1> QED BY <1>2, InitNet, PTL DEF Spec

(* A thread reports in m_bThreadsRunning exactly while it is between its   *)
(* beginning and its end, whatever packets arrive.                         *)
THEOREM NetTyping == Spec => []TypeOK
<1>1. NetInv => TypeOK
  BY Zenon DEF NetInv, Plain, Reports, Places, Inside, TypeOK
<1> QED BY <1>1, NetInvariant, PTL

(* UnInit tears the pool down alone, whatever packets arrive.              *)
THEOREM NobodyLeftInPool == Spec => []TornDownAlone
<1>1. NetInv => TornDownAlone
  BY DEF NetInv, JoinedSoFar, TornDownAlone, Workers
<1> QED BY <1>1, NetInvariant, PTL

=============================================================================
