---------------------------- MODULE PEventsProofs ----------------------------
(***************************************************************************)
(* Proofs about the event library, for any events, threads and scripts,    *)
(* and about the pool that uses it.                                        *)
(***************************************************************************)
EXTENDS PoolEvents, FiniteSetTheorems, SequenceTheorems, WellFoundedInduction, TLAPS

-----------------------------------------------------------------------------
(* The inductive invariant                                                 *)

(* As in TypeOK, but for the reference counts: that they never go below    *)
(* zero follows from what they count.                                      *)
WaitObject ==
  [refs : Int, status : Int, still : BOOLEAN, all : BOOLEAN, owner : Threads \cup {Nobody}]

Types ==
  /\ state \in [Events -> BOOLEAN]
  /\ eMutex \in [Events -> Threads \cup {Nobody}]
  /\ registered \in [Events -> Seq(Waiters \X Nat)]
  /\ destroyed \subseteq Events
  /\ wfmo \in [Waiters -> WaitObject]
  /\ pc \in [Threads -> Pcs] /\ calls \in [Threads -> Nat] /\ call \in [Threads -> Calls]
  /\ pos \in [Threads -> Nat] /\ skipped \in [Threads -> Nat]
  /\ result \in [Threads -> {0, Timeout}]
  /\ taken \in [Waiters -> SUBSET AutoReset]
  /\ sets \in [Events -> Nat]
  /\ seen \in [Threads -> SUBSET Events]

HoldPcs   == {"scan", "fire", "signal", "fired", "drop"}
SetPcs    == HoldPcs \cup {"setLock", "notify"}
LoopPcs   == {"register", "regLock"}

(* Where a thread is fits the call it is in.                               *)
CallFits(t) ==
  /\ calls[t] <= Len(Script[t])
  /\ pos[t] \in 1..Len(call[t].evs) + 1
  /\ pc[t] # "idle" => calls[t] >= 1 /\ call[t].evs # <<>> /\ IsInjective(call[t].evs)
  /\ pc[t] \notin WaitingPcs \cup {"idle"} => pos[t] = 1
  /\ pc[t] \in LoopPcs => pos[t] <= Len(call[t].evs)
  /\ pc[t] \in WaitingPcs \ LoopPcs => pos[t] = Len(call[t].evs) + 1
  /\ pc[t] \in WaitingPcs => call[t].op \in {"WaitAny", "WaitAll"}
  /\ pc[t] \in SetPcs => call[t].op \in {"SetEvent", "PulseEvent"}
  /\ pc[t] = "reset" => call[t].op \in {"ResetEvent", "PulseEvent"}
  /\ pc[t] = "destroy" => call[t].op = "DestroyEvent"

(* An event's Mutex is held exactly by the SetEvent that goes through its  *)
(* registrations, which still has the one it reports to.                   *)
Held(t) ==
  /\ \A e \in Events : eMutex[e] = t <=> pc[t] \in HoldPcs /\ E(t) = e
  /\ pc[t] \in HoldPcs \ {"scan"} => registered[E(t)] # <<>>

Control == Types /\ \A t \in Threads : CallFits(t) /\ Held(t)

(* A wait that is still waiting is under way, its Mutex is held while it   *)
(* registers, and nobody but itself ends a wait-all.                       *)
WaitLives(w) ==
  /\ wfmo[w].still => InWait(w) /\ pc[w[1]] # "unref"
  /\ InWait(w) /\ pc[w[1]] \in LoopPcs \cup {"check"} => wfmo[w].still /\ wfmo[w].owner = w[1]
  /\ InWait(w) /\ pc[w[1]] # "unref" /\ wfmo[w].all => wfmo[w].still

(* No event holds a wait twice, nor one that has not begun, and none that  *)
(* is under way before its loop has come to the event.                     *)
Registrations(e) ==
  /\ \A i, j \in DOMAIN registered[e] : registered[e][i][1] = registered[e][j][1] => i = j
  /\ \A i \in DOMAIN registered[e] : LET w == registered[e][i][1]  k == registered[e][i][2] + 1 IN
       /\ w[2] <= calls[w[1]]
       /\ InWait(w) => k < pos[w[1]] /\ call[w[1]].evs[k] = e

RefInv ==
  /\ \A w \in Waiters : WaitLives(w)
  /\ \A e \in Events : Registrations(e)
  /\ RefCountExact

(* A signal of an auto-reset event is with the event, with the SetEvent    *)
(* that has it to give, or with the wait that consumed it; and the event   *)
(* keeps none while a wait may be registered to get it.                    *)
GivingPcs == {"scan", "fire", "drop"}
Giving(e) == \E t \in Threads : pc[t] \in GivingPcs /\ E(t) = e
Takers(e) == {w \in Waiters : e \in taken[w]}
GivenOnce(e) ==
  /\ Cardinality(Takers(e)) + (IF state[e] \/ Giving(e) THEN 1 ELSE 0)
       <= sets[e] + (IF e \in InitiallySet THEN 1 ELSE 0)
  /\ state[e] => registered[e] = <<>>

-----------------------------------------------------------------------------
(* Lemmas about the operators of the model                                 *)

LEMMA NatMin ==
  ASSUME NEW P \in SUBSET Nat, P # {}
  PROVE  \E x \in P : \A y \in P : ~(y < x)
<1>1. PICK x \in P : \A y \in P : <<y, x>> \notin OpToRel(<,Nat)
  BY WFMin, NatLessThanWellFounded
<1> QED
  BY <1>1 DEF OpToRel

LEMMA WaitersAre ==
  \A w : w \in Waiters => /\ w[1] \in Threads /\ w[2] \in 1..Len(Script[w[1]])
                          /\ w = <<w[1], w[2]>>
<1> SUFFICES ASSUME NEW w \in Waiters
             PROVE  w[1] \in Threads /\ w[2] \in 1..Len(Script[w[1]]) /\ w = <<w[1], w[2]>>
  OBVIOUS
<1>1. PICK t \in Threads : w \in {t} \X (1..Len(Script[t]))
  BY DEF Waiters
<1> QED
  BY <1>1

LEMMA AreWaiters ==
  ASSUME NEW t \in Threads, NEW n \in 1..Len(Script[t])
  PROVE  <<t, n>> \in Waiters
<1>1. <<t, n>> \in {t} \X (1..Len(Script[t]))
  OBVIOUS
<1> QED
  BY <1>1 DEF Waiters

(* Unexpired is the selection it should be: the function that computes it  *)
(* exists, by induction on its domain ...                                  *)
KeepStep(s, g, k) ==
  IF k = 0 THEN <<>>
  ELSE IF wfmo[s[k][1]].still THEN Append(g[k - 1], s[k]) ELSE g[k - 1]

LEMMA KeptExists ==
  ASSUME NEW n \in Nat, NEW s
  PROVE  \E g : g = [k \in 0..n |-> KeepStep(s, g, k)]
<1> DEFINE Has(m) == \E g : g = [k \in 0..m |-> KeepStep(s, g, k)]
           Not == {m \in Nat : ~Has(m)}
<1>1. Has(0)
  <2> DEFINE g == [k \in 0..0 |-> <<>>]
  <2>1. g = [k \in 0..0 |-> KeepStep(s, g, k)]
    BY DEF KeepStep
  <2> QED
    BY <2>1
<1>2. ASSUME NEW m \in Nat, Has(m) PROVE Has(m + 1)
  <2>1. PICK g : g = [k \in 0..m |-> KeepStep(s, g, k)]
    BY <1>2
  <2> DEFINE h == [k \in 0..m + 1 |-> IF k = m + 1 THEN KeepStep(s, g, k) ELSE g[k]]
  <2>2. \A k \in 0..m + 1 : h[k] = KeepStep(s, h, k)
    <3> SUFFICES ASSUME NEW k \in 0..m + 1 PROVE h[k] = KeepStep(s, h, k)
      OBVIOUS
    <3>1. k # 0 => k - 1 \in 0..m /\ h[k - 1] = g[k - 1]
      OBVIOUS
    <3>2. KeepStep(s, h, k) = KeepStep(s, g, k)
      BY <3>1 DEF KeepStep
    <3>3. k # m + 1 => g[k] = KeepStep(s, g, k)
      <4>1. k # m + 1 => k \in 0..m
        OBVIOUS
      <4> QED
        BY <4>1, <2>1
    <3> QED
      BY <3>2, <3>3
  <2>3. h = [k \in 0..m + 1 |-> KeepStep(s, h, k)]
    BY <2>2
  <2> QED
    BY <2>3
<1> HIDE DEF Has
<1>3. Not = {}
  <2> SUFFICES ASSUME Not # {} PROVE FALSE
    OBVIOUS
  <2>1. PICK x \in Not : \A y \in Not : ~(y < x)
    BY NatMin
  <2>2. x \in Nat /\ x # 0 /\ ~Has(x)
    BY <1>1
  <2>3. x - 1 \in Nat /\ Has(x - 1)
    BY <2>1, <2>2
  <2>4. Has((x - 1) + 1)
    BY <2>3, <1>2
  <2> QED
    BY <2>2, <2>4
<1>4. Has(n)
  BY <1>3
<1> QED
  BY <1>4 DEF Has

LEMMA UnexpiredFcn ==
  ASSUME NEW e \in Events, Types
  PROVE  \E g : /\ g = [k \in 0..Len(registered[e]) |-> KeepStep(registered[e], g, k)]
                /\ Unexpired(e) = g[Len(registered[e])]
<1> DEFINE s == registered[e]
           f == CHOOSE g : g = [k \in 0..Len(s) |->
                  IF k = 0 THEN <<>>
                  ELSE IF wfmo[s[k][1]].still THEN Append(g[k - 1], s[k]) ELSE g[k - 1]]
<1>1. Len(s) \in Nat
  BY LenProperties DEF Types
<1>2. \E g : g = [k \in 0..Len(s) |-> KeepStep(s, g, k)]
  BY <1>1, KeptExists
<1>3. f = [k \in 0..Len(s) |-> KeepStep(s, f, k)]
  BY <1>2 DEF KeepStep
<1>4. Unexpired(e) = f[Len(s)]
  BY DEF Unexpired
<1> QED
  BY <1>3, <1>4

(* ... and what it computes, by induction again: the registrations of      *)
(* waits that still wait.                                                  *)
On(s, w) == \E k \in DOMAIN s : s[k][1] = w
Distinct(s) == \A i, j \in DOMAIN s : s[i][1] = s[j][1] => i = j
Registration == Waiters \X Nat

IsKept(u, s, k) ==
  /\ u \in Seq(Registration)
  /\ \A i \in DOMAIN u : \E j \in 1..k : u[i] = s[j] /\ wfmo[s[j][1]].still
  /\ \A j \in 1..k : wfmo[s[j][1]].still => \E i \in DOMAIN u : u[i] = s[j]
  /\ Distinct(s) => Distinct(u)

LEMMA KeptStep ==
  ASSUME NEW s \in Seq(Registration), NEW k \in Nat, k + 1 \in DOMAIN s, NEW u, IsKept(u, s, k),
         wfmo[s[k + 1][1]].still
  PROVE  IsKept(Append(u, s[k + 1]), s, k + 1)
<1> DEFINE v == Append(u, s[k + 1])
<1>1. /\ u \in Seq(Registration) /\ s[k + 1] \in Registration /\ Len(u) \in Nat
      /\ k + 1 \in 1..Len(s) /\ Len(s) \in Nat
  BY DEF IsKept
<1>2. /\ v \in Seq(Registration) /\ Len(v) = Len(u) + 1 /\ DOMAIN v = 1..Len(u) + 1
      /\ v[Len(u) + 1] = s[k + 1] /\ \A i \in 1..Len(u) : v[i] = u[i]
  BY <1>1
<1> HIDE DEF v
<1>3. DOMAIN u = 1..Len(u) /\ DOMAIN s = 1..Len(s)
  BY <1>1
<1>4. \A i \in DOMAIN v : \E j \in 1..k + 1 : v[i] = s[j] /\ wfmo[s[j][1]].still
  <2> SUFFICES ASSUME NEW i \in DOMAIN v
               PROVE  \E j \in 1..k + 1 : v[i] = s[j] /\ wfmo[s[j][1]].still
    OBVIOUS
  <2>1. CASE i = Len(u) + 1
    BY <2>1, <1>2
  <2>2. CASE i \in DOMAIN u
    <3>1. PICK j \in 1..k : u[i] = s[j] /\ wfmo[s[j][1]].still
      BY <2>2 DEF IsKept
    <3> QED
      BY <3>1, <2>2, <1>2, <1>3
  <2> QED
    BY <2>1, <2>2, <1>1, <1>2, <1>3
<1>5. \A j \in 1..k + 1 : wfmo[s[j][1]].still => \E i \in DOMAIN v : v[i] = s[j]
  <2> SUFFICES ASSUME NEW j \in 1..k + 1, wfmo[s[j][1]].still PROVE \E i \in DOMAIN v : v[i] = s[j]
    OBVIOUS
  <2>1. CASE j = k + 1
    BY <2>1, <1>1, <1>2
  <2>2. CASE j \in 1..k
    <3>1. PICK i \in DOMAIN u : u[i] = s[j]
      BY <2>2 DEF IsKept
    <3>2. i \in 1..Len(u) /\ i \in DOMAIN v
      BY <3>1, <1>1, <1>2, <1>3
    <3>3. v[i] = s[j]
      BY <3>1, <3>2, <1>2
    <3> QED
      BY <3>2, <3>3
  <2>3. j = k + 1 \/ j \in 1..k
    OBVIOUS
  <2> QED
    BY <2>1, <2>2, <2>3
<1>6. ASSUME Distinct(s) PROVE Distinct(v)
  <2>1. ASSUME NEW i \in 1..Len(u) PROVE v[i][1] # s[k + 1][1]
    <3>1. PICK j \in 1..k : u[i] = s[j]
      BY <2>1, <1>3 DEF IsKept
    <3>2. j \in DOMAIN s /\ k + 1 \in DOMAIN s /\ j # k + 1
      BY <1>1, <1>3
    <3>3. s[j][1] # s[k + 1][1]
      BY <3>2, <1>6 DEF Distinct
    <3>4. v[i] = s[j]
      BY <3>1, <2>1, <1>2
    <3> QED
      BY <3>3, <3>4
  <2>2. \A i, j \in 1..Len(u) : v[i][1] = v[j][1] => i = j
    <3>1. Distinct(u)
      BY <1>6 DEF IsKept
    <3> SUFFICES ASSUME NEW i \in 1..Len(u), NEW j \in 1..Len(u), v[i][1] = v[j][1] PROVE i = j
      OBVIOUS
    <3>2. i \in DOMAIN u /\ j \in DOMAIN u
      BY <1>3
    <3>3. v[i] = u[i] /\ v[j] = u[j]
      BY <1>2
    <3> QED
      BY <3>1, <3>2, <3>3, Zenon DEF Distinct
  <2>3. \A i \in DOMAIN v : i = Len(u) + 1 \/ i \in 1..Len(u)
    BY <1>1, <1>2
  <2> QED
    BY <2>1, <2>2, <2>3, <1>2 DEF Distinct
<1> QED
  BY <1>2, <1>4, <1>5, <1>6 DEF IsKept, v

LEMMA KeptSame ==
  ASSUME NEW s \in Seq(Registration), NEW k \in Nat, k + 1 \in DOMAIN s, NEW u, IsKept(u, s, k),
         ~wfmo[s[k + 1][1]].still
  PROVE  IsKept(u, s, k + 1)
  BY DEF IsKept

LEMMA UnexpiredIs ==
  ASSUME NEW e \in Events, Types
  PROVE  /\ Unexpired(e) \in Seq(Registration)
         /\ \A i \in DOMAIN Unexpired(e) : \E j \in DOMAIN registered[e] :
              Unexpired(e)[i] = registered[e][j] /\ wfmo[registered[e][j][1]].still
         /\ \A j \in DOMAIN registered[e] : wfmo[registered[e][j][1]].still =>
              \E i \in DOMAIN Unexpired(e) : Unexpired(e)[i] = registered[e][j]
         /\ Distinct(registered[e]) => Distinct(Unexpired(e))
<1> DEFINE s == registered[e]
           n == Len(s)
<1>1. s \in Seq(Registration) /\ n \in Nat /\ DOMAIN s = 1..n
  BY LenProperties DEF Types, Registration
<1>2. PICK g : g = [k \in 0..n |-> KeepStep(s, g, k)] /\ Unexpired(e) = g[n]
  BY UnexpiredFcn
<1> HIDE DEF n, s
<1>3. \A k \in 0..n : g[k] = KeepStep(s, g, k)
  BY <1>2
<1> DEFINE Bad == {k \in 0..n : ~IsKept(g[k], s, k)}
<1>4. 0 \notin Bad
  <2>1. g[0] = <<>>
    BY <1>1, <1>3 DEF KeepStep
  <2>2. <<>> \in Seq(Registration) /\ DOMAIN <<>> = {} /\ 1..0 = {}
    OBVIOUS
  <2>3. IsKept(<<>>, s, 0)
    BY <2>2 DEF IsKept, Distinct
  <2> QED
    BY <2>1, <2>3
<1>5. ASSUME NEW k \in Nat, k + 1 \in 0..n, IsKept(g[k], s, k) PROVE IsKept(g[k + 1], s, k + 1)
  <2>1. /\ k + 1 \in DOMAIN s
        /\ g[k + 1] = IF wfmo[s[k + 1][1]].still THEN Append(g[k], s[k + 1]) ELSE g[k]
    BY <1>1, <1>3, <1>5 DEF KeepStep
  <2>2. CASE wfmo[s[k + 1][1]].still
    BY <2>1, <2>2, <1>1, <1>5, KeptStep
  <2>3. CASE ~wfmo[s[k + 1][1]].still
    BY <2>1, <2>3, <1>1, <1>5, KeptSame
  <2> QED
    BY <2>2, <2>3
<1>6. Bad = {}
  <2> SUFFICES ASSUME Bad # {} PROVE FALSE
    OBVIOUS
  <2>0. Bad \in SUBSET Nat
    BY <1>1
  <2> HIDE DEF Bad
  <2>1. PICK k \in Bad : \A y \in Bad : ~(y < k)
    BY <2>0, NatMin
  <2> USE DEF Bad
  <2>2. k - 1 \in Nat /\ (k - 1) + 1 = k /\ k \in 0..n /\ k - 1 \in 0..n /\ k - 1 < k
    BY <1>1, <1>4
  <2>3. IsKept(g[k - 1], s, k - 1)
    BY <2>1, <2>2
  <2>4. IsKept(g[(k - 1) + 1], s, (k - 1) + 1)
    BY <2>2, <2>3, <1>5
  <2> QED
    BY <2>1, <2>2, <2>4
<1>7. IsKept(g[n], s, n)
  BY <1>1, <1>6
<1>8. Unexpired(e) = g[n] /\ DOMAIN s = 1..n
  BY <1>1, <1>2
<1> HIDE DEF Bad
<1>9. /\ Unexpired(e) \in Seq(Registration)
      /\ \A i \in DOMAIN Unexpired(e) : \E j \in DOMAIN s :
           Unexpired(e)[i] = s[j] /\ wfmo[s[j][1]].still
      /\ \A j \in DOMAIN s : wfmo[s[j][1]].still => \E i \in DOMAIN Unexpired(e) : Unexpired(e)[i] = s[j]
      /\ Distinct(s) => Distinct(Unexpired(e))
  BY <1>7, <1>8 DEF IsKept
<1> QED
  BY <1>9 DEF s

LEMMA UnrefType ==
  ASSUME Types, NEW w \in Waiters, NEW cnt \in Nat
  PROVE  Unref(wfmo, w, cnt) \in [Waiters -> WaitObject]
<1>1. Freed \in WaitObject
  BY DEF Freed, WaitObject
<1>2. wfmo[w] \in WaitObject /\ wfmo[w].refs - cnt \in Int
  BY DEF Types, WaitObject
<1>3. [wfmo EXCEPT ![w].refs = @ - cnt] \in [Waiters -> WaitObject]
  BY <1>2 DEF Types, WaitObject
<1> QED
  BY <1>1, <1>3 DEF Types, Unref

LEMMA WithoutExpiredType ==
  ASSUME Types, NEW e \in Events
  PROVE  WithoutExpired(e) \in [Waiters -> WaitObject]
<1>1. ASSUME NEW w \in Waiters PROVE Unref(wfmo, w, 1)[w] \in WaitObject /\ wfmo[w] \in WaitObject
  BY <1>1, UnrefType DEF Types
<1> QED
  BY <1>1 DEF WithoutExpired

-----------------------------------------------------------------------------
(* Control is inductive                                                    *)

LEMMA EventOf ==
  ASSUME Control, NEW t \in Threads, pc[t] # "idle", pos[t] <= Len(call[t].evs)
  PROVE  E(t) \in Events /\ pos[t] \in 1..Len(call[t].evs) /\ pos[t] \in DOMAIN call[t].evs
<1>1. call[t].evs \in Seq(Events) /\ pos[t] \in Nat /\ pos[t] >= 1
  BY DEF Control, Types, CallFits, Calls
<1> QED
  BY <1>1 DEF E

LEMMA FirstEvent ==
  ASSUME Control, NEW t \in Threads, pc[t] \notin WaitingPcs \cup {"idle"}
  PROVE  E(t) \in Events /\ pos[t] = 1 /\ pos[t] <= Len(call[t].evs)
<1>1. call[t].evs \in Seq(Events) /\ pos[t] = 1 /\ call[t].evs # <<>>
  BY DEF Control, Types, CallFits, Calls
<1>2. 1 <= Len(call[t].evs)
  BY <1>1
<1> QED
  BY <1>1, <1>2, EventOf

LEMMA WaitOf ==
  ASSUME Control, NEW t \in Threads, pc[t] # "idle"
  PROVE  W(t) \in Waiters /\ W(t)[1] = t
<1>1. calls[t] \in 1..Len(Script[t])
  <2>1. calls[t] \in Nat /\ calls[t] >= 1 /\ calls[t] <= Len(Script[t])
    BY DEF Control, Types, CallFits
  <2>2. Len(Script[t]) \in Nat
    BY ScriptAssumption
  <2> QED
    BY <2>1, <2>2
<1> QED
  BY <1>1, AreWaiters DEF W

(* What a step of thread t does to the others: at most it wakes them.      *)
Woken(u) == \/ pc'[u] = pc[u]
            \/ pc[u] = "asleep" /\ pc'[u] = "relock"
            \/ pc[u] = "parked" /\ pc'[u] = "unpark"

LEMMA OthersControl ==
  ASSUME Control, NEW u \in Threads, Woken(u), calls'[u] = calls[u], call'[u] = call[u], pos'[u] = pos[u],
         \A e \in Events : eMutex'[e] = u <=> eMutex[e] = u,
         pc[u] \in HoldPcs \ {"scan"} => registered'[E(u)] = registered[E(u)]
  PROVE  CallFits(u)' /\ Held(u)'
<1>1. E(u)' = E(u)
  BY DEF E
<1>2. CallFits(u)'
  BY DEF Control, CallFits, Woken, WaitingPcs, SetPcs, HoldPcs, LoopPcs
<1>3. Held(u)'
  BY <1>1 DEF Control, Held, Woken, HoldPcs
<1> QED
  BY <1>2, <1>3

LEMMA ControlBegin ==
  ASSUME Control, NEW t \in Threads, Begin(t)
  PROVE  Control'
<1> DEFINE n == calls[t] + 1
<1>1. pc[t] = "idle" /\ calls[t] \in Nat /\ n \in DOMAIN Script[t] /\ n \in 1..Len(Script[t])
  BY ScriptAssumption DEF Begin, Control, Types
<1>2. PICK c \in Script[t][n] :
        /\ calls' = [calls EXCEPT ![t] = n]
        /\ call' = [call EXCEPT ![t] = c]
        /\ pc' = [pc EXCEPT ![t] = EntryPoint[c.op]]
        /\ wfmo' = IF c.op \in {"WaitAny", "WaitAll"}
                   THEN [wfmo EXCEPT ![<<t, n>>] =
                          [refs |-> 1 + Len(c.evs), still |-> TRUE, owner |-> t,
                           all |-> c.op = "WaitAll",
                           status |-> IF c.op = "WaitAll" THEN Len(c.evs) ELSE -1]]
                   ELSE wfmo
  BY DEF Begin, Goto
<1>3. c \in Calls /\ c.evs # <<>> /\ IsInjective(c.evs) /\ (c.op \notin {"WaitAny", "WaitAll"} => Len(c.evs) = 1)
  BY <1>1, ScriptAssumption
<1>4. c.evs \in Seq(Events) /\ Len(c.evs) \in Nat /\ Len(c.evs) >= 1 /\ c.op \in Ops
  BY <1>3 DEF Calls
<1>5. /\ c.op = "WaitForEvent" => EntryPoint[c.op] = "fastPath"
      /\ c.op \in {"WaitAny", "WaitAll"} => EntryPoint[c.op] = "register"
      /\ c.op \in {"SetEvent", "PulseEvent"} => EntryPoint[c.op] = "setLock"
      /\ c.op = "ResetEvent" => EntryPoint[c.op] = "reset"
      /\ c.op = "DestroyEvent" => EntryPoint[c.op] = "destroy"
  BY DEF EntryPoint
<1>6. EntryPoint[c.op] \in Pcs
  BY <1>4, <1>5 DEF Ops, WaitOps, Pcs, WaitingPcs
<1>7. Types'
  <2>1. wfmo' \in [Waiters -> WaitObject]
    <3>1. <<t, n>> \in Waiters
      BY <1>1, AreWaiters
    <3>2. [refs |-> 1 + Len(c.evs), still |-> TRUE, owner |-> t, all |-> c.op = "WaitAll",
           status |-> IF c.op = "WaitAll" THEN Len(c.evs) ELSE -1] \in WaitObject
      BY <1>4 DEF WaitObject
    <3> QED
      BY <1>2, <3>1, <3>2 DEF Control, Types
  <2>2. seen' \in [Threads -> SUBSET Events]
    <3>1. call'[t].evs = c.evs
      BY <1>2 DEF Control, Types
    <3>2. {e \in ToSet(call'[t].evs) : state[e]} \in SUBSET Events
      BY <3>1, <1>4 DEF ToSet
    <3> QED
      BY <3>2 DEF Begin, Control, Types
  <2>3. calls' \in [Threads -> Nat] /\ call' \in [Threads -> Calls] /\ pc' \in [Threads -> Pcs]
    BY <1>1, <1>2, <1>3, <1>6 DEF Control, Types
  <2> QED
    BY <2>1, <2>2, <2>3 DEF Begin, Control, Types
<1>8. ASSUME NEW u \in Threads, u # t PROVE CallFits(u)' /\ Held(u)'
  <2>1. /\ pc'[u] = pc[u] /\ calls'[u] = calls[u] /\ call'[u] = call[u] /\ pos'[u] = pos[u]
        /\ eMutex' = eMutex /\ registered' = registered
    BY <1>2, <1>8 DEF Begin, Control, Types
  <2> QED
    BY <2>1, OthersControl DEF Woken
<1>9. CallFits(t)' /\ Held(t)'
  <2>1. /\ pc'[t] = EntryPoint[c.op] /\ calls'[t] = n /\ call'[t] = c /\ pos'[t] = 1
        /\ eMutex' = eMutex /\ registered' = registered
    BY <1>2 DEF Begin, Control, Types
  <2>2. pc'[t] \notin HoldPcs /\ pc[t] \notin HoldPcs
    BY <1>1, <1>4, <1>5, <2>1 DEF HoldPcs, Ops, WaitOps
  <2>3. Held(t)'
    BY <2>1, <2>2 DEF Control, Held
  <2>4. CallFits(t)'
    BY <1>1, <1>3, <1>4, <1>5, <2>1
       DEF CallFits, Ops, WaitOps, WaitingPcs, SetPcs, HoldPcs, LoopPcs
  <2> QED
    BY <2>3, <2>4
<1> QED
  BY <1>7, <1>8, <1>9 DEF Control

LEMMA ConsumeType ==
  ASSUME Control, NEW w \in Waiters, NEW e \in Events, Consume(w, e)
  PROVE  taken' \in [Waiters -> SUBSET AutoReset]
<1>1. taken \in [Waiters -> SUBSET AutoReset]
  BY DEF Control, Types
<1>2. CASE e \in AutoReset
  <2>1. taken[w] \cup {e} \in SUBSET AutoReset
    BY <1>1, <1>2
  <2> QED
    BY <2>1, <1>1, <1>2 DEF Consume
<1> QED
  BY <1>1, <1>2 DEF Consume

LEMMA ObtainType ==
  ASSUME Control, NEW t \in Threads, pc[t] # "idle", NEW e \in Events, Obtain(t, e)
  PROVE  state' \in [Events -> BOOLEAN] /\ taken' \in [Waiters -> SUBSET AutoReset]
<1>1. taken' \in [Waiters -> SUBSET AutoReset]
  BY WaitOf, ConsumeType DEF Obtain
<1>2. state' \in [Events -> BOOLEAN]
  <2> DEFINE x == state[e] /\ e \notin AutoReset
  <2>1. x \in BOOLEAN
    BY Zenon
  <2>2. state' = [state EXCEPT ![e] = x] /\ state \in [Events -> BOOLEAN]
    BY DEF Obtain, Control, Types
  <2> HIDE DEF x
  <2> QED
    BY <2>1, <2>2
<1> QED
  BY <1>1, <1>2

LEMMA ControlWaitFastPath ==
  ASSUME Control, NEW t \in Threads, WaitFastPath(t)
  PROVE  Control'
<1>1. pc[t] = "fastPath" /\ E(t) \in Events /\ pos[t] = 1
  BY FirstEvent DEF WaitFastPath, WaitingPcs
<1>2. pc' = [pc EXCEPT ![t] = "idle"] \/ pc' = [pc EXCEPT ![t] = "waitLock"]
  BY DEF WaitFastPath, Goto
<1>3. Types'
  <2>1. pc' \in [Threads -> Pcs]
    BY <1>2 DEF Control, Types, Pcs
  <2>2. result' \in [Threads -> {0, Timeout}]
    BY DEF WaitFastPath, Control, Types
  <2> QED
    BY <2>1, <2>2 DEF WaitFastPath, Control, Types
<1>4. ASSUME NEW u \in Threads, u # t PROVE CallFits(u)' /\ Held(u)'
  <2>1. pc'[u] = pc[u]
    BY <1>2, <1>4 DEF Control, Types
  <2> QED
    BY <2>1, OthersControl DEF Woken, WaitFastPath
<1>5. CallFits(t)'
  BY <1>1, <1>2 DEF WaitFastPath, Control, Types, CallFits, WaitingPcs, SetPcs, HoldPcs, LoopPcs
<1>6. Held(t)'
  <2>1. pc'[t] \notin HoldPcs /\ pc[t] \notin HoldPcs
    BY <1>1, <1>2 DEF Control, Types, HoldPcs
  <2> QED
    BY <2>1 DEF WaitFastPath, Control, Held
<1> QED
  BY <1>3, <1>4, <1>5, <1>6 DEF Control

LEMMA ControlWaitLocked ==
  ASSUME Control, NEW t \in Threads, WaitLocked(t)
  PROVE  Control'
<1>1. pc[t] \in {"waitLock", "relock"} /\ E(t) \in Events /\ pos[t] = 1 /\ W(t) \in Waiters
  BY FirstEvent, WaitOf DEF WaitLocked, WaitingPcs
<1>2. pc' = [pc EXCEPT ![t] = "idle"] \/ pc' = [pc EXCEPT ![t] = "asleep"]
  BY DEF WaitLocked, Goto
<1>3. Types'
  <2>1. pc' \in [Threads -> Pcs]
    BY <1>2 DEF Control, Types, Pcs
  <2>2. result' \in [Threads -> {0, Timeout}]
    BY DEF WaitLocked, Control, Types
  <2>3. state' \in [Events -> BOOLEAN] /\ taken' \in [Waiters -> SUBSET AutoReset]
    <3>1. CASE UNCHANGED <<state, taken>>
      BY <3>1 DEF Control, Types
    <3>2. CASE Obtain(t, E(t))
      BY <1>1, <3>2, ObtainType
    <3> QED
      BY <3>1, <3>2 DEF WaitLocked
  <2> QED
    BY <2>1, <2>2, <2>3 DEF WaitLocked, Control, Types
<1>4. ASSUME NEW u \in Threads, u # t PROVE CallFits(u)' /\ Held(u)'
  <2>1. pc'[u] = pc[u]
    BY <1>2, <1>4 DEF Control, Types
  <2> QED
    BY <2>1, OthersControl DEF Woken, WaitLocked
<1>5. CallFits(t)'
  BY <1>1, <1>2 DEF WaitLocked, Control, Types, CallFits, WaitingPcs, SetPcs, HoldPcs, LoopPcs
<1>6. Held(t)'
  <2>1. pc'[t] \notin HoldPcs /\ pc[t] \notin HoldPcs
    BY <1>1, <1>2 DEF Control, Types, HoldPcs
  <2> QED
    BY <2>1 DEF WaitLocked, Control, Held
<1> QED
  BY <1>3, <1>4, <1>5, <1>6 DEF Control

(* Expire and SpuriousWake.                                                *)
LEMMA ControlWake ==
  ASSUME Control, NEW t \in Threads, Expire(t) \/ SpuriousWake(t)
  PROVE  Control'
<1>1. \/ pc[t] = "asleep" /\ pc' = [pc EXCEPT ![t] = "relock"]
      \/ pc[t] = "parked" /\ pc' = [pc EXCEPT ![t] = "unpark"]
  BY DEF Expire, SpuriousWake, Goto
<1>2. UNCHANGED <<state, eMutex, registered, destroyed, wfmo, calls, call, pos, skipped, taken, sets, seen>>
  BY DEF Expire, SpuriousWake
<1>3. Types'
  <2>1. pc' \in [Threads -> Pcs]
    BY <1>1 DEF Control, Types, Pcs, WaitingPcs
  <2>2. result' \in [Threads -> {0, Timeout}]
    BY DEF Expire, SpuriousWake, Control, Types
  <2> QED
    BY <2>1, <2>2, <1>2 DEF Control, Types
<1>4. ASSUME NEW u \in Threads PROVE CallFits(u)' /\ Held(u)'
  <2>1. Woken(u)
    BY <1>1 DEF Control, Types, Woken
  <2> QED
    BY <2>1, <1>2, OthersControl
<1> QED
  BY <1>3, <1>4 DEF Control

(* Event pos of a wait was found set.                                      *)
LEMMA ControlSatisfied ==
  ASSUME Control, NEW t \in Threads, pc[t] \in LoopPcs, NEW f \in [Waiters -> WaitObject], Satisfied(t, f),
         UNCHANGED <<calls, call>>
  PROVE  /\ wfmo' \in [Waiters -> WaitObject]
         /\ skipped' \in [Threads -> Nat] /\ pos' \in [Threads -> Nat]
         /\ pc' \in [Threads -> Pcs]
         /\ \A u \in Threads \ {t} : pc'[u] = pc[u] /\ pos'[u] = pos[u]
         /\ pc'[t] \in {"check", "register"}
         /\ CallFits(t)'
<1> DEFINE w == W(t)  cnt == Len(call[t].evs)  hits == IF f[w].all THEN 1 ELSE cnt - pos[t] + 1
<1>1. pos[t] \in Nat /\ cnt \in Nat /\ pos[t] >= 1 /\ pos[t] <= cnt /\ pc[t] \in WaitingPcs /\ pc[t] # "idle"
  BY DEF Control, Types, CallFits, Calls, LoopPcs, WaitingPcs
<1>2. w \in Waiters
  BY <1>1, WaitOf
<1>3. hits \in Nat /\ hits >= 1 /\ pos[t] + hits <= cnt + 1
  BY <1>1
<1>4. /\ skipped' = [skipped EXCEPT ![t] = @ + hits]
      /\ wfmo' = [f EXCEPT ![w].status = IF f[w].all THEN @ - 1 ELSE pos[t] - 1]
      /\ pos' = [pos EXCEPT ![t] = @ + hits]
      /\ pc' = [pc EXCEPT ![t] = IF pos[t] + hits > cnt THEN "check" ELSE "register"]
  BY DEF Satisfied, Goto
<1> HIDE DEF hits
<1>5. wfmo' \in [Waiters -> WaitObject]
  <2> DEFINE x == IF f[w].all THEN f[w].status - 1 ELSE pos[t] - 1
  <2>1. f[w] \in WaitObject /\ x \in Int
    BY <1>1, <1>2 DEF WaitObject
  <2>2. [f[w] EXCEPT !.status = x] \in WaitObject
    BY <2>1 DEF WaitObject
  <2> QED
    BY <2>2, <1>2, <1>4
<1>6. skipped' \in [Threads -> Nat] /\ pos' \in [Threads -> Nat] /\ pc' \in [Threads -> Pcs]
  BY <1>1, <1>3, <1>4 DEF Control, Types, Pcs, WaitingPcs
<1>7. /\ \A u \in Threads \ {t} : pc'[u] = pc[u] /\ pos'[u] = pos[u]
      /\ pc'[t] = IF pos[t] + hits > cnt THEN "check" ELSE "register"
      /\ pos'[t] = pos[t] + hits
  BY <1>1, <1>3, <1>4 DEF Control, Types
<1>8. CallFits(t)'
  <2>1. CallFits(t) /\ call[t].op \in {"WaitAny", "WaitAll"}
    BY <1>1 DEF Control, CallFits
  <2>2. pos'[t] \in 1..cnt + 1
    BY <1>1, <1>3, <1>7
  <2>3. pc'[t] = "check" => pos'[t] = cnt + 1
    BY <1>1, <1>3, <1>7
  <2>4. pc'[t] = "register" => pos'[t] <= cnt
    BY <1>1, <1>3, <1>7
  <2>5. pc'[t] \in {"check", "register"}
    BY <1>7
  <2> QED
    BY <2>1, <2>2, <2>3, <2>4, <2>5, <1>1 DEF CallFits, WaitingPcs, SetPcs, HoldPcs, LoopPcs
<1> QED
  BY <1>5, <1>6, <1>7, <1>8

LEMMA ControlRegisterUnlocked ==
  ASSUME Control, NEW t \in Threads, RegisterUnlocked(t)
  PROVE  Control'
<1>1. pc[t] = "register" /\ pc[t] \in LoopPcs /\ pc[t] \notin HoldPcs
  BY DEF RegisterUnlocked, LoopPcs, HoldPcs
<1>2. UNCHANGED <<state, eMutex, registered, destroyed, calls, call, result, taken, sets, seen>>
  BY DEF RegisterUnlocked
<1>3. CASE Satisfied(t, wfmo)
  <2>1. wfmo \in [Waiters -> WaitObject]
    BY DEF Control, Types
  <2>2. /\ wfmo' \in [Waiters -> WaitObject]
        /\ skipped' \in [Threads -> Nat] /\ pos' \in [Threads -> Nat] /\ pc' \in [Threads -> Pcs]
        /\ \A u \in Threads \ {t} : pc'[u] = pc[u] /\ pos'[u] = pos[u]
        /\ pc'[t] \in {"check", "register"}
        /\ CallFits(t)'
    BY <2>1, <1>1, <1>2, <1>3, ControlSatisfied
  <2>3. Types'
    BY <2>2, <1>2 DEF Control, Types
  <2>4. ASSUME NEW u \in Threads, u # t PROVE CallFits(u)' /\ Held(u)'
    BY <2>2, <2>4, <1>2, OthersControl DEF Woken
  <2>5. Held(t)'
    BY <2>2, <1>1, <1>2 DEF Control, Held, HoldPcs
  <2> QED
    BY <2>2, <2>3, <2>4, <2>5 DEF Control
<1>4. CASE pc' = [pc EXCEPT ![t] = "regLock"] /\ UNCHANGED <<wfmo, skipped, pos>>
  <2>1. Types'
    BY <1>2, <1>4 DEF Control, Types, Pcs, WaitingPcs
  <2>2. ASSUME NEW u \in Threads, u # t PROVE CallFits(u)' /\ Held(u)'
    <3>1. pc'[u] = pc[u]
      BY <1>4, <2>2 DEF Control, Types
    <3> QED
      BY <3>1, <1>2, <1>4, OthersControl DEF Woken
  <2>3. pc'[t] = "regLock"
    BY <1>4 DEF Control, Types
  <2>4. CallFits(t)' /\ Held(t)'
    BY <2>3, <1>1, <1>2, <1>4 DEF Control, CallFits, Held, WaitingPcs, SetPcs, HoldPcs, LoopPcs
  <2> QED
    BY <2>1, <2>2, <2>4 DEF Control
<1> QED
  BY <1>3, <1>4 DEF RegisterUnlocked, Goto

(* The cleaned-up registrations, with or without the new one at the end.   *)
LEMMA ControlRegisterLocked ==
  ASSUME Control, NEW t \in Threads, RegisterLocked(t)
  PROVE  Control'
<1> DEFINE e == E(t)
           new == <<W(t), pos[t] - 1>>
<1>1. /\ pc[t] = "regLock" /\ pc[t] \in LoopPcs /\ pc[t] \notin HoldPcs /\ pc[t] # "idle"
      /\ eMutex[e] = Nobody
      /\ UNCHANGED <<eMutex, destroyed, calls, call, result, sets, seen>>
  BY DEF RegisterLocked, LoopPcs, HoldPcs
<1>2. CallFits(t) /\ pos[t] \in Nat /\ pos[t] >= 1 /\ pos[t] <= Len(call[t].evs) /\ Len(call[t].evs) \in Nat
  BY <1>1 DEF Control, Types, CallFits, LoopPcs, Calls
<1>3. e \in Events /\ W(t) \in Waiters /\ new \in Registration
  <2>1. e \in Events /\ W(t) \in Waiters /\ pos[t] - 1 \in Nat
    BY <1>1, <1>2, EventOf, WaitOf
  <2> QED
    BY <2>1 DEF Registration
<1>4. Unexpired(e) \in Seq(Registration) /\ WithoutExpired(e) \in [Waiters -> WaitObject]
  BY <1>3, UnexpiredIs, WithoutExpiredType DEF Control
<1>5. \E s \in Seq(Registration) : registered' = [registered EXCEPT ![e] = s]
  <2>1. Append(Unexpired(e), new) \in Seq(Registration)
    BY <1>3, <1>4
  <2> QED
    BY <2>1, <1>4 DEF RegisterLocked
<1>6. registered' \in [Events -> Seq(Registration)]
      /\ \A x \in Events : x # e => registered'[x] = registered[x]
  BY <1>3, <1>5 DEF Control, Types, Registration
<1>7. ASSUME NEW u \in Threads \ {t}, pc[u] \in HoldPcs PROVE registered'[E(u)] = registered[E(u)]
  <2>1. E(u) \in Events /\ eMutex[E(u)] = u /\ u # Nobody
    BY <1>7, FirstEvent, ScriptAssumption DEF Control, Held, WaitingPcs, HoldPcs
  <2> QED
    BY <2>1, <1>1, <1>6
<1>8. /\ state' \in [Events -> BOOLEAN] /\ taken' \in [Waiters -> SUBSET AutoReset]
      /\ wfmo' \in [Waiters -> WaitObject]
      /\ skipped' \in [Threads -> Nat] /\ pos' \in [Threads -> Nat]
      /\ pc' \in [Threads -> Pcs]
      /\ \A u \in Threads \ {t} : pc'[u] = pc[u] /\ pos'[u] = pos[u]
      /\ pc'[t] \in {"check", "register"}
      /\ CallFits(t)'
  <2>1. CASE Obtain(t, e) /\ Satisfied(t, WithoutExpired(e))
    <3>1. state' \in [Events -> BOOLEAN] /\ taken' \in [Waiters -> SUBSET AutoReset]
      BY <2>1, <1>1, <1>3, ObtainType
    <3>2. UNCHANGED <<calls, call>>
      BY <1>1
    <3> HIDE DEF e
    <3> QED
      BY <3>1, <3>2, <2>1, <1>1, <1>4, ControlSatisfied
  <2>2. CASE /\ wfmo' = WithoutExpired(e)
             /\ pos' = [pos EXCEPT ![t] = @ + 1]
             /\ Goto(t, IF pos[t] = Len(call[t].evs) THEN "check" ELSE "register")
             /\ UNCHANGED <<state, taken, skipped>>
    <3>1. /\ pc'[t] = (IF pos[t] = Len(call[t].evs) THEN "check" ELSE "register")
          /\ pos'[t] = pos[t] + 1
          /\ \A u \in Threads \ {t} : pc'[u] = pc[u] /\ pos'[u] = pos[u]
          /\ pc' \in [Threads -> Pcs] /\ pos' \in [Threads -> Nat]
      BY <2>2, <1>2 DEF Goto, Control, Types, Pcs, WaitingPcs
    <3>2. CallFits(t)'
      <4>1. /\ pos'[t] \in 1..Len(call[t].evs) + 1
            /\ pc'[t] = "check" => pos'[t] = Len(call[t].evs) + 1
            /\ pc'[t] = "register" => pos'[t] <= Len(call[t].evs)
            /\ pc'[t] \in {"check", "register"}
        BY <3>1, <1>2
      <4> QED
        BY <4>1, <1>1, <1>2 DEF CallFits, WaitingPcs, SetPcs, HoldPcs, LoopPcs
    <3> QED
      BY <3>1, <3>2, <2>2, <1>4 DEF Control, Types
  <2> QED
    BY <2>1, <2>2 DEF RegisterLocked
<1>9. Types'
  BY <1>1, <1>6, <1>8 DEF Control, Types, Registration
<1>10. ASSUME NEW u \in Threads, u # t PROVE CallFits(u)' /\ Held(u)'
  BY <1>1, <1>7, <1>8, <1>10, OthersControl DEF Woken
<1>11. Held(t)'
  BY <1>1, <1>8 DEF Control, Held, HoldPcs
<1> QED
  BY <1>8, <1>9, <1>10, <1>11 DEF Control

(* CheckDone and WaitReturn: a wait alone, with its own object.            *)
LEMMA ControlWaitEnds ==
  ASSUME Control, NEW t \in Threads, CheckDone(t) \/ WaitReturn(t)
  PROVE  Control'
<1>1. /\ pc[t] \in {"check", "unpark", "unref"} /\ pc[t] \notin HoldPcs /\ pc[t] # "idle"
      /\ W(t) \in Waiters
      /\ UNCHANGED <<state, eMutex, registered, destroyed, calls, call, pos, skipped, taken, sets, seen>>
  BY WaitOf DEF CheckDone, WaitReturn, HoldPcs
<1>2. /\ CheckDone(t) => pc[t] # "unref" /\ \E l \in {"unref", "parked"} : pc' = [pc EXCEPT ![t] = l]
      /\ WaitReturn(t) => pc[t] = "unref" /\ pc' = [pc EXCEPT ![t] = "idle"]
  BY DEF CheckDone, WaitReturn, Goto
<1>3. wfmo' \in [Waiters -> WaitObject]
  <2>1. CASE WaitReturn(t)
    <3>1. skipped[t] \in Nat
      BY DEF Control, Types
    <3>2. 1 + skipped[t] \in Nat
      BY <3>1
    <3> QED
      BY <2>1, <3>2, <1>1, UnrefType DEF WaitReturn, Control
  <2>2. CASE CheckDone(t)
    <3> DEFINE w == W(t)
    <3>1. wfmo[w] \in WaitObject
      BY <1>1 DEF Control, Types
    <3>2. [wfmo[w] EXCEPT !.owner = Nobody] \in WaitObject
      BY <3>1 DEF WaitObject
    <3>3. [wfmo[w] EXCEPT !.owner = Nobody, !.still = FALSE] \in WaitObject
      BY <3>1 DEF WaitObject
    <3>4. \/ wfmo' = [wfmo EXCEPT ![w] = [wfmo[w] EXCEPT !.owner = Nobody, !.still = FALSE]]
          \/ wfmo' = [wfmo EXCEPT ![w] = [wfmo[w] EXCEPT !.owner = Nobody]]
      BY <2>2, <1>1 DEF CheckDone, Control, Types
    <3> HIDE DEF w
    <3> QED
      BY <3>2, <3>3, <3>4 DEF Control, Types
  <2> QED
    BY <2>1, <2>2
<1>4. Types'
  <2>1. pc' \in [Threads -> Pcs]
    BY <1>2 DEF Control, Types, Pcs, WaitingPcs
  <2>2. result' \in [Threads -> {0, Timeout}]
    BY DEF CheckDone, WaitReturn, Control, Types
  <2> QED
    BY <2>1, <2>2, <1>1, <1>3 DEF Control, Types
<1>5. ASSUME NEW u \in Threads, u # t PROVE CallFits(u)' /\ Held(u)'
  <2>1. pc'[u] = pc[u]
    BY <1>2, <1>5 DEF Control, Types
  <2> QED
    BY <2>1, <1>1, OthersControl DEF Woken
<1>6. /\ pc'[t] \in {"unref", "parked", "idle"} /\ pc'[t] \notin HoldPcs
      /\ pc[t] = "unref" <=> pc'[t] = "idle"
  BY <1>2 DEF Control, Types, HoldPcs
<1>7. CallFits(t)'
  BY <1>1, <1>6 DEF Control, CallFits, WaitingPcs, SetPcs, HoldPcs, LoopPcs
<1>8. Held(t)'
  BY <1>1, <1>6 DEF Control, Held
<1> QED
  BY <1>4, <1>5, <1>7, <1>8 DEF Control

LEMMA ControlSetLock ==
  ASSUME Control, NEW t \in Threads, SetLock(t)
  PROVE  Control'
<1> DEFINE e == E(t)
<1>1. /\ pc[t] = "setLock" /\ pc[t] \notin HoldPcs /\ e \in Events /\ pos[t] = 1 /\ t # Nobody
      /\ eMutex[e] = Nobody
      /\ eMutex' = [eMutex EXCEPT ![e] = t]
      /\ sets' = [sets EXCEPT ![e] = @ + 1]
      /\ pc' = [pc EXCEPT ![t] = "scan"]
      /\ UNCHANGED <<registered, destroyed, wfmo, calls, call, pos, skipped, result, taken>>
  BY FirstEvent, ScriptAssumption DEF SetLock, Goto, HoldPcs, WaitingPcs
<1>2. state' \in [Events -> BOOLEAN]
  <2> DEFINE x == state[e] \/ e \notin AutoReset
  <2>1. x \in BOOLEAN
    BY Zenon
  <2>2. state' = [state EXCEPT ![e] = x] /\ state \in [Events -> BOOLEAN]
    BY DEF SetLock, Control, Types
  <2> HIDE DEF x
  <2> QED
    BY <2>1, <2>2
<1>3. seen' \in [Threads -> SUBSET Events]
  BY <1>1 DEF SetLock, Witness, Control, Types
<1>4. Types'
  <2>1. pc' \in [Threads -> Pcs] /\ eMutex' \in [Events -> Threads \cup {Nobody}]
    BY <1>1 DEF Control, Types, Pcs
  <2>2. sets' \in [Events -> Nat]
    BY <1>1 DEF Control, Types
  <2> QED
    BY <2>1, <2>2, <1>1, <1>2, <1>3 DEF Control, Types
<1>5. ASSUME NEW u \in Threads, u # t PROVE CallFits(u)' /\ Held(u)'
  <2>1. pc'[u] = pc[u] /\ \A x \in Events : eMutex'[x] = u <=> eMutex[x] = u
    BY <1>1, <1>5, ScriptAssumption DEF Control, Types
  <2> QED
    BY <2>1, <1>1, OthersControl DEF Woken
<1>6. pc'[t] = "scan" /\ E(t)' = e
  BY <1>1 DEF Control, Types, E
<1>7. CallFits(t)'
  BY <1>1, <1>6 DEF Control, CallFits, WaitingPcs, SetPcs, HoldPcs, LoopPcs
<1>8. Held(t)'
  <2>1. \A x \in Events : eMutex[x] # t
    BY <1>1 DEF Control, Held
  <2>2. \A x \in Events : eMutex'[x] = t <=> x = e
    BY <2>1, <1>1 DEF Control, Types
  <2> QED
    BY <2>2, <1>6 DEF Held, HoldPcs
<1> QED
  BY <1>4, <1>5, <1>7, <1>8 DEF Control

(* A step of a SetEvent that holds its event's Mutex before and after.     *)
LEMMA ControlHolder ==
  ASSUME Control, NEW t \in Threads, pc[t] \in HoldPcs, Woken(t) \/ pc'[t] \in HoldPcs,
         \A u \in Threads \ {t} : Woken(u),
         UNCHANGED <<eMutex, calls, call, pos>>,
         \A e \in Events \ {E(t)} : registered'[e] = registered[e],
         pc'[t] \in HoldPcs \ {"scan"} => registered'[E(t)] # <<>>
  PROVE  \A u \in Threads : CallFits(u)' /\ Held(u)'
<1>1. E(t) \in Events /\ eMutex[E(t)] = t /\ E(t)' = E(t) /\ pos[t] = 1
  BY FirstEvent DEF Control, Held, HoldPcs, WaitingPcs, E
<1>2. ASSUME NEW u \in Threads \ {t} PROVE CallFits(u)' /\ Held(u)'
  <2>1. ASSUME pc[u] \in HoldPcs PROVE registered'[E(u)] = registered[E(u)]
    <3>1. E(u) \in Events /\ eMutex[E(u)] = u
      BY <1>2, <2>1, FirstEvent DEF Control, Held, HoldPcs, WaitingPcs
    <3> QED
      BY <3>1, <1>1, <1>2
  <2> QED
    BY <2>1, <1>2, OthersControl
<1>3. pc'[t] \in HoldPcs
  BY DEF Woken, HoldPcs
<1>4. CallFits(t)'
  BY <1>1, <1>3 DEF Control, CallFits, HoldPcs, SetPcs, WaitingPcs, LoopPcs
<1>5. Held(t)'
  BY <1>1, <1>3 DEF Control, Held
<1> QED
  BY <1>2, <1>4, <1>5

(* ... and one that gives it back.                                         *)
LEMMA ControlGivesBack ==
  ASSUME Control, NEW t \in Threads, pc[t] \in HoldPcs,
         eMutex' = [eMutex EXCEPT ![E(t)] = Nobody],
         NEW l, pc' = [pc EXCEPT ![t] = l],
         l = "notify" \/ l = Finish(t),
         UNCHANGED <<calls, call, pos>>,
         \A e \in Events \ {E(t)} : registered'[e] = registered[e]
  PROVE  /\ \A u \in Threads : CallFits(u)' /\ Held(u)'
         /\ pc' \in [Threads -> Pcs] /\ eMutex' \in [Events -> Threads \cup {Nobody}]
<1>1. E(t) \in Events /\ eMutex[E(t)] = t /\ E(t)' = E(t) /\ pos[t] = 1 /\ t # Nobody
  BY FirstEvent, ScriptAssumption DEF Control, Held, HoldPcs, WaitingPcs, E
<1>2. \A e \in Events : eMutex[e] = t => e = E(t)
  BY DEF Control, Held
<1>3. \A e \in Events : eMutex'[e] # t /\ (e # E(t) => eMutex'[e] = eMutex[e])
  BY <1>1, <1>2 DEF Control, Types
<1>4. ASSUME NEW u \in Threads \ {t} PROVE CallFits(u)' /\ Held(u)'
  <2>1. ASSUME pc[u] \in HoldPcs PROVE registered'[E(u)] = registered[E(u)]
    <3>1. E(u) \in Events /\ eMutex[E(u)] = u
      BY <1>4, <2>1, FirstEvent DEF Control, Held, HoldPcs, WaitingPcs
    <3> QED
      BY <3>1, <1>1, <1>4
  <2>2. \A e \in Events : eMutex'[e] = u <=> eMutex[e] = u
    BY <1>1, <1>4, ScriptAssumption DEF Control, Types
  <2>3. pc'[u] = pc[u]
    BY <1>4 DEF Control, Types
  <2> QED
    BY <2>1, <2>2, <2>3, <1>4, OthersControl DEF Woken
<1>5. pc'[t] = l /\ l \in {"notify", "reset", "idle"} /\ (l = "reset" => call[t].op = "PulseEvent")
  BY DEF Finish, Control, Types
<1>6. CallFits(t)'
  BY <1>1, <1>5 DEF Control, CallFits, HoldPcs, SetPcs, WaitingPcs, LoopPcs
<1>7. Held(t)'
  BY <1>3, <1>5 DEF Held, HoldPcs
<1>8. pc' \in [Threads -> Pcs] /\ eMutex' \in [Events -> Threads \cup {Nobody}]
  BY <1>1, <1>5 DEF Control, Types, Pcs
<1> QED
  BY <1>4, <1>6, <1>7, <1>8

(* The wait at the head of the registrations.                              *)
LEMMA HeadWait ==
  ASSUME Control, NEW e \in Events, registered[e] # <<>>
  PROVE  /\ registered[e] \in Seq(Registration) /\ 1 \in DOMAIN registered[e]
         /\ Head(registered[e]) = registered[e][1] /\ Head1(e) = registered[e][1][1]
         /\ Head1(e) \in Waiters /\ Head(registered[e])[2] \in Nat
         /\ Tail(registered[e]) \in Seq(Registration)
<1>1. registered[e] \in Seq(Registration) /\ registered[e] # <<>>
  BY DEF Control, Types, Registration
<1>2. Head(registered[e]) \in Registration /\ 1 \in DOMAIN registered[e] /\ Head(registered[e]) = registered[e][1]
  BY <1>1
<1>3. Tail(registered[e]) \in Seq(Registration)
  BY <1>1
<1> QED
  BY <1>1, <1>2, <1>3 DEF Head1, Registration

LEMMA ControlSetScan ==
  ASSUME Control, NEW t \in Threads, SetScan(t)
  PROVE  Control'
<1> DEFINE e == E(t)
<1>1. /\ pc[t] = "scan" /\ pc[t] \in HoldPcs /\ e \in Events
      /\ UNCHANGED <<destroyed, calls, call, pos, skipped, result, taken, sets>>
  BY FirstEvent DEF SetScan, HoldPcs, WaitingPcs
<1>2. CASE /\ registered[e] = <<>>
           /\ state' = [state EXCEPT ![e] = @ \/ e \in AutoReset]
           /\ eMutex' = [eMutex EXCEPT ![e] = Nobody]
           /\ Goto(t, "notify") /\ Witness(e)
           /\ UNCHANGED <<registered, wfmo>>
  <2>1. state' \in [Events -> BOOLEAN]
    <3> DEFINE x == state[e] \/ e \in AutoReset
    <3>1. x \in BOOLEAN
      BY Zenon
    <3>2. state' = [state EXCEPT ![e] = x] /\ state \in [Events -> BOOLEAN]
      BY <1>2 DEF Control, Types
    <3> HIDE DEF x
    <3> QED
      BY <3>1, <3>2
  <2>2. seen' \in [Threads -> SUBSET Events]
    BY <1>1, <1>2 DEF Witness, Control, Types
  <2>3. /\ \A u \in Threads : CallFits(u)' /\ Held(u)'
        /\ pc' \in [Threads -> Pcs] /\ eMutex' \in [Events -> Threads \cup {Nobody}]
    BY <1>1, <1>2, ControlGivesBack DEF Goto
  <2> QED
    BY <2>1, <2>2, <2>3, <1>1, <1>2 DEF Control, Types
<1>3. CASE /\ registered[e] # <<>>
           /\ wfmo' = Unref(wfmo, Head1(e), 1)
           /\ registered' = [registered EXCEPT ![e] = Tail(@)]
           /\ UNCHANGED <<state, eMutex, pc, seen>>
  <2>1. Tail(registered[e]) \in Seq(Registration) /\ Head1(e) \in Waiters
    BY <1>1, <1>3, HeadWait
  <2>2. wfmo' \in [Waiters -> WaitObject]
    BY <2>1, <1>3, UnrefType DEF Control
  <2>3. registered' \in [Events -> Seq(Registration)] /\ \A x \in Events \ {e} : registered'[x] = registered[x]
    BY <2>1, <1>3 DEF Control, Types, Registration
  <2>4. \A u \in Threads : CallFits(u)' /\ Held(u)'
    BY <2>3, <1>1, <1>3, ControlHolder DEF Woken
  <2> QED
    BY <2>2, <2>3, <2>4, <1>1, <1>3 DEF Control, Types, Registration
<1>4. CASE registered[e] # <<>> /\ Goto(t, "fire") /\ UNCHANGED <<state, eMutex, registered, wfmo, seen>>
  <2>1. /\ pc' \in [Threads -> Pcs] /\ pc'[t] = "fire" /\ \A u \in Threads \ {t} : pc'[u] = pc[u]
    BY <1>4 DEF Goto, Control, Types, Pcs
  <2>2. \A u \in Threads : CallFits(u)' /\ Held(u)'
    BY <2>1, <1>1, <1>4, ControlHolder DEF Woken, HoldPcs
  <2> QED
    BY <2>1, <2>2, <1>1, <1>4 DEF Control, Types
<1> QED
  BY <1>2, <1>3, <1>4 DEF SetScan

LEMMA ControlSetFire ==
  ASSUME Control, NEW t \in Threads, SetFire(t)
  PROVE  Control'
<1> DEFINE e == E(t)  w == Head1(e)  index == Head(registered[e])[2]
<1>1. /\ pc[t] = "fire" /\ pc[t] \in HoldPcs /\ e \in Events /\ registered[e] # <<>>
      /\ UNCHANGED <<state, eMutex, registered, destroyed, calls, call, pos, skipped, result, sets, seen>>
  BY FirstEvent DEF SetFire, HoldPcs, WaitingPcs, Control, Held
<1>2. w \in Waiters /\ index \in Nat /\ wfmo[w] \in WaitObject
  BY <1>1, HeadWait DEF Control, Types
<1>3. wfmo' \in [Waiters -> WaitObject]
  <2> DEFINE o == wfmo[w]
  <2>0. o \in WaitObject /\ index \in Int
    BY <1>2
  <2> HIDE DEF o, index
  <2>1. [o EXCEPT !.status = @ - 1] \in WaitObject
    BY <2>0 DEF WaitObject
  <2>2. [o EXCEPT !.status = index, !.still = FALSE] \in WaitObject
    BY <2>0 DEF WaitObject
  <2> USE DEF o, index
  <2>3. \/ wfmo' = wfmo
        \/ wfmo' = [wfmo EXCEPT ![w] = [wfmo[w] EXCEPT !.status = @ - 1]]
        \/ wfmo' = [wfmo EXCEPT ![w] = [wfmo[w] EXCEPT !.status = index, !.still = FALSE]]
    BY DEF SetFire
  <2> HIDE DEF w, index
  <2> QED
    BY <2>1, <2>2, <2>3 DEF Control, Types
<1>4. taken' \in [Waiters -> SUBSET AutoReset]
  <2>1. CASE Consume(w, e)
    BY <2>1, <1>1, <1>2, ConsumeType
  <2>2. CASE UNCHANGED taken
    BY <2>2 DEF Control, Types
  <2> QED
    BY <2>1, <2>2 DEF SetFire
<1>5. \E l \in {"signal", "drop"} : pc' = [pc EXCEPT ![t] = l]
  BY DEF SetFire, Goto
<1>6. pc' \in [Threads -> Pcs] /\ pc'[t] \in {"signal", "drop"} /\ \A u \in Threads \ {t} : pc'[u] = pc[u]
  BY <1>5 DEF Control, Types, Pcs
<1>7. \A u \in Threads : CallFits(u)' /\ Held(u)'
  BY <1>1, <1>6, ControlHolder DEF Woken, HoldPcs
<1> QED
  BY <1>1, <1>3, <1>4, <1>6, <1>7 DEF Control, Types

LEMMA ControlSetSignal ==
  ASSUME Control, NEW t \in Threads, SetSignal(t)
  PROVE  Control' /\ pc'[t] = "fired" /\ \A u \in Threads \ {t} : Woken(u)
<1> DEFINE w == Head1(E(t))  v == w[1]
<1>1. /\ pc[t] = "signal" /\ pc[t] \in HoldPcs /\ E(t) \in Events /\ registered[E(t)] # <<>>
      /\ UNCHANGED <<state, eMutex, registered, destroyed, wfmo, calls, call, pos, skipped, result, taken, sets, seen>>
      /\ pc' = [pc EXCEPT ![t] = "fired",
                          ![v] = IF W(v) = w /\ @ = "parked" THEN "unpark" ELSE @]
  BY FirstEvent DEF SetSignal, HoldPcs, WaitingPcs, Control, Held
<1>2. v \in Threads
  BY <1>1, HeadWait, WaitersAre
<1> HIDE DEF v, w
<1>3. CASE v = t
  <2>1. pc' = [pc EXCEPT ![t] = "fired"]
    BY <1>1, <1>3 DEF Control, Types
  <2> QED
    BY <2>1, <1>1, ControlHolder DEF Control, Types, Woken, HoldPcs, Pcs
<1>4. CASE v # t
  <2> DEFINE x == IF W(v) = w /\ pc[v] = "parked" THEN "unpark" ELSE pc[v]
  <2>1. pc' = [[pc EXCEPT ![t] = "fired"] EXCEPT ![v] = x]
    BY <1>1, <1>2, <1>4 DEF Control, Types
  <2>2. x \in Pcs /\ (x = pc[v] \/ (pc[v] = "parked" /\ x = "unpark"))
    <3>1. pc[v] \in Pcs /\ "unpark" \in Pcs
      BY <1>2 DEF Control, Types, Pcs, WaitingPcs
    <3> QED
      BY <3>1
  <2> HIDE DEF x
  <2>3. /\ pc' \in [Threads -> Pcs] /\ pc'[t] = "fired" /\ pc'[v] = x
        /\ \A u \in Threads \ {t, v} : pc'[u] = pc[u]
    BY <2>1, <2>2, <1>2, <1>4 DEF Control, Types, Pcs
  <2>4. \A u \in Threads \ {t} : Woken(u)
    BY <2>2, <2>3 DEF Woken
  <2>5. \A u \in Threads : CallFits(u)' /\ Held(u)'
    BY <2>3, <2>4, <1>1, ControlHolder DEF HoldPcs
  <2> QED
    BY <2>3, <2>4, <2>5, <1>1 DEF Control, Types
<1> QED
  BY <1>3, <1>4

LEMMA ControlSetUnref ==
  ASSUME Control, NEW t \in Threads, SetUnref(t)
  PROVE  Control'
<1> DEFINE e == E(t)
<1>1. /\ pc[t] \in {"fired", "drop"} /\ pc[t] \in HoldPcs /\ e \in Events /\ registered[e] # <<>>
      /\ wfmo' = Unref(wfmo, Head1(e), 1)
      /\ registered' = [registered EXCEPT ![e] = Tail(@)]
      /\ UNCHANGED <<state, destroyed, calls, call, pos, skipped, result, taken, sets, seen>>
  BY FirstEvent DEF SetUnref, HoldPcs, WaitingPcs, Control, Held
<1>2. Tail(registered[e]) \in Seq(Registration) /\ Head1(e) \in Waiters
  BY <1>1, HeadWait
<1>3. wfmo' \in [Waiters -> WaitObject]
  BY <1>1, <1>2, UnrefType DEF Control
<1>4. registered' \in [Events -> Seq(Registration)] /\ \A x \in Events \ {e} : registered'[x] = registered[x]
  BY <1>1, <1>2 DEF Control, Types, Registration
<1>5. /\ \A u \in Threads : CallFits(u)' /\ Held(u)'
      /\ pc' \in [Threads -> Pcs] /\ eMutex' \in [Events -> Threads \cup {Nobody}]
  <2>1. CASE eMutex' = [eMutex EXCEPT ![e] = Nobody] /\ Goto(t, Finish(t))
    <3> HIDE DEF e
    <3>1. pc' = [pc EXCEPT ![t] = Finish(t)]
      BY <2>1 DEF Goto
    <3> QED
      BY <2>1, <3>1, <1>1, <1>4, ControlGivesBack DEF e
  <2>2. CASE Goto(t, "scan") /\ UNCHANGED eMutex
    <3>1. pc' \in [Threads -> Pcs] /\ pc'[t] = "scan" /\ \A u \in Threads \ {t} : pc'[u] = pc[u]
      BY <2>2 DEF Goto, Control, Types, Pcs
    <3>2. \A u \in Threads : CallFits(u)' /\ Held(u)'
      BY <3>1, <2>2, <1>1, <1>4, ControlHolder DEF HoldPcs, Woken
    <3> QED
      BY <3>1, <3>2, <2>2 DEF Control, Types
  <2> QED
    BY <2>1, <2>2 DEF SetUnref
<1> QED
  BY <1>1, <1>3, <1>4, <1>5 DEF Control, Types, Registration

LEMMA ControlSetNotify ==
  ASSUME Control, NEW t \in Threads, SetNotify(t)
  PROVE  /\ Control' /\ pc[t] = "notify" /\ pc'[t] = Finish(t) /\ \A u \in Threads \ {t} : Woken(u)
         /\ UNCHANGED <<state, eMutex, registered, destroyed, wfmo, calls, call, pos, skipped, result, taken, sets, seen>>
<1>1. /\ pc[t] = "notify" /\ pos[t] = 1
      /\ UNCHANGED <<state, eMutex, registered, destroyed, wfmo, calls, call, pos, skipped, result, taken, sets, seen>>
  BY FirstEvent DEF SetNotify, WaitingPcs
<1>2. PICK woken \in SUBSET Sleepers(E(t)) :
        pc' = [u \in Threads |-> IF u \in woken THEN "relock" ELSE IF u = t THEN Finish(t) ELSE pc[u]]
  BY DEF SetNotify
<1>3. \A u \in woken : u \in Threads /\ pc[u] = "asleep"
  BY DEF Sleepers
<1>4. Finish(t) \in {"idle", "reset"} /\ (Finish(t) = "reset" => call[t].op = "PulseEvent")
  BY DEF Finish
<1>5. pc'[t] = Finish(t) /\ \A u \in Threads \ {t} : Woken(u)
  BY <1>1, <1>2, <1>3 DEF Woken
<1>6. pc' \in [Threads -> Pcs]
  BY <1>2, <1>4 DEF Control, Types, Pcs
<1>7. ASSUME NEW u \in Threads \ {t} PROVE CallFits(u)' /\ Held(u)'
  BY <1>1, <1>5, OthersControl
<1>8. CallFits(t)' /\ Held(t)'
  BY <1>1, <1>4, <1>5 DEF Control, CallFits, Held, HoldPcs, SetPcs, WaitingPcs, LoopPcs
<1> QED
  BY <1>1, <1>5, <1>6, <1>7, <1>8 DEF Control, Types

LEMMA ControlReset ==
  ASSUME Control, NEW t \in Threads, Reset(t)
  PROVE  Control'
<1>1. /\ pc[t] = "reset" /\ pos[t] = 1 /\ pc' = [pc EXCEPT ![t] = "idle"]
      /\ UNCHANGED <<eMutex, registered, destroyed, wfmo, calls, call, pos, skipped, result, taken, sets, seen>>
  BY FirstEvent DEF Reset, Goto, WaitingPcs
<1>2. Types'
  <2>1. pc' \in [Threads -> Pcs]
    BY <1>1 DEF Control, Types, Pcs
  <2>2. state' \in [Events -> BOOLEAN]
    BY DEF Reset, Control, Types
  <2> QED
    BY <2>1, <2>2, <1>1 DEF Control, Types
<1>3. ASSUME NEW u \in Threads, u # t PROVE CallFits(u)' /\ Held(u)'
  <2>1. pc'[u] = pc[u]
    BY <1>1, <1>3 DEF Control, Types
  <2> QED
    BY <2>1, <1>1, OthersControl DEF Woken
<1>4. pc'[t] = "idle"
  BY <1>1 DEF Control, Types
<1>5. CallFits(t)' /\ Held(t)'
  BY <1>1, <1>4 DEF Control, CallFits, Held, HoldPcs, SetPcs, WaitingPcs, LoopPcs
<1> QED
  BY <1>2, <1>3, <1>5 DEF Control

LEMMA ControlDestroy ==
  ASSUME Control, NEW t \in Threads, Destroy(t)
  PROVE  Control'
<1> DEFINE e == E(t)
<1>1. /\ pc[t] = "destroy" /\ pos[t] = 1 /\ e \in Events /\ pc' = [pc EXCEPT ![t] = "idle"]
      /\ eMutex[e] = Nobody
      /\ wfmo' = WithoutExpired(e)
      /\ registered' = [registered EXCEPT ![e] = <<>>]
      /\ destroyed' = destroyed \cup {e}
      /\ UNCHANGED <<state, eMutex, calls, call, pos, skipped, result, taken, sets, seen>>
  BY FirstEvent DEF Destroy, Goto, WaitingPcs
<1>2. wfmo' \in [Waiters -> WaitObject]
  BY <1>1, WithoutExpiredType DEF Control
<1>3. pc' \in [Threads -> Pcs] /\ pc'[t] = "idle" /\ \A u \in Threads \ {t} : pc'[u] = pc[u]
  BY <1>1 DEF Control, Types, Pcs
<1>4. Types'
  BY <1>1, <1>2, <1>3 DEF Control, Types
<1>5. ASSUME NEW u \in Threads, u # t PROVE CallFits(u)' /\ Held(u)'
  <2>1. ASSUME pc[u] \in HoldPcs PROVE registered'[E(u)] = registered[E(u)]
    <3>1. E(u) \in Events /\ eMutex[E(u)] = u /\ u # Nobody
      BY <2>1, FirstEvent, ScriptAssumption DEF Control, Held, WaitingPcs, HoldPcs
    <3> QED
      BY <3>1, <1>1 DEF Control, Types
  <2> QED
    BY <2>1, <1>1, <1>3, <1>5, OthersControl DEF Woken
<1>6. CallFits(t)' /\ Held(t)'
  BY <1>1, <1>3 DEF Control, CallFits, Held, HoldPcs, SetPcs, WaitingPcs, LoopPcs
<1> QED
  BY <1>4, <1>5, <1>6 DEF Control

LEMMA ControlInit == Init => Control
<1> SUFFICES ASSUME Init PROVE Control
  OBVIOUS
<1>1. NoCall \in Calls
  BY DEF NoCall, Calls, Ops, WaitOps, Limits
<1>2. Freed \in WaitObject
  BY DEF Freed, WaitObject
<1>3. Types
  <2>1. wfmo \in [Waiters -> WaitObject] /\ call \in [Threads -> Calls]
    BY <1>1, <1>2 DEF Init
  <2>2. /\ state \in [Events -> BOOLEAN] /\ eMutex \in [Events -> Threads \cup {Nobody}]
        /\ registered \in [Events -> Seq(Waiters \X Nat)] /\ destroyed \subseteq Events
    BY DEF Init
  <2>3. /\ pc \in [Threads -> Pcs] /\ calls \in [Threads -> Nat] /\ pos \in [Threads -> Nat]
        /\ skipped \in [Threads -> Nat] /\ result \in [Threads -> {0, Timeout}]
        /\ taken \in [Waiters -> SUBSET AutoReset] /\ sets \in [Events -> Nat]
        /\ seen \in [Threads -> SUBSET Events]
    BY DEF Init, Pcs, Timeout
  <2> QED
    BY <2>1, <2>2, <2>3 DEF Types
<1>4. ASSUME NEW t \in Threads PROVE CallFits(t) /\ Held(t)
  <2>1. pc[t] = "idle" /\ calls[t] = 0 /\ pos[t] = 1 /\ call[t].evs = <<>> /\ \A e \in Events : eMutex[e] = Nobody
    BY DEF Init, NoCall
  <2>2. Len(Script[t]) \in Nat
    BY ScriptAssumption
  <2>3. CallFits(t)
    BY <2>1, <2>2 DEF CallFits, WaitingPcs, SetPcs, HoldPcs, LoopPcs
  <2> QED
    BY <2>1, <2>3, ScriptAssumption DEF Held, HoldPcs
<1> QED
  BY <1>3, <1>4 DEF Control

LEMMA ControlStep == Control /\ [Next]_vars => Control'
<1> SUFFICES ASSUME Control, [Next]_vars PROVE Control'
  OBVIOUS
<1>1. CASE UNCHANGED vars
  BY <1>1 DEF vars, Control, Types, CallFits, Held, E
<1>2. ASSUME NEW t \in Threads, Step(t) \/ Expire(t) \/ SpuriousWake(t) PROVE Control'
  BY <1>2, ControlBegin, ControlWaitFastPath, ControlWaitLocked, ControlWake, ControlRegisterUnlocked,
     ControlRegisterLocked, ControlWaitEnds, ControlSetLock, ControlSetScan, ControlSetFire,
     ControlSetSignal, ControlSetUnref, ControlSetNotify, ControlReset, ControlDestroy DEF Step
<1> QED
  BY <1>1, <1>2 DEF Next

-----------------------------------------------------------------------------
(* Reference counts                                                        *)

(* What the wait's own call gives back on return.                          *)
Own(w) == IF InWait(w) THEN 1 + skipped[w[1]] + Unvisited(w) ELSE 0
RefsOf(w) == wfmo[w].refs = Cardinality(RegisteredAt(w)) + Own(w)

LEMMA RefCountOf == RefCountExact <=> \A w \in Waiters : RefsOf(w)
  BY DEF RefCountExact, RefsOf, Own

LEMMA RegisteredFinite ==
  ASSUME NEW w
  PROVE  /\ IsFiniteSet(RegisteredAt(w)) /\ Cardinality(RegisteredAt(w)) \in Nat
         /\ RegisteredAt(w) # {} => Cardinality(RegisteredAt(w)) >= 1
<1>1. RegisteredAt(w) \subseteq Events
  BY DEF RegisteredAt
<1>2. IsFiniteSet(RegisteredAt(w))
  BY <1>1, EventsAssumption, FS_Subset
<1>3. Cardinality(RegisteredAt(w)) \in Nat
  BY <1>2, FS_CardinalityType
<1>4. RegisteredAt(w) # {} => Cardinality(RegisteredAt(w)) # 0
  BY <1>2, FS_EmptySet
<1> QED
  BY <1>2, <1>3, <1>4

LEMMA RegisteredOn ==
  ASSUME NEW w, NEW e \in Events
  PROVE  e \in RegisteredAt(w) <=> On(registered[e], w)
  BY DEF RegisteredAt, On

LEMMA RegisteredChange ==
  ASSUME Types, NEW e \in Events, NEW s, registered' = [registered EXCEPT ![e] = s], NEW w
  PROVE  /\ (On(s, w) <=> On(registered[e], w)) => RegisteredAt(w)' = RegisteredAt(w)
         /\ On(registered[e], w) /\ ~On(s, w) =>
              Cardinality(RegisteredAt(w))' = Cardinality(RegisteredAt(w)) - 1
         /\ ~On(registered[e], w) /\ On(s, w) =>
              Cardinality(RegisteredAt(w))' = Cardinality(RegisteredAt(w)) + 1
<1>1. registered'[e] = s /\ \A x \in Events \ {e} : registered'[x] = registered[x]
  BY DEF Types
<1>2. \A x \in Events : x \in RegisteredAt(w)' <=> IF x = e THEN On(s, w) ELSE x \in RegisteredAt(w)
  BY <1>1 DEF RegisteredAt, On
<1>3. RegisteredAt(w) \subseteq Events /\ RegisteredAt(w)' \subseteq Events
  BY DEF RegisteredAt
<1>4. e \in RegisteredAt(w) <=> On(registered[e], w)
  BY RegisteredOn
<1>5. IsFiniteSet(RegisteredAt(w))
  BY RegisteredFinite
<1>6. (On(s, w) <=> On(registered[e], w)) => RegisteredAt(w)' = RegisteredAt(w)
  BY <1>2, <1>3, <1>4
<1>7. ASSUME On(registered[e], w), ~On(s, w)
      PROVE  Cardinality(RegisteredAt(w))' = Cardinality(RegisteredAt(w)) - 1
  <2>1. RegisteredAt(w)' = RegisteredAt(w) \ {e} /\ e \in RegisteredAt(w)
    BY <1>2, <1>3, <1>4, <1>7
  <2>2. Cardinality(RegisteredAt(w) \ {e}) = Cardinality(RegisteredAt(w)) - 1
    BY <2>1, <1>5, FS_RemoveElement
  <2> QED
    BY <2>1, <2>2
<1>8. ASSUME ~On(registered[e], w), On(s, w)
      PROVE  Cardinality(RegisteredAt(w))' = Cardinality(RegisteredAt(w)) + 1
  <2>1. RegisteredAt(w)' = RegisteredAt(w) \cup {e} /\ e \notin RegisteredAt(w)
    BY <1>2, <1>3, <1>4, <1>8
  <2>2. Cardinality(RegisteredAt(w) \cup {e}) = Cardinality(RegisteredAt(w)) + 1
    BY <2>1, <1>5, FS_AddElement
  <2> QED
    BY <2>1, <2>2
<1> QED
  BY <1>6, <1>7, <1>8

(* A count given back is taken off, whether or not it was the last.        *)
LEMMA UnrefIs ==
  ASSUME NEW f \in [Waiters -> WaitObject], NEW w \in Waiters, NEW cnt \in Nat, NEW v \in Waiters
  PROVE  /\ v # w => Unref(f, w, cnt)[v] = f[v]
         /\ Unref(f, w, cnt)[w].refs = f[w].refs - cnt
         /\ f[w].refs # cnt => /\ Unref(f, w, cnt)[w].still = f[w].still
                               /\ Unref(f, w, cnt)[w].all = f[w].all
                               /\ Unref(f, w, cnt)[w].owner = f[w].owner
                               /\ Unref(f, w, cnt)[w].status = f[w].status
         /\ f[w].refs = cnt => Unref(f, w, cnt)[w] = Freed
<1>1. f[w] \in WaitObject
  OBVIOUS
<1>2. CASE f[w].refs = cnt
  <2>1. Unref(f, w, cnt) = [f EXCEPT ![w] = Freed]
    BY <1>2 DEF Unref
  <2> QED
    BY <2>1, <1>1, <1>2 DEF Freed, WaitObject
<1>3. CASE f[w].refs # cnt
  <2>1. Unref(f, w, cnt) = [f EXCEPT ![w].refs = @ - cnt]
    BY <1>3 DEF Unref
  <2> QED
    BY <2>1, <1>1, <1>3 DEF WaitObject
<1> QED
  BY <1>2, <1>3

LEMMA WithoutExpiredIs ==
  ASSUME Types, NEW e \in Events, NEW w \in Waiters
  PROVE  /\ wfmo[w].still \/ ~On(registered[e], w) => WithoutExpired(e)[w] = wfmo[w]
         /\ ~wfmo[w].still /\ On(registered[e], w) => WithoutExpired(e)[w] = Unref(wfmo, w, 1)[w]
  BY DEF WithoutExpired, On

LEMMA TailOn ==
  ASSUME NEW s \in Seq(Registration), s # <<>>, Distinct(s)
  PROVE  /\ Distinct(Tail(s)) /\ On(s, s[1][1]) /\ ~On(Tail(s), s[1][1])
         /\ \A v : v # s[1][1] => (On(Tail(s), v) <=> On(s, v))
         /\ \A i \in DOMAIN Tail(s) : i + 1 \in DOMAIN s /\ Tail(s)[i] = s[i + 1]
<1>1. /\ DOMAIN s = 1..Len(s) /\ Len(s) \in Nat /\ Len(s) >= 1 /\ 1 \in DOMAIN s
      /\ DOMAIN Tail(s) = 1..Len(s) - 1
      /\ \A i \in DOMAIN Tail(s) : i + 1 \in DOMAIN s /\ i + 1 # 1 /\ Tail(s)[i] = s[i + 1]
  OBVIOUS
<1>2. \A j \in DOMAIN s : j # 1 => j - 1 \in DOMAIN Tail(s) /\ Tail(s)[j - 1] = s[j]
  BY <1>1
<1>3. Distinct(Tail(s))
  <2> SUFFICES ASSUME NEW i \in DOMAIN Tail(s), NEW j \in DOMAIN Tail(s), Tail(s)[i][1] = Tail(s)[j][1]
               PROVE  i = j
    BY DEF Distinct
  <2>1. i + 1 = j + 1
    BY <1>1 DEF Distinct
  <2> QED
    BY <2>1, <1>1
<1>4. On(s, s[1][1]) /\ ~On(Tail(s), s[1][1])
  BY <1>1 DEF On, Distinct
<1>5. ASSUME NEW v, v # s[1][1] PROVE On(Tail(s), v) <=> On(s, v)
  <2>1. ASSUME On(Tail(s), v) PROVE On(s, v)
    BY <2>1, <1>1 DEF On
  <2>2. ASSUME On(s, v) PROVE On(Tail(s), v)
    <3>1. PICK j \in DOMAIN s : s[j][1] = v
      BY <2>2 DEF On
    <3>2. j # 1
      BY <3>1, <1>5
    <3> QED
      BY <3>1, <3>2, <1>2 DEF On
  <2> QED
    BY <2>1, <2>2
<1> QED
  BY <1>1, <1>3, <1>4, <1>5

LEMMA AppendOn ==
  ASSUME NEW s \in Seq(Registration), NEW r \in Registration
  PROVE  /\ \A v : On(Append(s, r), v) <=> On(s, v) \/ v = r[1]
         /\ Distinct(s) /\ ~On(s, r[1]) => Distinct(Append(s, r))
         /\ \A i \in DOMAIN Append(s, r) : (i \in DOMAIN s /\ Append(s, r)[i] = s[i]) \/ Append(s, r)[i] = r
<1> DEFINE a == Append(s, r)
<1>1. /\ DOMAIN s = 1..Len(s) /\ Len(s) \in Nat /\ DOMAIN a = 1..Len(s) + 1
      /\ a[Len(s) + 1] = r /\ \A i \in 1..Len(s) : a[i] = s[i]
  OBVIOUS
<1> HIDE DEF a
<1>2. \A i \in DOMAIN a : (i \in DOMAIN s /\ a[i] = s[i]) \/ (i = Len(s) + 1 /\ a[i] = r)
  BY <1>1
<1>3. \A i \in DOMAIN s : i \in DOMAIN a /\ a[i] = s[i]
  BY <1>1
<1>4. Len(s) + 1 \in DOMAIN a /\ a[Len(s) + 1] = r
  BY <1>1
<1>5. \A v : On(a, v) <=> On(s, v) \/ v = r[1]
  BY <1>2, <1>3, <1>4 DEF On
<1>6. ASSUME Distinct(s), ~On(s, r[1]) PROVE Distinct(a)
  BY <1>2, <1>3, <1>6 DEF Distinct, On
<1> QED
  BY <1>2, <1>5, <1>6 DEF a

LEMMA UnexpiredOn ==
  ASSUME Types, NEW e \in Events, NEW w
  PROVE  On(Unexpired(e), w) <=> On(registered[e], w) /\ wfmo[w].still
  BY UnexpiredIs DEF On

(* A step that is none of this thread's wait.                              *)
SameWait(u) == \/ pc'[u] = pc[u]
               \/ pc[u] \notin WaitingPcs /\ pc'[u] \notin WaitingPcs
               \/ pc[u] = "parked" /\ pc'[u] = "unpark"
SameCall(u) == /\ SameWait(u) /\ calls'[u] = calls[u] /\ call'[u] = call[u]
               /\ pos'[u] = pos[u] /\ skipped'[u] = skipped[u]
Apart(w) == SameCall(w[1]) \/ (~InWait(w) /\ ~InWait(w)')

LEMMA WokenSame ==
  ASSUME NEW u, Woken(u)
  PROVE  SameWait(u)
  BY DEF Woken, SameWait, WaitingPcs

LEMMA OwnSame ==
  ASSUME NEW w \in Waiters, Apart(w)
  PROVE  /\ InWait(w)' <=> InWait(w)
         /\ Own(w)' = Own(w)
         /\ InWait(w) => /\ pc'[w[1]] \in LoopPcs \cup {"check"} <=> pc[w[1]] \in LoopPcs \cup {"check"}
                         /\ pc'[w[1]] = "unref" <=> pc[w[1]] = "unref"
<1>1. CASE SameCall(w[1])
  <2>1. InWait(w)' <=> InWait(w)
    BY <1>1 DEF SameCall, SameWait, InWait, WaitingPcs
  <2>2. Unvisited(w)' = Unvisited(w)
    BY <1>1, <2>1 DEF SameCall, Unvisited
  <2>3. Own(w)' = Own(w)
    BY <1>1, <2>1, <2>2 DEF SameCall, Own
  <2>4. pc'[w[1]] \in LoopPcs \cup {"check"} <=> pc[w[1]] \in LoopPcs \cup {"check"}
    BY <1>1 DEF SameCall, SameWait, LoopPcs, WaitingPcs
  <2>5. InWait(w) => (pc'[w[1]] = "unref" <=> pc[w[1]] = "unref")
    BY <1>1 DEF SameCall, SameWait, InWait, WaitingPcs
  <2> QED
    BY <2>1, <2>3, <2>4, <2>5
<1>2. CASE ~InWait(w) /\ ~InWait(w)'
  BY <1>2 DEF Own
<1> QED
  BY <1>1, <1>2 DEF Apart

(* The counts that are given back are there: a wait that is registered has *)
(* a reference for it, and one more while it is under way.                 *)
LEMMA Referenced ==
  ASSUME Control, NEW w \in Waiters, RefsOf(w)
  PROVE  /\ Own(w) \in Nat /\ (InWait(w) => Own(w) >= 1)
         /\ wfmo[w].refs \in Nat
         /\ RegisteredAt(w) # {} => wfmo[w].refs >= 1 + Own(w)
         /\ wfmo[w].refs = 0 => ~InWait(w)
<1>1. w[1] \in Threads
  BY WaitersAre
<1>2. InWait(w) => Own(w) \in Nat /\ Own(w) >= 1
  <2> SUFFICES ASSUME InWait(w) PROVE Own(w) \in Nat /\ Own(w) >= 1
    OBVIOUS
  <2>1. skipped[w[1]] \in Nat /\ pos[w[1]] \in Nat /\ Len(call[w[1]].evs) \in Nat
        /\ pos[w[1]] <= Len(call[w[1]].evs) + 1
    BY <1>1 DEF Control, Types, CallFits, Calls
  <2>2. Own(w) = 1 + skipped[w[1]] + (Len(call[w[1]].evs) + 1 - pos[w[1]])
    BY DEF Own, Unvisited
  <2>3. \A a, b, c \in Nat : c <= b + 1 => 1 + a + (b + 1 - c) \in Nat /\ 1 + a + (b + 1 - c) >= 1
    OBVIOUS
  <2> QED
    BY <2>1, <2>2, <2>3
<1>3. Own(w) \in Nat
  BY <1>2 DEF Own
<1> QED
  BY <1>2, <1>3, RegisteredFinite DEF RefsOf

LEMMA OnRegistered ==
  ASSUME NEW e \in Events, NEW w, On(registered[e], w)
  PROVE  RegisteredAt(w) # {}
  BY RegisteredOn

-----------------------------------------------------------------------------
(* RefInv is inductive.  A step of a thread t takes counts of some wait    *)
(* objects; of the other waits it changes nothing but a park.              *)

LivesSame(w) == wfmo'[w].still = wfmo[w].still /\ wfmo'[w].all = wfmo[w].all /\ wfmo'[w].owner = wfmo[w].owner

LEMMA WaitLivesKept ==
  ASSUME NEW w \in Waiters, Apart(w), WaitLives(w), LivesSame(w)
  PROVE  WaitLives(w)'
<1>1. /\ InWait(w)' <=> InWait(w)
      /\ InWait(w) => /\ pc'[w[1]] \in LoopPcs \cup {"check"} <=> pc[w[1]] \in LoopPcs \cup {"check"}
                      /\ pc'[w[1]] = "unref" <=> pc[w[1]] = "unref"
  BY OwnSame
<1>2. wfmo'[w].still = wfmo[w].still /\ wfmo'[w].all = wfmo[w].all /\ wfmo'[w].owner = wfmo[w].owner
  BY DEF LivesSame
<1>3. wfmo'[w].still => InWait(w)' /\ pc'[w[1]] # "unref"
  BY <1>1, <1>2 DEF WaitLives
<1>4. InWait(w)' /\ pc'[w[1]] \in LoopPcs \cup {"check"} => wfmo'[w].still /\ wfmo'[w].owner = w[1]
  BY <1>1, <1>2 DEF WaitLives
<1>5. InWait(w)' /\ pc'[w[1]] # "unref" /\ wfmo'[w].all => wfmo'[w].still
  BY <1>1, <1>2 DEF WaitLives
<1> QED
  BY <1>3, <1>4, <1>5 DEF WaitLives

(* Giving a registration's count back ends no wait that is under way.      *)
LEMMA WaitLivesUnref ==
  ASSUME Control, NEW w \in Waiters, WaitLives(w), RefsOf(w), RegisteredAt(w) # {},
         wfmo'[w] = Unref(wfmo, w, 1)[w], Apart(w)
  PROVE  WaitLives(w)'
<1>1. Own(w) \in Nat /\ (InWait(w) => Own(w) >= 1) /\ wfmo[w].refs >= 1 + Own(w) /\ wfmo[w].refs \in Nat
  BY Referenced
<1>2. wfmo \in [Waiters -> WaitObject] /\ 1 \in Nat
  BY DEF Control, Types
<1>3. CASE InWait(w)
  <2>1. wfmo[w].refs # 1
    BY <1>1, <1>3
  <2>2. LivesSame(w)
    BY <2>1, <1>2, UnrefIs DEF LivesSame
  <2> QED
    BY <2>2, WaitLivesKept
<1>4. CASE ~InWait(w)
  <2>1. ~InWait(w)'
    BY <1>4, OwnSame
  <2>2. ~wfmo[w].still
    BY <1>4 DEF WaitLives
  <2>3. ~wfmo'[w].still
    <3>1. wfmo'[w] = Freed \/ wfmo'[w].still = wfmo[w].still
      BY <1>2, UnrefIs
    <3> QED
      BY <3>1, <2>2 DEF Freed
  <2> QED
    BY <2>1, <2>3 DEF WaitLives
<1> QED
  BY <1>3, <1>4

(* What Registrations says of one registration r at e.                     *)
Fits(r, e) == /\ r[1][2] <= calls[r[1][1]]
              /\ InWait(r[1]) => r[2] + 1 < pos[r[1][1]] /\ call[r[1][1]].evs[r[2] + 1] = e

LEMMA RegistrationsOf ==
  ASSUME NEW e
  PROVE  Registrations(e) <=> Distinct(registered[e]) /\ \A i \in DOMAIN registered[e] : Fits(registered[e][i], e)
  BY DEF Registrations, Distinct, Fits

(* No step takes a registration out of that order.                         *)
Later == /\ \A u \in Threads : calls'[u] >= calls[u]
         /\ \A w \in Waiters : w[2] <= calls[w[1]] /\ InWait(w)' =>
              InWait(w) /\ call'[w[1]] = call[w[1]] /\ pos'[w[1]] >= pos[w[1]]

LEMMA LaterSame ==
  ASSUME Control, \A u \in Threads : SameCall(u)
  PROVE  Later
<1>1. \A u \in Threads : calls[u] \in Nat /\ pos[u] \in Nat
  BY DEF Control, Types
<1>2. ASSUME NEW w \in Waiters PROVE (InWait(w)' <=> InWait(w)) /\ w[1] \in Threads
  BY OwnSame, WaitersAre DEF Apart
<1> QED
  BY <1>1, <1>2 DEF Later, SameCall

LEMMA FitsLater ==
  ASSUME Control, Control', Later, NEW r \in Registration, NEW e, Fits(r, e)
  PROVE  Fits(r, e)'
<1>1. r[1] \in Waiters /\ r[2] \in Nat
  BY DEF Registration
<1>2. r[1][1] \in Threads /\ r[1][2] \in Nat
  BY <1>1, WaitersAre, ScriptAssumption
<1>3. /\ calls[r[1][1]] \in Nat /\ calls'[r[1][1]] \in Nat /\ pos[r[1][1]] \in Nat /\ pos'[r[1][1]] \in Nat
  BY <1>2 DEF Control, Types
<1>4. r[1][2] <= calls[r[1][1]] /\ calls'[r[1][1]] >= calls[r[1][1]]
  BY <1>2 DEF Fits, Later
<1>5. r[1][2] <= calls'[r[1][1]]
  BY <1>2, <1>3, <1>4
<1>6. InWait(r[1])' => InWait(r[1]) /\ call'[r[1][1]] = call[r[1][1]] /\ pos'[r[1][1]] >= pos[r[1][1]]
  BY <1>1, <1>4 DEF Later
<1> QED
  BY <1>1, <1>3, <1>5, <1>6 DEF Fits

(* An event's registrations are in order after a step when each of them    *)
(* was before, or fits in.                                                 *)
LEMMA RegistrationsAfter ==
  ASSUME Control, Control', Later, NEW e \in Events, NEW s, registered'[e] = s, Distinct(s),
         \A i \in DOMAIN s : s[i] \in Registration /\ (Fits(s[i], e) \/ Fits(s[i], e)')
  PROVE  Registrations(e)'
<1>1. ASSUME NEW i \in DOMAIN registered'[e] PROVE Fits(registered[e][i], e)'
  <2>1. PICK r : r = s[i]
    OBVIOUS
  <2>2. Fits(r, e)'
    BY <2>1, <1>1, FitsLater
  <2>3. r = registered'[e][i]
    BY <2>1
  <2> QED
    BY <2>2, <2>3 DEF Fits
<1> QED
  BY <1>1 DEF Registrations, Distinct, Fits

LEMMA RegistrationsKept ==
  ASSUME Control, Control', Later, NEW e \in Events, Registrations(e), registered'[e] = registered[e]
  PROVE  Registrations(e)'
<1>1. PICK s : s = registered[e]
  OBVIOUS
<1>2. s \in Seq(Registration)
  BY <1>1 DEF Control, Types, Registration
<1>3. Distinct(s) /\ \A i \in DOMAIN s : s[i] \in Registration /\ Fits(s[i], e)
  BY <1>1, <1>2, RegistrationsOf
<1> QED
  BY <1>1, <1>3, RegistrationsAfter

LEMMA RefFrame ==
  ASSUME Control, Control', RefInv, UNCHANGED <<registered, wfmo>>, \A u \in Threads : SameCall(u)
  PROVE  RefInv'
<1>1. ASSUME NEW w \in Waiters PROVE WaitLives(w)' /\ RefsOf(w)'
  <2>1. Apart(w)
    BY WaitersAre DEF Apart
  <2>2. WaitLives(w)'
    BY <2>1, WaitLivesKept DEF RefInv, LivesSame
  <2>3. Own(w)' = Own(w) /\ RegisteredAt(w)' = RegisteredAt(w)
    BY <2>1, OwnSame DEF RegisteredAt
  <2> QED
    BY <2>2, <2>3, RefCountOf DEF RefInv, RefsOf
<1>2. \A e \in Events : Registrations(e)'
  BY RegistrationsKept, LaterSame DEF RefInv
<1>3. RefCountExact'
  BY <1>1 DEF RefCountExact, RefsOf, Own
<1> QED
  BY <1>1, <1>2, <1>3 DEF RefInv

(* The registration at the head of e goes, and its count with it: SetScan  *)
(* and SetUnref.                                                           *)
LEMMA RefDrop ==
  ASSUME Control, Control', RefInv, NEW e \in Events, registered[e] # <<>>,
         wfmo' = Unref(wfmo, Head1(e), 1), registered' = [registered EXCEPT ![e] = Tail(@)],
         \A u \in Threads : SameCall(u)
  PROVE  RefInv'
<1> DEFINE s == registered[e]
<1>1. /\ s \in Seq(Registration) /\ Head1(e) = s[1][1] /\ Head1(e) \in Waiters
      /\ wfmo \in [Waiters -> WaitObject] /\ 1 \in Nat
      /\ registered' = [registered EXCEPT ![e] = Tail(s)]
  BY HeadWait DEF Control, Types
<1>2. Distinct(s)
  BY RegistrationsOf DEF RefInv
<1>3. /\ Distinct(Tail(s)) /\ On(s, s[1][1]) /\ ~On(Tail(s), s[1][1])
      /\ \A v : v # s[1][1] => (On(Tail(s), v) <=> On(s, v))
      /\ \A i \in DOMAIN Tail(s) : i + 1 \in DOMAIN s /\ Tail(s)[i] = s[i + 1]
  BY <1>1, <1>2, TailOn
<1>4. PICK h \in Waiters : h = Head1(e)
  BY <1>1
<1>5. ASSUME NEW w \in Waiters PROVE WaitLives(w)' /\ RefsOf(w)'
  <2>1. Apart(w) /\ WaitLives(w) /\ RefsOf(w)
    BY WaitersAre, RefCountOf DEF Apart, RefInv
  <2>2. Own(w)' = Own(w)
    BY <2>1, OwnSame
  <2>3. CASE w = h
    <3>1. RegisteredAt(w) # {}
      BY <2>3, <1>1, <1>3, <1>4, OnRegistered
    <3>2. wfmo'[w] = Unref(wfmo, w, 1)[w]
      BY <2>3, <1>4
    <3>3. WaitLives(w)'
      BY <2>1, <3>1, <3>2, WaitLivesUnref
    <3>4. wfmo'[w].refs = wfmo[w].refs - 1
      BY <3>2, <1>1, UnrefIs
    <3>5. Cardinality(RegisteredAt(w))' = Cardinality(RegisteredAt(w)) - 1
      <4>1. On(registered[e], w) /\ ~On(Tail(s), w)
        BY <2>3, <1>1, <1>3, <1>4
      <4> HIDE DEF s
      <4> QED
        BY <4>1, <1>1, RegisteredChange DEF Control
    <3>6. wfmo[w].refs = Cardinality(RegisteredAt(w)) + Own(w)
      BY <2>1 DEF RefsOf
    <3>7. Cardinality(RegisteredAt(w)) \in Nat /\ Own(w) \in Nat
      BY <2>1, RegisteredFinite, Referenced
    <3>8. wfmo'[w].refs = Cardinality(RegisteredAt(w))' + Own(w)'
      BY <2>2, <3>4, <3>5, <3>6, <3>7
    <3>9. RefsOf(w)'
      BY <3>8 DEF RefsOf
    <3> QED
      BY <3>3, <3>9
  <2>4. CASE w # h
    <3>1. wfmo'[w] = wfmo[w]
      BY <2>4, <1>1, <1>4, UnrefIs
    <3>2. RegisteredAt(w)' = RegisteredAt(w)
      BY <2>4, <1>1, <1>3, <1>4, RegisteredChange DEF Control
    <3>3. WaitLives(w)'
      BY <2>1, <3>1, WaitLivesKept DEF LivesSame
    <3> QED
      BY <2>1, <2>2, <3>1, <3>2, <3>3 DEF RefsOf
  <2> QED
    BY <2>3, <2>4
<1>6. ASSUME NEW x \in Events PROVE Registrations(x)'
  <2>1. CASE x # e
    <3>1. registered'[x] = registered[x]
      BY <2>1 DEF Control, Types
    <3> QED
      BY <3>1, RegistrationsKept, LaterSame DEF RefInv
  <2>2. CASE x = e
    <3>1. registered'[e] = Tail(s)
      BY <1>1 DEF Control, Types
    <3>2. \A i \in DOMAIN s : s[i] \in Registration /\ Fits(s[i], e)
      BY <1>1, RegistrationsOf DEF RefInv
    <3>3. PICK v : v = Tail(s)
      OBVIOUS
    <3>4. Distinct(v) /\ \A i \in DOMAIN v : v[i] \in Registration /\ Fits(v[i], e)
      BY <3>2, <3>3, <1>3
    <3> QED
      BY <2>2, <3>1, <3>3, <3>4, RegistrationsAfter, LaterSame
  <2> QED
    BY <2>1, <2>2
<1>7. RefCountExact'
  BY <1>5 DEF RefCountExact, RefsOf, Own
<1> QED
  BY <1>5, <1>6, <1>7 DEF RefInv

(* A wait of another thread, or of another call of the same one.           *)
LEMMA ApartOthers ==
  ASSUME Control, NEW t \in Threads, calls' = calls, \A u \in Threads \ {t} : SameCall(u),
         NEW w \in Waiters, w # W(t)
  PROVE  Apart(w)
<1>1. w[1] \in Threads /\ w = <<w[1], w[2]>>
  BY WaitersAre
<1>2. w[1] = t => w[2] # calls[t]
  BY <1>1 DEF W
<1> QED
  BY <1>1, <1>2 DEF Apart, InWait

LEMMA RefOthers ==
  ASSUME Control, RefInv, NEW w \in Waiters, Apart(w), LivesSame(w), wfmo'[w].refs = wfmo[w].refs,
         RegisteredAt(w)' = RegisteredAt(w)
  PROVE  WaitLives(w)' /\ RefsOf(w)'
<1>1. WaitLives(w)'
  BY WaitLivesKept DEF RefInv
<1>2. Own(w)' = Own(w) /\ RefsOf(w)
  BY OwnSame, RefCountOf DEF RefInv
<1>3. RefsOf(w)'
  BY <1>2 DEF RefsOf
<1> QED
  BY <1>1, <1>3

LEMMA RefInvAfter ==
  ASSUME \A w \in Waiters : WaitLives(w)' /\ RefsOf(w)', \A e \in Events : Registrations(e)'
  PROVE  RefInv'
<1>1. RefCountExact'
  BY DEF RefCountExact, RefsOf, Own
<1> QED
  BY <1>1 DEF RefInv

NewWait(t, c) == [refs |-> 1 + Len(c.evs), still |-> TRUE, owner |-> t, all |-> c.op = "WaitAll",
                  status |-> IF c.op = "WaitAll" THEN Len(c.evs) ELSE -1]

(* A wait that begins, by call c of thread t, is a new one.                *)
Begins(t, c, m) ==
  /\ c \in Calls /\ c.evs \in Seq(Events) /\ Len(c.evs) \in Nat /\ c.op \in Ops /\ c.evs # <<>>
  /\ c.op \notin {"WaitAny", "WaitAll"} => Len(c.evs) = 1
  /\ m[1] = t /\ m[2] = calls[t] + 1
  /\ calls'[t] = calls[t] + 1 /\ call'[t] = c /\ pc'[t] = EntryPoint[c.op] /\ pos'[t] = 1 /\ skipped'[t] = 0
  /\ pc[t] = "idle" /\ calls[t] \in Nat
  /\ \A u \in Threads \ {t} : calls'[u] = calls[u] /\ pc'[u] = pc[u] /\ SameCall(u)
  /\ registered' = registered /\ RegisteredAt(m) = {}
  /\ \A w \in Waiters : w # m => Apart(w) /\ wfmo'[w] = wfmo[w]
  /\ IF c.op \in {"WaitAny", "WaitAll"}
     THEN wfmo'[m] = NewWait(t, c) /\ InWait(m)' /\ pc'[t] = "register"
     ELSE wfmo'[m] = wfmo[m] /\ Apart(m) /\ pc'[t] \notin WaitingPcs

LEMMA BeginIs ==
  ASSUME Control, RefInv, NEW t \in Threads, Begin(t)
  PROVE  \E c \in Calls, m \in Waiters : Begins(t, c, m)
<1> DEFINE n == calls[t] + 1
<1>1. pc[t] = "idle" /\ calls[t] \in Nat /\ n \in DOMAIN Script[t] /\ n \in 1..Len(Script[t])
  BY ScriptAssumption DEF Begin, Control, Types
<1>2. PICK c \in Script[t][n] :
        /\ calls' = [calls EXCEPT ![t] = n]
        /\ call' = [call EXCEPT ![t] = c]
        /\ pc' = [pc EXCEPT ![t] = EntryPoint[c.op]]
        /\ wfmo' = IF c.op \in {"WaitAny", "WaitAll"} THEN [wfmo EXCEPT ![<<t, n>>] = NewWait(t, c)] ELSE wfmo
  BY DEF Begin, Goto, NewWait
<1>3. /\ c \in Calls /\ c.evs \in Seq(Events) /\ Len(c.evs) \in Nat /\ c.op \in Ops /\ c.evs # <<>>
      /\ c.op \notin {"WaitAny", "WaitAll"} => Len(c.evs) = 1
  BY <1>1, ScriptAssumption DEF Calls
<1>4. PICK m \in Waiters : m = <<t, n>> /\ m[1] = t /\ m[2] = n
  BY <1>1, AreWaiters
<1>5. /\ c.op \in {"WaitAny", "WaitAll"} => EntryPoint[c.op] = "register"
      /\ c.op \notin {"WaitAny", "WaitAll"} => EntryPoint[c.op] \notin WaitingPcs
  BY <1>3 DEF EntryPoint, WaitingPcs, Ops, WaitOps
<1>6. /\ calls'[t] = n /\ call'[t] = c /\ pc'[t] = EntryPoint[c.op] /\ pos'[t] = 1 /\ skipped'[t] = 0
      /\ \A u \in Threads \ {t} : calls'[u] = calls[u] /\ pc'[u] = pc[u] /\ SameCall(u)
      /\ registered' = registered
  BY <1>2 DEF Begin, Control, Types, SameCall, SameWait
<1>7. ASSUME NEW w \in Waiters, w # m PROVE ~(w[1] = t /\ w[2] = n)
  BY <1>4, <1>7, WaitersAre
<1>8. ASSUME NEW w \in Waiters, w # m PROVE Apart(w) /\ wfmo'[w] = wfmo[w]
  <2>1. Apart(w)
    <3>1. CASE w[1] = t
      BY <3>1, <1>1, <1>6, <1>7, <1>8 DEF Apart, InWait, WaitingPcs
    <3> QED
      BY <3>1, <1>6, WaitersAre DEF Apart
  <2>2. wfmo'[w] = wfmo[w]
    BY <1>2, <1>4, <1>8 DEF Control, Types
  <2> QED
    BY <2>1, <2>2
<1>9. RegisteredAt(m) = {}
  <2> SUFFICES ASSUME NEW e \in Events, NEW k \in DOMAIN registered[e], registered[e][k][1] = m PROVE FALSE
    BY DEF RegisteredAt
  <2>1. m[2] <= calls[m[1]]
    BY DEF RefInv, Registrations
  <2> QED
    BY <2>1, <1>1, <1>4
<1>10. IF c.op \in {"WaitAny", "WaitAll"}
       THEN wfmo'[m] = NewWait(t, c) /\ InWait(m)' /\ pc'[t] = "register"
       ELSE wfmo'[m] = wfmo[m] /\ Apart(m) /\ pc'[t] \notin WaitingPcs
  <2>1. CASE c.op \in {"WaitAny", "WaitAll"}
    <3>1. wfmo'[m] = NewWait(t, c)
      BY <2>1, <1>2, <1>4 DEF Control, Types
    <3>2. InWait(m)' /\ pc'[t] = "register"
      BY <2>1, <1>4, <1>5, <1>6 DEF InWait, WaitingPcs
    <3> QED
      BY <2>1, <3>1, <3>2
  <2>2. CASE c.op \notin {"WaitAny", "WaitAll"}
    <3>1. Apart(m) /\ pc'[t] \notin WaitingPcs
      BY <2>2, <1>1, <1>4, <1>5, <1>6 DEF Apart, InWait, WaitingPcs
    <3>2. wfmo' = wfmo
      BY <2>2, <1>2
    <3> QED
      BY <2>2, <3>1, <3>2
  <2> QED
    BY <2>1, <2>2
<1>11. \A w \in Waiters : w # m => Apart(w) /\ wfmo'[w] = wfmo[w]
  BY <1>8
<1>12. calls'[t] = calls[t] + 1 /\ m[2] = calls[t] + 1
  BY <1>4, <1>6
<1>13. Begins(t, c, m)
  BY <1>1, <1>3, <1>4, <1>6, <1>9, <1>10, <1>11, <1>12 DEF Begins
<1> QED
  BY <1>3, <1>13

LEMMA RefBegin ==
  ASSUME Control, Control', RefInv, NEW t \in Threads, Begin(t)
  PROVE  RefInv'
<1>0. PICK c \in Calls, m \in Waiters : Begins(t, c, m)
  BY BeginIs
<1>1. /\ c.evs \in Seq(Events) /\ Len(c.evs) \in Nat
      /\ m[1] = t /\ m[2] = calls[t] + 1
      /\ calls'[t] = calls[t] + 1 /\ call'[t] = c /\ pos'[t] = 1 /\ skipped'[t] = 0
      /\ pc[t] = "idle" /\ calls[t] \in Nat
      /\ \A u \in Threads \ {t} : calls'[u] = calls[u] /\ SameCall(u)
      /\ registered' = registered /\ RegisteredAt(m) = {}
      /\ \A w \in Waiters : w # m => Apart(w) /\ wfmo'[w] = wfmo[w]
      /\ IF c.op \in {"WaitAny", "WaitAll"}
         THEN wfmo'[m] = NewWait(t, c) /\ InWait(m)' /\ pc'[t] = "register"
         ELSE wfmo'[m] = wfmo[m] /\ Apart(m)
  BY <1>0 DEF Begins
<1>2. \A w \in Waiters : RegisteredAt(w)' = RegisteredAt(w)
  BY <1>1 DEF RegisteredAt
<1>3. ASSUME NEW w \in Waiters PROVE WaitLives(w)' /\ RefsOf(w)'
  <2>1. CASE w # m \/ c.op \notin {"WaitAny", "WaitAll"}
    BY <2>1, <1>1, <1>2, RefOthers DEF LivesSame
  <2>2. CASE w = m /\ c.op \in {"WaitAny", "WaitAll"}
    <3>1. wfmo'[m] = NewWait(t, c) /\ InWait(m)' /\ pc'[m[1]] = "register"
      BY <2>2, <1>1
    <3>3. WaitLives(m)'
      BY <3>1, <1>1 DEF WaitLives, NewWait
    <3>4. Own(m)' = 1 + 0 + (Len(c.evs) + 1 - 1)
      BY <3>1, <1>1 DEF Own, Unvisited
    <3>5. Cardinality(RegisteredAt(m))' = 0
      BY <1>1, <1>2, FS_EmptySet
    <3>6. wfmo'[m].refs = Cardinality(RegisteredAt(m))' + Own(m)'
      BY <3>1, <3>4, <3>5, <1>1 DEF NewWait
    <3>7. RefsOf(m)'
      BY <3>6 DEF RefsOf
    <3> QED
      BY <3>3, <3>7, <2>2
  <2> QED
    BY <2>1, <2>2
<1>4. Later
  <2>1. ASSUME NEW u \in Threads PROVE calls'[u] >= calls[u]
    <3>1. calls[u] \in Nat
      BY DEF Control, Types
    <3> QED
      BY <3>1, <1>1
  <2>2. ASSUME NEW w \in Waiters, w[2] <= calls[w[1]], InWait(w)'
        PROVE  InWait(w) /\ call'[w[1]] = call[w[1]] /\ pos'[w[1]] >= pos[w[1]]
    <3>1. w[1] # t
      BY <2>2, <1>1 DEF InWait
    <3>2. w[1] \in Threads /\ pos[w[1]] \in Nat
      BY WaitersAre DEF Control, Types
    <3> QED
      BY <2>2, <3>1, <3>2, <1>1, OwnSame DEF Apart, SameCall
  <2> QED
    BY <2>1, <2>2 DEF Later
<1>5. \A e \in Events : Registrations(e)'
  BY <1>1, <1>4, RegistrationsKept DEF RefInv
<1> QED
  BY <1>3, <1>5, RefInvAfter

(* SetFire reports: the wait is not in its loop, since its Mutex is free.  *)
LEMMA RefSetFire ==
  ASSUME Control, Control', RefInv, NEW t \in Threads, SetFire(t)
  PROVE  RefInv'
<1> DEFINE e == E(t)
<1>1. /\ pc[t] = "fire" /\ e \in Events /\ registered[e] # <<>> /\ Head1(e) \in Waiters
      /\ UNCHANGED <<registered, calls, call, pos, skipped>>
  BY FirstEvent, HeadWait DEF SetFire, HoldPcs, WaitingPcs, Control, Held
<1>2. PICK h \in Waiters : h = Head1(e)
  BY <1>1
<1> DEFINE index == Head(registered[e])[2]
<1>3. \E l \in {"signal", "drop"} : pc' = [pc EXCEPT ![t] = l]
  BY DEF SetFire, Goto
<1>4. \A u \in Threads : SameCall(u)
  BY <1>1, <1>3 DEF Control, Types, SameCall, SameWait, WaitingPcs
<1>5. /\ wfmo[h].owner = Nobody
      /\ \/ wfmo' = wfmo
         \/ wfmo[h].all /\ wfmo' = [wfmo EXCEPT ![h].status = @ - 1]
         \/ ~wfmo[h].all /\ wfmo' = [wfmo EXCEPT ![h].status = index, ![h].still = FALSE]
  BY <1>2 DEF SetFire
<1>6. wfmo \in [Waiters -> WaitObject]
  BY DEF Control, Types
<1>7. \A w \in Waiters : RegisteredAt(w)' = RegisteredAt(w)
  BY <1>1 DEF RegisteredAt
<1>8. ASSUME NEW w \in Waiters PROVE WaitLives(w)' /\ RefsOf(w)'
  <2>1. Apart(w) /\ WaitLives(w) /\ RefsOf(w)
    BY <1>4, WaitersAre, RefCountOf DEF Apart, RefInv
  <2>2. CASE w # h
    <3>1. wfmo'[w] = wfmo[w]
      BY <2>2, <1>5, <1>6
    <3> QED
      BY <3>1, <2>1, <1>7, RefOthers DEF LivesSame
  <2>3. CASE w = h /\ wfmo' = wfmo
    BY <2>1, <2>3, <1>7, RefOthers DEF LivesSame
  <2>4. CASE w = h /\ wfmo[h].all /\ wfmo' = [wfmo EXCEPT ![h].status = @ - 1]
    <3>1. LivesSame(w) /\ wfmo'[w].refs = wfmo[w].refs
      BY <2>4, <1>6 DEF LivesSame, WaitObject
    <3> QED
      BY <3>1, <2>1, <1>7, RefOthers
  <2>5. CASE w = h /\ ~wfmo[h].all /\ wfmo' = [wfmo EXCEPT ![h].status = index, ![h].still = FALSE]
    <3>1. /\ wfmo'[w].refs = wfmo[w].refs /\ ~wfmo'[w].still
          /\ wfmo'[w].all = wfmo[w].all
      BY <2>5, <1>6 DEF WaitObject
    <3>2. ~(InWait(w) /\ pc[w[1]] \in LoopPcs \cup {"check"})
      BY <2>1, <2>5, <1>5, WaitersAre, ScriptAssumption DEF WaitLives
    <3>3. /\ InWait(w)' <=> InWait(w)
          /\ InWait(w) => (pc'[w[1]] \in LoopPcs \cup {"check"} <=> pc[w[1]] \in LoopPcs \cup {"check"})
          /\ Own(w)' = Own(w)
      BY <2>1, OwnSame
    <3>4. ~wfmo'[w].all
      BY <3>1, <2>5
    <3>5. WaitLives(w)'
      BY <3>1, <3>2, <3>3, <3>4 DEF WaitLives
    <3>6. RefsOf(w)'
      BY <2>1, <3>1, <3>3, <1>7 DEF RefsOf
    <3> QED
      BY <3>5, <3>6
  <2> QED
    BY <2>2, <2>3, <2>4, <2>5, <1>5
<1>9. \A x \in Events : Registrations(x)'
  BY <1>1, <1>4, LaterSame, RegistrationsKept DEF RefInv
<1> QED
  BY <1>8, <1>9, RefInvAfter

(* A thread in its loop looked at h more events, and found g of them set.  *)
LEMMA OwnLoop ==
  ASSUME Control, NEW t \in Threads, pc[t] \in LoopPcs, UNCHANGED <<calls, call>>,
         pc'[t] \in LoopPcs \cup {"check"}, NEW h \in Nat, NEW g \in Nat,
         pos'[t] = pos[t] + h, skipped'[t] = skipped[t] + g, NEW w \in Waiters, w = W(t)
  PROVE  InWait(w) /\ InWait(w)' /\ Own(w)' = Own(w) + g - h
<1>1. w[1] = t /\ w[2] = calls[t]
  BY DEF W
<1>2. InWait(w) /\ InWait(w)'
  BY <1>1 DEF InWait, LoopPcs, WaitingPcs
<1>3. pos[t] \in Nat /\ skipped[t] \in Nat /\ Len(call[t].evs) \in Nat
  BY DEF Control, Types, Calls
<1>4. Own(w) = 1 + skipped[t] + (Len(call[t].evs) + 1 - pos[t])
  BY <1>1, <1>2 DEF Own, Unvisited
<1>5. Own(w)' = 1 + (skipped[t] + g) + (Len(call[t].evs) + 1 - (pos[t] + h))
  BY <1>1, <1>2 DEF Own, Unvisited
<1>6. ASSUME NEW a \in Nat, NEW b \in Nat, NEW c \in Nat
      PROVE  1 + (a + g) + (b + 1 - (c + h)) = (1 + a + (b + 1 - c)) + g - h
  OBVIOUS
<1>7. 1 + (skipped[t] + g) + (Len(call[t].evs) + 1 - (pos[t] + h))
        = (1 + skipped[t] + (Len(call[t].evs) + 1 - pos[t])) + g - h
  BY <1>3, <1>6
<1>8. Own(w)' = Own(w) + g - h
  BY <1>4, <1>5, <1>7
<1> QED
  BY <1>2, <1>8

LEMMA SatisfiedIs ==
  ASSUME Control, NEW t \in Threads, pc[t] \in LoopPcs, NEW f \in [Waiters -> WaitObject], Satisfied(t, f)
  PROVE  /\ \E h \in Nat : pos'[t] = pos[t] + h /\ skipped'[t] = skipped[t] + h
         /\ \A u \in Threads \ {t} : pos'[u] = pos[u] /\ skipped'[u] = skipped[u] /\ pc'[u] = pc[u]
         /\ pc'[t] \in {"check", "register"}
         /\ \A v \in Waiters : v # W(t) => wfmo'[v] = f[v]
         /\ wfmo'[W(t)].still = f[W(t)].still /\ wfmo'[W(t)].all = f[W(t)].all
         /\ wfmo'[W(t)].owner = f[W(t)].owner /\ wfmo'[W(t)].refs = f[W(t)].refs
<1>1. W(t) \in Waiters
  BY WaitOf DEF LoopPcs
<1>2. PICK w \in Waiters : w = W(t)
  BY <1>1
<1> DEFINE cnt == Len(call[t].evs)  hits == IF f[w].all THEN 1 ELSE cnt - pos[t] + 1
<1>3. pos[t] \in Nat /\ cnt \in Nat /\ pos[t] >= 1 /\ pos[t] <= cnt
  BY DEF Control, Types, CallFits, Calls, LoopPcs, WaitingPcs
<1>4. hits \in Nat
  BY <1>3
<1>5. /\ skipped' = [skipped EXCEPT ![t] = @ + hits]
      /\ wfmo' = [f EXCEPT ![w].status = IF f[w].all THEN @ - 1 ELSE pos[t] - 1]
      /\ pos' = [pos EXCEPT ![t] = @ + hits]
      /\ pc' = [pc EXCEPT ![t] = IF pos[t] + hits > cnt THEN "check" ELSE "register"]
  BY <1>2 DEF Satisfied, Goto
<1> HIDE DEF hits
<1>6. /\ pos'[t] = pos[t] + hits /\ skipped'[t] = skipped[t] + hits
      /\ \A u \in Threads \ {t} : pos'[u] = pos[u] /\ skipped'[u] = skipped[u] /\ pc'[u] = pc[u]
      /\ pc'[t] \in {"check", "register"}
  BY <1>5 DEF Control, Types
<1>7. f[w] \in WaitObject
  OBVIOUS
<1>8. /\ \A v \in Waiters : v # w => wfmo'[v] = f[v]
      /\ wfmo'[w].still = f[w].still /\ wfmo'[w].all = f[w].all
      /\ wfmo'[w].owner = f[w].owner /\ wfmo'[w].refs = f[w].refs
  BY <1>5, <1>7 DEF WaitObject
<1> QED
  BY <1>2, <1>4, <1>6, <1>8

(* Positions only grow while a wait is under way.                          *)
LEMMA LaterLoop ==
  ASSUME Control, NEW t \in Threads, UNCHANGED <<calls, call>>, \A u \in Threads \ {t} : SameCall(u),
         InWait(W(t)), pos'[t] >= pos[t]
  PROVE  Later
<1>1. \A u \in Threads : calls[u] \in Nat /\ pos[u] \in Nat
  BY DEF Control, Types
<1>2. ASSUME NEW w \in Waiters, InWait(w)'
      PROVE  InWait(w) /\ call'[w[1]] = call[w[1]] /\ pos'[w[1]] >= pos[w[1]]
  <2>1. w[1] \in Threads /\ w = <<w[1], w[2]>>
    BY WaitersAre
  <2>2. CASE w = W(t)
    BY <2>2 DEF W
  <2>3. CASE w # W(t)
    <3>1. Apart(w)
      BY <2>3, ApartOthers
    <3>2. InWait(w)
      BY <3>1, <1>2, OwnSame
    <3>3. w[1] # t
      BY <2>1, <2>3, <3>2 DEF InWait, W
    <3> QED
      BY <2>1, <3>2, <3>3, <1>1 DEF SameCall
  <2> QED
    BY <2>2, <2>3
<1> QED
  BY <1>1, <1>2 DEF Later

LEMMA RefRegisterUnlocked ==
  ASSUME Control, Control', RefInv, NEW t \in Threads, RegisterUnlocked(t)
  PROVE  RefInv'
<1>1. /\ pc[t] = "register" /\ pc[t] \in LoopPcs /\ wfmo \in [Waiters -> WaitObject]
      /\ UNCHANGED <<registered, calls, call>>
  BY DEF RegisterUnlocked, LoopPcs, Control, Types
<1>2. CASE Satisfied(t, wfmo)
  <2>1. /\ \E h \in Nat : pos'[t] = pos[t] + h /\ skipped'[t] = skipped[t] + h
        /\ \A u \in Threads \ {t} : pos'[u] = pos[u] /\ skipped'[u] = skipped[u] /\ pc'[u] = pc[u]
        /\ pc'[t] \in {"check", "register"}
        /\ \A v \in Waiters : v # W(t) => wfmo'[v] = wfmo[v]
        /\ wfmo'[W(t)].still = wfmo[W(t)].still /\ wfmo'[W(t)].all = wfmo[W(t)].all
        /\ wfmo'[W(t)].owner = wfmo[W(t)].owner /\ wfmo'[W(t)].refs = wfmo[W(t)].refs
    BY <1>1, <1>2, SatisfiedIs
  <2>2. PICK h \in Nat : pos'[t] = pos[t] + h /\ skipped'[t] = skipped[t] + h
    BY <2>1
  <2>3. PICK m \in Waiters : m = W(t)
    BY <1>1, WaitOf
  <2>4. pc'[t] \in LoopPcs \cup {"check"}
    BY <2>1 DEF LoopPcs
  <2>5. InWait(m) /\ InWait(m)' /\ Own(m)' = Own(m) + h - h /\ m[1] = t
    BY <2>2, <2>3, <2>4, <1>1, OwnLoop DEF W
  <2>6. \A u \in Threads \ {t} : SameCall(u)
    BY <2>1, <1>1 DEF SameCall, SameWait
  <2>7. \A w \in Waiters : RegisteredAt(w)' = RegisteredAt(w)
    BY <1>1 DEF RegisteredAt
  <2>8. ASSUME NEW w \in Waiters PROVE WaitLives(w)' /\ RefsOf(w)'
    <3>1. CASE w # m
      BY <3>1, <2>1, <2>3, <2>6, <2>7, <1>1, ApartOthers, RefOthers DEF LivesSame
    <3>2. CASE w = m
      <4>1. WaitLives(m) /\ RefsOf(m)
        BY RefCountOf DEF RefInv
      <4>2. /\ wfmo'[m].still = wfmo[m].still /\ wfmo'[m].all = wfmo[m].all
            /\ wfmo'[m].owner = wfmo[m].owner /\ wfmo'[m].refs = wfmo[m].refs
        BY <2>1, <2>3
      <4>3. wfmo[m].still /\ wfmo[m].owner = t /\ pc'[t] # "unref"
        BY <4>1, <2>1, <2>5, <1>1 DEF WaitLives
      <4>4. WaitLives(m)'
        BY <4>2, <4>3, <2>5 DEF WaitLives
      <4>5. Own(m) \in Nat
        BY <4>1, Referenced
      <4>6. Own(m)' = Own(m)
        BY <4>5, <2>5
      <4>7. RefsOf(m)'
        BY <4>1, <4>2, <4>6, <2>7 DEF RefsOf
      <4> QED
        BY <3>2, <4>4, <4>7
    <3> QED
      BY <3>1, <3>2
  <2>9. Later
    <3>1. pos'[t] >= pos[t]
      BY <2>2 DEF Control, Types
    <3> QED
      BY <3>1, <2>3, <2>5, <2>6, <1>1, LaterLoop
  <2> QED
    BY <2>8, <2>9, <1>1, RegistrationsKept, RefInvAfter DEF RefInv
<1>3. CASE pc' = [pc EXCEPT ![t] = "regLock"] /\ UNCHANGED <<wfmo, skipped, pos>>
  <2>1. /\ pc'[t] = "regLock" /\ \A u \in Threads \ {t} : SameCall(u)
        /\ \A w \in Waiters : RegisteredAt(w)' = RegisteredAt(w)
    BY <1>1, <1>3 DEF Control, Types, SameCall, SameWait, RegisteredAt
  <2>2. ASSUME NEW w \in Waiters PROVE WaitLives(w)' /\ RefsOf(w)' /\ (InWait(w)' <=> InWait(w))
    <3>1. WaitLives(w) /\ RefsOf(w)
      BY RefCountOf DEF RefInv
    <3>2. w[1] \in Threads
      BY WaitersAre
    <3>3. InWait(w)' <=> InWait(w)
      BY <2>1, <3>2, <1>1 DEF InWait, SameCall, SameWait, WaitingPcs
    <3>4. Own(w)' = Own(w)
      BY <3>3, <1>1, <1>3 DEF Own, Unvisited
    <3>5. WaitLives(w)'
      BY <2>1, <3>1, <3>2, <3>3, <1>1, <1>3 DEF WaitLives, SameCall, SameWait, LoopPcs, WaitingPcs
    <3>6. RefsOf(w)'
      BY <2>1, <3>1, <3>4, <1>3 DEF RefsOf
    <3> QED
      BY <3>3, <3>5, <3>6
  <2>3. Later
    <3>1. \A u \in Threads : calls[u] \in Nat /\ pos[u] \in Nat
      BY DEF Control, Types
    <3> QED
      BY <3>1, <2>2, <1>1, <1>3, WaitersAre DEF Later
  <2> QED
    BY <2>2, <2>3, <1>1, RegistrationsKept, RefInvAfter DEF RefInv
<1> QED
  BY <1>2, <1>3 DEF RegisterUnlocked, Goto

LEMMA RefCheckDone ==
  ASSUME Control, Control', RefInv, NEW t \in Threads, CheckDone(t)
  PROVE  RefInv'
<1>1. /\ pc[t] \in {"check", "unpark"} /\ UNCHANGED <<registered, calls, call, pos, skipped>>
      /\ wfmo \in [Waiters -> WaitObject]
  BY DEF CheckDone, Control, Types
<1>2. PICK m \in Waiters : m = W(t)
  BY <1>1, WaitOf
<1>3. \/ /\ wfmo' = [wfmo EXCEPT ![m].owner = Nobody, ![m].still = FALSE]
         /\ pc' = [pc EXCEPT ![t] = "unref"]
      \/ /\ wfmo' = [wfmo EXCEPT ![m].owner = Nobody]
         /\ pc' = [pc EXCEPT ![t] = "parked"]
  BY <1>2 DEF CheckDone, Goto
<1>4. /\ \A u \in Threads \ {t} : SameCall(u)
      /\ \A v \in Waiters : v # m => wfmo'[v] = wfmo[v]
      /\ wfmo'[m].refs = wfmo[m].refs /\ wfmo'[m].all = wfmo[m].all
      /\ \/ pc'[t] = "unref" /\ ~wfmo'[m].still
         \/ pc'[t] = "parked" /\ wfmo'[m].still = wfmo[m].still
  BY <1>1, <1>3 DEF Control, Types, WaitObject, SameCall, SameWait
<1>5. \A w \in Waiters : RegisteredAt(w)' = RegisteredAt(w)
  BY <1>1 DEF RegisteredAt
<1>6. m[1] = t /\ InWait(m) /\ InWait(m)'
  <2>1. m[1] = t /\ m[2] = calls[t]
    BY <1>2 DEF W
  <2> QED
    BY <2>1, <1>1, <1>4 DEF InWait, WaitingPcs
<1>7. ASSUME NEW w \in Waiters PROVE WaitLives(w)' /\ RefsOf(w)'
  <2>1. CASE w # m
    BY <2>1, <1>1, <1>2, <1>4, <1>5, ApartOthers, RefOthers DEF LivesSame
  <2>2. CASE w = m
    <3>1. WaitLives(m) /\ RefsOf(m)
      BY RefCountOf DEF RefInv
    <3>2. Own(m)' = Own(m)
      BY <1>1, <1>6 DEF Own, Unvisited
    <3>3. WaitLives(m)'
      <4>1. CASE pc'[t] = "unref" /\ ~wfmo'[m].still
        BY <4>1, <1>6 DEF WaitLives, LoopPcs
      <4>2. CASE pc'[t] = "parked" /\ wfmo'[m].still = wfmo[m].still
        <5>1. wfmo[m].all => wfmo[m].still
          BY <3>1, <1>1, <1>6 DEF WaitLives
        <5> QED
          BY <4>2, <5>1, <1>4, <1>6 DEF WaitLives, LoopPcs
      <4> QED
        BY <4>1, <4>2, <1>4
    <3>4. RefsOf(m)'
      BY <3>1, <3>2, <1>4, <1>5 DEF RefsOf
    <3> QED
      BY <2>2, <3>3, <3>4
  <2> QED
    BY <2>1, <2>2
<1>8. Later
  <2>1. pos'[t] >= pos[t] /\ InWait(W(t))
    BY <1>1, <1>2, <1>6 DEF Control, Types
  <2> QED
    BY <2>1, <1>1, <1>4, LaterLoop
<1> QED
  BY <1>1, <1>7, <1>8, RegistrationsKept, RefInvAfter DEF RefInv

LEMMA RefWaitReturn ==
  ASSUME Control, Control', RefInv, NEW t \in Threads, WaitReturn(t)
  PROVE  RefInv'
<1>1. /\ pc[t] = "unref" /\ UNCHANGED <<registered, calls, call, pos, skipped>>
      /\ wfmo \in [Waiters -> WaitObject] /\ pc' = [pc EXCEPT ![t] = "idle"]
      /\ wfmo' = Unref(wfmo, W(t), 1 + skipped[t]) /\ skipped[t] \in Nat
  BY DEF WaitReturn, Control, Types, Goto
<1>2. PICK m \in Waiters : m = W(t)
  BY <1>1, WaitOf
<1>3. PICK n \in Nat : n = 1 + skipped[t]
  BY <1>1
<1>4. /\ \A u \in Threads \ {t} : SameCall(u)
      /\ \A w \in Waiters : RegisteredAt(w)' = RegisteredAt(w)
      /\ pc'[t] = "idle"
  BY <1>1 DEF Control, Types, SameCall, SameWait, RegisteredAt
<1>5. /\ \A v \in Waiters : v # m => wfmo'[v] = wfmo[v]
      /\ wfmo'[m].refs = wfmo[m].refs - n
      /\ wfmo'[m] = Freed \/ wfmo'[m].still = wfmo[m].still
  BY <1>1, <1>2, <1>3, UnrefIs
<1>6. m[1] = t /\ InWait(m) /\ ~InWait(m)'
  <2>1. m[1] = t /\ m[2] = calls[t]
    BY <1>2 DEF W
  <2> QED
    BY <2>1, <1>1, <1>4 DEF InWait, WaitingPcs
<1>7. ASSUME NEW w \in Waiters PROVE WaitLives(w)' /\ RefsOf(w)'
  <2>1. CASE w # m
    BY <2>1, <1>1, <1>2, <1>4, <1>5, ApartOthers, RefOthers DEF LivesSame
  <2>2. CASE w = m
    <3>1. WaitLives(m) /\ RefsOf(m)
      BY RefCountOf DEF RefInv
    <3>2. ~wfmo'[m].still
      BY <3>1, <1>1, <1>5, <1>6 DEF WaitLives, Freed
    <3>3. WaitLives(m)'
      BY <3>2, <1>6 DEF WaitLives
    <3>4. Own(m)' = 0
      BY <1>6 DEF Own
    <3>5. Own(m) = n
      <4>1. pos[t] = Len(call[t].evs) + 1 /\ Len(call[t].evs) \in Nat
        <5>1. pc[t] \in WaitingPcs \ LoopPcs
          BY <1>1 DEF WaitingPcs, LoopPcs
        <5> QED
          BY <5>1 DEF Control, Types, CallFits, Calls
      <4>2. Unvisited(m) = 0
        BY <4>1, <1>6 DEF Unvisited
      <4>3. Own(m) = 1 + skipped[t] + 0
        BY <4>2, <1>6 DEF Own
      <4> QED
        BY <4>3, <1>1, <1>3
    <3>6. wfmo[m].refs = Cardinality(RegisteredAt(m)) + n /\ Cardinality(RegisteredAt(m)) \in Nat
      BY <3>1, <3>5, RegisteredFinite DEF RefsOf
    <3>7. wfmo'[m].refs = Cardinality(RegisteredAt(m))' + 0
      BY <3>6, <1>4, <1>5
    <3> QED
      BY <2>2, <3>3, <3>4, <3>7 DEF RefsOf
  <2> QED
    BY <2>1, <2>2
<1>8. Later
  <2>1. pos'[t] >= pos[t] /\ InWait(W(t))
    BY <1>1, <1>2, <1>6 DEF Control, Types
  <2> QED
    BY <2>1, <1>1, <1>4, LaterLoop
<1> QED
  BY <1>1, <1>7, <1>8, RegistrationsKept, RefInvAfter DEF RefInv

(* The clean-up of e's registrations, as the waits see it that do not      *)
(* register with e in the same step.                                       *)
LEMMA RefExpired ==
  ASSUME Control, RefInv, NEW e \in Events, NEW s, registered' = [registered EXCEPT ![e] = s],
         NEW w \in Waiters, Apart(w), wfmo'[w] = WithoutExpired(e)[w],
         On(s, w) <=> On(registered[e], w) /\ wfmo[w].still
  PROVE  WaitLives(w)' /\ RefsOf(w)'
<1>1. WaitLives(w) /\ RefsOf(w) /\ Own(w)' = Own(w) /\ Types
  BY RefCountOf, OwnSame DEF RefInv, Control
<1>2. CASE wfmo[w].still \/ ~On(registered[e], w)
  <2>1. wfmo'[w] = wfmo[w]
    BY <1>1, <1>2, WithoutExpiredIs
  <2>2. RegisteredAt(w)' = RegisteredAt(w)
    BY <1>1, <1>2, RegisteredChange
  <2> QED
    BY <2>1, <2>2, RefOthers DEF LivesSame
<1>3. CASE ~wfmo[w].still /\ On(registered[e], w)
  <2>1. wfmo'[w] = Unref(wfmo, w, 1)[w]
    BY <1>1, <1>3, WithoutExpiredIs
  <2>2. wfmo'[w].refs = wfmo[w].refs - 1
    <3>1. wfmo \in [Waiters -> WaitObject] /\ 1 \in Nat
      BY <1>1 DEF Types
    <3> QED
      BY <2>1, <3>1, UnrefIs
  <2>3. Cardinality(RegisteredAt(w))' = Cardinality(RegisteredAt(w)) - 1
    BY <1>1, <1>3, RegisteredChange
  <2>4. WaitLives(w)'
    BY <2>1, <1>1, <1>3, OnRegistered, WaitLivesUnref
  <2>5. wfmo[w].refs = Cardinality(RegisteredAt(w)) + Own(w)
    BY <1>1 DEF RefsOf
  <2>6. Cardinality(RegisteredAt(w)) \in Nat /\ Own(w) \in Nat
    BY <1>1, RegisteredFinite, Referenced
  <2>7. wfmo'[w].refs = Cardinality(RegisteredAt(w))' + Own(w)'
    BY <2>2, <2>3, <2>5, <2>6, <1>1
  <2> QED
    BY <2>4, <2>7 DEF RefsOf
<1> QED
  BY <1>2, <1>3

(* The event a wait's loop has come to does not hold it yet.               *)
LEMMA NotYet ==
  ASSUME Control, RefInv, NEW t \in Threads, pc[t] \in LoopPcs
  PROVE  ~On(registered[E(t)], W(t))
<1>1. pc[t] # "idle" /\ pos[t] \in Nat /\ pos[t] >= 1 /\ pos[t] <= Len(call[t].evs)
      /\ call[t].evs \in Seq(Events) /\ IsInjective(call[t].evs)
  BY DEF LoopPcs, Control, Types, CallFits, Calls
<1>2. PICK e \in Events, m \in Waiters : e = E(t) /\ m = W(t)
  BY <1>1, EventOf, WaitOf
<1>3. m[1] = t /\ InWait(m)
  BY <1>2 DEF W, InWait, LoopPcs, WaitingPcs
<1> SUFFICES ASSUME NEW i \in DOMAIN registered[e], registered[e][i][1] = m PROVE FALSE
  BY <1>2 DEF On
<1>4. PICK r : r = registered[e][i]
  OBVIOUS
<1>5. r \in Registration /\ Fits(r, e) /\ r[1] = m
  BY <1>4, RegistrationsOf DEF RefInv, Control, Types, Registration
<1>6. r[2] \in Nat /\ r[2] + 1 < pos[t] /\ call[t].evs[r[2] + 1] = e
  BY <1>3, <1>5 DEF Fits, Registration
<1>7. r[2] + 1 \in DOMAIN call[t].evs /\ pos[t] \in DOMAIN call[t].evs /\ call[t].evs[pos[t]] = e
  BY <1>1, <1>2, <1>6 DEF E
<1> QED
  BY <1>1, <1>6, <1>7 DEF IsInjective

LEMMA RefRegisterLocked ==
  ASSUME Control, Control', RefInv, NEW t \in Threads, RegisterLocked(t)
  PROVE  RefInv'
<1>1. /\ pc[t] = "regLock" /\ pc[t] \in LoopPcs /\ pc[t] # "idle" /\ UNCHANGED <<calls, call>>
      /\ wfmo \in [Waiters -> WaitObject] /\ Types
  BY DEF RegisterLocked, LoopPcs, Control, Types
<1>2. CallFits(t) /\ pos[t] \in Nat /\ pos[t] >= 1 /\ pos[t] <= Len(call[t].evs) /\ Len(call[t].evs) \in Nat
  <2>1. CallFits(t) /\ call[t] \in Calls /\ pos[t] \in Nat
    BY DEF Control, Types
  <2>2. Len(call[t].evs) \in Nat
    BY <2>1 DEF Calls
  <2> QED
    BY <2>1, <2>2, <1>1 DEF CallFits
<1>0. E(t) \in Events /\ W(t) \in Waiters
  BY <1>1, <1>2, EventOf, WaitOf
<1>3. PICK e \in Events, m \in Waiters : e = E(t) /\ m = W(t)
  BY <1>0
<1>4. PICK new \in Registration : new = <<m, pos[t] - 1>>
  <2>1. pos[t] - 1 \in Nat
    BY <1>2
  <2> QED
    BY <2>1, <1>3 DEF Registration
<1>5. WithoutExpired(e) \in [Waiters -> WaitObject]
  BY <1>1, WithoutExpiredType
<1>6. /\ m[1] = t /\ WaitLives(m) /\ RefsOf(m)
      /\ InWait(m) /\ wfmo[m].still /\ wfmo[m].owner = t
  <2>1. m[1] = t /\ m[2] = calls[t] /\ WaitLives(m) /\ RefsOf(m)
    BY <1>3, RefCountOf DEF W, RefInv
  <2>2. InWait(m)
    BY <2>1, <1>1 DEF InWait, WaitingPcs
  <2> QED
    BY <2>1, <2>2, <1>1 DEF WaitLives
<1>7. WithoutExpired(e)[m] = wfmo[m]
  BY <1>1, <1>6, WithoutExpiredIs
<1>8. ~On(registered[e], m)
  BY <1>1, <1>3, NotYet
<1>9. PICK k : k = Unexpired(e)
  OBVIOUS
<1>10. /\ k \in Seq(Registration) /\ Distinct(k)
       /\ \A w \in Waiters : On(k, w) <=> On(registered[e], w) /\ wfmo[w].still
       /\ \A i \in DOMAIN k : k[i] \in Registration /\ Fits(k[i], e)
  <2>1. k \in Seq(Registration) /\ (Distinct(registered[e]) => Distinct(k))
    BY <1>1, <1>9, UnexpiredIs
  <2>2. Distinct(registered[e]) /\ \A j \in DOMAIN registered[e] : Fits(registered[e][j], e)
    BY RegistrationsOf DEF RefInv
  <2>3. \A i \in DOMAIN k : \E j \in DOMAIN registered[e] : k[i] = registered[e][j]
    BY <1>1, <1>9, UnexpiredIs
  <2>4. \A w \in Waiters : On(k, w) <=> On(registered[e], w) /\ wfmo[w].still
    BY <1>1, <1>9, UnexpiredOn
  <2>5. \A i \in DOMAIN k : k[i] \in Registration
    BY <2>1
  <2> QED
    BY <2>1, <2>2, <2>3, <2>4, <2>5
<1>11. CASE registered' = [registered EXCEPT ![e] = k] /\ Satisfied(t, WithoutExpired(e))
  <2>1. /\ \E h \in Nat : pos'[t] = pos[t] + h /\ skipped'[t] = skipped[t] + h
        /\ \A u \in Threads \ {t} : pos'[u] = pos[u] /\ skipped'[u] = skipped[u] /\ pc'[u] = pc[u]
        /\ pc'[t] \in {"check", "register"}
        /\ \A v \in Waiters : v # m => wfmo'[v] = WithoutExpired(e)[v]
        /\ wfmo'[m].still = wfmo[m].still /\ wfmo'[m].all = wfmo[m].all
        /\ wfmo'[m].owner = wfmo[m].owner /\ wfmo'[m].refs = wfmo[m].refs
    BY <1>1, <1>3, <1>5, <1>7, <1>11, SatisfiedIs
  <2>2. PICK h \in Nat : pos'[t] = pos[t] + h /\ skipped'[t] = skipped[t] + h
    BY <2>1
  <2>3. pc'[t] \in LoopPcs \cup {"check"}
    BY <2>1 DEF LoopPcs
  <2>4. InWait(m)' /\ Own(m)' = Own(m) + h - h
    BY <2>2, <2>3, <1>1, <1>3, OwnLoop
  <2>5. \A u \in Threads \ {t} : SameCall(u)
    BY <2>1, <1>1 DEF SameCall, SameWait
  <2>6. ASSUME NEW w \in Waiters PROVE WaitLives(w)' /\ RefsOf(w)'
    <3>1. CASE w # m
      BY <3>1, <2>1, <2>5, <1>1, <1>3, <1>10, <1>11, ApartOthers, RefExpired
    <3>2. CASE w = m
      <4>1. WaitLives(m)'
        BY <2>1, <2>4, <1>6 DEF WaitLives
      <4>2. RegisteredAt(m)' = RegisteredAt(m)
        BY <1>1, <1>6, <1>10, <1>11, RegisteredChange
      <4>3. Own(m) \in Nat
        BY <1>6, Referenced
      <4>4. Own(m)' = Own(m)
        BY <4>3, <2>4
      <4> QED
        BY <3>2, <4>1, <4>2, <4>4, <2>1, <1>6 DEF RefsOf
    <3> QED
      BY <3>1, <3>2
  <2>7. Later
    <3>1. pos'[t] >= pos[t]
      BY <2>2, <1>2
    <3> QED
      BY <3>1, <2>5, <1>1, <1>3, <1>6, LaterLoop
  <2>8. ASSUME NEW x \in Events PROVE Registrations(x)'
    <3>1. CASE x # e
      <4>1. registered'[x] = registered[x]
        BY <3>1, <1>1, <1>11 DEF Types
      <4> QED
        BY <4>1, <2>7, RegistrationsKept DEF RefInv
    <3>2. CASE x = e
      <4>1. registered'[e] = k
        BY <1>1, <1>11 DEF Types
      <4> QED
        BY <3>2, <4>1, <2>7, <1>10, RegistrationsAfter
    <3> QED
      BY <3>1, <3>2
  <2> QED
    BY <2>6, <2>8, RefInvAfter
<1>12. CASE /\ registered' = [registered EXCEPT ![e] = Append(k, new)]
            /\ wfmo' = WithoutExpired(e)
            /\ pos' = [pos EXCEPT ![t] = @ + 1]
            /\ Goto(t, IF pos[t] = Len(call[t].evs) THEN "check" ELSE "register")
            /\ UNCHANGED skipped
  <2>1. /\ pos'[t] = pos[t] + 1 /\ skipped'[t] = skipped[t] + 0
        /\ pc'[t] \in {"check", "register"} /\ pc'[t] \in LoopPcs \cup {"check"}
        /\ \A u \in Threads \ {t} : SameCall(u)
    <3>1. skipped[t] \in Nat
      BY <1>1 DEF Types
    <3> QED
      BY <3>1, <1>1, <1>12 DEF Goto, Types, LoopPcs, SameCall, SameWait
  <2>2. InWait(m)' /\ Own(m)' = Own(m) + 0 - 1
    BY <2>1, <1>1, <1>3, OwnLoop
  <2>3. PICK a : a = Append(k, new)
    OBVIOUS
  <2>4. new[1] = m /\ new[2] = pos[t] - 1
    BY <1>4
  <2>5. /\ \A v : On(a, v) <=> On(k, v) \/ v = m
        /\ Distinct(a)
        /\ \A i \in DOMAIN a : (i \in DOMAIN k /\ a[i] = k[i]) \/ a[i] = new
    <3>1. ~On(k, m)
      BY <1>8, <1>10
    <3> QED
      BY <2>3, <2>4, <3>1, <1>10, AppendOn
  <2>6. ASSUME NEW w \in Waiters PROVE WaitLives(w)' /\ RefsOf(w)'
    <3>1. CASE w # m
      <4>1. On(a, w) <=> On(registered[e], w) /\ wfmo[w].still
        BY <3>1, <2>5, <1>10
      <4>2. Apart(w)
        BY <3>1, <2>1, <1>1, <1>3, ApartOthers
      <4> QED
        BY <4>1, <4>2, <2>3, <1>12, RefExpired
    <3>2. CASE w = m
      <4>1. wfmo'[m] = wfmo[m]
        BY <1>7, <1>12
      <4>2. WaitLives(m)'
        BY <4>1, <2>1, <2>2, <1>6 DEF WaitLives
      <4>3. Cardinality(RegisteredAt(m))' = Cardinality(RegisteredAt(m)) + 1
        BY <2>3, <2>5, <1>1, <1>8, <1>12, RegisteredChange
      <4>4. Own(m) \in Nat /\ Cardinality(RegisteredAt(m)) \in Nat /\ wfmo[m].refs = Cardinality(RegisteredAt(m)) + Own(m)
        BY <1>6, Referenced, RegisteredFinite DEF RefsOf
      <4>5. wfmo'[m].refs = Cardinality(RegisteredAt(m))' + Own(m)'
        BY <4>1, <4>3, <4>4, <2>2
      <4> QED
        BY <3>2, <4>2, <4>5 DEF RefsOf
    <3> QED
      BY <3>1, <3>2
  <2>7. Later
    <3>1. pos'[t] >= pos[t]
      BY <2>1, <1>2
    <3> QED
      BY <3>1, <2>1, <1>1, <1>3, <1>6, LaterLoop
  <2>8. Fits(new, e)'
    <3>1. calls'[t] \in Nat /\ m[2] = calls'[t] /\ call'[t] = call[t]
      BY <1>1, <1>3 DEF W, Types
    <3>2. new[2] + 1 = pos[t] /\ pos[t] < pos'[t] /\ call[t].evs[pos[t]] = e
      BY <2>1, <2>4, <1>2, <1>3 DEF E
    <3> QED
      BY <3>1, <3>2, <2>4, <1>6 DEF Fits
  <2>9. ASSUME NEW x \in Events PROVE Registrations(x)'
    <3>1. CASE x # e
      <4>1. registered'[x] = registered[x]
        BY <3>1, <1>1, <1>12 DEF Types
      <4> QED
        BY <4>1, <2>7, RegistrationsKept DEF RefInv
    <3>2. CASE x = e
      <4>1. registered'[e] = a
        BY <2>3, <1>1, <1>12 DEF Types
      <4>2. \A i \in DOMAIN a : a[i] \in Registration /\ (Fits(a[i], e) \/ Fits(a[i], e)')
        <5> SUFFICES ASSUME NEW i \in DOMAIN a PROVE a[i] \in Registration /\ (Fits(a[i], e) \/ Fits(a[i], e)')
          OBVIOUS
        <5>1. CASE i \in DOMAIN k /\ a[i] = k[i]
          BY <5>1, <1>10
        <5>2. CASE a[i] = new
          BY <5>2, <2>8, <1>4 DEF Fits
        <5> QED
          BY <5>1, <5>2, <2>5
      <4> QED
        BY <3>2, <4>1, <4>2, <2>5, <2>7, RegistrationsAfter
    <3> QED
      BY <3>1, <3>2
  <2> QED
    BY <2>6, <2>9, RefInvAfter
<1> QED
  BY <1>3, <1>4, <1>9, <1>11, <1>12 DEF RegisterLocked

(* Who destroys an event is the last to use it.                            *)
LastUser == \A t \in Threads : pc[t] = "destroy" =>
              \A u \in Threads \ {t} : pc[u] = "idle" /\ calls[u] = Len(Script[u])

LEMMA StepPcs ==
  ASSUME Control, NEW t \in Threads, Step(t) \/ Expire(t) \/ SpuriousWake(t)
  PROVE  /\ pc[t] = "idle" \/ pc'[t] = "destroy" => Begin(t)
         /\ pc[t] = "destroy" => Destroy(t)
         /\ ~Begin(t) => UNCHANGED <<calls, call>>
         /\ \A u \in Threads \ {t} : Woken(u)
<1> DEFINE Ok == /\ pc[t] \notin {"idle", "destroy"} /\ pc'[t] # "destroy" /\ UNCHANGED <<calls, call>>
                 /\ \A u \in Threads \ {t} : Woken(u)
<1>1. CASE Begin(t)
  BY <1>1 DEF Begin, Goto, Woken, Control, Types
<1>2. CASE Destroy(t)
  BY <1>2 DEF Destroy, Goto, Woken, Control, Types
<1>3. WaitFastPath(t) => Ok
  BY DEF WaitFastPath, Goto, Woken, Control, Types
<1>4. WaitLocked(t) => Ok
  BY DEF WaitLocked, Goto, Woken, Control, Types
<1>5. RegisterUnlocked(t) \/ RegisterLocked(t) => Ok
  BY DEF RegisterUnlocked, RegisterLocked, Satisfied, Goto, Woken, Control, Types
<1>6. CheckDone(t) \/ WaitReturn(t) => Ok
  BY DEF CheckDone, WaitReturn, Goto, Woken, Control, Types
<1>7. SetLock(t) \/ SetScan(t) => Ok
  BY DEF SetLock, SetScan, Goto, Woken, Control, Types
<1>8. SetFire(t) => Ok
  BY DEF SetFire, Goto, Woken, Control, Types
<1>9. SetSignal(t) => Ok
  BY ControlSetSignal DEF SetSignal
<1>10. SetUnref(t) => Ok
  BY DEF SetUnref, Finish, Goto, Woken, Control, Types
<1>11. SetNotify(t) => Ok
  BY ControlSetNotify DEF Finish
<1>12. Reset(t) => Ok
  BY DEF Reset, Goto, Woken, Control, Types
<1>13. Expire(t) \/ SpuriousWake(t) => Ok
  BY DEF Expire, SpuriousWake, Goto, Woken, Control, Types
<1> HIDE DEF Ok
<1>14. CASE Ok
  BY <1>14 DEF Ok
<1> QED
  BY <1>1, <1>2, <1>3, <1>4, <1>5, <1>6, <1>7, <1>8, <1>9, <1>10, <1>11, <1>12, <1>13, <1>14 DEF Step

LEMMA LastUserStep == Control /\ LastUser /\ [Next]_vars => LastUser'
<1> SUFFICES ASSUME Control, LastUser, [Next]_vars, NEW x \in Threads, pc'[x] = "destroy",
                    NEW u \in Threads \ {x}
             PROVE  pc'[u] = "idle" /\ calls'[u] = Len(Script[u])
  BY DEF LastUser
<1>1. CASE UNCHANGED vars
  BY <1>1 DEF vars, LastUser
<1>2. ASSUME NEW t \in Threads, Step(t) \/ Expire(t) \/ SpuriousWake(t)
      PROVE  pc'[u] = "idle" /\ calls'[u] = Len(Script[u])
  <2>1. /\ pc[t] = "idle" \/ pc'[t] = "destroy" => Begin(t)
        /\ pc[t] = "destroy" => Destroy(t)
        /\ \A v \in Threads \ {t} : Woken(v)
    BY <1>2, StepPcs
  <2>2. CASE pc[x] = "destroy"
    <3>1. CASE t = x
      BY <3>1, <2>1, <2>2 DEF Destroy, Goto, Control, Types
    <3>2. CASE t # x
      BY <3>2, <2>1, <2>2 DEF LastUser, Begin, Control, Types
    <3> QED
      BY <3>1, <3>2
  <2>3. CASE pc[x] # "destroy"
    <3>1. t = x
      BY <2>1, <2>3 DEF Woken
    <3>2. Begin(x)
      BY <3>1, <2>1
    <3>3. pc[u] = "idle" /\ calls[u] = Len(Script[u])
      <4>1. PICK c \in Script[x][calls[x] + 1] :
              /\ c.op = "DestroyEvent" => \A v \in Threads \ {x} : pc[v] = "idle" /\ calls[v] = Len(Script[v])
              /\ Goto(x, EntryPoint[c.op])
        BY <3>2 DEF Begin
      <4>2. c.op \in Ops
        <5>1. calls[x] + 1 \in DOMAIN Script[x]
          BY <3>2, ScriptAssumption DEF Begin, Control, Types
        <5> QED
          BY <5>1, ScriptAssumption DEF Calls
      <4>3. EntryPoint[c.op] = "destroy"
        BY <4>1 DEF Goto, Control, Types
      <4>4. c.op = "DestroyEvent"
        BY <4>2, <4>3 DEF EntryPoint, Ops, WaitOps
      <4> QED
        BY <4>1, <4>4
    <3> QED
      BY <3>2, <3>3 DEF Begin, Goto, Control, Types
  <2> QED
    BY <2>2, <2>3
<1> QED
  BY <1>1, <1>2 DEF Next

LEMMA RefDestroy ==
  ASSUME Control, Control', RefInv, LastUser, NEW t \in Threads, Destroy(t)
  PROVE  RefInv'
<1>1. /\ pc[t] = "destroy" /\ E(t) \in Events /\ pc' = [pc EXCEPT ![t] = "idle"]
      /\ wfmo' = WithoutExpired(E(t)) /\ registered' = [registered EXCEPT ![E(t)] = <<>>]
      /\ UNCHANGED <<calls, call, pos, skipped>> /\ Types
  BY FirstEvent DEF Destroy, Goto, WaitingPcs, Control
<1>2. PICK e \in Events : e = E(t)
  BY <1>1
<1>3. \A u \in Threads : SameCall(u)
  BY <1>1 DEF Types, SameCall, SameWait, WaitingPcs
<1>4. ASSUME NEW w \in Waiters PROVE ~wfmo[w].still
  <2>1. w[1] \in Threads
    BY WaitersAre
  <2>2. ~InWait(w)
    BY <2>1, <1>1 DEF LastUser, InWait, WaitingPcs
  <2> QED
    BY <2>2 DEF RefInv, WaitLives
<1>5. ASSUME NEW w \in Waiters PROVE WaitLives(w)' /\ RefsOf(w)'
  <2>1. Apart(w)
    BY <1>3, WaitersAre DEF Apart
  <2>2. ~On(<<>>, w)
    BY DEF On
  <2> QED
    BY <2>1, <2>2, <1>1, <1>2, <1>4, RefExpired
<1>6. ASSUME NEW x \in Events PROVE Registrations(x)'
  <2>1. CASE x # e
    <3>1. registered'[x] = registered[x]
      BY <2>1, <1>1, <1>2 DEF Types
    <3> QED
      BY <3>1, <1>3, LaterSame, RegistrationsKept DEF RefInv
  <2>2. CASE x = e
    <3>1. registered'[x] = <<>>
      BY <2>2, <1>1, <1>2 DEF Types
    <3> QED
      BY <3>1 DEF Registrations
  <2> QED
    BY <2>1, <2>2
<1> QED
  BY <1>5, <1>6, RefInvAfter

LEMMA RefInit == Init => RefInv /\ LastUser
<1> SUFFICES ASSUME Init PROVE RefInv /\ LastUser
  OBVIOUS
<1>1. ASSUME NEW w \in Waiters PROVE WaitLives(w) /\ RefsOf(w)
  <2>1. ~InWait(w) /\ ~wfmo[w].still /\ wfmo[w].refs = 0
    BY WaitersAre DEF Init, InWait, Freed, WaitingPcs
  <2>2. RegisteredAt(w) = {}
    BY DEF Init, RegisteredAt
  <2>3. Own(w) = 0 /\ Cardinality(RegisteredAt(w)) = 0
    BY <2>1, <2>2, FS_EmptySet DEF Own
  <2> QED
    BY <2>1, <2>3 DEF WaitLives, RefsOf
<1>2. \A e \in Events : Registrations(e)
  BY DEF Init, Registrations
<1>3. LastUser
  BY DEF Init, LastUser
<1> QED
  BY <1>1, <1>2, <1>3, RefCountOf DEF RefInv

LEMMA RefStep == Control /\ Control' /\ RefInv /\ LastUser /\ [Next]_vars => RefInv'
<1> SUFFICES ASSUME Control, Control', RefInv, LastUser, [Next]_vars PROVE RefInv'
  OBVIOUS
<1>1. CASE UNCHANGED vars
  BY <1>1, RefFrame DEF vars, SameCall, SameWait
<1>2. ASSUME NEW t \in Threads, Step(t) \/ Expire(t) \/ SpuriousWake(t) PROVE RefInv'
  <2> DEFINE Frame == UNCHANGED <<registered, wfmo, calls, call, pos, skipped>> /\ \A u \in Threads : SameWait(u)
  <2>1. CASE Frame
    BY <2>1, RefFrame DEF SameCall
  <2>2. WaitFastPath(t) => Frame
    BY DEF WaitFastPath, Goto, Control, Types, SameWait, WaitingPcs
  <2>3. WaitLocked(t) => Frame
    BY DEF WaitLocked, Goto, Control, Types, SameWait, WaitingPcs
  <2>4. Expire(t) \/ SpuriousWake(t) => Frame
    BY DEF Expire, SpuriousWake, Goto, Control, Types, SameWait, WaitingPcs
  <2>5. SetLock(t) => Frame
    BY DEF SetLock, Goto, Control, Types, SameWait, WaitingPcs
  <2>6. ASSUME SetScan(t) PROVE RefInv'
    <3>1. pc[t] = "scan" /\ E(t) \in Events /\ UNCHANGED <<calls, call, pos, skipped>>
      BY <2>6, FirstEvent DEF SetScan, WaitingPcs
    <3>2. CASE UNCHANGED <<registered, wfmo>> /\ (Goto(t, "notify") \/ Goto(t, "fire"))
      BY <3>1, <3>2, RefFrame DEF SameCall, Goto, Control, Types, SameWait, WaitingPcs
    <3>3. CASE /\ registered[E(t)] # <<>> /\ wfmo' = Unref(wfmo, Head1(E(t)), 1)
               /\ registered' = [registered EXCEPT ![E(t)] = Tail(@)] /\ UNCHANGED pc
      BY <3>1, <3>3, RefDrop DEF SameCall, SameWait
    <3> QED
      BY <2>6, <3>2, <3>3 DEF SetScan
  <2>7. SetSignal(t) => Frame
    BY ControlSetSignal, WokenSame DEF SetSignal, SameWait, WaitingPcs
  <2>8. ASSUME SetUnref(t) PROVE RefInv'
    <3>1. /\ pc[t] \in {"fired", "drop"} /\ E(t) \in Events /\ UNCHANGED <<calls, call, pos, skipped>>
          /\ registered[E(t)] # <<>>
      BY <2>8, FirstEvent DEF SetUnref, WaitingPcs, Control, Held, HoldPcs
    <3>2. \A u \in Threads : SameWait(u)
      BY <2>8 DEF SetUnref, Goto, Finish, Control, Types, SameWait, WaitingPcs
    <3> QED
      BY <2>8, <3>1, <3>2, RefDrop DEF SetUnref, SameCall
  <2>9. SetNotify(t) => Frame
    BY ControlSetNotify, WokenSame DEF SameWait, WaitingPcs, Finish
  <2>10. Reset(t) => Frame
    BY DEF Reset, Goto, Control, Types, SameWait, WaitingPcs
  <2> QED
    BY <1>2, <2>1, <2>2, <2>3, <2>4, <2>5, <2>6, <2>7, <2>8, <2>9, <2>10, RefBegin, RefRegisterUnlocked,
       RefRegisterLocked, RefCheckDone, RefWaitReturn, RefSetFire, RefDestroy DEF Step
<1> QED
  BY <1>1, <1>2 DEF Next

-----------------------------------------------------------------------------
(* Every variable holds values of its type; a reference count is a natural *)
(* number: PEvents!TypeOK for any events, threads and scripts.             *)
THEOREM EventsTyping == Spec => []TypeOK
<1>1. Init => Control /\ RefInv /\ LastUser
  BY ControlInit, RefInit
<1>2. Control /\ RefInv /\ LastUser /\ [Next]_vars => (Control /\ RefInv /\ LastUser)'
  BY ControlStep, RefStep, LastUserStep
<1>3. Control /\ RefInv => TypeOK
  <2> SUFFICES ASSUME Control, RefInv PROVE TypeOK
    OBVIOUS
  <2>1. Types
    BY DEF Control
  <2>2. ASSUME NEW w \in Waiters PROVE wfmo[w] \in Wfmo
    <3>1. wfmo[w] \in WaitObject
      BY <2>1 DEF Types
    <3>2. wfmo[w].refs \in Nat
      BY RefCountOf, Referenced DEF RefInv
    <3> QED
      BY <3>1, <3>2 DEF WaitObject, Wfmo
  <2>3. wfmo \in [Waiters -> Wfmo]
    BY <2>1, <2>2 DEF Types
  <2>4. \A t \in Threads : calls[t] \in 0..Len(Script[t]) /\ pos[t] \in 1..Len(call[t].evs) + 1
    <3> SUFFICES ASSUME NEW t \in Threads
                 PROVE  calls[t] \in 0..Len(Script[t]) /\ pos[t] \in 1..Len(call[t].evs) + 1
      OBVIOUS
    <3>1. CallFits(t) /\ calls[t] \in Nat /\ Len(Script[t]) \in Nat
      BY ScriptAssumption DEF Control, Types
    <3> QED
      BY <3>1 DEF CallFits
  <2> QED
    BY <2>1, <2>3, <2>4 DEF Types, TypeOK
<1> QED
  BY <1>1, <1>2, <1>3, PTL DEF Spec

(* The reference count of a wait object is the number of places that can   *)
(* still reach it, whatever the order of time-outs, SetEvents and          *)
(* clean-ups: PEvents!RefCountExact.                                       *)
THEOREM EventsRefCount == Spec => []RefCountExact
<1>1. Init => Control /\ RefInv /\ LastUser
  BY ControlInit, RefInit
<1>2. Control /\ RefInv /\ LastUser /\ [Next]_vars => (Control /\ RefInv /\ LastUser)'
  BY ControlStep, RefStep, LastUserStep
<1>3. RefInv => RefCountExact
  BY DEF RefInv
<1> QED
  BY <1>1, <1>2, <1>3, PTL DEF Spec

-----------------------------------------------------------------------------
(* Signals of auto-reset events                                            *)

LEMMA WaitersFinite == IsFiniteSet(Waiters)
<1> DEFINE Of(t) == {t} \X (1..Len(Script[t]))
           S == {Of(t) : t \in Threads}
<1>1. ASSUME NEW t \in Threads PROVE IsFiniteSet(Of(t))
  <2>1. IsFiniteSet({t})
    BY FS_Singleton
  <2>2. Len(Script[t]) \in Int /\ 1 \in Int
    BY ScriptAssumption
  <2>3. IsFiniteSet(1..Len(Script[t]))
    BY <2>2, FS_Interval
  <2> QED
    BY <2>1, <2>3, FS_Product
<1>2. IsFiniteSet(S)
  <2>0. PICK n \in Nat : ExistsSurjection(1..n, Threads)
    BY EventsAssumption, FS_NatSurjection
  <2>1. PICK f : f \in Surjection(1..n, Threads)
    BY <2>0 DEF ExistsSurjection
  <2> DEFINE g == [i \in 1..n |-> Of(f[i])]
  <2>2. f \in [1..n -> Threads] /\ \A t \in Threads : \E i \in 1..n : f[i] = t
    BY <2>1 DEF Surjection
  <2>3. g \in [1..n -> S] /\ \A x \in S : \E i \in 1..n : g[i] = x
    BY <2>2
  <2>4. g \in Surjection(1..n, S)
    BY <2>3 DEF Surjection
  <2> HIDE DEF S, g
  <2> QED
    BY <2>4, FS_NatSurjection DEF ExistsSurjection
<1>3. \A x \in S : IsFiniteSet(x)
  BY <1>1
<1>4. Waiters = UNION S
  BY DEF Waiters
<1> HIDE DEF S
<1> QED
  BY <1>2, <1>3, <1>4, FS_UNION

LEMMA TakersFinite ==
  ASSUME NEW e
  PROVE  IsFiniteSet(Takers(e)) /\ Cardinality(Takers(e)) \in Nat
<1>1. Takers(e) \subseteq Waiters
  BY DEF Takers
<1> QED
  BY <1>1, WaitersFinite, FS_Subset, FS_CardinalityType

(* A consumed signal has one more taker at most.                           *)
LEMMA ConsumeTakers ==
  ASSUME Types, NEW w \in Waiters, NEW e \in AutoReset, Consume(w, e), NEW x \in AutoReset
  PROVE  /\ x # e => Takers(x)' = Takers(x)
         /\ Cardinality(Takers(e))' <= Cardinality(Takers(e)) + 1 /\ Cardinality(Takers(e))' \in Nat
<1>1. taken' = [taken EXCEPT ![w] = @ \cup {e}]
  BY DEF Consume
<1>2. taken'[w] = taken[w] \cup {e} /\ \A v \in Waiters \ {w} : taken'[v] = taken[v]
  BY <1>1 DEF Types
<1>3. x # e => Takers(x)' = Takers(x)
  BY <1>2 DEF Takers
<1>4. Takers(e)' = Takers(e) \cup {w}
  BY <1>2 DEF Takers
<1>5. /\ IsFiniteSet(Takers(e)) /\ Cardinality(Takers(e)) \in Nat
      /\ Cardinality(Takers(e) \cup {w}) = IF w \in Takers(e) THEN Cardinality(Takers(e)) ELSE Cardinality(Takers(e)) + 1
  BY TakersFinite, FS_AddElement
<1> QED
  BY <1>3, <1>4, <1>5

LEMMA GivingHolds ==
  ASSUME Control, NEW e \in Events, Giving(e)
  PROVE  eMutex[e] # Nobody
  BY ScriptAssumption DEF Giving, GivingPcs, HoldPcs, Control, Held

(* A step after which the event has no signal that it did not have before. *)
LEMMA GivenOnceKept ==
  ASSUME Control, Control', NEW e \in AutoReset, GivenOnce(e), taken' = taken, sets'[e] >= sets[e],
         state'[e] \/ Giving(e)' => state[e] \/ Giving(e) \/ sets'[e] >= sets[e] + 1,
         state'[e] => registered'[e] = <<>>
  PROVE  GivenOnce(e)'
<1>1. e \in Events /\ sets[e] \in Nat /\ sets'[e] \in Nat
  BY EventsAssumption DEF Control, Types
<1>2. Cardinality(Takers(e)) \in Nat /\ Takers(e)' = Takers(e)
  BY TakersFinite DEF Takers
<1> DEFINE c == Cardinality(Takers(e))  i == IF e \in InitiallySet THEN 1 ELSE 0
<1>3. c + (IF state[e] \/ Giving(e) THEN 1 ELSE 0) <= sets[e] + i
  BY DEF GivenOnce
<1>4. c + (IF state'[e] \/ Giving(e)' THEN 1 ELSE 0) <= sets'[e] + i
  <2> HIDE DEF c
  <2>1. c \in Nat /\ i \in Nat
    BY <1>2 DEF c
  <2> HIDE DEF i
  <2> QED
    BY <2>1, <1>1, <1>3
<1> QED
  BY <1>2, <1>4 DEF GivenOnce

(* Somebody takes the signal there is.                                     *)
LEMMA GivenOnceTaken ==
  ASSUME Control, Control', NEW e \in AutoReset, GivenOnce(e), NEW w \in Waiters, Consume(w, e), sets' = sets,
         state[e] \/ Giving(e), ~state'[e], ~Giving(e)'
  PROVE  GivenOnce(e)'
<1>1. e \in Events /\ sets[e] \in Nat
  BY EventsAssumption DEF Control, Types
<1>2. /\ Cardinality(Takers(e)) \in Nat /\ Cardinality(Takers(e))' \in Nat
      /\ Cardinality(Takers(e))' <= Cardinality(Takers(e)) + 1
  BY TakersFinite, ConsumeTakers DEF Control
<1>3. Cardinality(Takers(e)) + 1 <= sets[e] + (IF e \in InitiallySet THEN 1 ELSE 0)
  BY DEF GivenOnce
<1>4. Cardinality(Takers(e))' + 0 <= sets'[e] + (IF e \in InitiallySet THEN 1 ELSE 0)
  BY <1>1, <1>2, <1>3
<1> QED
  BY <1>4 DEF GivenOnce

(* A wait obtains an event with its Mutex: nobody gives its signals then.  *)
LEMMA GivenOnceObtain ==
  ASSUME Control, Control', NEW t \in Threads, pc[t] # "idle", NEW x \in Events, Obtain(t, x), state[x],
         eMutex[x] = Nobody, eMutex' = eMutex, sets' = sets,
         \A e \in Events \ {x} : registered'[e] = registered[e],
         NEW e \in AutoReset, GivenOnce(e), Giving(e)' => Giving(e)
  PROVE  GivenOnce(e)'
<1>1. e \in Events /\ sets[e] \in Nat /\ W(t) \in Waiters /\ Types
  BY EventsAssumption, WaitOf DEF Control, Types
<1>2. /\ e # x => state'[e] = state[e]
      /\ state'[x] => x \notin AutoReset
  BY <1>1 DEF Obtain, Types
<1>3. CASE e = x
  <2>1. ~Giving(e)'
    BY <1>1, <1>3, GivingHolds
  <2> QED
    BY <2>1, <1>1, <1>2, <1>3, GivenOnceTaken DEF Obtain
<1>4. CASE e # x /\ taken' = taken
  BY <1>1, <1>2, <1>4, GivenOnceKept DEF GivenOnce
<1>5. CASE e # x /\ x \in AutoReset
  <2>1. Takers(e)' = Takers(e)
    BY <1>1, <1>5, ConsumeTakers DEF Obtain
  <2>2. Cardinality(Takers(e)) \in Nat
    BY TakersFinite
  <2>3. /\ Cardinality(Takers(e)) + (IF state[e] \/ Giving(e) THEN 1 ELSE 0)
             <= sets[e] + (IF e \in InitiallySet THEN 1 ELSE 0)
        /\ state[e] => registered[e] = <<>>
    BY DEF GivenOnce
  <2>4. /\ Cardinality(Takers(e))' + (IF state'[e] \/ Giving(e)' THEN 1 ELSE 0)
             <= sets'[e] + (IF e \in InitiallySet THEN 1 ELSE 0)
        /\ state'[e] => registered'[e] = <<>>
    BY <2>1, <2>2, <2>3, <1>1, <1>2, <1>5
  <2> QED
    BY <2>4 DEF GivenOnce
<1> QED
  BY <1>3, <1>4, <1>5 DEF Obtain, Consume

GiverSame(u) == pc'[u] \in GivingPcs => pc[u] \in GivingPcs /\ call'[u] = call[u] /\ pos'[u] = pos[u]

LEMMA GiversSame ==
  ASSUME \A u \in Threads : GiverSame(u), NEW e, Giving(e)'
  PROVE  Giving(e)
  BY DEF GiverSame, Giving, E

LEMMA WokenGiver ==
  ASSUME NEW u, Woken(u), call'[u] = call[u], pos'[u] = pos[u]
  PROVE  GiverSame(u)
  BY DEF Woken, GiverSame, GivingPcs

LEMMA GivenOnceFrame ==
  ASSUME Control, Control', NEW e \in AutoReset, GivenOnce(e), UNCHANGED <<taken, sets>>,
         state'[e] => state[e] \/ Giving(e), \A u \in Threads : GiverSame(u),
         state'[e] => registered'[e] = <<>>
  PROVE  GivenOnce(e)'
<1>1. e \in Events /\ sets[e] \in Nat
  BY EventsAssumption DEF Control, Types
<1>2. sets'[e] >= sets[e]
  BY <1>1
<1>3. Giving(e)' => Giving(e)
  BY GiversSame
<1> QED
  BY <1>2, <1>3, GivenOnceKept

LEMMA GivenOnceSetLock ==
  ASSUME Control, Control', NEW t \in Threads, SetLock(t), NEW e \in AutoReset, GivenOnce(e)
  PROVE  GivenOnce(e)'
<1>1. /\ E(t) \in Events /\ e \in Events /\ UNCHANGED <<registered, call, pos, taken>>
      /\ sets' = [sets EXCEPT ![E(t)] = @ + 1] /\ sets \in [Events -> Nat]
      /\ pc' = [pc EXCEPT ![t] = "scan"]
  BY FirstEvent, EventsAssumption DEF SetLock, Goto, WaitingPcs, Control, Types
<1>2. state'[e] => state[e]
  BY <1>1 DEF SetLock, Control, Types
<1>3. \A u \in Threads \ {t} : GiverSame(u)
  BY <1>1 DEF GiverSame, Control, Types
<1>4. CASE e = E(t)
  <2>1. sets'[e] = sets[e] + 1 /\ sets[e] \in Nat
    BY <1>1, <1>4
  <2>2. sets'[e] >= sets[e] + 1 /\ sets'[e] >= sets[e]
    BY <2>1
  <2>3. state'[e] => registered'[e] = <<>>
    BY <1>1, <1>2 DEF GivenOnce
  <2> QED
    BY <2>2, <2>3, <1>1, GivenOnceKept
<1>5. CASE e # E(t)
  <2>1. sets'[e] = sets[e] /\ sets[e] \in Nat
    BY <1>1, <1>5
  <2>2. Giving(e)' => Giving(e)
    BY <1>1, <1>3, <1>5 DEF Giving, GiverSame, E
  <2>3. sets'[e] >= sets[e] /\ (state'[e] => registered'[e] = <<>>)
    BY <2>1, <1>1, <1>2 DEF GivenOnce
  <2> QED
    BY <2>2, <2>3, <1>1, <1>2, GivenOnceKept
<1> QED
  BY <1>4, <1>5

LEMMA GivenOnceSetFire ==
  ASSUME Control, Control', NEW t \in Threads, SetFire(t), NEW e \in AutoReset, GivenOnce(e)
  PROVE  GivenOnce(e)'
<1> DEFINE x == E(t)
<1>1. /\ pc[t] = "fire" /\ x \in Events /\ e \in Events /\ registered[x] # <<>> /\ Head1(x) \in Waiters /\ Types
      /\ eMutex[x] = t /\ UNCHANGED <<state, eMutex, registered, call, pos, sets>>
  BY FirstEvent, HeadWait, EventsAssumption DEF SetFire, HoldPcs, WaitingPcs, Control, Held
<1>2. \A u \in Threads \ {t} : pc'[u] = pc[u]
  BY DEF SetFire, Goto, Control, Types
<1>3. CASE Consume(Head1(x), x) /\ Goto(t, "signal")
  <2>1. pc'[t] = "signal"
    BY <1>3 DEF Goto, Control, Types
  <2>2. \A u \in Threads : GiverSame(u)
    BY <2>1, <1>1, <1>2 DEF GiverSame, GivingPcs
  <2>3. CASE e = x
    <3>1. Giving(e) /\ ~state[e]
      BY <2>3, <1>1 DEF Giving, GivingPcs, GivenOnce
    <3>2. ~Giving(e)'
      <4> SUFFICES ASSUME NEW u \in Threads, pc'[u] \in GivingPcs, E(u)' = e PROVE FALSE
        BY DEF Giving
      <4>1. u # t /\ pc[u] \in GivingPcs /\ E(u) = e
        BY <2>1, <2>2, <1>1 DEF GiverSame, GivingPcs, E
      <4>2. eMutex[e] = u
        BY <4>1, <1>1 DEF Control, Held, GivingPcs, HoldPcs
      <4> QED
        BY <4>1, <4>2, <2>3, <1>1
    <3>3. ~state'[e]
      BY <3>1, <1>1
    <3> HIDE DEF x
    <3> QED
      BY <3>1, <3>2, <3>3, <2>3, <1>1, <1>3, GivenOnceTaken
  <2>4. CASE e # x
    <3>1. Takers(e)' = Takers(e)
      <4>1. CASE x \in AutoReset
        BY <4>1, <2>4, <1>1, <1>3, ConsumeTakers
      <4>2. CASE x \notin AutoReset
        BY <4>2, <1>3 DEF Consume, Takers
      <4> QED
        BY <4>1, <4>2
    <3>2. Giving(e)' => Giving(e)
      BY <2>2, GiversSame
    <3>3. Cardinality(Takers(e)) \in Nat /\ sets[e] \in Nat
      BY <1>1, TakersFinite DEF Types
    <3> HIDE DEF x
    <3>4. /\ Cardinality(Takers(e))' + (IF state'[e] \/ Giving(e)' THEN 1 ELSE 0)
               <= sets'[e] + (IF e \in InitiallySet THEN 1 ELSE 0)
          /\ state'[e] => registered'[e] = <<>>
      BY <3>1, <3>2, <3>3, <1>1 DEF GivenOnce
    <3> QED
      BY <3>4 DEF GivenOnce
  <2> QED
    BY <2>3, <2>4
<1>4. CASE Goto(t, "drop") /\ UNCHANGED taken
  <2>1. \A u \in Threads : GiverSame(u)
    BY <1>1, <1>2, <1>4 DEF Goto, GiverSame, GivingPcs, Control, Types
  <2> QED
    BY <2>1, <1>1, <1>4, GivenOnceFrame DEF GivenOnce
<1> QED
  BY <1>3, <1>4 DEF SetFire

LEMMA GivenOnceScan ==
  ASSUME Control, Control', NEW t \in Threads, SetScan(t), NEW e \in AutoReset, GivenOnce(e)
  PROVE  GivenOnce(e)'
<1>1. pc[t] = "scan" /\ E(t) \in Events /\ e \in Events /\ UNCHANGED <<call, pos, taken, sets>> /\ Types
  BY FirstEvent, EventsAssumption DEF SetScan, WaitingPcs, Control
<1>2. \A u \in Threads : GiverSame(u)
  BY <1>1 DEF SetScan, Goto, GiverSame, GivingPcs, Types
<1>3. Giving(E(t))
  BY <1>1 DEF Giving, GivingPcs
<1>4. CASE registered[E(t)] = <<>> /\ state' = [state EXCEPT ![E(t)] = @ \/ E(t) \in AutoReset] /\ UNCHANGED registered
  <2>1. state'[e] => state[e] \/ Giving(e)
    BY <1>1, <1>3, <1>4 DEF Types
  <2>2. state'[e] => registered'[e] = <<>>
    BY <1>1, <1>4 DEF Types, GivenOnce
  <2> QED
    BY <2>1, <2>2, <1>1, <1>2, GivenOnceFrame
<1>5. CASE registered[E(t)] # <<>> /\ registered' = [registered EXCEPT ![E(t)] = Tail(@)] /\ UNCHANGED state
  <2>1. state'[e] => registered'[e] = <<>>
    BY <1>1, <1>5 DEF Types, GivenOnce
  <2> QED
    BY <2>1, <1>1, <1>2, <1>5, GivenOnceFrame
<1>6. CASE UNCHANGED <<state, registered>>
  BY <1>1, <1>2, <1>6, GivenOnceFrame DEF GivenOnce
<1> QED
  BY <1>4, <1>5, <1>6 DEF SetScan

(* Registrations are only added to an event that is not set, and a SetEvent *)
(* that goes through them removes them under the event's Mutex.            *)
LEMMA GivenOnceRegister ==
  ASSUME Control, Control', NEW t \in Threads, RegisterLocked(t), NEW e \in AutoReset, GivenOnce(e)
  PROVE  GivenOnce(e)'
<1>1. /\ pc[t] = "regLock" /\ pos[t] <= Len(call[t].evs) /\ pc[t] # "idle" /\ e \in Events /\ Types
      /\ UNCHANGED <<eMutex, call, sets>> /\ eMutex[E(t)] = Nobody
  BY EventsAssumption DEF RegisterLocked, Control, CallFits, LoopPcs
<1>2. E(t) \in Events
  BY <1>1, EventOf
<1>3. \A u \in Threads : GiverSame(u)
  BY <1>1 DEF RegisterLocked, Satisfied, Goto, GiverSame, GivingPcs, Types
<1>4. \A x \in Events \ {E(t)} : registered'[x] = registered[x]
  BY <1>1 DEF RegisterLocked, Types
<1>5. CASE state[E(t)] /\ Obtain(t, E(t))
  <2>1. Giving(e)' => Giving(e)
    BY <1>3, GiversSame
  <2> QED
    BY <2>1, <1>1, <1>2, <1>4, <1>5, GivenOnceObtain
<1>6. CASE ~state[E(t)] /\ UNCHANGED <<state, taken>>
  <2>1. state'[e] => registered'[e] = <<>>
    BY <1>1, <1>4, <1>6 DEF GivenOnce
  <2> QED
    BY <2>1, <1>1, <1>3, <1>6, GivenOnceFrame
<1> QED
  BY <1>5, <1>6 DEF RegisterLocked

LEMMA GivenOnceWaitLocked ==
  ASSUME Control, Control', NEW t \in Threads, WaitLocked(t), NEW e \in AutoReset, GivenOnce(e)
  PROVE  GivenOnce(e)'
<1>1. /\ pc[t] \in {"waitLock", "relock"} /\ pc[t] # "idle" /\ e \in Events /\ Types
      /\ UNCHANGED <<eMutex, registered, call, pos, sets>> /\ eMutex[E(t)] = Nobody /\ E(t) \in Events
  BY FirstEvent, EventsAssumption DEF WaitLocked, Control, WaitingPcs
<1>2. \A u \in Threads : GiverSame(u)
  BY <1>1 DEF WaitLocked, Goto, GiverSame, GivingPcs, Types
<1>3. CASE state[E(t)] /\ Obtain(t, E(t))
  <2>1. Giving(e)' => Giving(e)
    BY <1>2, GiversSame
  <2> QED
    BY <2>1, <1>1, <1>3, GivenOnceObtain
<1>4. CASE UNCHANGED <<state, taken>>
  BY <1>1, <1>2, <1>4, GivenOnceFrame DEF GivenOnce
<1> QED
  BY <1>3, <1>4 DEF WaitLocked

LEMMA GivenOnceUnref ==
  ASSUME Control, Control', NEW t \in Threads, SetUnref(t), NEW e \in AutoReset, GivenOnce(e)
  PROVE  GivenOnce(e)'
<1>1. /\ pc[t] \in {"fired", "drop"} /\ E(t) \in Events /\ e \in Events /\ Types /\ registered[E(t)] # <<>>
      /\ UNCHANGED <<state, call, pos, taken, sets>>
      /\ registered' = [registered EXCEPT ![E(t)] = Tail(@)]
  BY FirstEvent, EventsAssumption DEF SetUnref, WaitingPcs, Control, Held, HoldPcs
<1>2. \A u \in Threads \ {t} : pc'[u] = pc[u]
  BY <1>1 DEF SetUnref, Goto, Types
<1>3. pc'[t] \in GivingPcs => pc[t] = "drop" \/ E(t) \notin AutoReset
  BY <1>1 DEF SetUnref, Goto, Finish, GivingPcs, Types
<1>4. Giving(e)' => Giving(e)
  BY <1>1, <1>2, <1>3 DEF Giving, GivingPcs, E
<1>5. state'[e] => state[e] /\ registered'[e] = <<>>
  BY <1>1 DEF GivenOnce, Types
<1>6. sets'[e] >= sets[e]
  BY <1>1 DEF Types
<1> QED
  BY <1>1, <1>4, <1>5, <1>6, GivenOnceKept

(* The steps that have nothing to do with the signals of auto-reset events. *)
LEMMA GivenOnceOthers ==
  ASSUME Control, Control', LastUser, NEW t \in Threads,
         \/ Begin(t) \/ WaitFastPath(t) \/ RegisterUnlocked(t) \/ CheckDone(t) \/ WaitReturn(t)
         \/ SetSignal(t) \/ SetNotify(t) \/ Reset(t) \/ Destroy(t) \/ Expire(t) \/ SpuriousWake(t),
         NEW e \in AutoReset, GivenOnce(e)
  PROVE  GivenOnce(e)'
<1> DEFINE Same == \A u \in Threads : GiverSame(u)
<1>0. e \in Events /\ Types
  BY EventsAssumption DEF Control
<1>1. CASE Same /\ UNCHANGED <<state, registered, taken, sets>>
  BY <1>1, GivenOnceFrame DEF GivenOnce
<1>2. Begin(t) => Same /\ UNCHANGED <<state, registered, taken, sets>>
  <2> SUFFICES ASSUME Begin(t) PROVE Same /\ UNCHANGED <<state, registered, taken, sets>>
    OBVIOUS
  <2>1. PICK c \in Script[t][calls[t] + 1] :
          call' = [call EXCEPT ![t] = c] /\ Goto(t, EntryPoint[c.op])
    BY DEF Begin
  <2>2. c.op \in Ops
    <3>1. calls[t] + 1 \in DOMAIN Script[t]
      BY <1>0, ScriptAssumption DEF Begin, Types
    <3> QED
      BY <3>1, ScriptAssumption DEF Calls
  <2>3. EntryPoint[c.op] \notin GivingPcs
    BY <2>2 DEF EntryPoint, GivingPcs, Ops, WaitOps
  <2>4. \A u \in Threads \ {t} : GiverSame(u)
    BY <2>1, <1>0 DEF Begin, Goto, GiverSame, Types
  <2>5. GiverSame(t)
    BY <2>1, <2>3, <1>0 DEF Goto, GiverSame, Types
  <2> QED
    BY <2>4, <2>5 DEF Begin
<1>3. WaitFastPath(t) => Same /\ UNCHANGED <<state, registered, taken, sets>>
  BY <1>0 DEF WaitFastPath, Goto, GiverSame, GivingPcs, Types
<1>4. RegisterUnlocked(t) => Same /\ UNCHANGED <<state, registered, taken, sets>>
  <2> SUFFICES ASSUME RegisterUnlocked(t) PROVE Same
    BY DEF RegisterUnlocked
  <2>1. pc'[t] \in {"check", "register", "regLock"}
    BY <1>0 DEF RegisterUnlocked, Satisfied, Goto, Types
  <2>2. \A u \in Threads \ {t} : pc'[u] = pc[u] /\ call'[u] = call[u] /\ pos'[u] = pos[u]
    BY <1>0 DEF RegisterUnlocked, Satisfied, Goto, Types
  <2> QED
    BY <2>1, <2>2 DEF GiverSame, GivingPcs
<1>5. CheckDone(t) => Same /\ UNCHANGED <<state, registered, taken, sets>>
  BY <1>0 DEF CheckDone, Goto, GiverSame, GivingPcs, Types
<1>6. WaitReturn(t) => Same /\ UNCHANGED <<state, registered, taken, sets>>
  BY <1>0 DEF WaitReturn, Goto, GiverSame, GivingPcs, Types
<1>7. SetSignal(t) => Same /\ UNCHANGED <<state, registered, taken, sets>>
  <2> SUFFICES ASSUME SetSignal(t) PROVE Same
    BY DEF SetSignal
  <2>1. UNCHANGED <<call, pos>> /\ pc[t] = "signal"
    BY DEF SetSignal
  <2>2. \A u \in Threads \ {t} : Woken(u)
    BY StepPcs DEF Step
  <2>3. GiverSame(t)
    BY <2>1, <1>0 DEF SetSignal, GiverSame, GivingPcs, Types
  <2> QED
    BY <2>1, <2>2, <2>3, WokenGiver
<1>8. SetNotify(t) => Same /\ UNCHANGED <<state, registered, taken, sets>>
  <2> SUFFICES ASSUME SetNotify(t) PROVE Same
    BY DEF SetNotify
  <2>1. UNCHANGED <<call, pos>> /\ pc[t] = "notify"
    BY DEF SetNotify
  <2>2. \A u \in Threads \ {t} : Woken(u)
    BY StepPcs DEF Step
  <2>3. pc'[t] \notin GivingPcs
    BY <2>1 DEF SetNotify, Finish, GivingPcs
  <2> QED
    BY <2>1, <2>2, <2>3, WokenGiver DEF GiverSame
<1>9. ASSUME Reset(t) PROVE GivenOnce(e)'
  <2>1. Same
    BY <1>0, <1>9 DEF Reset, Goto, GiverSame, GivingPcs, Types
  <2>2. state'[e] => state[e] /\ registered'[e] = <<>>
    BY <1>0, <1>9 DEF Reset, GivenOnce, Types
  <2> QED
    BY <2>1, <2>2, <1>9, GivenOnceFrame DEF Reset
<1>10. ASSUME Destroy(t) PROVE GivenOnce(e)'
  <2>1. Same
    BY <1>0, <1>10 DEF Destroy, Goto, GiverSame, GivingPcs, Types
  <2>2. state'[e] => state[e] /\ registered'[e] = <<>>
    BY <1>0, <1>10 DEF Destroy, GivenOnce, Types
  <2> QED
    BY <2>1, <2>2, <1>10, GivenOnceFrame DEF Destroy
<1>11. Expire(t) \/ SpuriousWake(t) => Same /\ UNCHANGED <<state, registered, taken, sets>>
  BY <1>0 DEF Expire, SpuriousWake, Goto, GiverSame, GivingPcs, Types
<1> QED
  BY <1>1, <1>2, <1>3, <1>4, <1>5, <1>6, <1>7, <1>8, <1>9, <1>10, <1>11

GivenInv == \A e \in AutoReset : GivenOnce(e)

LEMMA GivenInit == Init => GivenInv
<1> SUFFICES ASSUME Init, NEW e \in AutoReset PROVE GivenOnce(e)
  BY DEF GivenInv
<1>1. e \in Events
  BY EventsAssumption
<1>2. Takers(e) = {}
  BY DEF Init, Takers
<1>3. ~Giving(e)
  BY DEF Init, Giving, GivingPcs
<1>4. Cardinality(Takers(e)) = 0 /\ sets[e] = 0 /\ registered[e] = <<>> /\ (state[e] <=> e \in InitiallySet)
  BY <1>1, <1>2, FS_EmptySet DEF Init
<1> QED
  BY <1>3, <1>4 DEF GivenOnce

LEMMA GivenStep == Control /\ Control' /\ LastUser /\ GivenInv /\ [Next]_vars => GivenInv'
<1> SUFFICES ASSUME Control, Control', LastUser, GivenInv, [Next]_vars, NEW e \in AutoReset PROVE GivenOnce(e)'
  BY DEF GivenInv
<1>1. GivenOnce(e)
  BY DEF GivenInv
<1>2. CASE UNCHANGED vars
  BY <1>1, <1>2 DEF vars, GivenOnce, Giving, Takers, E
<1>3. CASE Next
  BY <1>1, <1>3, GivenOnceSetLock, GivenOnceSetFire, GivenOnceScan, GivenOnceRegister,
     GivenOnceWaitLocked, GivenOnceUnref, GivenOnceOthers DEF Next, Step
<1> QED
  BY <1>2, <1>3

(* One SetEvent of an auto-reset event lets at most one wait through:      *)
(* PEvents!AutoResetExclusive.                                             *)
THEOREM EventsExclusive == Spec => []AutoResetExclusive
<1>1. Init => Control /\ LastUser /\ GivenInv
  BY ControlInit, RefInit, GivenInit
<1>2. Control /\ LastUser /\ GivenInv /\ [Next]_vars => (Control /\ LastUser /\ GivenInv)'
  BY ControlStep, LastUserStep, GivenStep
<1>3. Control /\ GivenInv => AutoResetExclusive
  <2> SUFFICES ASSUME Control, GivenInv, NEW e \in AutoReset
               PROVE  Cardinality({w \in Waiters : e \in taken[w]}) + (IF state[e] THEN 1 ELSE 0)
                        <= sets[e] + (IF e \in InitiallySet THEN 1 ELSE 0)
    BY DEF AutoResetExclusive
  <2>1. Cardinality(Takers(e)) \in Nat /\ sets[e] \in Nat
    BY TakersFinite, EventsAssumption DEF Control, Types
  <2>2. Cardinality(Takers(e)) + (IF state[e] THEN 1 ELSE 0) <= sets[e] + (IF e \in InitiallySet THEN 1 ELSE 0)
    BY <2>1 DEF GivenInv, GivenOnce
  <2> QED
    BY <2>2 DEF Takers
<1> QED
  BY <1>1, <1>2, <1>3, PTL DEF Spec

-----------------------------------------------------------------------------
(* EventsLeft of a wait-all                                                *)

(* EventsLeftExact for one wait - a freed one is none for all events -,    *)
(* and what it hangs on: SetEvent lets a registration go without reporting *)
(* only when its wait is over.                                             *)
Left(w) == Cardinality(Unreported(w)) + Unvisited(w)
LeftOf(w) == wfmo[w].all => IF wfmo[w].still THEN wfmo[w].status = Left(w) ELSE wfmo[w].status >= Left(w)
DropOf(t) == pc[t] = "drop" => ~wfmo[Head1(E(t))].still
LeftInv == /\ \A w \in Waiters : LeftOf(w)
           /\ \A t \in Threads : DropOf(t)

ReportPcs == {"signal", "fired"}

LEMMA UnreportedIs ==
  ASSUME NEW w, NEW e \in Events
  PROVE  e \in Unreported(w) <=> On(registered[e], w) /\ ~(Reporting(e) /\ Head1(e) = w)
  BY RegisteredOn DEF Unreported, RegisteredAt

(* Only the thread with an event's Mutex reports it.                       *)
LEMMA Reporter ==
  ASSUME Control, NEW e \in Events
  PROVE  /\ eMutex[e] = Nobody => ~Reporting(e)
         /\ \A t \in Threads : pc[t] \in HoldPcs /\ E(t) = e => (Reporting(e) <=> pc[t] \in ReportPcs)
<1>1. ASSUME NEW u \in Threads, pc[u] \in ReportPcs, E(u) = e PROVE eMutex[e] = u
  BY <1>1 DEF Control, Held, HoldPcs, ReportPcs
<1>2. ASSUME NEW t \in Threads, pc[t] \in HoldPcs, E(t) = e PROVE eMutex[e] = t
  BY <1>2 DEF Control, Held
<1> QED
  BY <1>1, <1>2, ScriptAssumption DEF Reporting, ReportPcs

ReportSame(u) == /\ pc'[u] \in ReportPcs <=> pc[u] \in ReportPcs
                 /\ pc[u] \in ReportPcs => call'[u] = call[u] /\ pos'[u] = pos[u]

LEMMA ReportingSame ==
  ASSUME \A u \in Threads : ReportSame(u)
  PROVE  \A e : Reporting(e)' <=> Reporting(e)
  BY DEF ReportSame, ReportPcs, Reporting, E

LEMMA WokenReport ==
  ASSUME NEW u, Woken(u), call'[u] = call[u], pos'[u] = pos[u]
  PROVE  ReportSame(u)
  BY DEF Woken, ReportSame, ReportPcs

LEMMA UnreportedSame ==
  ASSUME \A u \in Threads : ReportSame(u), registered' = registered, NEW w
  PROVE  Unreported(w)' = Unreported(w)
<1>1. \A e \in Events : (e \in Unreported(w) <=> On(registered[e], w) /\ ~(Reporting(e) /\ Head1(e) = w))
  BY UnreportedIs
<1>2. \A e \in Events : (e \in Unreported(w)' <=> On(registered'[e], w) /\ ~(Reporting(e)' /\ Head1(e)' = w))
  BY RegisteredOn DEF Unreported, RegisteredAt, On
<1>3. \A e : Head1(e)' = Head1(e)
  BY DEF Head1
<1>4. Unreported(w) \subseteq Events /\ Unreported(w)' \subseteq Events
  BY DEF Unreported, RegisteredAt
<1> QED
  BY <1>1, <1>2, <1>3, <1>4, ReportingSame

LEMMA ReportingElse ==
  ASSUME NEW t \in Threads, UNCHANGED <<call, pos>>, \A u \in Threads \ {t} : ReportSame(u), NEW x, x # E(t)
  PROVE  Reporting(x)' <=> Reporting(x)
  BY DEF ReportSame, ReportPcs, Reporting, E

(* A step that touches what is registered at one event, or who reports it. *)
LEMMA UnreportedElse ==
  ASSUME NEW e \in Events,
         \A x \in Events \ {e} : registered'[x] = registered[x] /\ (Reporting(x)' <=> Reporting(x)),
         NEW w
  PROVE  /\ e \in Unreported(w)' <=> On(registered'[e], w) /\ ~(Reporting(e)' /\ Head1(e)' = w)
         /\ \A x \in Events \ {e} : x \in Unreported(w)' <=> x \in Unreported(w)
         /\ (e \in Unreported(w)' <=> e \in Unreported(w)) => Unreported(w)' = Unreported(w)
         /\ (e \in Unreported(w)' => e \in Unreported(w)) => Unreported(w)' \subseteq Unreported(w)
         /\ e \in Unreported(w) /\ e \notin Unreported(w)' => Unreported(w)' = Unreported(w) \ {e}
         /\ e \notin Unreported(w) /\ e \in Unreported(w)' => Unreported(w)' = Unreported(w) \cup {e}
<1>1. \A x \in Events : (x \in Unreported(w) <=> On(registered[x], w) /\ ~(Reporting(x) /\ Head1(x) = w))
  BY UnreportedIs
<1>2. \A x \in Events : (x \in Unreported(w)' <=> On(registered'[x], w) /\ ~(Reporting(x)' /\ Head1(x)' = w))
  BY RegisteredOn DEF Unreported, RegisteredAt, On
<1>3. \A x \in Events \ {e} : Head1(x)' = Head1(x)
  BY DEF Head1
<1>4. \A x \in Events \ {e} : x \in Unreported(w)' <=> x \in Unreported(w)
  BY <1>1, <1>2, <1>3
<1>5. Unreported(w) \subseteq Events /\ Unreported(w)' \subseteq Events
  BY DEF Unreported, RegisteredAt
<1> QED
  BY <1>2, <1>4, <1>5

LEMMA UnreportedFinite ==
  ASSUME NEW w
  PROVE  IsFiniteSet(Unreported(w)) /\ Cardinality(Unreported(w)) \in Nat
<1>1. Unreported(w) \subseteq Events
  BY DEF Unreported, RegisteredAt
<1> QED
  BY <1>1, EventsAssumption, FS_Subset, FS_CardinalityType

LEMMA UnvisitedSame ==
  ASSUME Control, NEW w \in Waiters
  PROVE  /\ Unvisited(w) \in Int
         /\ Apart(w) => Unvisited(w)' = Unvisited(w)
<1>1. w[1] \in Threads
  BY WaitersAre
<1>2. pos[w[1]] \in Nat /\ Len(call[w[1]].evs) \in Nat
  BY <1>1 DEF Control, Types, Calls
<1>3. Apart(w) => (InWait(w)' <=> InWait(w))
  BY OwnSame
<1>4. Apart(w) => Unvisited(w)' = Unvisited(w)
  BY <1>3 DEF Apart, SameCall, Unvisited
<1>5. Unvisited(w) \in Int
  <2>1. PICK a \in Nat, b \in Nat : a = Len(call[w[1]].evs) /\ b = pos[w[1]]
    BY <1>2
  <2>2. Unvisited(w) = IF InWait(w) THEN a + 1 - b ELSE 0
    BY <2>1 DEF Unvisited
  <2> QED
    BY <2>2
<1> QED
  BY <1>4, <1>5

(* Events are only taken off the list of a wait that is over.              *)
LEMMA LeftKept ==
  ASSUME Control, NEW w \in Waiters, LeftOf(w),
         wfmo'[w].all => wfmo[w].all /\ wfmo'[w].status = wfmo[w].status,
         wfmo'[w].all /\ wfmo'[w].still => wfmo[w].still /\ Unreported(w)' = Unreported(w),
         Unreported(w)' \subseteq Unreported(w), Unvisited(w)' = Unvisited(w)
  PROVE  LeftOf(w)'
<1>1. /\ IsFiniteSet(Unreported(w)) /\ Cardinality(Unreported(w)) \in Nat /\ Cardinality(Unreported(w)') \in Nat
      /\ Cardinality(Unreported(w)') <= Cardinality(Unreported(w))
  <2>1. IsFiniteSet(Unreported(w)) /\ Cardinality(Unreported(w)) \in Nat
    BY UnreportedFinite
  <2>2. PICK S : S = Unreported(w)'
    OBVIOUS
  <2>3. IsFiniteSet(S) /\ Cardinality(S) <= Cardinality(Unreported(w))
    BY <2>1, <2>2, FS_Subset
  <2> QED
    BY <2>1, <2>2, <2>3, FS_CardinalityType
<1>2. Left(w)' = Cardinality(Unreported(w)') + Unvisited(w) /\ Unvisited(w) \in Int
  BY UnvisitedSame DEF Left
<1>3. Left(w) = Cardinality(Unreported(w)) + Unvisited(w) /\ wfmo[w].status \in Int
  BY DEF Left, Control, Types, WaitObject
<1>4. Left(w)' <= Left(w) /\ Left(w) \in Int /\ Left(w)' \in Int
  BY <1>1, <1>2, <1>3
<1>5. wfmo'[w].all /\ wfmo'[w].still => wfmo'[w].status = Left(w)'
  BY <1>2, <1>3 DEF LeftOf
<1>6. wfmo'[w].all /\ ~wfmo'[w].still => wfmo'[w].status >= Left(w)'
  BY <1>3, <1>4 DEF LeftOf
<1> QED
  BY <1>5, <1>6 DEF LeftOf

LEMMA LeftFrame ==
  ASSUME Control, \A u \in Threads : ReportSame(u), registered' = registered, NEW w \in Waiters, LeftOf(w),
         Apart(w), wfmo'[w].all = wfmo[w].all, wfmo'[w].status = wfmo[w].status, wfmo'[w].still => wfmo[w].still
  PROVE  LeftOf(w)'
  BY UnreportedSame, UnvisitedSame, LeftKept

LEMMA DropKept ==
  ASSUME Control, NEW u \in Threads, DropOf(u), pc'[u] = "drop" => pc[u] = "drop",
         call'[u] = call[u], pos'[u] = pos[u],
         pc[u] = "drop" => registered'[E(u)] = registered[E(u)],
         \A w \in Waiters : wfmo'[w].still => wfmo[w].still \/ RegisteredAt(w) = {}
  PROVE  DropOf(u)'
<1> SUFFICES ASSUME pc'[u] = "drop" PROVE ~wfmo'[Head1(E(u))'].still
  BY DEF DropOf
<1>1. E(u)' = E(u) /\ pc[u] = "drop" /\ ~wfmo[Head1(E(u))].still
  BY DEF E, DropOf
<1>2. E(u) \in Events /\ registered[E(u)] # <<>>
  BY <1>1, FirstEvent DEF Control, Held, HoldPcs, WaitingPcs
<1>3. Head1(E(u))' = Head1(E(u))
  BY <1>1 DEF Head1
<1>4. Head1(E(u)) \in Waiters /\ On(registered[E(u)], Head1(E(u)))
  BY <1>2, HeadWait DEF On
<1>5. RegisteredAt(Head1(E(u))) # {}
  BY <1>2, <1>4, OnRegistered
<1> QED
  BY <1>1, <1>3, <1>4, <1>5

(* SetFire reports an event ...                                            *)
LEMMA UnreportedFire ==
  ASSUME Control, NEW t \in Threads, SetFire(t), NEW e \in Events, e = E(t), NEW w
  PROVE  /\ e \in Unreported(Head1(e))
         /\ Unreported(w)' = IF pc'[t] = "signal" /\ w = Head1(e) THEN Unreported(w) \ {e} ELSE Unreported(w)
<1>1. /\ pc[t] = "fire" /\ pc[t] \in HoldPcs /\ pc[t] \notin ReportPcs /\ registered[e] # <<>>
      /\ UNCHANGED <<registered, call, pos>> /\ pc'[t] \in {"signal", "drop"}
  BY DEF SetFire, HoldPcs, ReportPcs, Control, Held, Goto, Types
<1>2. PICK h \in Waiters : h = Head1(e) /\ On(registered[e], h)
  BY <1>1, HeadWait DEF On
<1>3. \A u \in Threads \ {t} : ReportSame(u)
  BY <1>1 DEF SetFire, Goto, Control, Types, ReportSame
<1>4. ~Reporting(e) /\ Head1(e)' = h
  BY <1>1, <1>2, Reporter DEF Head1
<1>5. e \in Unreported(h)
  BY <1>2, <1>4, UnreportedIs
<1>6. CASE pc'[t] = "drop"
  <2>1. ReportSame(t)
    BY <1>1, <1>6 DEF ReportSame, ReportPcs
  <2>2. Unreported(w)' = Unreported(w)
    BY <2>1, <1>1, <1>3, UnreportedSame
  <2> QED
    BY <2>2, <1>2, <1>5, <1>6
<1>7. CASE pc'[t] = "signal"
  <2>1. Reporting(e)'
    <3>1. E(t)' = e
      BY <1>1 DEF E
    <3> QED
      BY <3>1, <1>7 DEF Reporting
  <2>2. \A x \in Events \ {e} : registered'[x] = registered[x] /\ (Reporting(x)' <=> Reporting(x))
    BY <1>1, <1>3, ReportingElse
  <2>3. (e \in Unreported(w) <=> On(registered[e], w)) /\ (e \in Unreported(w)' <=> On(registered[e], w) /\ w # h)
    BY <2>1, <2>2, <1>1, <1>4, UnreportedIs, UnreportedElse
  <2>4. CASE w # h
    <3>1. Unreported(w)' = Unreported(w)
      BY <2>2, <2>3, <2>4, UnreportedElse
    <3> QED
      BY <3>1, <2>4, <1>2, <1>5
  <2>5. CASE w = h
    <3>1. Unreported(w)' = Unreported(w) \ {e}
      BY <2>2, <2>3, <2>5, <1>5, UnreportedElse
    <3> QED
      BY <3>1, <2>5, <1>2, <1>5, <1>7
  <2> QED
    BY <2>4, <2>5
<1> QED
  BY <1>1, <1>6, <1>7

(* ... and lets go of the head of the registrations when it has.           *)
Drops(t, e) ==
  /\ pc[t] \in HoldPcs /\ e = E(t) /\ registered[e] # <<>>
  /\ wfmo' = Unref(wfmo, Head1(e), 1) /\ registered' = [registered EXCEPT ![e] = Tail(@)]
  /\ \A u \in Threads : SameCall(u)
  /\ UNCHANGED <<call, pos>>
  /\ \A u \in Threads \ {t} : ReportSame(u)
  /\ pc'[t] \notin ReportPcs

LEMMA UnreportedDrop ==
  ASSUME Control, RefInv, NEW t \in Threads, NEW e \in Events, Drops(t, e), NEW w
  PROVE  /\ Unreported(w)' \subseteq Unreported(w)
         /\ w # Head1(e) \/ pc[t] \in ReportPcs => Unreported(w)' = Unreported(w)
<1> USE DEF Drops
<1> DEFINE s == registered[e]
<1>1. /\ s \in Seq(Registration) /\ registered'[e] = Tail(s)
      /\ \A x \in Events \ {e} : registered'[x] = registered[x]
  BY HeadWait DEF Control, Types
<1>2. PICK h \in Waiters : h = Head1(e) /\ h = s[1][1]
  BY HeadWait
<1>3. Distinct(s)
  BY RegistrationsOf DEF RefInv
<1>4. On(s, h) /\ ~On(Tail(s), h) /\ \A v : v # h => (On(Tail(s), v) <=> On(s, v))
  BY <1>1, <1>2, <1>3, TailOn
<1>5. ~Reporting(e)'
  <2> SUFFICES ASSUME NEW u \in Threads, pc'[u] \in ReportPcs, E(u)' = e PROVE FALSE
    BY DEF Reporting, ReportPcs
  <2>1. u # t /\ pc[u] \in ReportPcs /\ E(u) = e
    BY DEF ReportSame, E
  <2>2. eMutex[e] = u /\ eMutex[e] = t
    BY <2>1 DEF Control, Held, ReportPcs, HoldPcs
  <2> QED
    BY <2>1, <2>2
<1>6. \A x \in Events \ {e} : registered'[x] = registered[x] /\ (Reporting(x)' <=> Reporting(x))
  BY <1>1, ReportingElse
<1>7. /\ e \in Unreported(w) <=> On(s, w) /\ ~(Reporting(e) /\ h = w)
      /\ e \in Unreported(w)' <=> On(Tail(s), w)
  <2>1. e \in Unreported(w) <=> On(s, w) /\ ~(Reporting(e) /\ Head1(e) = w)
    BY UnreportedIs
  <2>2. e \in Unreported(w)' <=> On(registered'[e], w) /\ ~(Reporting(e)' /\ Head1(e)' = w)
    BY <1>6, UnreportedElse
  <2> HIDE DEF s
  <2> QED
    BY <2>1, <2>2, <1>1, <1>2, <1>5
<1>8. CASE w # h
  BY <1>4, <1>6, <1>7, <1>8, UnreportedElse
<1>9. CASE w = h
  <2>1. Unreported(w)' \subseteq Unreported(w)
    BY <1>4, <1>6, <1>7, <1>9, UnreportedElse
  <2>2. pc[t] \in ReportPcs => Unreported(w)' = Unreported(w)
    BY <1>4, <1>6, <1>7, <1>9, UnreportedElse, Reporter
  <2> QED
    BY <2>1, <2>2, <1>2, <1>9
<1> QED
  BY <1>8, <1>9

(* Expired registrations go.                                               *)
LEMMA UnreportedExpired ==
  ASSUME Control, NEW e \in Events, eMutex[e] = Nobody, NEW s, registered' = [registered EXCEPT ![e] = s],
         \A u \in Threads : ReportSame(u), NEW w \in Waiters,
         On(s, w) => On(registered[e], w), On(registered[e], w) /\ wfmo[w].still => On(s, w)
  PROVE  Unreported(w)' \subseteq Unreported(w) /\ (wfmo[w].still => Unreported(w)' = Unreported(w))
<1>1. /\ registered'[e] = s
      /\ \A x \in Events \ {e} : registered'[x] = registered[x] /\ (Reporting(x)' <=> Reporting(x))
      /\ ~Reporting(e)' /\ ~Reporting(e)
  BY Reporter, ReportingSame DEF Control, Types
<1>2. (e \in Unreported(w) <=> On(registered[e], w)) /\ (e \in Unreported(w)' <=> On(s, w))
  BY <1>1, UnreportedIs, UnreportedElse
<1> QED
  BY <1>1, <1>2, UnreportedElse

(* What RegisterLocked registers: whoever still waits, and the wait itself *)
(* unless it found the event set.                                          *)
Registers(t, s) ==
  /\ registered' = [registered EXCEPT ![E(t)] = s]
  /\ \A v \in Waiters : On(s, v) <=> (On(registered[E(t)], v) /\ wfmo[v].still) \/ (v = W(t) /\ ~state[E(t)])

LEMMA RegisterIs ==
  ASSUME Control, RefInv, NEW t \in Threads, RegisterLocked(t)
  PROVE  /\ pc[t] \in LoopPcs /\ pc[t] # "idle" /\ UNCHANGED <<calls, call>> /\ E(t) \in Events /\ W(t) \in Waiters
         /\ eMutex[E(t)] = Nobody /\ WithoutExpired(E(t)) \in [Waiters -> WaitObject]
         /\ \A u \in Threads \ {t} : SameCall(u)
         /\ \A u \in Threads : ReportSame(u)
         /\ pc'[t] \in {"check", "register"}
         /\ \E s : Registers(t, s)
         /\ ~On(registered[E(t)], W(t)) /\ WithoutExpired(E(t))[W(t)] = wfmo[W(t)]
         /\ IF state[E(t)] THEN Satisfied(t, WithoutExpired(E(t)))
            ELSE wfmo' = WithoutExpired(E(t)) /\ pos' = [pos EXCEPT ![t] = @ + 1]
<1>1. /\ pc[t] = "regLock" /\ pc[t] \in LoopPcs /\ pc[t] # "idle" /\ UNCHANGED <<calls, call>>
      /\ wfmo \in [Waiters -> WaitObject] /\ Types /\ pos[t] <= Len(call[t].evs) /\ eMutex[E(t)] = Nobody
  BY DEF RegisterLocked, LoopPcs, Control, Types, CallFits
<1>2. PICK e \in Events, m \in Waiters : e = E(t) /\ m = W(t)
  BY <1>1, EventOf, WaitOf
<1>3. /\ \A u \in Threads \ {t} : pc'[u] = pc[u] /\ pos'[u] = pos[u] /\ skipped'[u] = skipped[u]
      /\ pc'[t] \in {"check", "register"}
  BY <1>1 DEF RegisterLocked, Satisfied, Goto, Types
<1>4. /\ \A u \in Threads \ {t} : SameCall(u)
      /\ \A u \in Threads : ReportSame(u)
  BY <1>1, <1>3 DEF SameCall, SameWait, ReportSame, ReportPcs
<1>5. PICK s : /\ registered' = [registered EXCEPT ![e] = s]
               /\ s = IF state[e] THEN Unexpired(e) ELSE Append(Unexpired(e), <<m, pos[t] - 1>>)
  BY <1>2 DEF RegisterLocked
<1>6. \A v \in Waiters : On(s, v) <=> (On(registered[e], v) /\ wfmo[v].still) \/ (v = m /\ ~state[e])
  <2>1. \A v : On(Unexpired(e), v) <=> On(registered[e], v) /\ wfmo[v].still
    BY <1>1, UnexpiredOn
  <2>2. CASE state[e]
    BY <2>1, <2>2, <1>5
  <2>3. CASE ~state[e]
    <3>1. Unexpired(e) \in Seq(Registration) /\ <<m, pos[t] - 1>> \in Registration
      <4>1. pos[t] \in Nat /\ pos[t] >= 1
        BY <1>1 DEF Control, Types, CallFits
      <4> QED
        BY <4>1, <1>1, UnexpiredIs DEF Registration
    <3>2. \A v : On(s, v) <=> On(Unexpired(e), v) \/ v = m
      BY <2>3, <3>1, <1>5, AppendOn
    <3> QED
      BY <2>1, <2>3, <3>2
  <2> QED
    BY <2>2, <2>3
<1>7. ~On(registered[e], m)
  BY <1>1, <1>2, NotYet
<1>8. WithoutExpired(e) \in [Waiters -> WaitObject] /\ WithoutExpired(e)[m] = wfmo[m]
  BY <1>1, <1>7, WithoutExpiredType, WithoutExpiredIs
<1>9. IF state[e] THEN Satisfied(t, WithoutExpired(e))
      ELSE wfmo' = WithoutExpired(e) /\ pos' = [pos EXCEPT ![t] = @ + 1]
  BY <1>2 DEF RegisterLocked
<1>10. Registers(t, s)
  BY <1>2, <1>5, <1>6 DEF Registers
<1> QED
  BY <1>1, <1>2, <1>3, <1>4, <1>7, <1>8, <1>9, <1>10

LEMMA UnreportedRegister ==
  ASSUME Control, RefInv, NEW t \in Threads, RegisterLocked(t), NEW w \in Waiters
  PROVE  IF w = W(t)
         THEN /\ E(t) \notin Unreported(w)
              /\ Unreported(w)' = IF state[E(t)] THEN Unreported(w) ELSE Unreported(w) \cup {E(t)}
         ELSE Unreported(w)' \subseteq Unreported(w) /\ (wfmo[w].still => Unreported(w)' = Unreported(w))
<1>1. PICK e \in Events, m \in Waiters : e = E(t) /\ m = W(t)
  BY RegisterIs
<1>2. /\ eMutex[e] = Nobody /\ ~On(registered[e], m)
      /\ \A u \in Threads : ReportSame(u)
  BY <1>1, RegisterIs
<1>0. PICK s : Registers(t, s)
  BY RegisterIs
<1>3. /\ registered' = [registered EXCEPT ![e] = s]
      /\ \A v \in Waiters : On(s, v) <=> (On(registered[e], v) /\ wfmo[v].still) \/ (v = m /\ ~state[e])
  BY <1>0, <1>1 DEF Registers
<1>4. CASE w # m
  BY <1>1, <1>2, <1>3, <1>4, UnreportedExpired
<1>5. CASE w = m
  <2>1. /\ \A x \in Events \ {e} : registered'[x] = registered[x] /\ (Reporting(x)' <=> Reporting(x))
        /\ ~Reporting(e)' /\ registered'[e] = s
    BY <1>2, <1>3, Reporter, ReportingSame DEF Control, Types
  <2>2. e \notin Unreported(m) /\ (e \in Unreported(m)' <=> ~state[e])
    BY <2>1, <1>2, <1>3, UnreportedIs, UnreportedElse
  <2>3. Unreported(m)' = IF state[e] THEN Unreported(m) ELSE Unreported(m) \cup {e}
    BY <2>1, <2>2, UnreportedElse
  <2> QED
    BY <2>2, <2>3, <1>1, <1>5
<1> QED
  BY <1>4, <1>5

LEMMA LeftSetFire ==
  ASSUME Control, RefInv, LeftInv, NEW t \in Threads, SetFire(t), NEW w \in Waiters
  PROVE  LeftOf(w)'
<1>1. /\ pc[t] = "fire" /\ E(t) \in Events /\ registered[E(t)] # <<>>
      /\ UNCHANGED <<registered, calls, call, pos, skipped>> /\ wfmo \in [Waiters -> WaitObject]
  BY FirstEvent DEF SetFire, HoldPcs, WaitingPcs, Control, Held, Types
<1>2. PICK e \in Events, h \in Waiters : e = E(t) /\ h = Head1(e)
  BY <1>1, HeadWait
<1> DEFINE index == Head(registered[e])[2]
<1>3. \A u \in Threads : SameCall(u)
  BY <1>1 DEF SetFire, Goto, Control, Types, SameCall, SameWait, WaitingPcs
<1>4. LeftOf(w) /\ Unvisited(w)' = Unvisited(w) /\ Unvisited(w) \in Int
  <2>1. Apart(w)
    BY <1>3, WaitersAre DEF Apart
  <2> QED
    BY <2>1, UnvisitedSame DEF LeftInv
<1>5. /\ e \in Unreported(h)
      /\ Unreported(w)' = IF pc'[t] = "signal" /\ w = h THEN Unreported(w) \ {e} ELSE Unreported(w)
  BY <1>2, UnreportedFire
<1>6. IF pc'[t] = "signal"
      THEN wfmo' = IF wfmo[h].all THEN [wfmo EXCEPT ![h].status = @ - 1]
                   ELSE [wfmo EXCEPT ![h].status = index, ![h].still = FALSE]
      ELSE wfmo' = wfmo
  BY <1>2 DEF SetFire, Goto, Control, Types
<1> HIDE DEF index
<1>7. CASE w # h \/ pc'[t] # "signal"
  <2>1. wfmo'[w] = wfmo[w]
    BY <1>1, <1>6, <1>7
  <2>2. Unreported(w)' = Unreported(w)
    BY <1>5, <1>7
  <2> QED
    BY <2>1, <2>2, <1>4, LeftKept
<1>8. CASE w = h /\ pc'[t] = "signal" /\ wfmo[h].all
  <2>1. /\ Unreported(w)' = Unreported(w) \ {e} /\ IsFiniteSet(Unreported(w)) /\ Cardinality(Unreported(w)) \in Nat
        /\ Cardinality(Unreported(w) \ {e}) = Cardinality(Unreported(w)) - 1
    BY <1>5, <1>8, UnreportedFinite, FS_RemoveElement
  <2>2. Left(w)' = Left(w) - 1 /\ Left(w) \in Int
    BY <2>1, <1>4 DEF Left
  <2>3. /\ wfmo'[w].all = wfmo[w].all /\ wfmo'[w].still = wfmo[w].still
        /\ wfmo'[w].status = wfmo[w].status - 1 /\ wfmo[w].status \in Int
    BY <1>1, <1>6, <1>8 DEF WaitObject
  <2> QED
    BY <2>2, <2>3, <1>4 DEF LeftOf
<1>9. CASE w = h /\ pc'[t] = "signal" /\ ~wfmo[h].all
  <2>1. ~wfmo'[w].all
    BY <1>1, <1>6, <1>9 DEF WaitObject
  <2> QED
    BY <2>1 DEF LeftOf
<1> QED
  BY <1>7, <1>8, <1>9

LEMMA LeftDrop ==
  ASSUME Control, RefInv, LeftInv, NEW t \in Threads, NEW e \in Events, Drops(t, e),
         pc[t] \in ReportPcs \/ ~wfmo[Head1(e)].still, NEW w \in Waiters
  PROVE  LeftOf(w)'
<1>1. wfmo \in [Waiters -> WaitObject] /\ 1 \in Nat /\ wfmo' = Unref(wfmo, Head1(e), 1)
  BY DEF Control, Types, Drops
<1>2. PICK h \in Waiters : h = Head1(e)
  BY HeadWait DEF Drops
<1>3. LeftOf(w) /\ Unvisited(w)' = Unvisited(w)
  <2>1. Apart(w)
    BY WaitersAre DEF Apart, Drops
  <2> QED
    BY <2>1, UnvisitedSame DEF LeftInv
<1>4. wfmo'[w] = Freed \/ (/\ wfmo'[w].all = wfmo[w].all /\ wfmo'[w].still = wfmo[w].still
                           /\ wfmo'[w].status = wfmo[w].status)
  BY <1>1, <1>2, UnrefIs
<1>5. ~Freed.all
  BY DEF Freed
<1>6. /\ Unreported(w)' \subseteq Unreported(w)
      /\ wfmo[w].still => Unreported(w)' = Unreported(w)
  BY <1>2, UnreportedDrop
<1> QED
  BY <1>3, <1>4, <1>5, <1>6, LeftKept

LEMMA LeftExpired ==
  ASSUME Control, LeftInv, NEW e \in Events, NEW w \in Waiters, Apart(w), wfmo'[w] = WithoutExpired(e)[w],
         Unreported(w)' \subseteq Unreported(w), wfmo[w].still => Unreported(w)' = Unreported(w)
  PROVE  LeftOf(w)'
<1>1. Types /\ wfmo \in [Waiters -> WaitObject] /\ 1 \in Nat
  BY DEF Control, Types
<1>2. LeftOf(w) /\ Unvisited(w)' = Unvisited(w)
  BY UnvisitedSame DEF LeftInv
<1>3. wfmo'[w] = Freed \/ (/\ wfmo'[w].all = wfmo[w].all /\ wfmo'[w].still = wfmo[w].still
                           /\ wfmo'[w].status = wfmo[w].status)
  BY <1>1, WithoutExpiredIs, UnrefIs
<1>4. ~Freed.all
  BY DEF Freed
<1> QED
  BY <1>2, <1>3, <1>4, LeftKept

LEMMA SatisfiedStatus ==
  ASSUME Control, NEW t \in Threads, pc[t] \in LoopPcs, NEW f \in [Waiters -> WaitObject], Satisfied(t, f)
  PROVE  IF f[W(t)].all THEN pos'[t] = pos[t] + 1 /\ wfmo'[W(t)].status = f[W(t)].status - 1
         ELSE pos'[t] = Len(call[t].evs) + 1 /\ wfmo'[W(t)].status = pos[t] - 1
<1>1. W(t) \in Waiters
  BY WaitOf DEF LoopPcs
<1>2. PICK w \in Waiters : w = W(t)
  BY <1>1
<1>3. pos[t] \in Nat /\ Len(call[t].evs) \in Nat /\ f[w] \in WaitObject
  BY DEF Control, Types, Calls
<1>4. CASE f[w].all
  <2>1. wfmo' = [f EXCEPT ![w].status = @ - 1] /\ pos' = [pos EXCEPT ![t] = @ + 1]
    BY <1>2, <1>4 DEF Satisfied
  <2> QED
    BY <2>1, <1>2, <1>3, <1>4 DEF Control, Types, WaitObject
<1>5. CASE ~f[w].all
  <2>1. wfmo' = [f EXCEPT ![w].status = pos[t] - 1] /\ pos' = [pos EXCEPT ![t] = @ + (Len(call[t].evs) - pos[t] + 1)]
    BY <1>2, <1>5 DEF Satisfied
  <2>2. pos'[t] = pos[t] + (Len(call[t].evs) - pos[t] + 1) /\ wfmo'[w].status = pos[t] - 1
    BY <2>1, <1>3 DEF Control, Types, WaitObject
  <2>3. pos'[t] = Len(call[t].evs) + 1
    BY <2>2, <1>3
  <2> QED
    BY <2>2, <2>3, <1>2, <1>5
<1> QED
  BY <1>4, <1>5

LEMMA UnvisitedLoop ==
  ASSUME Control, NEW t \in Threads, pc[t] \in LoopPcs, UNCHANGED <<calls, call>>,
         pc'[t] \in LoopPcs \cup {"check"}, pos'[t] = pos[t] + 1, NEW w \in Waiters, w = W(t)
  PROVE  Unvisited(w)' = Unvisited(w) - 1
<1>1. w[1] = t /\ w[2] = calls[t]
  BY DEF W
<1>2. InWait(w) /\ InWait(w)'
  BY <1>1 DEF InWait, LoopPcs, WaitingPcs
<1>3. PICK a \in Nat, b \in Nat : a = Len(call[t].evs) /\ b = pos[t]
  BY DEF Control, Types, Calls
<1>4. Unvisited(w) = a + 1 - b
  BY <1>1, <1>2, <1>3 DEF Unvisited
<1>5. Unvisited(w)' = a + 1 - (b + 1)
  BY <1>1, <1>2, <1>3 DEF Unvisited
<1> QED
  BY <1>4, <1>5

LEMMA LeftRegisterUnlocked ==
  ASSUME Control, RefInv, LeftInv, NEW t \in Threads, RegisterUnlocked(t), NEW w \in Waiters
  PROVE  LeftOf(w)'
<1>1. /\ pc[t] = "register" /\ pc[t] \in LoopPcs /\ pc[t] # "idle" /\ wfmo \in [Waiters -> WaitObject]
      /\ UNCHANGED <<registered, calls, call>>
  BY DEF RegisterUnlocked, LoopPcs, Control, Types
<1>2. LeftOf(w) /\ Unvisited(w) \in Int /\ Cardinality(Unreported(w)) \in Nat
  BY UnvisitedSame, UnreportedFinite DEF LeftInv
<1>3. PICK m \in Waiters : m = W(t)
  BY <1>1, WaitOf
<1>4. CASE Satisfied(t, wfmo)
  <2>1. /\ \A u \in Threads \ {t} : pos'[u] = pos[u] /\ skipped'[u] = skipped[u] /\ pc'[u] = pc[u]
        /\ pc'[t] \in {"check", "register"}
        /\ \A v \in Waiters : v # m => wfmo'[v] = wfmo[v]
        /\ wfmo'[m].still = wfmo[m].still /\ wfmo'[m].all = wfmo[m].all
    BY <1>1, <1>3, <1>4, SatisfiedIs
  <2>2. /\ \A u \in Threads \ {t} : SameCall(u)
        /\ \A u \in Threads : ReportSame(u)
    BY <2>1, <1>1 DEF SameCall, SameWait, ReportSame, ReportPcs
  <2>3. CASE w # m
    BY <2>1, <2>2, <2>3, <1>1, <1>2, <1>3, ApartOthers, LeftFrame
  <2>4. CASE w = m /\ wfmo[m].all
    <3>1. pos'[t] = pos[t] + 1 /\ wfmo'[m].status = wfmo[m].status - 1
      BY <2>4, <1>1, <1>3, <1>4, SatisfiedStatus
    <3>2. Unvisited(m)' = Unvisited(m) - 1
      BY <2>1, <3>1, <1>1, <1>3, UnvisitedLoop DEF LoopPcs
    <3>3. Unreported(m)' = Unreported(m)
      BY <2>2, <1>1, UnreportedSame
    <3>4. Left(w)' = Left(w) - 1 /\ Left(w) \in Int
      BY <2>4, <3>2, <3>3, <1>2 DEF Left
    <3>5. wfmo[m].status \in Int
      BY <1>1 DEF WaitObject
    <3> QED
      BY <2>1, <2>4, <3>1, <3>4, <3>5, <1>2 DEF LeftOf
  <2>5. CASE w = m /\ ~wfmo[m].all
    BY <2>1, <2>5 DEF LeftOf
  <2> QED
    BY <2>3, <2>4, <2>5
<1>5. CASE pc' = [pc EXCEPT ![t] = "regLock"] /\ UNCHANGED <<wfmo, skipped, pos>>
  <2>1. /\ pc'[t] = "regLock" /\ \A u \in Threads \ {t} : pc'[u] = pc[u]
    BY <1>5 DEF Control, Types
  <2>2. \A u \in Threads : ReportSame(u)
    BY <2>1, <1>1, <1>5 DEF ReportSame, ReportPcs
  <2>3. Unvisited(w)' = Unvisited(w)
    <3>1. InWait(w)' <=> InWait(w)
      BY <2>1, <1>1, WaitersAre DEF InWait, WaitingPcs
    <3> QED
      BY <3>1, <1>1, <1>5 DEF Unvisited
  <2>4. Unreported(w)' = Unreported(w)
    BY <2>2, <1>1, UnreportedSame
  <2> QED
    BY <2>3, <2>4, <1>2, <1>5, LeftKept
<1> QED
  BY <1>4, <1>5 DEF RegisterUnlocked, Goto

LEMMA LeftRegisterLocked ==
  ASSUME Control, RefInv, LeftInv, NEW t \in Threads, RegisterLocked(t), NEW w \in Waiters
  PROVE  LeftOf(w)'
<1>1. PICK e \in Events, m \in Waiters, f \in [Waiters -> WaitObject] : e = E(t) /\ m = W(t) /\ f = WithoutExpired(e)
  BY RegisterIs
<1>2. /\ pc[t] \in LoopPcs /\ UNCHANGED <<calls, call>>
      /\ \A u \in Threads \ {t} : SameCall(u)
      /\ pc'[t] \in LoopPcs \cup {"check"} /\ f[m] = wfmo[m]
      /\ IF state[e] THEN Satisfied(t, f) ELSE wfmo' = f /\ pos' = [pos EXCEPT ![t] = @ + 1]
  BY <1>1, RegisterIs DEF LoopPcs
<1>3. CASE w # m
  <2>1. wfmo'[w] = WithoutExpired(e)[w]
    BY <1>1, <1>2, <1>3, SatisfiedIs
  <2>2. Apart(w)
    BY <1>1, <1>2, <1>3, ApartOthers
  <2>3. Unreported(w)' \subseteq Unreported(w) /\ (wfmo[w].still => Unreported(w)' = Unreported(w))
    BY <1>1, <1>3, UnreportedRegister
  <2> QED
    BY <2>1, <2>2, <2>3, LeftExpired
<1>4. CASE w = m
  <2>1. /\ LeftOf(w) /\ Unvisited(w) \in Int /\ wfmo[w].status \in Int
        /\ IsFiniteSet(Unreported(w)) /\ Cardinality(Unreported(w)) \in Nat
    BY UnvisitedSame, UnreportedFinite DEF LeftInv, Control, Types, WaitObject
  <2>2. e \notin Unreported(w) /\ Unreported(w)' = IF state[e] THEN Unreported(w) ELSE Unreported(w) \cup {e}
    BY <1>1, <1>4, UnreportedRegister
  <2>3. CASE state[e]
    <3>1. wfmo'[m].still = wfmo[m].still /\ wfmo'[m].all = wfmo[m].all
      BY <2>3, <1>1, <1>2, SatisfiedIs
    <3>2. wfmo[m].all => pos'[t] = pos[t] + 1 /\ wfmo'[m].status = wfmo[m].status - 1
      BY <2>3, <1>1, <1>2, SatisfiedStatus
    <3>3. wfmo[m].all => Unvisited(m)' = Unvisited(m) - 1
      BY <3>2, <1>1, <1>2, UnvisitedLoop
    <3>4. wfmo[m].all => Left(m)' = Left(m) - 1 /\ Left(m) \in Int
      BY <2>1, <2>2, <2>3, <3>3, <1>4 DEF Left
    <3> QED
      BY <2>1, <3>1, <3>2, <3>4, <1>4 DEF LeftOf
  <2>4. CASE ~state[e]
    <3>1. wfmo'[w] = wfmo[w]
      BY <2>4, <1>2, <1>4
    <3>2. pos'[t] = pos[t] + 1
      BY <2>4, <1>2 DEF Control, Types
    <3>3. Unvisited(w)' = Unvisited(w) - 1
      BY <3>2, <1>1, <1>2, <1>4, UnvisitedLoop
    <3>4. Cardinality(Unreported(w)') = Cardinality(Unreported(w)) + 1
      BY <2>1, <2>2, <2>4, FS_AddElement
    <3>5. Left(w)' = Left(w)
      BY <2>1, <3>3, <3>4 DEF Left
    <3> QED
      BY <2>1, <3>1, <3>5 DEF LeftOf
  <2> QED
    BY <2>3, <2>4
<1> QED
  BY <1>3, <1>4

LEMMA LeftCheckDone ==
  ASSUME Control, RefInv, LeftInv, NEW t \in Threads, CheckDone(t), NEW w \in Waiters
  PROVE  LeftOf(w)'
<1>1. /\ pc[t] \in {"check", "unpark"} /\ UNCHANGED <<registered, calls, call, pos, skipped>>
      /\ wfmo \in [Waiters -> WaitObject]
  BY DEF CheckDone, Control, Types
<1>2. PICK m \in Waiters : m = W(t)
  BY <1>1, WaitOf
<1>3. \/ /\ wfmo' = [wfmo EXCEPT ![m].owner = Nobody, ![m].still = FALSE]
         /\ pc' = [pc EXCEPT ![t] = "unref"]
      \/ /\ wfmo' = [wfmo EXCEPT ![m].owner = Nobody]
         /\ pc' = [pc EXCEPT ![t] = "parked"]
  BY <1>2 DEF CheckDone, Goto
<1>4. /\ \A u \in Threads : ReportSame(u)
      /\ \A u \in Threads \ {t} : SameCall(u)
      /\ wfmo'[w].all = wfmo[w].all /\ wfmo'[w].status = wfmo[w].status /\ (wfmo'[w].still => wfmo[w].still)
      /\ pc'[t] \in {"unref", "parked"}
  <2>1. pc'[t] \in {"unref", "parked"} /\ \A u \in Threads \ {t} : pc'[u] = pc[u]
    BY <1>3 DEF Control, Types
  <2>2. wfmo'[w].all = wfmo[w].all /\ wfmo'[w].status = wfmo[w].status /\ (wfmo'[w].still => wfmo[w].still)
    BY <1>1, <1>3 DEF WaitObject
  <2> QED
    BY <2>1, <2>2, <1>1 DEF SameCall, SameWait, ReportSame, ReportPcs
<1>5. LeftOf(w)
  BY DEF LeftInv
<1>6. CASE w # m
  BY <1>1, <1>2, <1>4, <1>5, <1>6, ApartOthers, LeftFrame
<1>7. CASE w = m
  <2>1. Unvisited(w)' = Unvisited(w)
    BY <1>1, <1>2, <1>4, <1>7 DEF Unvisited, InWait, WaitingPcs, W
  <2>2. Unreported(w)' = Unreported(w)
    BY <1>1, <1>4, UnreportedSame
  <2> QED
    BY <2>1, <2>2, <1>4, <1>5, LeftKept
<1> QED
  BY <1>6, <1>7

LEMMA LeftWaitReturn ==
  ASSUME Control, RefInv, LeftInv, NEW t \in Threads, WaitReturn(t), NEW w \in Waiters
  PROVE  LeftOf(w)'
<1>1. /\ pc[t] = "unref" /\ UNCHANGED <<registered, calls, call, pos, skipped>>
      /\ wfmo \in [Waiters -> WaitObject] /\ pc' = [pc EXCEPT ![t] = "idle"]
      /\ wfmo' = Unref(wfmo, W(t), 1 + skipped[t]) /\ 1 + skipped[t] \in Nat
  BY DEF WaitReturn, Control, Types, Goto
<1>2. PICK m \in Waiters : m = W(t)
  BY <1>1, WaitOf
<1>3. /\ \A u \in Threads : ReportSame(u)
      /\ \A u \in Threads \ {t} : SameCall(u)
      /\ pc'[t] = "idle"
  BY <1>1 DEF Control, Types, SameCall, SameWait, ReportSame, ReportPcs
<1>4. wfmo'[w] = Freed \/ (/\ wfmo'[w].all = wfmo[w].all /\ wfmo'[w].still = wfmo[w].still
                           /\ wfmo'[w].status = wfmo[w].status)
  BY <1>1, <1>2, UnrefIs
<1>5. LeftOf(w) /\ ~Freed.all
  BY DEF LeftInv, Freed
<1>6. Unvisited(w)' = Unvisited(w)
  <2>1. CASE w # m
    BY <2>1, <1>1, <1>2, <1>3, ApartOthers, UnvisitedSame
  <2>2. CASE w = m
    <3>1. m[1] = t /\ InWait(m) /\ ~InWait(m)'
      BY <1>1, <1>2, <1>3 DEF W, InWait, WaitingPcs
    <3>2. pos[t] = Len(call[t].evs) + 1 /\ Len(call[t].evs) \in Nat
      <4>1. pc[t] \in WaitingPcs \ LoopPcs
        BY <1>1 DEF WaitingPcs, LoopPcs
      <4> QED
        BY <4>1 DEF Control, Types, CallFits, Calls
    <3>3. Unvisited(m) = 0
      BY <3>1, <3>2 DEF Unvisited
    <3> QED
      BY <2>2, <3>1, <3>3 DEF Unvisited
  <2> QED
    BY <2>1, <2>2
<1>7. Unreported(w)' = Unreported(w)
  BY <1>1, <1>3, UnreportedSame
<1> QED
  BY <1>4, <1>5, <1>6, <1>7, LeftKept

LEMMA LeftBegin ==
  ASSUME Control, RefInv, LeftInv, NEW t \in Threads, Begin(t), NEW w \in Waiters
  PROVE  LeftOf(w)'
<1>1. PICK c \in Calls, m \in Waiters : Begins(t, c, m)
  BY BeginIs
<1>2. /\ m[1] = t /\ pc[t] = "idle" /\ registered' = registered /\ RegisteredAt(m) = {}
      /\ call'[t] = c /\ pos'[t] = 1 /\ Len(c.evs) \in Nat
      /\ \A u \in Threads \ {t} : pc'[u] = pc[u] /\ SameCall(u)
      /\ w # m \/ c.op \notin {"WaitAny", "WaitAll"} => Apart(w) /\ wfmo'[w] = wfmo[w]
  BY <1>1 DEF Begins
<1>3. \A u \in Threads : ReportSame(u)
  <2>1. pc'[t] \notin ReportPcs
    <3>1. c.op \in Ops /\ pc'[t] = EntryPoint[c.op]
      BY <1>1 DEF Begins
    <3> QED
      BY <3>1 DEF EntryPoint, Ops, WaitOps, ReportPcs
  <2> QED
    BY <2>1, <1>2 DEF ReportSame, ReportPcs, SameCall
<1>4. CASE w # m \/ c.op \notin {"WaitAny", "WaitAll"}
  BY <1>2, <1>3, <1>4, LeftFrame DEF LeftInv
<1>5. CASE w = m /\ c.op \in {"WaitAny", "WaitAll"}
  <2>1. wfmo'[w] = NewWait(t, c) /\ InWait(w)'
    BY <1>1, <1>5 DEF Begins
  <2>2. Unreported(w)' = {}
    BY <1>2, <1>5 DEF Unreported, RegisteredAt
  <2>3. Unvisited(w)' = Len(c.evs) + 1 - 1
    BY <2>1, <1>2, <1>5 DEF Unvisited
  <2>4. Left(w)' = Len(c.evs)
    BY <2>2, <2>3, <1>2, FS_EmptySet DEF Left
  <2>5. wfmo'[w].still /\ (wfmo'[w].all => c.op = "WaitAll") /\ (c.op = "WaitAll" => wfmo'[w].status = Len(c.evs))
    <3>1. PICK o : o = NewWait(t, c)
      OBVIOUS
    <3>2. o.still = TRUE /\ o.all = (c.op = "WaitAll") /\ o.status = IF c.op = "WaitAll" THEN Len(c.evs) ELSE -1
      BY <3>1 DEF NewWait
    <3> QED
      BY <2>1, <3>1, <3>2
  <2> QED
    BY <2>4, <2>5 DEF LeftOf
<1> QED
  BY <1>4, <1>5

LEMMA LeftDestroy ==
  ASSUME Control, RefInv, LastUser, LeftInv, NEW t \in Threads, Destroy(t), NEW w \in Waiters
  PROVE  LeftOf(w)'
<1>1. /\ pc[t] = "destroy" /\ UNCHANGED <<calls, call, pos, skipped>> /\ pc' = [pc EXCEPT ![t] = "idle"]
      /\ wfmo' = WithoutExpired(E(t)) /\ registered' = [registered EXCEPT ![E(t)] = <<>>]
      /\ E(t) \in Events /\ eMutex[E(t)] = Nobody
  BY FirstEvent DEF Destroy, Goto, WaitingPcs
<1>2. /\ \A u \in Threads : SameCall(u) /\ ReportSame(u)
      /\ Apart(w)
  BY <1>1, WaitersAre DEF Control, Types, SameCall, SameWait, WaitingPcs, ReportSame, ReportPcs, Apart
<1>3. ~wfmo[w].still
  <2>1. ~InWait(w)
    BY <1>1, WaitersAre DEF LastUser, InWait, WaitingPcs
  <2> QED
    BY <2>1 DEF RefInv, WaitLives
<1>4. ~On(<<>>, w)
  BY DEF On
<1>5. Unreported(w)' \subseteq Unreported(w)
  BY <1>1, <1>2, <1>3, <1>4, UnreportedExpired
<1> QED
  BY <1>1, <1>2, <1>3, <1>5, LeftExpired

(* What a step of thread t leaves alone of another thread u: its call, and *)
(* the registrations of the event whose Mutex it holds.                    *)
LEMMA StepOthers ==
  ASSUME Control, NEW t \in Threads, Step(t) \/ Expire(t) \/ SpuriousWake(t), NEW u \in Threads \ {t}
  PROVE  /\ Woken(u) /\ UNCHANGED <<calls[u], call[u], pos[u], result[u]>>
         /\ pc[u] \in HoldPcs => registered'[E(u)] = registered[E(u)]
<1> DEFINE Same == UNCHANGED <<calls[u], call[u], pos[u], result[u]>>
           Kept == registered' = registered
           Elsewhere == E(t) \in Events /\ eMutex[E(t)] # u /\ \A x \in Events \ {E(t)} : registered'[x] = registered[x]
<1>0. Types
  BY DEF Control
<1>1. Woken(u)
  BY StepPcs
<1>2. Begin(t) \/ WaitFastPath(t) \/ WaitLocked(t) \/ RegisterUnlocked(t) \/ CheckDone(t) \/ WaitReturn(t) => Same /\ Kept
  BY <1>0 DEF Begin, WaitFastPath, WaitLocked, RegisterUnlocked, Satisfied, CheckDone, WaitReturn, Types
<1>3. SetLock(t) \/ SetFire(t) \/ SetSignal(t) \/ SetNotify(t) \/ Reset(t) \/ Expire(t) \/ SpuriousWake(t) => Same /\ Kept
  BY <1>0 DEF SetLock, SetFire, SetSignal, SetNotify, Reset, Expire, SpuriousWake, Types
<1>4. RegisterLocked(t) => Same /\ Elsewhere
  <2> SUFFICES ASSUME RegisterLocked(t) PROVE Same /\ Elsewhere
    OBVIOUS
  <2>1. pc[t] # "idle" /\ pos[t] <= Len(call[t].evs) /\ eMutex[E(t)] = Nobody
    BY DEF RegisterLocked, Control, CallFits, LoopPcs
  <2>2. E(t) \in Events /\ eMutex[E(t)] # u
    BY <2>1, EventOf, ScriptAssumption
  <2> QED
    BY <2>2, <1>0 DEF RegisterLocked, Satisfied, Types
<1>5. SetScan(t) \/ SetUnref(t) => Same /\ Elsewhere
  <2> SUFFICES ASSUME SetScan(t) \/ SetUnref(t) PROVE Same /\ Elsewhere
    OBVIOUS
  <2>1. E(t) \in Events /\ eMutex[E(t)] = t
    BY FirstEvent DEF SetScan, SetUnref, WaitingPcs, Control, Held, HoldPcs
  <2> QED
    BY <2>1, <1>0 DEF SetScan, SetUnref, Types
<1>6. Destroy(t) => Same /\ Elsewhere
  <2> SUFFICES ASSUME Destroy(t) PROVE Same /\ Elsewhere
    OBVIOUS
  <2>1. E(t) \in Events /\ eMutex[E(t)] = Nobody
    BY FirstEvent DEF Destroy, WaitingPcs
  <2> QED
    BY <2>1, <1>0, ScriptAssumption DEF Destroy, Types
<1>7. ASSUME pc[u] \in HoldPcs PROVE E(u) \in Events /\ eMutex[E(u)] = u
  BY <1>7, FirstEvent DEF Control, Held, HoldPcs, WaitingPcs
<1>8. Same /\ (Kept \/ Elsewhere)
  BY <1>2, <1>3, <1>4, <1>5, <1>6 DEF Step
<1> QED
  BY <1>1, <1>7, <1>8

(* A wait that is over does not come back to life.                         *)
LEMMA StillStep ==
  ASSUME Control, RefInv, NEW t \in Threads, Step(t) \/ Expire(t) \/ SpuriousWake(t), NEW w \in Waiters
  PROVE  wfmo'[w].still => wfmo[w].still \/ RegisteredAt(w) = {}
<1> DEFINE Ok == wfmo'[w].still => wfmo[w].still
<1>0. wfmo \in [Waiters -> WaitObject] /\ Types /\ 1 \in Nat /\ ~Freed.still
  BY DEF Control, Types, Freed
<1>1. ASSUME Begin(t) PROVE wfmo'[w].still => wfmo[w].still \/ RegisteredAt(w) = {}
  BY <1>1, BeginIs DEF Begins
<1>2. UNCHANGED wfmo => Ok
  OBVIOUS
<1>3. WaitFastPath(t) \/ WaitLocked(t) \/ SetLock(t) \/ SetSignal(t) \/ SetNotify(t) \/ Reset(t) => UNCHANGED wfmo
  BY DEF WaitFastPath, WaitLocked, SetLock, SetSignal, SetNotify, Reset
<1>4. Expire(t) \/ SpuriousWake(t) => UNCHANGED wfmo
  BY DEF Expire, SpuriousWake
<1>5. ASSUME NEW v \in Waiters, NEW n \in Nat, wfmo' = Unref(wfmo, v, n) PROVE Ok
  BY <1>0, <1>5, UnrefIs
<1>6. ASSUME NEW e \in Events PROVE WithoutExpired(e)[w].still => wfmo[w].still
  BY <1>0, WithoutExpiredIs, UnrefIs
<1>7. ASSUME NEW f \in [Waiters -> WaitObject], pc[t] \in LoopPcs, Satisfied(t, f)
      PROVE  wfmo'[w].still => f[w].still
  <2>1. W(t) \in Waiters
    BY <1>7, WaitOf DEF LoopPcs
  <2> QED
    BY <2>1, <1>7, SatisfiedIs
<1>8. RegisterUnlocked(t) => Ok
  BY <1>0, <1>7 DEF RegisterUnlocked, LoopPcs
<1>9. ASSUME RegisterLocked(t) PROVE Ok
  <2>1. pc[t] \in LoopPcs /\ pc[t] # "idle" /\ pos[t] <= Len(call[t].evs)
    BY <1>9 DEF RegisterLocked, LoopPcs, Control, CallFits
  <2>2. E(t) \in Events
    BY <2>1, EventOf
  <2>3. WithoutExpired(E(t)) \in [Waiters -> WaitObject]
    BY <2>2, <1>0, WithoutExpiredType
  <2> QED
    BY <2>1, <2>2, <2>3, <1>6, <1>7, <1>9 DEF RegisterLocked
<1>10. ASSUME CheckDone(t) PROVE Ok
  BY <1>0, <1>10 DEF CheckDone, WaitObject
<1>11. ASSUME WaitReturn(t) PROVE Ok
  <2>1. W(t) \in Waiters /\ 1 + skipped[t] \in Nat
    BY <1>11, <1>0, WaitOf DEF WaitReturn, Types
  <2> QED
    BY <2>1, <1>5, <1>11 DEF WaitReturn
<1>12. ASSUME SetScan(t) \/ SetUnref(t) PROVE Ok
  <2>1. E(t) \in Events
    BY <1>12, FirstEvent DEF SetScan, SetUnref, WaitingPcs
  <2>2. registered[E(t)] # <<>> => Head1(E(t)) \in Waiters
    BY <2>1, HeadWait
  <2>3. SetUnref(t) => registered[E(t)] # <<>>
    BY DEF SetUnref, Control, Held, HoldPcs
  <2> QED
    BY <2>2, <2>3, <1>0, <1>2, <1>5, <1>12 DEF SetScan, SetUnref
<1>13. ASSUME SetFire(t) PROVE Ok
  BY <1>0, <1>13 DEF SetFire, WaitObject
<1>14. ASSUME Destroy(t) PROVE Ok
  BY <1>6, <1>14, FirstEvent DEF Destroy, WaitingPcs
<1> QED
  BY <1>1, <1>2, <1>3, <1>4, <1>8, <1>9, <1>10, <1>11, <1>12, <1>13, <1>14 DEF Step

LEMMA DropStep ==
  ASSUME Control, RefInv, LeftInv, NEW t \in Threads, Step(t) \/ Expire(t) \/ SpuriousWake(t), NEW u \in Threads
  PROVE  DropOf(u)'
<1>1. DropOf(u) /\ Types
  BY DEF LeftInv, Control
<1>2. CASE u # t
  <2>1. /\ Woken(u) /\ call'[u] = call[u] /\ pos'[u] = pos[u]
        /\ pc[u] \in HoldPcs => registered'[E(u)] = registered[E(u)]
    BY <1>2, StepOthers
  <2>2. \A w \in Waiters : wfmo'[w].still => wfmo[w].still \/ RegisteredAt(w) = {}
    BY StillStep
  <2>3. /\ pc'[u] = "drop" => pc[u] = "drop"
        /\ pc[u] = "drop" => registered'[E(u)] = registered[E(u)]
    BY <2>1 DEF Woken, HoldPcs
  <2> QED
    BY <2>1, <2>2, <2>3, <1>1, DropKept
<1>3. CASE u = t /\ SetFire(t)
  <2>1. UNCHANGED <<registered, call, pos>> /\ (pc'[t] = "drop" => wfmo' = wfmo /\ ~wfmo[Head1(E(t))].still)
    BY <1>1, <1>3 DEF SetFire, MustFire, Goto, Types
  <2>2. E(t)' = E(t) /\ Head1(E(t))' = Head1(E(t))
    BY <2>1 DEF E, Head1
  <2> QED
    BY <2>1, <2>2, <1>3 DEF DropOf
<1>4. CASE u = t /\ ~SetFire(t)
  <2>1. pc'[t] # "drop"
    <3>1. Begin(t) => pc'[t] # "drop"
      <4> SUFFICES ASSUME Begin(t) PROVE pc'[t] # "drop"
        OBVIOUS
      <4>1. PICK c \in Calls, m \in Waiters : Begins(t, c, m)
        BY BeginIs
      <4>2. c.op \in Ops /\ pc'[t] = EntryPoint[c.op]
        BY <4>1 DEF Begins
      <4> QED
        BY <4>2 DEF EntryPoint, Ops, WaitOps
    <3>2. SetSignal(t) => pc'[t] # "drop"
      BY ControlSetSignal
    <3>3. SetNotify(t) => pc'[t] # "drop"
      BY DEF SetNotify, Finish
    <3>4. WaitFastPath(t) \/ WaitLocked(t) \/ RegisterUnlocked(t) \/ RegisterLocked(t) => pc'[t] # "drop"
      BY <1>1 DEF WaitFastPath, WaitLocked, RegisterUnlocked, RegisterLocked, Satisfied, Goto, Types
    <3>5. CheckDone(t) \/ WaitReturn(t) \/ SetLock(t) \/ SetScan(t) \/ SetUnref(t) => pc'[t] # "drop"
      BY <1>1 DEF CheckDone, WaitReturn, SetLock, SetScan, SetUnref, Finish, Goto, Types
    <3>6. Reset(t) \/ Destroy(t) \/ Expire(t) \/ SpuriousWake(t) => pc'[t] # "drop"
      BY <1>1 DEF Reset, Destroy, Expire, SpuriousWake, Goto, Types
    <3> QED
      BY <1>4, <3>1, <3>2, <3>3, <3>4, <3>5, <3>6 DEF Step
  <2> QED
    BY <2>1, <1>4 DEF DropOf
<1> QED
  BY <1>2, <1>3, <1>4

(* The steps that take no event off a list.                                *)
FrameStep(t) ==
  \/ WaitFastPath(t) \/ WaitLocked(t) \/ SetLock(t) \/ SetSignal(t) \/ SetNotify(t) \/ Reset(t)
  \/ Expire(t) \/ SpuriousWake(t) \/ (SetScan(t) /\ UNCHANGED <<registered, wfmo>>)

LEMMA FrameStepIs ==
  ASSUME Control, NEW t \in Threads, FrameStep(t)
  PROVE  /\ UNCHANGED <<registered, wfmo, calls, call, pos, skipped>>
         /\ \A u \in Threads : ReportSame(u) /\ SameWait(u)
<1> USE DEF FrameStep
<1> DEFINE Frame == UNCHANGED <<registered, wfmo, calls, call, pos, skipped>> /\ \A u \in Threads : ReportSame(u)
<1>0. Types /\ \A u \in Threads \ {t} : Woken(u)
  BY StepPcs DEF Control, Step
<1>2. ASSUME SetSignal(t) PROVE Frame /\ \A u \in Threads : SameWait(u)
  <2>1. pc[t] = "signal" /\ pc'[t] = "fired" /\ UNCHANGED <<registered, wfmo, calls, call, pos, skipped>>
    BY <1>2, ControlSetSignal DEF SetSignal
  <2>2. ReportSame(t) /\ SameWait(t)
    BY <2>1 DEF ReportSame, ReportPcs, SameWait, WaitingPcs
  <2> QED
    BY <2>1, <2>2, <1>0, WokenReport, WokenSame
<1>3. ASSUME SetNotify(t) PROVE Frame /\ \A u \in Threads : SameWait(u)
  <2>1. pc[t] = "notify" /\ pc'[t] \in {"reset", "idle", "relock"} /\ UNCHANGED <<registered, wfmo, calls, call, pos, skipped>>
    BY <1>3 DEF SetNotify, Finish
  <2>2. ReportSame(t) /\ SameWait(t)
    BY <2>1 DEF ReportSame, ReportPcs, SameWait, WaitingPcs
  <2> QED
    BY <2>1, <2>2, <1>0, WokenReport, WokenSame
<1>4. ASSUME ~SetSignal(t), ~SetNotify(t) PROVE Frame /\ \A u \in Threads : SameWait(u)
  <2>1. UNCHANGED <<registered, wfmo, calls, call, pos, skipped>>
    BY <1>4 DEF WaitFastPath, WaitLocked, SetLock, Reset, Expire, SpuriousWake, SetScan
  <2>2. ReportSame(t) /\ SameWait(t)
    <3>1. WaitFastPath(t) \/ WaitLocked(t) \/ SetLock(t) => ReportSame(t) /\ SameWait(t)
      BY <1>0 DEF WaitFastPath, WaitLocked, SetLock, Goto, Types, ReportSame, ReportPcs, SameWait, WaitingPcs
    <3>2. SetScan(t) /\ UNCHANGED registered => ReportSame(t) /\ SameWait(t)
      BY <1>0 DEF SetScan, Goto, Types, ReportSame, ReportPcs, SameWait, WaitingPcs
    <3>3. Reset(t) \/ Expire(t) \/ SpuriousWake(t) => ReportSame(t) /\ SameWait(t)
      BY <1>0 DEF Reset, Expire, SpuriousWake, Goto, Types, ReportSame, ReportPcs, SameWait, WaitingPcs
    <3> QED
      BY <1>4, <3>1, <3>2, <3>3
  <2> QED
    BY <2>1, <2>2, <1>0, WokenReport, WokenSame
<1> QED
  BY <1>2, <1>3, <1>4

LEMMA LeftOthers ==
  ASSUME Control, LeftInv, NEW t \in Threads, FrameStep(t), NEW w \in Waiters
  PROVE  LeftOf(w)'
<1>1. /\ UNCHANGED <<registered, wfmo, calls, call, pos, skipped>>
      /\ \A u \in Threads : ReportSame(u) /\ SameWait(u)
  BY FrameStepIs
<1> QED
  BY <1>1, LeftFrame, WaitersAre DEF LeftInv, Apart, SameCall

(* SetEvent lets a registration go that it has reported, or whose wait is  *)
(* over.                                                                   *)
LEMMA GivesBackIs ==
  ASSUME Control, RefInv, LeftInv, NEW t \in Threads, SetScan(t) \/ SetUnref(t)
  PROVE  \/ FrameStep(t)
         \/ /\ E(t) \in Events /\ Drops(t, E(t))
            /\ pc[t] \in ReportPcs \/ ~wfmo[Head1(E(t))].still
<1>1. /\ pc[t] \in HoldPcs /\ E(t) \in Events /\ UNCHANGED <<calls, call, pos, skipped>> /\ Types
      /\ pc[t] \in {"fired", "drop"} => registered[E(t)] # <<>>
  BY FirstEvent DEF SetScan, SetUnref, HoldPcs, WaitingPcs, Control, Held
<1>2. \A u \in Threads \ {t} : pc'[u] = pc[u]
  BY <1>1 DEF SetScan, SetUnref, Goto, Types
<1>3. \A u \in Threads \ {t} : ReportSame(u) /\ SameCall(u)
  BY <1>1, <1>2 DEF ReportSame, SameCall, SameWait
<1>4. pc[t] \notin WaitingPcs /\ pc'[t] \notin WaitingPcs /\ pc'[t] \notin ReportPcs
  BY <1>1 DEF SetScan, SetUnref, Goto, Finish, HoldPcs, ReportPcs, WaitingPcs, Types
<1>5. \A u \in Threads : SameCall(u)
  BY <1>1, <1>3, <1>4 DEF SameCall, SameWait
<1>7. ASSUME registered[E(t)] # <<>>, wfmo' = Unref(wfmo, Head1(E(t)), 1),
             registered' = [registered EXCEPT ![E(t)] = Tail(@)]
      PROVE  Drops(t, E(t))
  BY <1>1, <1>3, <1>4, <1>5, <1>7 DEF Drops
<1>8. SetUnref(t) => pc[t] \in ReportPcs \/ ~wfmo[Head1(E(t))].still
  BY DEF SetUnref, ReportPcs, LeftInv, DropOf
<1>9. SetUnref(t) => /\ registered[E(t)] # <<>> /\ wfmo' = Unref(wfmo, Head1(E(t)), 1)
                     /\ registered' = [registered EXCEPT ![E(t)] = Tail(@)]
  BY <1>1 DEF SetUnref
<1>10. SetScan(t) => \/ UNCHANGED <<registered, wfmo>>
                     \/ /\ registered[E(t)] # <<>> /\ wfmo' = Unref(wfmo, Head1(E(t)), 1)
                        /\ registered' = [registered EXCEPT ![E(t)] = Tail(@)]
                        /\ ~wfmo[Head1(E(t))].still
  BY DEF SetScan
<1> QED
  BY <1>1, <1>7, <1>8, <1>9, <1>10 DEF FrameStep

LEMMA LeftGivesBack ==
  ASSUME Control, RefInv, LeftInv, NEW t \in Threads, SetScan(t) \/ SetUnref(t), NEW w \in Waiters
  PROVE  LeftOf(w)'
  BY GivesBackIs, LeftOthers, LeftDrop

LEMMA LeftInit == Init => LeftInv
  BY DEF Init, LeftInv, LeftOf, DropOf, Freed

LEMMA LeftStep == Control /\ RefInv /\ LastUser /\ LeftInv /\ [Next]_vars => LeftInv'
<1> SUFFICES ASSUME Control, RefInv, LastUser, LeftInv, [Next]_vars PROVE LeftInv'
  OBVIOUS
<1>1. CASE UNCHANGED vars
  <2>1. ASSUME NEW w \in Waiters PROVE LeftOf(w)'
    <3>1. \A u \in Threads : ReportSame(u) /\ SameCall(u)
      BY <1>1 DEF vars, ReportSame, SameCall, SameWait
    <3> QED
      BY <3>1, <1>1, LeftFrame, WaitersAre DEF LeftInv, vars, Apart
  <2>2. ASSUME NEW u \in Threads PROVE DropOf(u)'
    BY <1>1 DEF vars, LeftInv, DropOf, Head1, E
  <2> QED
    BY <2>1, <2>2 DEF LeftInv
<1>2. ASSUME NEW t \in Threads, Step(t) \/ Expire(t) \/ SpuriousWake(t) PROVE LeftInv'
  <2>1. \A w \in Waiters : LeftOf(w)'
    BY <1>2, LeftBegin, LeftOthers, LeftRegisterUnlocked, LeftRegisterLocked, LeftCheckDone, LeftWaitReturn,
       LeftSetFire, LeftGivesBack, LeftDestroy DEF Step, FrameStep
  <2>2. \A u \in Threads : DropOf(u)'
    BY <1>2, DropStep
  <2> QED
    BY <2>1, <2>2 DEF LeftInv
<1> QED
  BY <1>1, <1>2 DEF Next

(* EventsLeft of a wait-all is the number of its events that are still to  *)
(* be found or reported set, and no smaller once it has given up:          *)
(* PEvents!EventsLeftExact.                                                *)
THEOREM EventsLeft == Spec => []EventsLeftExact
<1>1. Init => Control /\ RefInv /\ LastUser /\ LeftInv
  BY ControlInit, RefInit, LeftInit
<1>2. Control /\ RefInv /\ LastUser /\ LeftInv /\ [Next]_vars => (Control /\ RefInv /\ LastUser /\ LeftInv)'
  BY ControlStep, RefStep, LastUserStep, LeftStep
<1>3. LeftInv => EventsLeftExact
  BY DEF LeftInv, LeftOf, Left, EventsLeftExact
<1> QED
  BY <1>1, <1>2, <1>3, PTL DEF Spec

-----------------------------------------------------------------------------
(* No wait takes something else for its event                              *)

(* Whatever is set while a call names it has been seen by the call, ...    *)
SetSeen(u) == \A e \in Events : pc[u] # "idle" /\ e \in ToSet(call[u].evs) /\ state[e] => e \in seen[u]

(* ... so has whatever a SetEvent can report to a wait, ...                *)
HeldSeen(u) == \A w \in Waiters : pc[u] \in HoldPcs /\ InWait(w) /\ On(registered[E(u)], w) => E(u) \in seen[w[1]]

(* ... what a wait has behind it, but for what it is registered with, and  *)
(* the event that is said to have ended it, ...                            *)
Behind(w) == wfmo[w].still => \A k \in 1..pos[w[1]] - 1 :
               call[w[1]].evs[k] \in seen[w[1]] \/ call[w[1]].evs[k] \in Unreported(w)
Named(w)  == wfmo[w].status # -1 => /\ wfmo[w].status + 1 \in DOMAIN call[w[1]].evs
                                    /\ call[w[1]].evs[wfmo[w].status + 1] \in seen[w[1]]
ToldSeen(w) == InWait(w) => IF wfmo[w].all THEN Behind(w) ELSE Named(w)

(* ... and what a wait has when it succeeds.                               *)
OverSeen(u) == result[u] = 0 /\ pc[u] = "unref" =>
                 IF wfmo[W(u)].all THEN ToSet(call[u].evs) \subseteq seen[u] ELSE wfmo[W(u)].status # -1
DoneSeen(u) == result[u] = 0 /\ pc[u] = "idle" /\ call[u].op = "WaitForEvent" => ToSet(call[u].evs) \subseteq seen[u]
OneEvent(u) == call[u].op = "WaitForEvent" => Len(call[u].evs) = 1

SeenInv == /\ \A u \in Threads : SetSeen(u) /\ HeldSeen(u) /\ OverSeen(u) /\ DoneSeen(u) /\ OneEvent(u)
           /\ \A w \in Waiters : ToldSeen(w)

LEMMA SeenGrows ==
  ASSUME Control, NEW t \in Threads, Step(t) \/ Expire(t) \/ SpuriousWake(t), NEW u \in Threads, u # t \/ ~Begin(t)
  PROVE  /\ seen[u] \subseteq seen'[u] /\ calls'[u] = calls[u] /\ call'[u] = call[u]
         /\ pc'[u] # "idle" => pc[u] # "idle"
<1>0. Types
  BY DEF Control
<1>1. \A e : Witness(e) => seen[u] \subseteq seen'[u]
  BY DEF Witness
<1>2. seen[u] \subseteq seen'[u]
  <2>1. Begin(t) => seen'[u] = seen[u]
    BY <1>0 DEF Begin, Types
  <2>2. SetLock(t) => Witness(E(t))
    BY DEF SetLock
  <2>3. SetScan(t) => Witness(E(t)) \/ seen' = seen
    BY DEF SetScan
  <2>4. WaitFastPath(t) \/ WaitLocked(t) \/ RegisterUnlocked(t) \/ RegisterLocked(t) \/ CheckDone(t) \/ WaitReturn(t)
          => seen' = seen
    BY DEF WaitFastPath, WaitLocked, RegisterUnlocked, RegisterLocked, CheckDone, WaitReturn
  <2>5. SetFire(t) \/ SetSignal(t) \/ SetUnref(t) \/ SetNotify(t) \/ Reset(t) \/ Destroy(t) \/ Expire(t) \/ SpuriousWake(t)
          => seen' = seen
    BY DEF SetFire, SetSignal, SetUnref, SetNotify, Reset, Destroy, Expire, SpuriousWake
  <2> QED
    BY <1>1, <2>1, <2>2, <2>3, <2>4, <2>5 DEF Step
<1>3. CASE u # t
  BY <1>2, <1>3, StepOthers DEF Woken
<1>4. CASE u = t
  BY <1>2, <1>4, StepPcs
<1> QED
  BY <1>3, <1>4

(* An event becomes set while its Mutex is held, and calls that name it    *)
(* are witnesses.                                                          *)
LEMMA StateStep ==
  ASSUME Control, NEW t \in Threads, Step(t) \/ Expire(t) \/ SpuriousWake(t), NEW e \in Events, state'[e]
  PROVE  state[e] \/ Witness(e)
<1>0. Types /\ (pc[t] \notin WaitingPcs \cup {"idle"} => E(t) \in Events)
  BY FirstEvent DEF Control
<1>1. \A x \in Events : Obtain(t, x) => state[e]
  BY <1>0 DEF Obtain, Types
<1>2. Begin(t) \/ WaitFastPath(t) \/ RegisterUnlocked(t) \/ CheckDone(t) \/ WaitReturn(t) => state' = state
  BY DEF Begin, WaitFastPath, RegisterUnlocked, CheckDone, WaitReturn
<1>3. SetFire(t) \/ SetSignal(t) \/ SetUnref(t) \/ SetNotify(t) \/ Destroy(t) \/ Expire(t) \/ SpuriousWake(t) => state' = state
  BY DEF SetFire, SetSignal, SetUnref, SetNotify, Destroy, Expire, SpuriousWake
<1>4. WaitLocked(t) => state[e]
  BY <1>0, <1>1 DEF WaitLocked, WaitingPcs
<1>5. ASSUME RegisterLocked(t) PROVE state[e]
  <2>1. pc[t] # "idle" /\ pos[t] <= Len(call[t].evs)
    BY <1>5 DEF RegisterLocked, Control, CallFits, LoopPcs
  <2>2. E(t) \in Events
    BY <2>1, EventOf
  <2> QED
    BY <1>5, <1>1, <2>2 DEF RegisterLocked
<1>6. ASSUME SetLock(t) \/ SetScan(t), ~state[e] PROVE Witness(e)
  <2>1. E(t) \in Events
    BY <1>0, <1>6 DEF SetLock, SetScan, WaitingPcs
  <2>2. e = E(t)
    <3>1. SetLock(t) => e = E(t)
      BY <2>1, <1>0, <1>6 DEF SetLock, Types
    <3>2. SetScan(t) => e = E(t)
      BY <2>1, <1>0, <1>6 DEF SetScan, Types
    <3> QED
      BY <3>1, <3>2, <1>6
  <2>3. SetScan(t) => Witness(E(t)) \/ state' = state
    BY DEF SetScan
  <2> QED
    BY <2>2, <2>3, <1>6 DEF SetLock
<1>7. Reset(t) => state[e]
  BY <1>0 DEF Reset, Types, WaitingPcs
<1> QED
  BY <1>2, <1>3, <1>4, <1>5, <1>6, <1>7 DEF Step

LEMMA SetSeenStep ==
  ASSUME Control, NEW t \in Threads, Step(t) \/ Expire(t) \/ SpuriousWake(t), NEW u \in Threads, SetSeen(u)
  PROVE  SetSeen(u)'
<1> SUFFICES ASSUME NEW e \in Events, pc'[u] # "idle", e \in ToSet(call'[u].evs), state'[e]
             PROVE  e \in seen'[u]
  BY DEF SetSeen
<1>1. CASE u = t /\ Begin(t)
  BY <1>1 DEF Begin, Control, Types
<1>2. CASE u # t \/ ~Begin(t)
  <2>1. seen[u] \subseteq seen'[u] /\ call'[u] = call[u] /\ pc[u] # "idle"
    BY <1>2, SeenGrows
  <2>2. CASE state[e]
    BY <2>1, <2>2 DEF SetSeen
  <2>3. CASE Witness(e)
    BY <2>1, <2>3 DEF Witness
  <2> QED
    BY <2>2, <2>3, StateStep
<1> QED
  BY <1>1, <1>2

(* A wait begins with no event behind it.                                  *)
LEMMA WaitStarts ==
  ASSUME Control, RefInv, NEW t \in Threads, Step(t) \/ Expire(t) \/ SpuriousWake(t), NEW w \in Waiters,
         InWait(w)', ~InWait(w)
  PROVE  /\ w[1] = t /\ Begin(t) /\ RegisteredAt(w) = {}
         /\ pos'[t] = 1 /\ (wfmo'[w].all \/ wfmo'[w].status = -1)
<1>1. w[1] \in Threads
  BY WaitersAre
<1>2. CASE Begin(t)
  <2>1. PICK c \in Calls, m \in Waiters : Begins(t, c, m)
    BY <1>2, BeginIs
  <2>2. /\ \A v \in Waiters : v # m => Apart(v)
        /\ m[1] = t /\ RegisteredAt(m) = {} /\ pos'[t] = 1
        /\ Apart(m) \/ wfmo'[m] = NewWait(t, c)
    BY <2>1 DEF Begins
  <2>3. ~Apart(w)
    BY OwnSame
  <2>4. PICK o : o = NewWait(t, c)
    OBVIOUS
  <2>5. o.all \/ o.status = -1
    BY <2>4 DEF NewWait
  <2> QED
    BY <1>2, <2>2, <2>3, <2>4, <2>5
<1>3. CASE ~Begin(t)
  <2>1. calls' = calls /\ pc'[w[1]] \in WaitingPcs /\ pc[w[1]] \notin WaitingPcs
    BY <1>3, StepPcs DEF InWait
  <2>2. w[1] = t
    BY <1>1, <2>1, StepOthers DEF Woken, WaitingPcs
  <2>3. Types /\ pc[t] \notin WaitingPcs
    BY <2>1, <2>2 DEF Control
  <2>4. pc'[t] \notin WaitingPcs
    <3>1. WaitFastPath(t) \/ WaitLocked(t) \/ SetLock(t) \/ SetScan(t) \/ SetFire(t) => pc'[t] \notin WaitingPcs
      BY <2>3 DEF WaitFastPath, WaitLocked, SetLock, SetScan, SetFire, Goto, Types, WaitingPcs
    <3>2. SetSignal(t) => pc'[t] \notin WaitingPcs
      BY ControlSetSignal DEF WaitingPcs
    <3>3. SetUnref(t) \/ Reset(t) \/ Destroy(t) => pc'[t] \notin WaitingPcs
      BY <2>3 DEF SetUnref, Reset, Destroy, Finish, Goto, Types, WaitingPcs
    <3>4. SetNotify(t) => pc'[t] \notin WaitingPcs
      BY <2>3 DEF SetNotify, Finish, WaitingPcs
    <3>5. ~RegisterUnlocked(t) /\ ~RegisterLocked(t) /\ ~CheckDone(t) /\ ~WaitReturn(t)
      BY <2>3 DEF RegisterUnlocked, RegisterLocked, CheckDone, WaitReturn, WaitingPcs
    <3>6. Expire(t) \/ SpuriousWake(t) => pc'[t] \notin WaitingPcs
      BY <2>3 DEF Expire, SpuriousWake, Goto, Types, WaitingPcs
    <3> QED
      BY <1>3, <3>1, <3>2, <3>3, <3>4, <3>5, <3>6 DEF Step
  <2> QED
    BY <2>1, <2>2, <2>4
<1> QED
  BY <1>2, <1>3

(* What becomes of a wait that is under way before and after a step.       *)
Undisturbed(w) == /\ pos'[w[1]] = pos[w[1]] /\ wfmo'[w].status = wfmo[w].status
                  /\ wfmo'[w].still => Unreported(w)' = Unreported(w)
Told(t, w) == /\ pos'[w[1]] = pos[w[1]] /\ pc[t] = "fire" /\ w = Head1(E(t))
              /\ wfmo[w].all \/ wfmo'[w].status = Head(registered[E(t)])[2]
              /\ Unreported(w)' = Unreported(w) \ {E(t)}
Found(t, w) == /\ w = W(t) /\ pc[t] \in LoopPcs /\ state[E(t)]
               /\ IF wfmo[w].all THEN pos'[t] = pos[t] + 1 /\ Unreported(w)' = Unreported(w)
                                 ELSE wfmo'[w].status = pos[t] - 1
Listed(t, w) == /\ w = W(t) /\ pc[t] \in LoopPcs /\ wfmo'[w].status = wfmo[w].status
                /\ pos'[t] = pos[t] + 1 /\ Unreported(w)' = Unreported(w) \cup {E(t)}
Becomes(t, w) == /\ wfmo'[w].all = wfmo[w].all
                 /\ wfmo'[w].still => wfmo[w].still
                 /\ Undisturbed(w) \/ Told(t, w) \/ Found(t, w) \/ Listed(t, w)

(* A wait under way has a reference of its own to keep it from being freed.*)
LEMMA WaitHeld ==
  ASSUME Control, RefInv, NEW w \in Waiters, InWait(w)
  PROVE  /\ wfmo[w].refs >= 1
         /\ RegisteredAt(w) # {} => wfmo[w].refs > 1
<1>1. RefsOf(w)
  BY RefCountOf DEF RefInv
<1>2. /\ Own(w) \in Nat /\ Own(w) >= 1 /\ wfmo[w].refs \in Nat
      /\ RegisteredAt(w) # {} => wfmo[w].refs >= 1 + Own(w)
      /\ wfmo[w].refs = 0 => ~InWait(w)
  BY <1>1, Referenced
<1> QED
  BY <1>2

LEMMA BecomesFrame ==
  ASSUME NEW w, UNCHANGED <<registered, pos>>, \A u \in Threads : ReportSame(u),
         wfmo'[w].all = wfmo[w].all, wfmo'[w].status = wfmo[w].status, wfmo'[w].still => wfmo[w].still, NEW t
  PROVE  Becomes(t, w)
<1>1. Unreported(w)' = Unreported(w)
  BY UnreportedSame
<1> QED
  BY <1>1 DEF Becomes, Undisturbed

LEMMA BecomesBegin ==
  ASSUME Control, RefInv, NEW t \in Threads, Begin(t), NEW w \in Waiters, InWait(w)
  PROVE  Becomes(t, w)
<1>1. PICK c \in Calls, m \in Waiters : Begins(t, c, m)
  BY BeginIs
<1>2. /\ m[1] = t /\ pc[t] = "idle" /\ registered' = registered
      /\ \A u \in Threads \ {t} : pc'[u] = pc[u] /\ SameCall(u)
      /\ \A v \in Waiters : v # m => wfmo'[v] = wfmo[v]
      /\ c.op \in Ops /\ pc'[t] = EntryPoint[c.op]
  BY <1>1 DEF Begins
<1>3. w[1] \in Threads \ {t}
  BY <1>2, WaitersAre DEF InWait, WaitingPcs
<1>4. wfmo'[w] = wfmo[w] /\ pos'[w[1]] = pos[w[1]]
  BY <1>2, <1>3 DEF SameCall
<1>5. pc'[t] \notin ReportPcs
  BY <1>2 DEF EntryPoint, Ops, WaitOps, ReportPcs
<1>6. \A u \in Threads : ReportSame(u)
  BY <1>2, <1>5 DEF ReportSame, ReportPcs, SameCall
<1>7. Unreported(w)' = Unreported(w)
  BY <1>2, <1>6, UnreportedSame
<1> QED
  BY <1>4, <1>7 DEF Becomes, Undisturbed

LEMMA BecomesCheckDone ==
  ASSUME Control, NEW t \in Threads, CheckDone(t), NEW w \in Waiters
  PROVE  Becomes(t, w)
<1>1. /\ pc[t] \in {"check", "unpark"} /\ UNCHANGED <<registered, call, pos>> /\ wfmo \in [Waiters -> WaitObject]
      /\ pc'[t] \in {"unref", "parked"} /\ \A u \in Threads \ {t} : pc'[u] = pc[u]
  BY DEF CheckDone, Control, Types, Goto
<1>2. \A u \in Threads : ReportSame(u)
  BY <1>1 DEF ReportSame, ReportPcs
<1>3. PICK m \in Waiters : m = W(t)
  BY <1>1, WaitOf
<1>4. \/ wfmo' = [wfmo EXCEPT ![m].owner = Nobody, ![m].still = FALSE]
      \/ wfmo' = [wfmo EXCEPT ![m].owner = Nobody]
  BY <1>3 DEF CheckDone
<1>5. wfmo'[w].all = wfmo[w].all /\ wfmo'[w].status = wfmo[w].status /\ (wfmo'[w].still => wfmo[w].still)
  BY <1>1, <1>4 DEF WaitObject
<1> QED
  BY <1>1, <1>2, <1>5, BecomesFrame

LEMMA BecomesWaitReturn ==
  ASSUME Control, NEW t \in Threads, WaitReturn(t), NEW w \in Waiters, InWait(w)'
  PROVE  Becomes(t, w)
<1>1. /\ pc[t] = "unref" /\ UNCHANGED <<registered, calls, call, pos>> /\ wfmo \in [Waiters -> WaitObject]
      /\ pc' = [pc EXCEPT ![t] = "idle"] /\ pc \in [Threads -> Pcs]
      /\ wfmo' = Unref(wfmo, W(t), 1 + skipped[t]) /\ 1 + skipped[t] \in Nat
  BY DEF WaitReturn, Control, Types, Goto
<1>2. \A u \in Threads : ReportSame(u)
  BY <1>1 DEF ReportSame, ReportPcs
<1>3. PICK m \in Waiters : m = W(t)
  BY <1>1, WaitOf
<1>4. w # m
  BY <1>1, <1>3 DEF InWait, WaitingPcs, W
<1>5. wfmo'[w] = wfmo[w]
  BY <1>1, <1>3, <1>4, UnrefIs
<1> QED
  BY <1>1, <1>2, <1>5, BecomesFrame

LEMMA BecomesSetFire ==
  ASSUME Control, RefInv, NEW t \in Threads, SetFire(t), NEW w \in Waiters
  PROVE  Becomes(t, w)
<1>1. /\ pc[t] = "fire" /\ E(t) \in Events /\ registered[E(t)] # <<>>
      /\ UNCHANGED <<registered, pos>> /\ wfmo \in [Waiters -> WaitObject]
  BY FirstEvent DEF SetFire, HoldPcs, WaitingPcs, Control, Held, Types
<1>2. PICK e \in Events, h \in Waiters : e = E(t) /\ h = Head1(e)
  BY <1>1, HeadWait
<1> DEFINE index == Head(registered[e])[2]
<1>3. Unreported(w)' = IF pc'[t] = "signal" /\ w = h THEN Unreported(w) \ {e} ELSE Unreported(w)
  BY <1>2, UnreportedFire
<1>4. IF pc'[t] = "signal"
      THEN wfmo' = IF wfmo[h].all THEN [wfmo EXCEPT ![h].status = @ - 1]
                   ELSE [wfmo EXCEPT ![h].status = index, ![h].still = FALSE]
      ELSE wfmo' = wfmo
  BY <1>2 DEF SetFire, Goto, Control, Types
<1>5. CASE w # h \/ pc'[t] # "signal"
  <2>1. wfmo'[w] = wfmo[w]
    BY <1>1, <1>4, <1>5
  <2> QED
    BY <2>1, <1>1, <1>3, <1>5 DEF Becomes, Undisturbed
<1>6. CASE w = h /\ pc'[t] = "signal"
  <2>1. /\ wfmo'[w].all = wfmo[w].all /\ (wfmo'[w].still => wfmo[w].still)
        /\ wfmo[w].all \/ wfmo'[w].status = index
    BY <1>1, <1>4, <1>6 DEF WaitObject
  <2> QED
    BY <2>1, <1>1, <1>2, <1>3, <1>6 DEF Becomes, Told
<1> QED
  BY <1>5, <1>6

LEMMA BecomesDrop ==
  ASSUME Control, RefInv, NEW t \in Threads, NEW e \in Events, Drops(t, e),
         pc[t] \in ReportPcs \/ ~wfmo[Head1(e)].still, NEW w \in Waiters, InWait(w)
  PROVE  Becomes(t, w)
<1>1. /\ wfmo \in [Waiters -> WaitObject] /\ wfmo[w] \in WaitObject /\ 1 \in Nat
      /\ wfmo' = Unref(wfmo, Head1(e), 1) /\ registered[e] # <<>> /\ pos' = pos
  BY DEF Control, Types, Drops
<1>2. PICK h \in Waiters : h = Head1(e) /\ On(registered[e], h)
  BY <1>1, HeadWait DEF On
<1>3. w = h => wfmo[w].refs # 1
  <2>1. RegisteredAt(h) # {}
    BY <1>2, OnRegistered
  <2>2. w = h => wfmo[w].refs > 1
    BY <2>1, WaitHeld
  <2> QED
    BY <2>2, <1>1 DEF WaitObject
<1>4. wfmo'[w].all = wfmo[w].all /\ wfmo'[w].still = wfmo[w].still /\ wfmo'[w].status = wfmo[w].status
  BY <1>1, <1>2, <1>3, UnrefIs
<1>5. wfmo[w].still => Unreported(w)' = Unreported(w)
  BY <1>2, UnreportedDrop
<1> QED
  BY <1>1, <1>4, <1>5 DEF Becomes, Undisturbed

LEMMA BecomesRegisterUnlocked ==
  ASSUME Control, RefInv, NEW t \in Threads, RegisterUnlocked(t), NEW w \in Waiters, InWait(w)
  PROVE  Becomes(t, w)
<1>1. /\ pc[t] = "register" /\ pc[t] \in LoopPcs /\ wfmo \in [Waiters -> WaitObject]
      /\ UNCHANGED <<registered, calls, call>> /\ Types
  BY DEF RegisterUnlocked, LoopPcs, Control, Types
<1>2. PICK m \in Waiters : m = W(t) /\ m[1] = t
  BY <1>1, WaitOf
<1>3. CASE Satisfied(t, wfmo) /\ state[E(t)]
  <2>1. /\ \A u \in Threads \ {t} : pos'[u] = pos[u] /\ pc'[u] = pc[u]
        /\ pc'[t] \in {"check", "register"}
        /\ \A v \in Waiters : v # m => wfmo'[v] = wfmo[v]
        /\ wfmo'[m].still = wfmo[m].still /\ wfmo'[m].all = wfmo[m].all
    BY <1>1, <1>2, <1>3, SatisfiedIs
  <2>2. \A u \in Threads : ReportSame(u)
    BY <2>1, <1>1 DEF ReportSame, ReportPcs
  <2>3. Unreported(w)' = Unreported(w)
    BY <2>2, <1>1, UnreportedSame
  <2>4. CASE w = m
    <3>1. IF wfmo[m].all THEN pos'[t] = pos[t] + 1 ELSE wfmo'[m].status = pos[t] - 1
      BY <1>1, <1>2, <1>3, SatisfiedStatus
    <3> QED
      BY <2>1, <2>3, <2>4, <3>1, <1>1, <1>2, <1>3 DEF Becomes, Found
  <2>5. CASE w # m
    <3>1. w[1] \in Threads /\ w[1] # t
      BY <2>5, <1>2, WaitersAre DEF InWait, W
    <3> QED
      BY <2>1, <2>3, <2>5, <3>1 DEF Becomes, Undisturbed
  <2> QED
    BY <2>4, <2>5
<1>4. CASE pc' = [pc EXCEPT ![t] = "regLock"] /\ UNCHANGED <<wfmo, skipped, pos>>
  <2>1. pc'[t] = "regLock" /\ \A u \in Threads \ {t} : pc'[u] = pc[u]
    BY <1>4, <1>1 DEF Types
  <2>2. \A u \in Threads : ReportSame(u)
    BY <2>1, <1>1, <1>4 DEF ReportSame, ReportPcs
  <2> QED
    BY <2>2, <1>1, <1>4, BecomesFrame
<1> QED
  BY <1>3, <1>4 DEF RegisterUnlocked, Goto

LEMMA BecomesRegisterLocked ==
  ASSUME Control, RefInv, NEW t \in Threads, RegisterLocked(t), NEW w \in Waiters, InWait(w)
  PROVE  Becomes(t, w)
<1>1. PICK e \in Events, m \in Waiters, f \in [Waiters -> WaitObject] : e = E(t) /\ m = W(t) /\ f = WithoutExpired(e)
  BY RegisterIs
<1>2. /\ pc[t] \in LoopPcs /\ UNCHANGED <<calls, call>> /\ m[1] = t
      /\ \A u \in Threads \ {t} : SameCall(u)
      /\ f[m] = wfmo[m]
      /\ IF state[e] THEN Satisfied(t, f) ELSE wfmo' = f /\ pos' = [pos EXCEPT ![t] = @ + 1]
  BY <1>1, RegisterIs DEF W
<1>3. CASE w # m
  <2>1. wfmo'[w] = WithoutExpired(e)[w]
    BY <1>1, <1>2, <1>3, SatisfiedIs
  <2>2. pos'[w[1]] = pos[w[1]]
    BY <1>1, <1>2, <1>3, WaitersAre DEF InWait, W, SameCall
  <2>3. wfmo[w].still => Unreported(w)' = Unreported(w)
    BY <1>1, <1>3, UnreportedRegister
  <2>4. wfmo'[w].all = wfmo[w].all /\ wfmo'[w].status = wfmo[w].status /\ wfmo'[w].still = wfmo[w].still
    <3>1. /\ wfmo \in [Waiters -> WaitObject] /\ wfmo[w] \in WaitObject /\ 1 \in Nat /\ Types
      BY DEF Control, Types
    <3>2. CASE wfmo[w].still \/ ~On(registered[e], w)
      BY <2>1, <3>1, <3>2, WithoutExpiredIs
    <3>3. CASE ~wfmo[w].still /\ On(registered[e], w)
      <4>1. WithoutExpired(e)[w] = Unref(wfmo, w, 1)[w]
        BY <3>1, <3>3, WithoutExpiredIs
      <4>2. wfmo[w].refs > 1
        BY <3>3, OnRegistered, WaitHeld
      <4>3. wfmo[w].refs # 1
        BY <4>2, <3>1 DEF WaitObject
      <4> QED
        BY <2>1, <4>1, <4>3, <3>1, UnrefIs
    <3> QED
      BY <3>2, <3>3
  <2> QED
    BY <2>2, <2>3, <2>4 DEF Becomes, Undisturbed
<1>4. CASE w = m
  <2>1. Unreported(w)' = IF state[e] THEN Unreported(w) ELSE Unreported(w) \cup {e}
    BY <1>1, <1>4, UnreportedRegister
  <2>2. CASE state[e]
    <3>1. wfmo'[m].still = wfmo[m].still /\ wfmo'[m].all = wfmo[m].all
      BY <2>2, <1>1, <1>2, SatisfiedIs
    <3>2. IF wfmo[m].all THEN pos'[t] = pos[t] + 1 ELSE wfmo'[m].status = pos[t] - 1
      BY <2>2, <1>1, <1>2, SatisfiedStatus
    <3> QED
      BY <2>1, <2>2, <3>1, <3>2, <1>1, <1>2, <1>4 DEF Becomes, Found
  <2>3. CASE ~state[e]
    <3>1. wfmo'[w] = wfmo[w] /\ pos'[t] = pos[t] + 1
      BY <2>3, <1>2, <1>4 DEF Control, Types
    <3> QED
      BY <2>1, <2>3, <3>1, <1>1, <1>2, <1>4 DEF Becomes, Listed
  <2> QED
    BY <2>2, <2>3
<1> QED
  BY <1>3, <1>4

LEMMA BecomesStep ==
  ASSUME Control, RefInv, LastUser, LeftInv, NEW t \in Threads, Step(t) \/ Expire(t) \/ SpuriousWake(t),
         NEW w \in Waiters, InWait(w), InWait(w)'
  PROVE  Becomes(t, w)
<1>1. FrameStep(t) => Becomes(t, w)
  BY FrameStepIs, BecomesFrame
<1>2. SetScan(t) \/ SetUnref(t) => Becomes(t, w)
  BY <1>1, GivesBackIs, BecomesDrop
<1>3. ~Destroy(t)
  BY WaitersAre DEF Destroy, LastUser, InWait, WaitingPcs
<1> QED
  BY <1>1, <1>2, <1>3, BecomesBegin, BecomesCheckDone, BecomesWaitReturn, BecomesSetFire, BecomesRegisterUnlocked,
     BecomesRegisterLocked DEF Step, FrameStep

(* A wait is registered at events its call names.                          *)
LEMMA RegistrationNames ==
  ASSUME Control, RefInv, NEW e \in Events, NEW i \in DOMAIN registered[e], InWait(registered[e][i][1])
  PROVE  LET r == registered[e][i]  evs == call[r[1][1]].evs IN
         r[1][1] \in Threads /\ r[2] + 1 < pos[r[1][1]] /\ r[2] + 1 \in DOMAIN evs /\ evs[r[2] + 1] = e
<1>1. PICK r \in Registration : r = registered[e][i]
  BY DEF Control, Types, Registration
<1>2. r[1] \in Waiters /\ r[2] \in Nat /\ r[1][1] \in Threads
  BY WaitersAre DEF Registration
<1>3. Fits(r, e)
  BY <1>1, RegistrationsOf DEF RefInv
<1>4. r[2] + 1 < pos[r[1][1]] /\ call[r[1][1]].evs[r[2] + 1] = e
  BY <1>1, <1>3 DEF Fits
<1>5. PICK p \in Nat, evs \in Seq(Events) : p = pos[r[1][1]] /\ evs = call[r[1][1]].evs
  BY <1>2 DEF Control, Types, Calls
<1>6. p <= Len(evs) + 1
  BY <1>2, <1>5 DEF Control, CallFits
<1>7. r[2] + 1 \in DOMAIN evs
  BY <1>2, <1>4, <1>5, <1>6
<1> QED
  BY <1>1, <1>2, <1>4, <1>5, <1>7

LEMMA HeadNames ==
  ASSUME Control, RefInv, NEW e \in Events, registered[e] # <<>>, InWait(Head1(e))
  PROVE  /\ Head(registered[e])[2] + 1 \in DOMAIN call[Head1(e)[1]].evs /\ Head(registered[e])[2] \in Nat
         /\ call[Head1(e)[1]].evs[Head(registered[e])[2] + 1] = e
         /\ Head(registered[e])[2] + 1 < pos[Head1(e)[1]]
  BY HeadWait, RegistrationNames

LEMMA NamesRegistered ==
  ASSUME Control, RefInv, NEW e \in Events, NEW w \in Waiters, On(registered[e], w), InWait(w)
  PROVE  e \in ToSet(call[w[1]].evs)
<1>1. PICK i \in DOMAIN registered[e] : registered[e][i][1] = w
  BY DEF On
<1>2. PICK evs : evs = call[w[1]].evs
  OBVIOUS
<1>3. registered[e][i][2] + 1 \in DOMAIN evs /\ evs[registered[e][i][2] + 1] = e
  BY <1>1, <1>2, RegistrationNames
<1>4. evs \in Seq(Events)
  BY <1>2, WaitersAre DEF Control, Types, Calls
<1> QED
  BY <1>2, <1>3, <1>4 DEF ToSet

(* Only SetLock takes an event's Mutex to report.                          *)
LEMMA HoldStarts ==
  ASSUME Control, RefInv, NEW t \in Threads, Step(t) \/ Expire(t) \/ SpuriousWake(t), NEW u \in Threads,
         pc'[u] \in HoldPcs, pc[u] \notin HoldPcs
  PROVE  u = t /\ SetLock(t)
<1>1. u = t
  BY StepOthers DEF Woken, HoldPcs
<1>2. pc'[t] \in HoldPcs /\ pc[t] \notin HoldPcs /\ Types
  BY <1>1 DEF Control
<1>3. ~Begin(t)
  <2> SUFFICES ASSUME Begin(t) PROVE FALSE
    OBVIOUS
  <2>1. PICK c \in Calls, m \in Waiters : Begins(t, c, m)
    BY BeginIs
  <2>2. c.op \in Ops /\ pc'[t] = EntryPoint[c.op]
    BY <2>1 DEF Begins
  <2> QED
    BY <2>2, <1>2 DEF EntryPoint, Ops, WaitOps, HoldPcs
<1>4. ~WaitFastPath(t) /\ ~WaitLocked(t) /\ ~RegisterUnlocked(t) /\ ~CheckDone(t) /\ ~WaitReturn(t)
  BY <1>2 DEF WaitFastPath, WaitLocked, RegisterUnlocked, Satisfied, CheckDone, WaitReturn, Goto, Types, HoldPcs
<1>5. ~RegisterLocked(t)
  BY <1>2, RegisterIs DEF HoldPcs
<1>6. ~SetScan(t) /\ ~SetFire(t) /\ ~SetSignal(t) /\ ~SetUnref(t)
  BY <1>2 DEF SetScan, SetFire, SetSignal, SetUnref, HoldPcs
<1>7. ~SetNotify(t)
  BY <1>2 DEF SetNotify, Finish, HoldPcs
<1>8. ~Reset(t) /\ ~Destroy(t) /\ ~Expire(t) /\ ~SpuriousWake(t)
  BY <1>2 DEF Reset, Destroy, Expire, SpuriousWake, Goto, Types, HoldPcs
<1> QED
  BY <1>1, <1>3, <1>4, <1>5, <1>6, <1>7, <1>8 DEF Step

(* No registration is added to an event whose Mutex another step holds.    *)
LEMMA HolderLists ==
  ASSUME Control, RefInv, NEW t \in Threads, Step(t) \/ Expire(t) \/ SpuriousWake(t), NEW u \in Threads,
         pc'[u] \in HoldPcs, pc[u] \in HoldPcs, NEW w
  PROVE  /\ E(u)' = E(u) /\ E(u) \in Events
         /\ On(registered'[E(u)], w) => On(registered[E(u)], w)
<1>0. E(u) \in Events /\ Types
  BY FirstEvent DEF HoldPcs, WaitingPcs, Control
<1>1. CASE u # t
  BY <1>0, <1>1, StepOthers DEF E
<1>2. CASE u = t
  <2>1. SetScan(t) \/ SetFire(t) \/ SetSignal(t) \/ SetUnref(t)
    <3>1. ~Begin(t) /\ ~WaitFastPath(t) /\ ~WaitLocked(t) /\ ~RegisterUnlocked(t) /\ ~CheckDone(t) /\ ~WaitReturn(t)
      BY <1>2 DEF Begin, WaitFastPath, WaitLocked, RegisterUnlocked, CheckDone, WaitReturn, HoldPcs
    <3>2. ~RegisterLocked(t) /\ ~SetLock(t) /\ ~SetNotify(t) /\ ~Reset(t) /\ ~Destroy(t) /\ ~Expire(t) /\ ~SpuriousWake(t)
      BY <1>2 DEF RegisterLocked, SetLock, SetNotify, Reset, Destroy, Expire, SpuriousWake, HoldPcs
    <3> QED
      BY <3>1, <3>2 DEF Step
  <2>2. UNCHANGED <<call, pos>>
    BY <2>1 DEF SetScan, SetFire, SetSignal, SetUnref
  <2>3. E(u)' = E(u)
    BY <2>2 DEF E
  <2>4. registered' = registered \/ (registered[E(t)] # <<>> /\ registered' = [registered EXCEPT ![E(t)] = Tail(@)])
    BY <2>1 DEF SetScan, SetFire, SetSignal, SetUnref, Control, Held, HoldPcs
  <2>5. CASE registered' = registered
    BY <2>3, <2>5, <1>0
  <2>6. CASE registered[E(t)] # <<>> /\ registered' = [registered EXCEPT ![E(t)] = Tail(@)]
    <3>1. PICK e \in Events : e = E(t)
      BY <1>0, <1>2
    <3>2. registered'[e] = Tail(registered[e]) /\ registered[e] \in Seq(Registration) /\ registered[e] # <<>>
      BY <2>6, <3>1, <1>0 DEF Types, Registration
    <3>3. On(Tail(registered[e]), w) => On(registered[e], w)
      <4>1. PICK s \in Seq(Registration) : s = registered[e] /\ s # <<>>
        BY <3>2
      <4>2. ASSUME NEW k \in DOMAIN Tail(s) PROVE k + 1 \in DOMAIN s /\ Tail(s)[k] = s[k + 1]
        BY <4>1, <4>2
      <4> QED
        BY <4>1, <4>2 DEF On
    <3> QED
      BY <2>3, <3>1, <3>2, <3>3, <1>0, <1>2
  <2> QED
    BY <2>4, <2>5, <2>6
<1> QED
  BY <1>1, <1>2

LEMMA HeldSeenStep ==
  ASSUME Control, RefInv, NEW t \in Threads, Step(t) \/ Expire(t) \/ SpuriousWake(t), NEW u \in Threads, HeldSeen(u)
  PROVE  HeldSeen(u)'
<1> SUFFICES ASSUME NEW w \in Waiters, pc'[u] \in HoldPcs, InWait(w)', On(registered'[E(u)'], w)
             PROVE  E(u)' \in seen'[w[1]]
  BY DEF HeldSeen, On
<1>0. w[1] \in Threads
  BY WaitersAre
<1>1. CASE pc[u] \in HoldPcs
  <2>1. E(u)' = E(u) /\ E(u) \in Events /\ On(registered[E(u)], w)
    BY <1>1, HolderLists
  <2>2. InWait(w)
    BY <2>1, OnRegistered, WaitStarts
  <2>3. E(u) \in seen[w[1]]
    BY <2>1, <2>2, <1>1 DEF HeldSeen
  <2>4. w[1] # t \/ ~Begin(t)
    BY <2>2 DEF Begin, InWait, WaitingPcs
  <2> QED
    BY <2>1, <2>3, <2>4, <1>0, SeenGrows
<1>2. CASE pc[u] \notin HoldPcs
  <2>1. u = t /\ SetLock(t)
    BY <1>2, HoldStarts
  <2>2. E(t) \in Events /\ pc[t] = "setLock" /\ pc'[t] = "scan" /\ Witness(E(t)) /\ UNCHANGED <<registered, calls, call, pos>>
        /\ \A v \in Threads \ {t} : pc'[v] = pc[v]
    BY <2>1, FirstEvent DEF SetLock, WaitingPcs, Goto, Control, Types
  <2>3. E(u)' = E(t)
    BY <2>1, <2>2 DEF E
  <2>4. InWait(w)
    BY <2>2, <1>0 DEF InWait, WaitingPcs
  <2>5. E(t) \in ToSet(call[w[1]].evs)
    BY <2>2, <2>3, <2>4, NamesRegistered
  <2>6. pc[w[1]] # "idle"
    BY <2>4 DEF InWait, WaitingPcs
  <2> QED
    BY <2>2, <2>3, <2>5, <2>6, <1>0 DEF Witness
<1> QED
  BY <1>1, <1>2

(* The event a loop has found set, in the list of its call.                *)
LEMMA FoundSeen ==
  ASSUME Control, NEW t \in Threads, pc[t] # "idle", pos[t] <= Len(call[t].evs), SetSeen(t), state[E(t)]
  PROVE  E(t) \in seen[t]
<1>1. E(t) \in Events /\ pos[t] \in DOMAIN call[t].evs
  BY EventOf
<1>2. E(t) \in ToSet(call[t].evs)
  BY <1>1 DEF E, ToSet
<1> QED
  BY <1>1, <1>2 DEF SetSeen

LEMMA ToldSeenStep ==
  ASSUME Control, RefInv, LastUser, LeftInv, SeenInv, NEW t \in Threads, Step(t) \/ Expire(t) \/ SpuriousWake(t),
         NEW w \in Waiters
  PROVE  ToldSeen(w)'
<1> SUFFICES ASSUME InWait(w)' PROVE IF wfmo'[w].all THEN Behind(w)' ELSE Named(w)'
  BY DEF ToldSeen
<1>1. CASE ~InWait(w)
  <2>1. w[1] = t /\ pos'[t] = 1 /\ (wfmo'[w].all \/ wfmo'[w].status = -1)
    BY <1>1, WaitStarts
  <2>2. 1..1 - 1 = {}
    OBVIOUS
  <2> QED
    BY <2>1, <2>2 DEF Behind, Named
<1>2. CASE InWait(w)
  <2> DEFINE u == w[1]
  <2>1. u \in Threads /\ (u # t \/ ~Begin(t))
    BY <1>2, WaitersAre DEF Begin, InWait, WaitingPcs
  <2>2. seen[u] \subseteq seen'[u] /\ call'[u] = call[u]
    BY <2>1, SeenGrows
  <2>3. Becomes(t, w)
    BY <1>2, BecomesStep
  <2>4. wfmo'[w].all = wfmo[w].all /\ (wfmo'[w].still => wfmo[w].still)
    BY <2>3 DEF Becomes
  <2>5. IF wfmo[w].all THEN Behind(w) ELSE Named(w)
    BY <1>2 DEF SeenInv, ToldSeen
  <2>6. PICK p \in Nat, evs \in Seq(Events) : p = pos[u] /\ evs = call[u].evs /\ p <= Len(evs) + 1 /\ p >= 1
    BY <2>1 DEF Control, Types, Calls, CallFits
  <2> HIDE DEF u
  <2>7. CASE Undisturbed(w)
    <3>1. wfmo[w].all => Behind(w)'
      BY <2>2, <2>4, <2>5, <2>7 DEF Behind, Undisturbed, u
    <3>2. ~wfmo[w].all => Named(w)'
      BY <2>2, <2>5, <2>7 DEF Named, Undisturbed, u
    <3> QED
      BY <3>1, <3>2, <2>4
  <2>8. CASE Told(t, w)
    <3>1. pc[t] \in HoldPcs /\ E(t) \in Events /\ registered[E(t)] # <<>> /\ w = Head1(E(t))
      BY <2>8, FirstEvent DEF Told, HoldPcs, WaitingPcs, Control, Held
    <3>2. On(registered[E(t)], w)
      BY <3>1, HeadWait DEF On
    <3>3. E(t) \in seen[u]
      BY <1>2, <3>1, <3>2 DEF SeenInv, HeldSeen, u
    <3>4. PICK index : index = Head(registered[E(t)])[2]
      OBVIOUS
    <3>5. index + 1 \in DOMAIN evs /\ index \in Nat /\ evs[index + 1] = E(t)
      BY <1>2, <2>6, <3>1, <3>4, HeadNames DEF u
    <3>6. wfmo[w].all => Behind(w)'
      <4> SUFFICES ASSUME wfmo[w].all, wfmo'[w].still, NEW k \in 1..p - 1
                   PROVE  evs[k] \in seen'[u] \/ evs[k] \in Unreported(w)'
        BY <2>2, <2>6, <2>8 DEF Behind, Told, u
      <4>1. evs[k] \in seen[u] \/ evs[k] \in Unreported(w)
        BY <2>4, <2>5, <2>6 DEF Behind, u
      <4> QED
        BY <4>1, <2>2, <2>8, <3>3 DEF Told
    <3>7. ~wfmo[w].all => Named(w)'
      <4>1. ~wfmo[w].all => wfmo'[w].status = index
        BY <2>8, <3>4 DEF Told
      <4> QED
        BY <4>1, <2>2, <2>6, <3>3, <3>5 DEF Named, u
    <3> QED
      BY <3>6, <3>7, <2>4
  <2>9. ASSUME w = W(t), pc[t] \in LoopPcs
        PROVE  /\ u = t /\ p <= Len(evs) /\ p \in DOMAIN evs /\ evs[p] = E(t)
               /\ state[E(t)] => E(t) \in seen[u]
    <3>1. u = t
      BY <2>9 DEF W, u
    <3>2. pc[t] # "idle" /\ pos[t] <= Len(call[t].evs)
      BY <2>9 DEF Control, CallFits, LoopPcs
    <3>3. p <= Len(evs) /\ p \in DOMAIN evs /\ evs[p] = E(t)
      BY <2>6, <3>1, <3>2 DEF E
    <3>4. state[E(t)] => E(t) \in seen[t]
      BY <3>2, FoundSeen DEF SeenInv
    <3> QED
      BY <3>1, <3>3, <3>4
  <2>10. CASE Found(t, w)
    <3>1. u = t /\ p \in DOMAIN evs /\ evs[p] = E(t) /\ E(t) \in seen[u]
      BY <2>9, <2>10 DEF Found
    <3>2. wfmo[w].all => Behind(w)'
      <4> SUFFICES ASSUME wfmo[w].all, wfmo'[w].still, NEW k \in 1..p
                   PROVE  evs[k] \in seen'[u] \/ evs[k] \in Unreported(w)'
        <5>1. wfmo[w].all => pos'[u] = p + 1
          BY <2>6, <2>10, <3>1 DEF Found
        <5>2. wfmo[w].all => pos'[u] - 1 = p
          BY <5>1, <2>6
        <5> QED
          BY <2>2, <2>6, <5>2 DEF Behind, u
      <4>1. k \in 1..p - 1 => evs[k] \in seen[u] \/ evs[k] \in Unreported(w)
        BY <2>4, <2>5, <2>6 DEF Behind, u
      <4>2. k \in 1..p - 1 \/ k = p
        BY <2>6
      <4> QED
        BY <4>1, <4>2, <3>1, <2>2, <2>10 DEF Found
    <3>3. ~wfmo[w].all => Named(w)'
      <4>1. ~wfmo[w].all => wfmo'[w].status = p - 1 /\ (p - 1) + 1 = p
        BY <2>6, <2>10, <3>1 DEF Found
      <4> QED
        BY <4>1, <2>2, <2>6, <3>1 DEF Named, u
    <3> QED
      BY <3>2, <3>3, <2>4
  <2>11. CASE Listed(t, w)
    <3>1. u = t /\ p \in DOMAIN evs /\ evs[p] = E(t)
      BY <2>9, <2>11 DEF Listed
    <3>2. wfmo[w].all => Behind(w)'
      <4> SUFFICES ASSUME wfmo[w].all, wfmo'[w].still, NEW k \in 1..p
                   PROVE  evs[k] \in seen'[u] \/ evs[k] \in Unreported(w)'
        <5>1. pos'[u] = p + 1
          BY <2>6, <2>11, <3>1 DEF Listed
        <5>2. pos'[u] - 1 = p
          BY <5>1, <2>6
        <5> QED
          BY <2>2, <2>6, <5>2 DEF Behind, u
      <4>1. k \in 1..p - 1 => evs[k] \in seen[u] \/ evs[k] \in Unreported(w)
        BY <2>4, <2>5, <2>6 DEF Behind, u
      <4>2. k \in 1..p - 1 \/ k = p
        BY <2>6
      <4> QED
        BY <4>1, <4>2, <3>1, <2>2, <2>11 DEF Listed
    <3>3. ~wfmo[w].all => Named(w)'
      BY <2>2, <2>5, <2>11 DEF Named, Listed, u
    <3> QED
      BY <3>2, <3>3, <2>4
  <2> QED
    BY <2>3, <2>7, <2>8, <2>10, <2>11 DEF Becomes
<1> QED
  BY <1>1, <1>2

(* A wait ends by CheckDone ...                                            *)
LEMMA UnrefStarts ==
  ASSUME Control, RefInv, NEW t \in Threads, Step(t) \/ Expire(t) \/ SpuriousWake(t), pc'[t] = "unref"
  PROVE  CheckDone(t)
<1>0. Types
  BY DEF Control
<1>1. ~Begin(t)
  <2> SUFFICES ASSUME Begin(t) PROVE FALSE
    OBVIOUS
  <2>1. PICK c \in Calls, m \in Waiters : Begins(t, c, m)
    BY BeginIs
  <2>2. c.op \in Ops /\ pc'[t] = EntryPoint[c.op]
    BY <2>1 DEF Begins
  <2> QED
    BY <2>2 DEF EntryPoint, Ops, WaitOps
<1>2. ~WaitFastPath(t) /\ ~WaitLocked(t) /\ ~RegisterUnlocked(t) /\ ~WaitReturn(t)
  BY <1>0 DEF WaitFastPath, WaitLocked, RegisterUnlocked, Satisfied, WaitReturn, Goto, Types
<1>3. ~RegisterLocked(t)
  BY RegisterIs
<1>4. ~SetLock(t) /\ ~SetScan(t) /\ ~SetFire(t) /\ ~SetUnref(t)
  BY <1>0 DEF SetLock, SetScan, SetFire, SetUnref, Finish, Goto, Types
<1>5. ~SetSignal(t)
  BY ControlSetSignal
<1>6. ~SetNotify(t)
  BY DEF SetNotify, Finish
<1>7. ~Reset(t) /\ ~Destroy(t) /\ ~Expire(t) /\ ~SpuriousWake(t)
  BY <1>0 DEF Reset, Destroy, Expire, SpuriousWake, Goto, Types
<1> QED
  BY <1>1, <1>2, <1>3, <1>4, <1>5, <1>6, <1>7 DEF Step

(* ... and succeeds only when it has all it waits for.                     *)
LEMMA OverSeenStarts ==
  ASSUME Control, RefInv, LeftInv, SeenInv, NEW t \in Threads, CheckDone(t), result'[t] = 0, pc'[t] = "unref"
  PROVE  OverSeen(t)'
<1>1. /\ pc[t] \in {"check", "unpark"} /\ pc[t] \in WaitingPcs \ LoopPcs /\ pc[t] # "idle" /\ pc[t] # "unref"
      /\ UNCHANGED <<calls, call, pos, seen>> /\ wfmo \in [Waiters -> WaitObject] /\ Types
  BY DEF CheckDone, WaitingPcs, LoopPcs, Control, Types
<1>2. PICK w \in Waiters : w = W(t) /\ w[1] = t
  BY <1>1, WaitOf
<1>3. result[t] = 0 /\ Done(w)
  BY <1>1, <1>2 DEF CheckDone, Goto, Types, Timeout
<1>4. wfmo'[w].all = wfmo[w].all /\ wfmo'[w].status = wfmo[w].status
  <2>1. \/ wfmo' = [wfmo EXCEPT ![w].owner = Nobody, ![w].still = FALSE]
        \/ wfmo' = [wfmo EXCEPT ![w].owner = Nobody]
    BY <1>2 DEF CheckDone
  <2> QED
    BY <2>1, <1>1 DEF WaitObject
<1>5. InWait(w) /\ W(t)' = w
  BY <1>1, <1>2 DEF InWait, W
<1>6. CASE ~wfmo[w].all
  BY <1>3, <1>4, <1>5, <1>6 DEF OverSeen, Done
<1>7. CASE wfmo[w].all
  <2>1. wfmo[w].status = 0 /\ wfmo[w].still /\ Behind(w)
    BY <1>1, <1>2, <1>3, <1>5, <1>7 DEF Done, RefInv, WaitLives, SeenInv, ToldSeen
  <2>2. PICK evs \in Seq(Events) : evs = call[t].evs /\ pos[t] = Len(evs) + 1
    BY <1>1 DEF Types, Calls, Control, CallFits
  <2>3. Unvisited(w) = 0 /\ pos[t] - 1 = Len(evs)
    <3>1. PICK n \in Nat : n = Len(evs)
      OBVIOUS
    <3>2. Unvisited(w) = n + 1 - (n + 1)
      BY <3>1, <2>2, <1>2, <1>5 DEF Unvisited
    <3> QED
      BY <3>1, <3>2, <2>2
  <2>4. Cardinality(Unreported(w)) = 0
    BY <2>1, <2>3, <1>7, UnreportedFinite DEF LeftInv, LeftOf, Left
  <2>5. Unreported(w) = {}
    BY <2>4, UnreportedFinite, FS_EmptySet
  <2>6. \A k \in 1..Len(evs) : evs[k] \in seen[t]
    BY <2>1, <2>2, <2>3, <2>5, <1>2 DEF Behind
  <2>7. ToSet(evs) \subseteq seen[t]
    BY <2>6 DEF ToSet
  <2> QED
    BY <2>2, <2>7, <1>1, <1>4, <1>5, <1>7 DEF OverSeen
<1> QED
  BY <1>6, <1>7

LEMMA OverSeenStep ==
  ASSUME Control, RefInv, LastUser, LeftInv, SeenInv, NEW t \in Threads, Step(t) \/ Expire(t) \/ SpuriousWake(t),
         NEW u \in Threads
  PROVE  OverSeen(u)'
<1> SUFFICES ASSUME result'[u] = 0, pc'[u] = "unref" PROVE OverSeen(u)'
  BY DEF OverSeen
<1>1. CASE u = t
  BY <1>1, UnrefStarts, OverSeenStarts
<1>2. CASE u # t
  <2>1. pc[u] = "unref" /\ UNCHANGED <<calls[u], call[u], pos[u], result[u]>>
    BY <1>2, StepOthers DEF Woken
  <2>2. PICK w \in Waiters : w = W(u) /\ w[1] = u
    BY <2>1, WaitOf
  <2>3. W(u)' = w /\ InWait(w) /\ InWait(w)' /\ w # W(t)
    BY <2>1, <2>2, <1>2 DEF W, InWait, WaitingPcs
  <2>4. Becomes(t, w)
    BY <2>3, BecomesStep
  <2>5. wfmo'[w].all = wfmo[w].all /\ (Undisturbed(w) \/ Told(t, w))
    BY <2>3, <2>4 DEF Becomes, Found, Listed
  <2>6. seen[u] \subseteq seen'[u]
    BY <1>2, SeenGrows
  <2>7. OverSeen(u)
    BY DEF SeenInv
  <2>8. CASE wfmo[w].all
    BY <2>1, <2>2, <2>3, <2>5, <2>6, <2>7, <2>8 DEF OverSeen
  <2>9. CASE ~wfmo[w].all
    <3>1. wfmo[w].status # -1
      BY <2>1, <2>2, <2>7, <2>9 DEF OverSeen
    <3>2. Told(t, w) => wfmo'[w].status \in Nat
      <4> SUFFICES ASSUME Told(t, w) PROVE wfmo'[w].status \in Nat
        OBVIOUS
      <4>1. E(t) \in Events /\ registered[E(t)] # <<>>
        BY FirstEvent DEF Told, HoldPcs, WaitingPcs, Control, Held
      <4> QED
        BY <4>1, <2>9, HeadWait DEF Told
    <3>3. wfmo'[w].status # -1
      BY <3>1, <3>2, <2>5 DEF Undisturbed
    <3> QED
      BY <3>3, <2>3, <2>5, <2>9 DEF OverSeen
  <2> QED
    BY <2>8, <2>9
<1> QED
  BY <1>1, <1>2

LEMMA DoneSeenStep ==
  ASSUME Control, RefInv, SeenInv, NEW t \in Threads, Step(t) \/ Expire(t) \/ SpuriousWake(t), NEW u \in Threads
  PROVE  DoneSeen(u)'
<1> SUFFICES ASSUME result'[u] = 0, pc'[u] = "idle", call'[u].op = "WaitForEvent"
             PROVE  ToSet(call'[u].evs) \subseteq seen'[u]
  BY DEF DoneSeen
<1>1. CASE u # t
  <2>1. pc[u] = "idle" /\ UNCHANGED <<call[u], result[u]>>
    BY <1>1, StepOthers DEF Woken
  <2>2. seen[u] \subseteq seen'[u]
    BY <1>1, SeenGrows
  <2> QED
    BY <2>1, <2>2 DEF SeenInv, DoneSeen
<1>2. CASE u = t
  <2>1. ~Begin(t)
    <3> SUFFICES ASSUME Begin(t) PROVE FALSE
      OBVIOUS
    <3>1. PICK c \in Calls, m \in Waiters : Begins(t, c, m)
      BY BeginIs
    <3>2. c.op \in Ops /\ pc'[t] = EntryPoint[c.op]
      BY <3>1 DEF Begins
    <3> QED
      BY <3>2, <1>2 DEF EntryPoint, Ops, WaitOps
  <2>2. pc[t] # "idle" /\ call' = call /\ seen[t] \subseteq seen'[t]
    BY <2>1, StepPcs, SeenGrows
  <2>3. Types /\ call[t].op = "WaitForEvent" /\ CallFits(t)
    BY <2>2, <1>2 DEF Control
  <2>4. pc[t] \in {"fastPath", "waitLock", "asleep", "relock"}
    <3>1. pc[t] \in Pcs
      BY <2>3 DEF Types
    <3> QED
      BY <2>2, <2>3, <3>1 DEF CallFits, Pcs, WaitingPcs, SetPcs, HoldPcs
  <2>5. WaitFastPath(t) \/ WaitLocked(t) \/ Expire(t) \/ SpuriousWake(t)
    <3>1. ~RegisterUnlocked(t) /\ ~RegisterLocked(t) /\ ~CheckDone(t) /\ ~WaitReturn(t) /\ ~Reset(t) /\ ~Destroy(t)
      BY <2>4 DEF RegisterUnlocked, RegisterLocked, CheckDone, WaitReturn, Reset, Destroy
    <3>2. ~SetLock(t) /\ ~SetScan(t) /\ ~SetFire(t) /\ ~SetSignal(t) /\ ~SetUnref(t) /\ ~SetNotify(t)
      BY <2>4 DEF SetLock, SetScan, SetFire, SetSignal, SetUnref, SetNotify
    <3> QED
      BY <2>1, <3>1, <3>2 DEF Step
  <2>6. state[E(t)]
    <3>1. WaitFastPath(t) => state[E(t)]
      BY <2>3, <1>2 DEF WaitFastPath, Goto, Types, Timeout
    <3>2. WaitLocked(t) => state[E(t)]
      BY <2>3, <1>2 DEF WaitLocked, Goto, Types, Timeout
    <3>3. ~Expire(t) /\ ~SpuriousWake(t)
      BY <2>3, <1>2 DEF Expire, SpuriousWake, Goto, Types
    <3> QED
      BY <2>5, <3>1, <3>2, <3>3
  <2>7. pos[t] = 1 /\ pos[t] <= Len(call[t].evs)
    BY <2>4, FirstEvent DEF WaitingPcs
  <2>8. E(t) \in seen[t]
    BY <2>2, <2>6, <2>7, FoundSeen DEF SeenInv
  <2>9. PICK evs \in Seq(Events) : evs = call[t].evs /\ Len(evs) = 1 /\ evs[1] = E(t)
    BY <2>3, <2>7 DEF SeenInv, OneEvent, E, Types, Calls
  <2>10. ToSet(evs) \subseteq seen[t]
    BY <2>8, <2>9 DEF ToSet
  <2> QED
    BY <2>2, <2>9, <2>10, <1>2
<1> QED
  BY <1>1, <1>2

LEMMA OneEventStep ==
  ASSUME Control, RefInv, SeenInv, NEW t \in Threads, Step(t) \/ Expire(t) \/ SpuriousWake(t), NEW u \in Threads
  PROVE  OneEvent(u)'
<1>1. CASE u = t /\ Begin(t)
  <2>1. PICK c \in Calls, m \in Waiters : Begins(t, c, m)
    BY <1>1, BeginIs
  <2>2. call'[t] = c /\ (c.op \notin {"WaitAny", "WaitAll"} => Len(c.evs) = 1)
    BY <2>1 DEF Begins
  <2> QED
    BY <2>2, <1>1 DEF OneEvent
<1>2. CASE u # t \/ ~Begin(t)
  BY <1>2, SeenGrows DEF SeenInv, OneEvent
<1> QED
  BY <1>1, <1>2

LEMMA SeenInit == Init => SeenInv
<1> SUFFICES ASSUME Init PROVE SeenInv
  OBVIOUS
<1>1. ASSUME NEW u \in Threads PROVE SetSeen(u) /\ HeldSeen(u) /\ OverSeen(u) /\ DoneSeen(u) /\ OneEvent(u)
  BY DEF Init, SetSeen, HeldSeen, OverSeen, DoneSeen, OneEvent, HoldPcs, NoCall
<1>2. ASSUME NEW w \in Waiters PROVE ToldSeen(w)
  BY WaitersAre DEF Init, ToldSeen, InWait, WaitingPcs
<1> QED
  BY <1>1, <1>2 DEF SeenInv

LEMMA SeenStep == Control /\ RefInv /\ LastUser /\ LeftInv /\ SeenInv /\ [Next]_vars => SeenInv'
<1> SUFFICES ASSUME Control, RefInv, LastUser, LeftInv, SeenInv, [Next]_vars PROVE SeenInv'
  OBVIOUS
<1>1. CASE UNCHANGED vars
  <2>1. ASSUME NEW u \in Threads PROVE (SetSeen(u) /\ HeldSeen(u) /\ OverSeen(u) /\ DoneSeen(u) /\ OneEvent(u))'
    BY <1>1 DEF vars, SeenInv, SetSeen, HeldSeen, OverSeen, DoneSeen, OneEvent, E, W, On, InWait
  <2>2. ASSUME NEW w \in Waiters PROVE ToldSeen(w)'
    <3>1. Unreported(w)' = Unreported(w) /\ (InWait(w)' <=> InWait(w))
      BY <1>1, UnreportedSame DEF vars, ReportSame, InWait
    <3> QED
      BY <3>1, <1>1 DEF vars, SeenInv, ToldSeen, Behind, Named
  <2> QED
    BY <2>1, <2>2 DEF SeenInv
<1>2. ASSUME NEW t \in Threads, Step(t) \/ Expire(t) \/ SpuriousWake(t) PROVE SeenInv'
  <2>1. ASSUME NEW u \in Threads PROVE (SetSeen(u) /\ HeldSeen(u) /\ OverSeen(u) /\ DoneSeen(u) /\ OneEvent(u))'
    <3>1. SetSeen(u) /\ HeldSeen(u)
      BY DEF SeenInv
    <3>2. SetSeen(u)' /\ HeldSeen(u)'
      BY <3>1, <1>2, SetSeenStep, HeldSeenStep
    <3>3. OverSeen(u)' /\ DoneSeen(u)' /\ OneEvent(u)'
      BY <1>2, OverSeenStep, DoneSeenStep, OneEventStep
    <3> QED
      BY <3>2, <3>3
  <2>2. ASSUME NEW w \in Waiters PROVE ToldSeen(w)'
    BY <1>2, ToldSeenStep
  <2> QED
    BY <2>1, <2>2 DEF SeenInv
<1> QED
  BY <1>1, <1>2 DEF Next

(* A wait succeeds only for events that were set in its time: no spurious  *)
(* wakeup, no SetEvent meant for another wait and no registration of an    *)
(* earlier wait is taken for the event: PEvents!NoFalseWakeup.             *)
THEOREM EventsNoFalseWakeup == Spec => []NoFalseWakeup
<1>1. Init => Control /\ RefInv /\ LastUser /\ LeftInv /\ SeenInv
  BY ControlInit, RefInit, LeftInit, SeenInit
<1>2. Control /\ RefInv /\ LastUser /\ LeftInv /\ SeenInv /\ [Next]_vars => (Control /\ RefInv /\ LastUser /\ LeftInv /\ SeenInv)'
  BY ControlStep, RefStep, LastUserStep, LeftStep, SeenStep
<1>3. Control /\ SeenInv => NoFalseWakeup
  <2> SUFFICES ASSUME Control, SeenInv, NEW t \in Threads, result[t] = 0
               PROVE  /\ pc[t] = "idle" /\ call[t].op = "WaitForEvent" => ToSet(call[t].evs) \subseteq seen[t]
                      /\ pc[t] = "unref" =>
                           IF wfmo[W(t)].all THEN ToSet(call[t].evs) \subseteq seen[t]
                           ELSE call[t].evs[wfmo[W(t)].status + 1] \in seen[t]
    BY DEF NoFalseWakeup
  <2>1. DoneSeen(t) /\ OverSeen(t)
    BY DEF SeenInv
  <2>2. ASSUME pc[t] = "unref", ~wfmo[W(t)].all PROVE call[t].evs[wfmo[W(t)].status + 1] \in seen[t]
    <3>1. PICK w \in Waiters : w = W(t) /\ w[1] = t
      BY <2>2, WaitOf
    <3>2. InWait(w) /\ wfmo[w].status # -1
      BY <2>1, <2>2, <3>1 DEF OverSeen, InWait, W, WaitingPcs
    <3>3. Named(w)
      BY <2>2, <3>1, <3>2 DEF SeenInv, ToldSeen
    <3> QED
      BY <3>1, <3>2, <3>3 DEF Named
  <2> QED
    BY <2>1, <2>2 DEF DoneSeen, OverSeen
<1> QED
  BY <1>1, <1>2, <1>3, PTL DEF Spec

-----------------------------------------------------------------------------
(* Mutexes in an order                                                     *)

(* Threads make the calls of their scripts, and a wait's Mutex is held by  *)
(* its own thread while it registers.                                      *)
Scripted(t) == pc[t] # "idle" => calls[t] \in DOMAIN Script[t] /\ call[t] \in Script[t][calls[t]]
Owned(w)    == wfmo[w].owner # Nobody => /\ wfmo[w].owner = w[1] /\ InWait(w)
                                         /\ pc[w[1]] \in LoopPcs \cup {"check"}

LEMMA ScriptedStep ==
  ASSUME Control, NEW t \in Threads, Step(t) \/ Expire(t) \/ SpuriousWake(t), NEW u \in Threads, Scripted(u)
  PROVE  Scripted(u)'
<1>1. CASE u = t /\ Begin(t)
  <2>1. PICK c \in Script[t][calls[t] + 1] : call' = [call EXCEPT ![t] = c] /\ calls' = [calls EXCEPT ![t] = @ + 1]
    BY <1>1 DEF Begin
  <2>2. calls[t] + 1 \in DOMAIN Script[t] /\ calls'[t] = calls[t] + 1 /\ call'[t] = c
    BY <2>1, <1>1, ScriptAssumption DEF Begin, Control, Types
  <2> QED
    BY <2>2, <1>1 DEF Scripted
<1>2. CASE u # t \/ ~Begin(t)
  BY <1>2, SeenGrows DEF Scripted
<1> QED
  BY <1>1, <1>2

LEMMA OwnedKept ==
  ASSUME NEW w \in Waiters, Apart(w), Owned(w), wfmo'[w].owner \in {wfmo[w].owner, Nobody}
  PROVE  Owned(w)'
  BY OwnSame DEF Owned

LEMMA OwnedRegister ==
  ASSUME Control, RefInv, NEW t \in Threads, RegisterUnlocked(t) \/ RegisterLocked(t), NEW w \in Waiters, Owned(w)
  PROVE  Owned(w)'
<1>1. /\ pc[t] \in LoopPcs /\ pc[t] # "idle" /\ UNCHANGED <<calls, call>> /\ Types /\ wfmo \in [Waiters -> WaitObject]
  BY DEF RegisterUnlocked, RegisterLocked, LoopPcs, Control, Types
<1>2. PICK m \in Waiters : m = W(t) /\ m[1] = t
  BY <1>1, WaitOf
<1>3. PICK f \in [Waiters -> WaitObject] :
        /\ \A v \in Waiters : f[v].owner \in {wfmo[v].owner, Nobody}
        /\ f[m] = wfmo[m]
        /\ Satisfied(t, f) \/ (wfmo' = f /\ pos' = pos /\ skipped' = skipped /\ Goto(t, "regLock"))
             \/ (wfmo' = f /\ pos' = [pos EXCEPT ![t] = @ + 1] /\ skipped' = skipped
                 /\ Goto(t, IF pos[t] = Len(call[t].evs) THEN "check" ELSE "register"))
  <2>1. CASE RegisterUnlocked(t)
    BY <2>1, <1>1 DEF RegisterUnlocked
  <2>2. CASE RegisterLocked(t)
    <3>1. PICK e \in Events, f \in [Waiters -> WaitObject] : e = E(t) /\ f = WithoutExpired(e) /\ f[m] = wfmo[m]
      BY <2>2, <1>2, RegisterIs
    <3>2. ASSUME NEW v \in Waiters PROVE f[v].owner \in {wfmo[v].owner, Nobody}
      <4>1. f[v] = wfmo[v] \/ f[v] = Unref(wfmo, v, 1)[v]
        BY <3>1, <1>1, WithoutExpiredIs
      <4>2. Unref(wfmo, v, 1)[v] = Freed \/ Unref(wfmo, v, 1)[v].owner = wfmo[v].owner
        BY <1>1, UnrefIs
      <4>3. Freed.owner = Nobody
        BY DEF Freed
      <4> QED
        BY <4>1, <4>2, <4>3
    <3>3. Satisfied(t, f) \/ (wfmo' = f /\ pos' = [pos EXCEPT ![t] = @ + 1] /\ skipped' = skipped
             /\ Goto(t, IF pos[t] = Len(call[t].evs) THEN "check" ELSE "register"))
      BY <2>2, <3>1 DEF RegisterLocked
    <3> QED
      BY <3>1, <3>2, <3>3
  <2> QED
    BY <2>1, <2>2
<1>4. /\ \A u \in Threads \ {t} : pos'[u] = pos[u] /\ skipped'[u] = skipped[u] /\ pc'[u] = pc[u]
      /\ pc'[t] \in LoopPcs \cup {"check"}
      /\ wfmo'[m].owner = f[m].owner /\ \A v \in Waiters : v # m => wfmo'[v] = f[v]
  <2>1. CASE Satisfied(t, f)
    BY <2>1, <1>1, <1>2, SatisfiedIs DEF LoopPcs
  <2>2. CASE ~Satisfied(t, f)
    BY <2>2, <1>1, <1>3 DEF Goto, Types, LoopPcs
  <2> QED
    BY <2>1, <2>2
<1>5. \A u \in Threads \ {t} : SameCall(u)
  BY <1>1, <1>4 DEF SameCall, SameWait
<1>6. CASE w # m
  <2>1. Apart(w)
    BY <1>1, <1>2, <1>5, <1>6, ApartOthers
  <2> QED
    BY <2>1, <1>3, <1>4, <1>6, OwnedKept
<1>7. CASE w = m
  <2>1. InWait(w)'
    BY <1>1, <1>2, <1>4, <1>7 DEF InWait, W, LoopPcs, WaitingPcs
  <2> QED
    BY <2>1, <1>2, <1>3, <1>4, <1>7 DEF Owned
<1> QED
  BY <1>6, <1>7

LEMMA OwnedStep ==
  ASSUME Control, RefInv, LeftInv, NEW t \in Threads, Step(t) \/ Expire(t) \/ SpuriousWake(t), NEW w \in Waiters, Owned(w)
  PROVE  Owned(w)'
<1>0. Types /\ wfmo \in [Waiters -> WaitObject] /\ wfmo[w] \in WaitObject /\ w[1] \in Threads /\ Freed.owner = Nobody
  BY WaitersAre DEF Control, Types, Freed
<1>1. ASSUME FrameStep(t) PROVE Owned(w)'
  <2>1. Apart(w) /\ wfmo' = wfmo
    BY <1>0, <1>1, FrameStepIs DEF Apart, SameCall
  <2> QED
    BY <2>1, OwnedKept
<1>2. ASSUME SetScan(t) \/ SetUnref(t), ~FrameStep(t) PROVE Owned(w)'
  <2>1. E(t) \in Events /\ Drops(t, E(t))
    BY <1>2, GivesBackIs
  <2>2. PICK h \in Waiters : h = Head1(E(t))
    BY <2>1, HeadWait DEF Drops
  <2>3. Apart(w) /\ wfmo' = Unref(wfmo, h, 1)
    BY <2>1, <2>2, <1>0 DEF Drops, Apart
  <2>4. wfmo'[w].owner \in {wfmo[w].owner, Nobody}
    BY <2>3, <1>0, UnrefIs
  <2> QED
    BY <2>3, <2>4, OwnedKept
<1>3. ASSUME SetFire(t) PROVE Owned(w)'
  <2>1. /\ pc[t] = "fire" /\ UNCHANGED <<calls, call, pos, skipped>>
        /\ wfmo'[w].owner = wfmo[w].owner
    BY <1>0, <1>3 DEF SetFire, WaitObject
  <2>2. \A u \in Threads : SameCall(u)
    BY <1>0, <1>3, <2>1 DEF SetFire, Goto, Types, SameCall, SameWait, WaitingPcs
  <2>3. Apart(w)
    BY <2>2, <1>0 DEF Apart
  <2> QED
    BY <2>1, <2>3, OwnedKept
<1>4. ASSUME Destroy(t) PROVE Owned(w)'
  <2>1. /\ pc[t] = "destroy" /\ UNCHANGED <<calls, call, pos, skipped>> /\ pc' = [pc EXCEPT ![t] = "idle"]
        /\ wfmo' = WithoutExpired(E(t)) /\ E(t) \in Events
    BY <1>4, FirstEvent DEF Destroy, Goto, WaitingPcs
  <2>2. \A u \in Threads : SameCall(u)
    BY <1>0, <2>1 DEF Types, SameCall, SameWait, WaitingPcs
  <2>3. Apart(w)
    BY <2>2, <1>0 DEF Apart
  <2>4. wfmo'[w].owner \in {wfmo[w].owner, Nobody}
    BY <2>1, <1>0, WithoutExpiredIs, UnrefIs
  <2> QED
    BY <2>3, <2>4, OwnedKept
<1>5. ASSUME CheckDone(t) \/ WaitReturn(t) PROVE Owned(w)'
  <2>1. /\ pc[t] \in {"check", "unpark", "unref"} /\ UNCHANGED <<calls, call, pos, skipped>> /\ 1 + skipped[t] \in Nat
        /\ \A u \in Threads \ {t} : pc'[u] = pc[u]
    BY <1>0, <1>5 DEF CheckDone, WaitReturn, Goto, Types
  <2>2. PICK m \in Waiters : m = W(t) /\ m[1] = t
    BY <2>1, WaitOf
  <2>3. CheckDone(t) => /\ wfmo'[m].owner = Nobody
                        /\ \A v \in Waiters : v # m => wfmo'[v] = wfmo[v]
    <3>1. CheckDone(t) => \/ wfmo' = [wfmo EXCEPT ![m].owner = Nobody, ![m].still = FALSE]
                          \/ wfmo' = [wfmo EXCEPT ![m].owner = Nobody]
      BY <2>2 DEF CheckDone
    <3> QED
      BY <3>1, <1>0 DEF WaitObject
  <2>4. WaitReturn(t) => /\ pc[t] = "unref" /\ wfmo'[m].owner \in {wfmo[m].owner, Nobody}
                         /\ \A v \in Waiters : v # m => wfmo'[v] = wfmo[v]
    <3>1. WaitReturn(t) => pc[t] = "unref" /\ wfmo' = Unref(wfmo, m, 1 + skipped[t])
      BY <2>2 DEF WaitReturn
    <3> QED
      BY <3>1, <2>1, <1>0, UnrefIs
  <2>5. CASE w # m
    <3>1. Apart(w)
      <4>1. \A u \in Threads \ {t} : SameCall(u)
        BY <2>1 DEF SameCall, SameWait
      <4> QED
        BY <4>1, <2>1, <2>2, <2>5, ApartOthers
    <3> QED
      BY <3>1, <2>3, <2>4, <2>5, <1>5, OwnedKept
  <2>6. CASE w = m
    BY <2>2, <2>3, <2>4, <2>6, <1>5 DEF Owned, LoopPcs
  <2> QED
    BY <2>5, <2>6
<1>6. ASSUME Begin(t) PROVE Owned(w)'
  <2>1. PICK c \in Calls, m \in Waiters : Begins(t, c, m)
    BY <1>6, BeginIs
  <2>2. CASE w # m \/ c.op \notin {"WaitAny", "WaitAll"}
    <3>1. Apart(w) /\ wfmo'[w] = wfmo[w]
      BY <2>1, <2>2 DEF Begins
    <3> QED
      BY <3>1, OwnedKept
  <2>3. CASE w = m /\ c.op \in {"WaitAny", "WaitAll"}
    <3>1. wfmo'[w] = NewWait(t, c) /\ InWait(w)' /\ pc'[t] = "register" /\ w[1] = t
      BY <2>1, <2>3 DEF Begins
    <3>2. PICK o : o = NewWait(t, c)
      OBVIOUS
    <3>3. o.owner = t
      BY <3>2 DEF NewWait
    <3> QED
      BY <3>1, <3>2, <3>3 DEF Owned, LoopPcs
  <2> QED
    BY <2>2, <2>3
<1> QED
  BY <1>1, <1>2, <1>3, <1>4, <1>5, <1>6, OwnedRegister DEF Step, FrameStep

LockInv == (\A t \in Threads : Scripted(t)) /\ (\A w \in Waiters : Owned(w))

LEMMA LockInit == Init => LockInv
<1> SUFFICES ASSUME Init PROVE LockInv
  OBVIOUS
<1>1. ASSUME NEW t \in Threads PROVE Scripted(t)
  BY DEF Init, Scripted
<1>2. ASSUME NEW w \in Waiters PROVE Owned(w)
  BY DEF Init, Owned, Freed
<1> QED
  BY <1>1, <1>2 DEF LockInv

LEMMA LockStep == Control /\ RefInv /\ LeftInv /\ LockInv /\ [Next]_vars => LockInv'
<1> SUFFICES ASSUME Control, RefInv, LeftInv, LockInv, [Next]_vars PROVE LockInv'
  OBVIOUS
<1>1. CASE UNCHANGED vars
  BY <1>1 DEF vars, LockInv, Scripted, Owned, InWait
<1>2. ASSUME NEW t \in Threads, Step(t) \/ Expire(t) \/ SpuriousWake(t) PROVE LockInv'
  BY <1>2, ScriptedStep, OwnedStep DEF LockInv
<1> QED
  BY <1>1, <1>2 DEF Next

LockPcs == {"waitLock", "relock", "regLock", "setLock", "destroy"}

LEMMA BlockersAre ==
  ASSUME NEW t
  PROVE  /\ pc[t] \in LockPcs => Blockers(t) = {eMutex[E(t)]}
         /\ pc[t] = "fire" => Blockers(t) = {wfmo[Head1(E(t))].owner}
         /\ pc[t] = "unpark" => Blockers(t) = {wfmo[W(t)].owner}
         /\ pc[t] \notin LockPcs \cup {"fire", "unpark"} => Blockers(t) = {}
  BY DEF Blockers, LockPcs

(* Whom a blocked thread waits for.                                        *)
BlockedBy(t, x) == Blockers(t) = {x} /\ x \in Threads

LEMMA BlockedOnEvent ==
  ASSUME Control, NEW t \in Threads, pc[t] \in LockPcs, NEW u, BlockedBy(t, u)
  PROVE  E(t) \in Events /\ pc[u] \in HoldPcs /\ E(u) = E(t)
<1>1. E(t) \in Events
  <2>1. CASE pc[t] = "regLock"
    <3>1. pc[t] # "idle" /\ pos[t] <= Len(call[t].evs)
      BY <2>1 DEF Control, CallFits, LoopPcs
    <3> QED
      BY <3>1, EventOf
  <2>2. CASE pc[t] # "regLock"
    BY <2>2, FirstEvent DEF LockPcs, WaitingPcs
  <2> QED
    BY <2>1, <2>2
<1>2. eMutex[E(t)] = u /\ u \in Threads
  BY BlockersAre DEF BlockedBy
<1> QED
  BY <1>1, <1>2 DEF Control, Held

LEMMA BlockedOnWait ==
  ASSUME Control, RefInv, LockInv, NEW t \in Threads, pc[t] = "fire", NEW v, BlockedBy(t, v)
  PROVE  /\ E(t) \in Events /\ registered[E(t)] # <<>> /\ v = Head1(E(t))[1] /\ InWait(Head1(E(t)))
         /\ pc[v] \in LoopPcs \cup {"check"}
<1>1. E(t) \in Events /\ registered[E(t)] # <<>>
  BY FirstEvent DEF WaitingPcs, Control, Held, HoldPcs
<1>2. PICK h \in Waiters : h = Head1(E(t))
  BY <1>1, HeadWait
<1>3. wfmo[h].owner = v /\ v # Nobody
  BY <1>2, BlockersAre, ScriptAssumption DEF BlockedBy
<1>4. v = h[1] /\ InWait(h) /\ pc[h[1]] \in LoopPcs \cup {"check"}
  BY <1>3 DEF LockInv, Owned
<1> QED
  BY <1>1, <1>2, <1>4

LEMMA NotBlockedOnSelf ==
  ASSUME Control, LockInv, NEW t \in Threads, pc[t] = "unpark", NEW v
  PROVE  ~BlockedBy(t, v)
<1>1. PICK w \in Waiters : w = W(t) /\ w[1] = t
  BY WaitOf
<1>2. wfmo[w].owner = Nobody
  BY <1>1 DEF LockInv, Owned, LoopPcs
<1> QED
  BY <1>1, <1>2, BlockersAre, ScriptAssumption DEF BlockedBy

(* A cycle of waiting threads would lead from the event one registration   *)
(* loop waits for to one further down in the list of another, and so on.   *)
LEMMA NoCycle ==
  ASSUME Control, RefInv, LockInv, NEW Rank \in [Events -> Nat], ListsFollow(Rank)
  PROVE  NoMutexDeadlock
<1> SUFFICES ASSUME NEW S, S \subseteq Threads, S # {}, \A t \in S : Blockers(t) \cap (S \cup NotRunning) # {}
             PROVE  FALSE
  BY DEF NoMutexDeadlock
<1>1. ASSUME NEW t \in S
      PROVE  \E x \in S \cup NotRunning : BlockedBy(t, x)
  <2>1. PICK x \in S \cup NotRunning : x \in Blockers(t)
    OBVIOUS
  <2>2. Blockers(t) = {x}
    BY <2>1, BlockersAre
  <2> QED
    BY <2>1, <2>2 DEF BlockedBy, NotRunning
<1>2. ASSUME NEW t \in S
      PROVE  pc[t] \in LockPcs \cup {"fire"}
  BY <1>1, BlockersAre, NotBlockedOnSelf DEF BlockedBy
<1>3. ASSUME NEW t \in S, pc[t] \in LockPcs
      PROVE  \E u \in S : pc[u] = "fire" /\ E(u) = E(t) /\ E(t) \in Events
  <2>1. PICK u \in S \cup NotRunning : BlockedBy(t, u)
    BY <1>1
  <2>2. E(t) \in Events /\ pc[u] \in HoldPcs /\ E(u) = E(t)
    BY <1>3, <2>1, BlockedOnEvent
  <2>3. u \in S
    BY <2>2 DEF NotRunning, HoldPcs
  <2>4. pc[u] = "fire"
    BY <2>2, <2>3, <1>2 DEF LockPcs, HoldPcs
  <2> QED
    BY <2>2, <2>3, <2>4
<1>4. ASSUME NEW u \in S, pc[u] = "fire"
      PROVE  \E v \in S : /\ pc[v] = "regLock" /\ v = Head1(E(u))[1] /\ InWait(Head1(E(u)))
                          /\ E(u) \in Events /\ registered[E(u)] # <<>>
  <2>1. PICK v \in S \cup NotRunning : BlockedBy(u, v)
    BY <1>1
  <2>2. /\ E(u) \in Events /\ registered[E(u)] # <<>> /\ v = Head1(E(u))[1] /\ InWait(Head1(E(u)))
        /\ pc[v] \in LoopPcs \cup {"check"}
    BY <1>4, <2>1, BlockedOnWait
  <2>3. v \in S
    BY <2>2 DEF NotRunning, LoopPcs
  <2>4. pc[v] = "regLock"
    BY <2>2, <2>3, <1>2 DEF LockPcs, LoopPcs
  <2> QED
    BY <2>2, <2>3, <2>4
<1> DEFINE R == {t \in S : pc[t] = "regLock"}
           Ranks == {Rank[E(t)] : t \in R}
<1>5. R # {}
  BY <1>2, <1>3, <1>4
<1>6. Ranks \in SUBSET Nat /\ Ranks # {}
  BY <1>3, <1>5 DEF LockPcs
<1>7. PICK r \in Ranks : \A y \in Ranks : ~(y < r)
  BY <1>6, NatMin
<1>8. PICK t \in R : r = Rank[E(t)]
  BY <1>7
<1>9. PICK u \in S : pc[u] = "fire" /\ E(u) = E(t) /\ E(t) \in Events
  BY <1>3, <1>8 DEF LockPcs
<1>10. PICK e \in Events : e = E(t) /\ e = E(u)
  BY <1>9
<1>11. PICK v \in S : /\ pc[v] = "regLock" /\ v = Head1(e)[1] /\ InWait(Head1(e))
                      /\ registered[e] # <<>>
  BY <1>4, <1>9, <1>10
<1>12. PICK k : k = Head(registered[e])[2] + 1
  OBVIOUS
<1>13. PICK c \in Script[v][calls[v]] : c = call[v] /\ calls[v] \in DOMAIN Script[v]
  BY <1>11 DEF LockInv, Scripted
<1>14. k \in DOMAIN c.evs /\ k < pos[v] /\ c.evs[k] = e
  BY <1>11, <1>12, <1>13, HeadNames
<1>15. pos[v] \in DOMAIN c.evs /\ c.evs[pos[v]] = E(v) /\ c.op \in {"WaitAny", "WaitAll"}
  <2>1. pc[v] # "idle" /\ pos[v] <= Len(call[v].evs) /\ call[v].op \in {"WaitAny", "WaitAll"}
    BY <1>11 DEF Control, CallFits, LoopPcs, WaitingPcs
  <2>2. pos[v] \in DOMAIN call[v].evs
    BY <2>1, EventOf
  <2> QED
    BY <2>1, <2>2, <1>13 DEF E
<1>16. Rank[E(v)] < Rank[e]
  <2>1. \A i, j \in DOMAIN c.evs : i < j => Rank[c.evs[j]] < Rank[c.evs[i]]
    BY <1>13, <1>15 DEF ListsFollow
  <2> QED
    BY <2>1, <1>14, <1>15
<1> QED
  BY <1>7, <1>8, <1>10, <1>11, <1>16

(* If there is an order that all multi-event waits list their events in,   *)
(* the mutexes are always given back, however many waits and SetEvents     *)
(* meet: PEvents!NoMutexDeadlock.  The calls of the pool are in an order;  *)
(* two waits with opposite orders deadlock.                                *)
THEOREM EventsDeadlockFree ==
  ASSUME NEW Rank \in [Events -> Nat], ListsFollow(Rank)
  PROVE  Spec => []NoMutexDeadlock
<1>1. Init => Control /\ RefInv /\ LastUser /\ LeftInv /\ LockInv
  BY ControlInit, RefInit, LeftInit, LockInit
<1>2. Control /\ RefInv /\ LastUser /\ LeftInv /\ LockInv /\ [Next]_vars
        => (Control /\ RefInv /\ LastUser /\ LeftInv /\ LockInv)'
  BY ControlStep, RefStep, LastUserStep, LeftStep, LockStep
<1>3. Control /\ RefInv /\ LockInv => NoMutexDeadlock
  BY NoCycle
<1> QED
  BY <1>1, <1>2, <1>3, PTL DEF Spec

-----------------------------------------------------------------------------
(* The signals wait-anys consume                                           *)

Late(t) == pc[t] \in WaitingPcs \ {"unref"} => result[t] = 0 \/ Timed(t)
Kind(w) == InWait(w) => (wfmo[w].all <=> call[w[1]].op = "WaitAll")

(* What a wait-any has consumed is the event that ended it, and nothing is *)
(* reported to it any more.                                                *)
Got(w) == InWait(w) /\ ~wfmo[w].all /\ taken[w] # {} =>
            /\ result[w[1]] = 0 /\ wfmo[w].status # -1
            /\ taken[w] = {call[w[1]].evs[wfmo[w].status + 1]}
            /\ wfmo[w].still => pc[w[1]] = "check"
Past(w) == taken[w] # {} => w[2] <= calls[w[1]]
GotInv == /\ \A t \in Threads : Late(t)
          /\ \A w \in Waiters : Kind(w) /\ Got(w) /\ Past(w)

(* How a step of t consumes a signal of e for wait w.                      *)
Takes(t, w, e) ==
  /\ e \in Events /\ e \in AutoReset /\ e = E(t) /\ taken' = [taken EXCEPT ![w] = @ \cup {e}]
  /\ \/ WaitLocked(t) /\ w = W(t)
     \/ RegisterLocked(t) /\ w = W(t) /\ state[e]
     \/ SetFire(t) /\ registered[e] # <<>> /\ w = Head1(e) /\ MustFire(e)

LEMMA TakesStep ==
  ASSUME Control, RefInv, NEW t \in Threads, Step(t) \/ Expire(t) \/ SpuriousWake(t)
  PROVE  taken' = taken \/ \E w \in Waiters, e \in Events : Takes(t, w, e)
<1> SUFFICES ASSUME taken' # taken PROVE \E w \in Waiters, e \in Events : Takes(t, w, e)
  OBVIOUS
<1>1. ~Begin(t) /\ ~WaitFastPath(t) /\ ~RegisterUnlocked(t) /\ ~CheckDone(t) /\ ~WaitReturn(t) /\ ~SetLock(t) /\ ~SetScan(t)
  BY DEF Begin, WaitFastPath, RegisterUnlocked, CheckDone, WaitReturn, SetLock, SetScan
<1>2. ~SetSignal(t) /\ ~SetUnref(t) /\ ~SetNotify(t) /\ ~Reset(t) /\ ~Destroy(t) /\ ~Expire(t) /\ ~SpuriousWake(t)
  BY DEF SetSignal, SetUnref, SetNotify, Reset, Destroy, Expire, SpuriousWake
<1>3. ASSUME NEW w, NEW e, Consume(w, e)
      PROVE  e \in AutoReset /\ taken' = [taken EXCEPT ![w] = @ \cup {e}]
  BY <1>3 DEF Consume
<1>4. CASE WaitLocked(t)
  <2>1. E(t) \in Events /\ W(t) \in Waiters
    BY <1>4, FirstEvent, WaitOf DEF WaitLocked, WaitingPcs
  <2>2. Consume(W(t), E(t))
    BY <1>4 DEF WaitLocked, Obtain
  <2> QED
    BY <2>1, <2>2, <1>3, <1>4 DEF Takes
<1>5. CASE RegisterLocked(t)
  <2>1. E(t) \in Events /\ W(t) \in Waiters
    BY <1>5, RegisterIs
  <2>2. Consume(W(t), E(t)) /\ state[E(t)]
    BY <1>5 DEF RegisterLocked, Obtain
  <2> QED
    BY <2>1, <2>2, <1>3, <1>5 DEF Takes
<1>6. CASE SetFire(t)
  <2>1. E(t) \in Events /\ registered[E(t)] # <<>>
    BY <1>6, FirstEvent DEF SetFire, WaitingPcs, Control, Held, HoldPcs
  <2>2. Head1(E(t)) \in Waiters
    BY <2>1, HeadWait
  <2>3. Consume(Head1(E(t)), E(t)) /\ MustFire(E(t))
    BY <1>6 DEF SetFire
  <2> QED
    BY <2>1, <2>2, <2>3, <1>3, <1>6 DEF Takes
<1> QED
  BY <1>1, <1>2, <1>4, <1>5, <1>6 DEF Step

LEMMA LateStep ==
  ASSUME Control, RefInv, NEW t \in Threads, Step(t) \/ Expire(t) \/ SpuriousWake(t), NEW u \in Threads, Late(u)
  PROVE  Late(u)'
<1> SUFFICES ASSUME pc'[u] \in WaitingPcs \ {"unref"} PROVE result'[u] = 0 \/ call'[u].ms = "finite"
  BY DEF Late, Timed
<1>0. Types
  BY DEF Control
<1>1. CASE u # t
  <2>1. /\ pc[u] \in WaitingPcs \ {"unref"} /\ UNCHANGED <<call[u], result[u]>>
    BY <1>1, StepOthers DEF Woken, WaitingPcs
  <2> QED
    BY <2>1 DEF Late, Timed
<1>2. CASE u = t
  <2>1. Begin(t) => result'[t] = 0
    BY <1>0 DEF Begin, Types
  <2>2. Expire(t) => call' = call /\ call[t].ms = "finite"
    BY DEF Expire, Timed
  <2>3. ASSUME UNCHANGED <<call, result>>, pc[t] \in WaitingPcs \ {"unref"} PROVE result'[t] = 0 \/ call'[t].ms = "finite"
    BY <2>3, <1>2 DEF Late, Timed
  <2>4. RegisterUnlocked(t) \/ RegisterLocked(t) => UNCHANGED <<call, result>> /\ pc[t] \in WaitingPcs \ {"unref"}
    BY DEF RegisterUnlocked, RegisterLocked, WaitingPcs
  <2>5. CheckDone(t) => UNCHANGED <<call, result>> /\ pc[t] \in WaitingPcs \ {"unref"}
    BY <1>0, <1>2 DEF CheckDone, WaitingPcs, Goto, Types
  <2>6. SpuriousWake(t) => UNCHANGED <<call, result>> /\ pc[t] \in WaitingPcs \ {"unref"}
    BY <1>0, <1>2 DEF SpuriousWake, WaitingPcs, Goto, Types
  <2>7. ~WaitFastPath(t) /\ ~WaitLocked(t) /\ ~WaitReturn(t) /\ ~Reset(t) /\ ~Destroy(t)
    BY <1>0, <1>2 DEF WaitFastPath, WaitLocked, WaitReturn, Reset, Destroy, WaitingPcs, Goto, Types
  <2>8. ~SetLock(t) /\ ~SetScan(t) /\ ~SetFire(t)
    BY <1>0, <1>2 DEF SetLock, SetScan, SetFire, WaitingPcs, Goto, Types
  <2>9. ~SetUnref(t)
    BY <1>0, <1>2 DEF SetUnref, Finish, WaitingPcs, Goto, Types
  <2>10. ~SetSignal(t) /\ ~SetNotify(t)
    BY <1>2, ControlSetSignal DEF SetNotify, Finish, WaitingPcs
  <2> QED
    BY <1>2, <2>1, <2>2, <2>3, <2>4, <2>5, <2>6, <2>7, <2>8, <2>9, <2>10 DEF Step, Late, Timed
<1> QED
  BY <1>1, <1>2

LEMMA KindStep ==
  ASSUME Control, RefInv, LastUser, LeftInv, NEW t \in Threads, Step(t) \/ Expire(t) \/ SpuriousWake(t),
         NEW w \in Waiters, Kind(w)
  PROVE  Kind(w)'
<1> SUFFICES ASSUME InWait(w)' PROVE wfmo'[w].all <=> call'[w[1]].op = "WaitAll"
  BY DEF Kind
<1>1. CASE InWait(w)
  <2>1. w[1] \in Threads /\ (w[1] # t \/ ~Begin(t))
    BY <1>1, WaitersAre DEF Begin, InWait, WaitingPcs
  <2>2. call'[w[1]] = call[w[1]] /\ wfmo'[w].all = wfmo[w].all
    BY <2>1, <1>1, SeenGrows, BecomesStep DEF Becomes
  <2> QED
    BY <2>2, <1>1 DEF Kind
<1>2. CASE ~InWait(w)
  <2>1. Begin(t) /\ w[1] = t
    BY <1>2, WaitStarts
  <2>2. PICK c \in Calls, m \in Waiters : Begins(t, c, m)
    BY <2>1, BeginIs
  <2>3. /\ call'[t] = c /\ (w # m => Apart(w))
        /\ IF c.op \in {"WaitAny", "WaitAll"} THEN wfmo'[m] = NewWait(t, c) ELSE Apart(m)
    BY <2>2 DEF Begins
  <2>4. ~Apart(w)
    BY <1>2, OwnSame
  <2>5. PICK o : o = NewWait(t, c)
    OBVIOUS
  <2>6. o.all <=> c.op = "WaitAll"
    BY <2>5 DEF NewWait
  <2> QED
    BY <2>1, <2>3, <2>4, <2>5, <2>6
<1> QED
  BY <1>1, <1>2

LEMMA PastStep ==
  ASSUME Control, RefInv, NEW t \in Threads, Step(t) \/ Expire(t) \/ SpuriousWake(t), NEW w \in Waiters, Past(w)
  PROVE  Past(w)'
<1> SUFFICES ASSUME taken'[w] # {} PROVE w[2] <= calls'[w[1]]
  BY DEF Past
<1>1. w[1] \in Threads /\ w[2] \in Nat /\ \A u \in Threads : calls[u] \in Nat
  BY WaitersAre, ScriptAssumption DEF Control, Types
<1>2. calls'[w[1]] >= calls[w[1]] /\ calls'[w[1]] \in Nat
  <2>1. w[1] = t /\ Begin(t) => calls'[w[1]] = calls[w[1]] + 1
    BY <1>1 DEF Begin, Control, Types
  <2>2. w[1] # t \/ ~Begin(t) => calls'[w[1]] = calls[w[1]]
    BY <1>1, SeenGrows
  <2> QED
    BY <2>1, <2>2, <1>1
<1>3. w[2] <= calls[w[1]]
  <2>1. CASE taken[w] # {}
    BY <2>1 DEF Past
  <2>2. CASE taken[w] = {}
    <3>1. PICK v \in Waiters, e \in Events : Takes(t, v, e)
      BY <2>2, TakesStep
    <3>2. v = w
      BY <2>2, <3>1 DEF Takes, Control, Types
    <3>3. CASE w = W(t)
      BY <3>3, <1>1 DEF W
    <3>4. CASE registered[e] # <<>> /\ w = Head1(e)
      <4>1. 1 \in DOMAIN registered[e] /\ w = registered[e][1][1]
        BY <3>4, HeadWait
      <4> QED
        BY <4>1 DEF RefInv, Registrations
    <3> QED
      BY <3>1, <3>2, <3>3, <3>4 DEF Takes
  <2> QED
    BY <2>1, <2>2
<1> QED
  BY <1>1, <1>2, <1>3

(* What SignalsApart says of a wait-any under way.                         *)
LEMMA NoLimit ==
  ASSUME Control, LockInv, SignalsApart, NEW w \in Waiters, InWait(w), ~wfmo[w].all, Kind(w),
         NEW e \in AutoReset, e \in ToSet(call[w[1]].evs)
  PROVE  ~Timed(w[1]) /\ ToSet(call[w[1]].evs) \subseteq AutoReset
<1>1. PICK u \in Threads : u = w[1]
  BY WaitersAre
<1>2. pc[u] \in WaitingPcs /\ call[u].op = "WaitAny"
  BY <1>1 DEF InWait, Kind, Control, CallFits
<1>3. calls[u] \in DOMAIN Script[u] /\ call[u] \in Script[u][calls[u]]
  BY <1>2 DEF LockInv, Scripted, WaitingPcs
<1>4. ToSet(call[u].evs) \cap AutoReset # {}
  BY <1>1
<1> QED
  BY <1>1, <1>2, <1>3, <1>4 DEF SignalsApart, Timed

(* While a wait-any has consumed a signal nothing more comes to it.        *)
LEMMA GotShut ==
  ASSUME Control, RefInv, NEW t \in Threads, NEW w \in Waiters, InWait(w), ~wfmo[w].all, taken[w] # {}, Got(w)
  PROVE  /\ w = W(t) => pc[t] \notin LoopPcs \cup {"waitLock", "relock"}
         /\ SetFire(t) /\ w = Head1(E(t)) => ~wfmo[w].still
<1>1. PICK u \in Threads : u = w[1]
  BY WaitersAre
<1>2. wfmo[w].still => pc[u] = "check"
  BY <1>1 DEF Got
<1>3. pc[u] \in WaitingPcs /\ (pc[u] \in LoopPcs \cup {"check"} => wfmo[w].still /\ wfmo[w].owner = u)
  BY <1>1 DEF InWait, RefInv, WaitLives
<1>4. pc[u] \notin LoopPcs \cup {"waitLock", "relock"}
  BY <1>2, <1>3 DEF LoopPcs, WaitingPcs
<1>5. w = W(t) => t = u
  BY <1>1 DEF W
<1>6. SetFire(t) /\ w = Head1(E(t)) => wfmo[w].owner = Nobody
  BY DEF SetFire
<1> QED
  BY <1>2, <1>3, <1>4, <1>5, <1>6, ScriptAssumption

LEMMA GotTaken ==
  ASSUME Control, RefInv, NEW t \in Threads, Step(t) \/ Expire(t) \/ SpuriousWake(t),
         NEW w \in Waiters, InWait(w), ~wfmo[w].all, taken[w] # {}, Got(w)
  PROVE  taken'[w] = taken[w]
<1>1. SUFFICES ASSUME NEW v \in Waiters, NEW e \in Events, Takes(t, v, e) PROVE taken'[w] = taken[w]
  BY TakesStep
<1>2. CASE v # w
  BY <1>1, <1>2 DEF Takes, Control, Types
<1>3. CASE v = w
  <2>1. ~(WaitLocked(t) /\ w = W(t)) /\ ~(RegisterLocked(t) /\ w = W(t))
    BY GotShut DEF WaitLocked, RegisterLocked, LoopPcs
  <2>2. SetFire(t) /\ w = Head1(e) /\ MustFire(e)
    BY <1>1, <1>3, <2>1 DEF Takes
  <2>3. wfmo[w].still /\ e = E(t)
    BY <1>1, <2>2 DEF Takes, MustFire
  <2> QED
    BY <2>2, <2>3, GotShut
<1> QED
  BY <1>2, <1>3

LEMMA GotStatus ==
  ASSUME Control, RefInv, LastUser, LeftInv, SeenInv, LockInv, SignalsApart,
         NEW t \in Threads, Step(t) \/ Expire(t) \/ SpuriousWake(t),
         NEW w \in Waiters, InWait(w), InWait(w)', ~wfmo[w].all, taken[w] # {}, Got(w), Kind(w)
  PROVE  wfmo'[w].status = wfmo[w].status
<1>1. Undisturbed(w) \/ Told(t, w) \/ Found(t, w) \/ Listed(t, w)
  BY BecomesStep DEF Becomes
<1>2. ~Found(t, w) /\ ~Listed(t, w)
  BY GotShut DEF Found, Listed
<1>3. CASE Told(t, w)
  <2>1. pc[t] = "fire" /\ w = Head1(E(t))
    BY <1>3 DEF Told
  <2>2. E(t) \in Events /\ registered[E(t)] # <<>>
    BY <2>1, FirstEvent DEF WaitingPcs, HoldPcs, Control, Held
  <2>3. SetFire(t)
    BY <2>1 DEF Step, Expire, SpuriousWake, Begin, WaitFastPath, WaitLocked, RegisterUnlocked, RegisterLocked, CheckDone,
       WaitReturn, SetLock, SetScan, SetSignal, SetUnref, SetNotify, Reset, Destroy
  <2>4. On(registered[E(t)], w)
    BY <2>1, <2>2, HeadWait DEF On
  <2>5. E(t) \in ToSet(call[w[1]].evs)
    BY <2>2, <2>4, NamesRegistered
  <2>6. PICK evs : evs = call[w[1]].evs
    OBVIOUS
  <2>7. Named(w) /\ taken[w] = {evs[wfmo[w].status + 1]} /\ wfmo[w].status # -1
    BY <2>6 DEF SeenInv, ToldSeen, Got
  <2>8. PICK x : x = evs[wfmo[w].status + 1]
    OBVIOUS
  <2>9. x \in AutoReset
    BY <2>7, <2>8 DEF Control, Types
  <2>10. x \in ToSet(evs)
    BY <2>6, <2>7, <2>8 DEF Named, ToSet
  <2>11. ToSet(evs) \subseteq AutoReset
    BY <2>6, <2>9, <2>10, NoLimit
  <2>12. E(t) \in AutoReset /\ ~wfmo[w].still
    BY <2>1, <2>3, <2>5, <2>6, <2>11, GotShut
  <2>13. ~MustFire(E(t))
    BY <2>1, <2>12 DEF MustFire
  <2> QED
    BY <2>3, <2>13 DEF SetFire
<1> QED
  BY <1>1, <1>2, <1>3 DEF Undisturbed

(* What has been consumed stays so ...                                     *)
LEMMA GotKept ==
  ASSUME Control, RefInv, LastUser, LeftInv, SeenInv, LockInv, SignalsApart,
         NEW t \in Threads, Step(t) \/ Expire(t) \/ SpuriousWake(t),
         NEW w \in Waiters, InWait(w), InWait(w)', ~wfmo[w].all, taken[w] # {}, Got(w), Kind(w)
  PROVE  Got(w)'
<1>1. PICK u \in Threads : u = w[1]
  BY WaitersAre
<1>2. /\ result[u] = 0 /\ wfmo[w].status # -1 /\ taken[w] = {call[u].evs[wfmo[w].status + 1]}
      /\ wfmo[w].still => pc[u] = "check"
      /\ Named(w)
  BY <1>1 DEF Got, SeenInv, ToldSeen
<1>3. wfmo'[w].status = wfmo[w].status /\ taken'[w] = taken[w]
  BY GotStatus, GotTaken
<1>4. wfmo'[w].all = wfmo[w].all /\ (wfmo'[w].still => wfmo[w].still)
  BY BecomesStep DEF Becomes
<1>5. u # t \/ ~Begin(t)
  BY <1>1 DEF InWait, Begin, WaitingPcs
<1>6. call'[u] = call[u]
  BY <1>5, SeenGrows
<1>7. ~Timed(u)
  <2>1. PICK evs : evs = call[u].evs
    OBVIOUS
  <2>2. evs[wfmo[w].status + 1] \in ToSet(evs)
    BY <1>1, <1>2, <2>1 DEF Named, ToSet
  <2>3. evs[wfmo[w].status + 1] \in AutoReset
    BY <1>2, <2>1 DEF Control, Types
  <2> QED
    BY <1>1, <2>1, <2>2, <2>3, NoLimit
<1>8. result'[u] = 0 /\ (wfmo'[w].still => pc'[u] = "check")
  <2>0. Types
    BY DEF Control
  <2>1. CASE u # t
    <3>1. Woken(u) /\ result'[u] = result[u]
      BY <2>1, StepOthers
    <3> QED
      BY <3>1, <1>2, <1>4 DEF Woken
  <2>2. CASE u = t
    <3>1. pc[t] \in WaitingPcs /\ calls[t] = w[2]
      BY <1>1, <2>2 DEF InWait
    <3>2. w = W(t)
      BY <1>1, <2>2, <3>1, WaitersAre DEF W
    <3>3. CASE CheckDone(t)
      <4>1. Done(w)
        BY <1>2 DEF Done
      <4>2. result' = result /\ wfmo' = [wfmo EXCEPT ![w].owner = Nobody, ![w].still = FALSE]
        BY <3>2, <3>3, <4>1, <1>2, <2>2 DEF CheckDone
      <4>3. ~wfmo'[w].still
        BY <4>2, <2>0 DEF Types, WaitObject
      <4> QED
        BY <4>2, <4>3, <1>2
    <3>4. CASE ~CheckDone(t)
      <4>1. result' = result
        BY <3>1, <3>4, <1>5, <1>7, <2>2 DEF Step, Expire, SpuriousWake, WaitFastPath, WaitLocked, RegisterUnlocked,
           RegisterLocked, WaitReturn, SetLock, SetScan, SetFire, SetSignal, SetUnref, SetNotify, Reset, Destroy, WaitingPcs
      <4>2. pc[t] # "check"
        BY <3>4, <1>5, <2>2 DEF Step, Expire, SpuriousWake, WaitFastPath, WaitLocked, RegisterUnlocked, Begin,
           RegisterLocked, WaitReturn, SetLock, SetScan, SetFire, SetSignal, SetUnref, SetNotify, Reset, Destroy
      <4> QED
        BY <4>1, <4>2, <1>2, <1>4, <2>2
    <3> QED
      BY <3>3, <3>4
  <2> QED
    BY <2>1, <2>2
<1> QED
  BY <1>1, <1>2, <1>3, <1>4, <1>6, <1>8 DEF Got

(* ... and it is consumed in the step that ends the wait.                  *)
LEMMA GotNow ==
  ASSUME Control, RefInv, LastUser, LeftInv, SeenInv, LockInv, SignalsApart,
         NEW t \in Threads, Step(t) \/ Expire(t) \/ SpuriousWake(t), \A x \in Threads : Late(x),
         NEW w \in Waiters, InWait(w), InWait(w)', ~wfmo[w].all, taken[w] = {}, Kind(w)
  PROVE  Got(w)'
<1> SUFFICES ASSUME taken'[w] # {} PROVE Got(w)'
  BY DEF Got
<1>1. PICK u \in Threads : u = w[1]
  BY WaitersAre
<1>2. PICK v \in Waiters, e \in Events : Takes(t, v, e)
  BY TakesStep
<1>3. v = w /\ e = E(t) /\ e \in AutoReset /\ taken'[w] = {e}
  BY <1>2 DEF Takes, Control, Types
<1>4. call' = call
  <2>1. ~Begin(t)
    BY <1>2 DEF Takes, Begin
  <2> QED
    BY <1>2 DEF Takes, WaitLocked, RegisterLocked, SetFire
<1>5. ASSUME e \in ToSet(call[u].evs), pc[u] # "unref" PROVE result[u] = 0
  <2>1. ~Timed(u)
    BY <1>1, <1>3, <1>5, NoLimit
  <2> QED
    BY <1>1, <1>5, <2>1 DEF Late, InWait
<1>6. CASE WaitLocked(t) /\ w = W(t)
  BY <1>6 DEF WaitLocked, InWait, W, WaitingPcs
<1>7. CASE RegisterLocked(t) /\ w = W(t) /\ state[e]
  <2>1. u = t
    BY <1>1, <1>7 DEF W
  <2>2. PICK p \in Nat, evs \in Seq(Events) : p = pos[t] /\ evs = call[t].evs /\ p >= 1 /\ p <= Len(evs)
    <3>1. pc[t] \in LoopPcs
      BY <1>7 DEF RegisterLocked, LoopPcs
    <3>2. pos[t] \in 1..Len(call[t].evs) + 1 /\ pos[t] <= Len(call[t].evs) /\ call[t].evs \in Seq(Events)
      BY <3>1 DEF Control, Types, Calls, CallFits
    <3> QED
      BY <3>2
  <2>3. evs[p] = e /\ p \in DOMAIN evs
    BY <1>3, <2>2 DEF E
  <2>4. e \in ToSet(evs)
    BY <2>3 DEF ToSet
  <2>5. result' = result /\ result[u] = 0
    BY <1>5, <1>7, <2>1, <2>2, <2>4 DEF RegisterLocked
  <2>6. PICK f \in [Waiters -> WaitObject] : f = WithoutExpired(e) /\ f[w] = wfmo[w] /\ Satisfied(t, f) /\ pc[t] \in LoopPcs
    BY <1>3, <1>7, RegisterIs
  <2>7. wfmo'[w].status = p - 1
    BY <1>7, <2>2, <2>6, SatisfiedStatus
  <2>8. (p - 1) + 1 = p /\ p - 1 # -1
    BY <2>2
  <2>9. pc'[t] = "check"
    <3>1. PICK cnt \in Nat : cnt = Len(evs)
      BY <2>2
    <3>2. Goto(t, IF p + (cnt - p + 1) > cnt THEN "check" ELSE "register")
      BY <1>7, <2>2, <2>6, <3>1 DEF Satisfied
    <3>3. p + (cnt - p + 1) > cnt
      BY <3>1, <2>2
    <3> QED
      BY <3>2, <3>3 DEF Goto, Control, Types
  <2> QED
    BY <1>1, <1>3, <1>4, <2>1, <2>2, <2>3, <2>5, <2>7, <2>8, <2>9 DEF Got
<1>8. CASE SetFire(t) /\ registered[e] # <<>> /\ w = Head1(e) /\ MustFire(e)
  <2>1. wfmo[w].still
    BY <1>3, <1>8 DEF MustFire
  <2>2. pc[u] # "unref"
    BY <1>1, <2>1 DEF RefInv, WaitLives
  <2>3. On(registered[e], w)
    BY <1>8, HeadWait DEF On
  <2>4. PICK evs : evs = call[u].evs
    OBVIOUS
  <2>5. e \in ToSet(evs)
    BY <1>1, <2>3, <2>4, NamesRegistered
  <2>6. result' = result /\ result[u] = 0
    BY <1>5, <1>8, <2>2, <2>4, <2>5 DEF SetFire
  <2>7. PICK index : index = Head(registered[e])[2]
    OBVIOUS
  <2>8. index \in Nat /\ evs[index + 1] = e
    BY <1>1, <1>8, <2>4, <2>7, HeadNames
  <2>9. wfmo' = [wfmo EXCEPT ![w].status = index, ![w].still = FALSE]
    BY <1>3, <1>8, <2>7 DEF SetFire
  <2>10. wfmo'[w].status = index /\ ~wfmo'[w].still
    BY <2>9 DEF Control, Types, WaitObject
  <2> QED
    BY <1>1, <1>3, <1>4, <2>4, <2>6, <2>8, <2>10 DEF Got
<1> QED
  BY <1>2, <1>3, <1>6, <1>7, <1>8 DEF Takes

LEMMA GotStep ==
  ASSUME Control, RefInv, LastUser, LeftInv, SeenInv, LockInv, GotInv, SignalsApart,
         NEW t \in Threads, Step(t) \/ Expire(t) \/ SpuriousWake(t), NEW w \in Waiters
  PROVE  Got(w)'
<1>1. CASE ~InWait(w)
  <2> SUFFICES ASSUME InWait(w)' PROVE taken'[w] = {}
    BY DEF Got
  <2>1. w[1] = t /\ Begin(t)
    BY <1>1, WaitStarts
  <2>2. calls[t] \in Nat /\ calls'[t] = calls[t] + 1 /\ taken' = taken
    BY <2>1 DEF Begin, Control, Types
  <2>3. w[2] = calls[t] + 1
    BY <2>1, <2>2 DEF InWait
  <2>4. Past(w)
    BY DEF GotInv
  <2> QED
    BY <2>1, <2>2, <2>3, <2>4 DEF Past
<1>2. CASE InWait(w)
  <2> SUFFICES ASSUME InWait(w)' PROVE Got(w)'
    BY DEF Got
  <2>1. CASE wfmo[w].all
    <3>1. wfmo'[w].all
      BY <1>2, <2>1, BecomesStep DEF Becomes
    <3> QED
      BY <3>1 DEF Got
  <2>2. CASE ~wfmo[w].all
    BY <1>2, <2>2, GotKept, GotNow DEF GotInv
  <2> QED
    BY <2>1, <2>2
<1> QED
  BY <1>1, <1>2

LEMMA GotInit == Init => GotInv
<1> SUFFICES ASSUME Init PROVE GotInv
  OBVIOUS
<1>1. \A t \in Threads : pc[t] = "idle"
  BY DEF Init
<1>2. \A w \in Waiters : ~InWait(w) /\ taken[w] = {}
  BY <1>1, WaitersAre DEF Init, InWait, WaitingPcs
<1> QED
  BY <1>1, <1>2 DEF GotInv, Late, Kind, Got, Past, WaitingPcs

LEMMA GotInvStep ==
  ASSUME SignalsApart
  PROVE  Control /\ RefInv /\ LastUser /\ LeftInv /\ SeenInv /\ LockInv /\ GotInv /\ [Next]_vars => GotInv'
<1> SUFFICES ASSUME Control, RefInv, LastUser, LeftInv, SeenInv, LockInv, GotInv, [Next]_vars PROVE GotInv'
  OBVIOUS
<1>1. CASE Next
  <2>1. PICK t \in Threads : Step(t) \/ Expire(t) \/ SpuriousWake(t)
    BY <1>1 DEF Next
  <2>2. \A x \in Threads : Late(x)'
    BY <2>1, LateStep DEF GotInv
  <2>3. \A w \in Waiters : Kind(w)' /\ Past(w)'
    BY <2>1, KindStep, PastStep DEF GotInv
  <2>4. \A w \in Waiters : Got(w)'
    BY <2>1, GotStep
  <2> QED
    BY <2>2, <2>3, <2>4 DEF GotInv
<1>2. CASE UNCHANGED vars
  BY <1>2 DEF vars, GotInv, Late, Kind, Got, Past, InWait, Timed
<1> QED
  BY <1>1, <1>2

(* A wait-any that consumed the signal of an auto-reset event succeeds and *)
(* names that event (the caution at rpevents.cpp:378), provided its time   *)
(* limit does not run out while it sleeps and it names no manual-reset     *)
(* event too: SetEvent looks at StillWaiting again before it reports an    *)
(* auto-reset event, and at nothing before it reports a manual-reset one.  *)
THEOREM EventsSignalKept ==
  ASSUME SignalsApart
  PROVE  Spec => []SignalNotLost
<1> DEFINE Inv == Control /\ RefInv /\ LastUser /\ LeftInv /\ SeenInv /\ LockInv /\ GotInv
<1>1. Init => Inv
  BY ControlInit, RefInit, LeftInit, SeenInit, LockInit, GotInit
<1>2. Inv /\ [Next]_vars => Inv'
  BY ControlStep, RefStep, LastUserStep, LeftStep, SeenStep, LockStep, GotInvStep
<1>3. Inv => SignalNotLost
  <2> SUFFICES ASSUME Control, GotInv, NEW t \in Threads, pc[t] = "unref", call[t].op = "WaitAny", taken[W(t)] # {}
               PROVE  result[t] = 0 /\ taken[W(t)] = {call[t].evs[wfmo[W(t)].status + 1]}
    BY DEF SignalNotLost
  <2>1. PICK w \in Waiters : w = W(t)
    BY WaitOf DEF WaitingPcs
  <2>2. w[1] = t /\ InWait(w)
    BY <2>1 DEF W, InWait, WaitingPcs
  <2>3. Kind(w) /\ Got(w)
    BY DEF GotInv
  <2> QED
    BY <2>1, <2>2, <2>3 DEF Kind, Got
<1> QED
  BY <1>1, <1>2, <1>3, PTL DEF Spec

-----------------------------------------------------------------------------
(* The pool's calls list its events along one order                        *)

(* The calls of bufferpool.cpp.                                            *)
PoolCalls ==
  UNION {UNION ToSet(s) : s \in {DataWriteCalls, DataReadCalls, CancelCalls, UnInitCalls, DestructorCalls}}
PoolRank == [e \in Events |-> CASE e = "evCancel" -> 2 [] e = "evWrite" -> 1 [] OTHER -> 0]

LEMMA PoolLists ==
  \A c \in PoolCalls : c.op \in {"WaitAny", "WaitAll"} =>
    c.evs \in {<<"evCancel", "evRead">>, <<"evCancel", "evWrite">>, <<"evCancel", "evWrite", "evRead">>}
<1> DEFINE Good(c) == c.op \in {"WaitAny", "WaitAll"} =>
      c.evs \in {<<"evCancel", "evRead">>, <<"evCancel", "evWrite">>, <<"evCancel", "evWrite", "evRead">>}
<1>1. \A c \in UNION ToSet(DataWriteCalls) : Good(c)
  BY DEF DataWriteCalls, PoolCall, ToSet
<1>2. \A c \in UNION ToSet(DataReadCalls) : Good(c)
  BY DEF DataReadCalls, PoolCall, ToSet
<1>3. \A c \in UNION ToSet(CancelCalls) : Good(c)
  BY DEF CancelCalls, PoolCall, ToSet
<1>4. \A c \in UNION ToSet(UnInitCalls) : Good(c)
  <2>1. UnInitCalls = << PoolCall("SetEvent", <<"evCancel">>),
                         PoolCall("WaitAll", <<"evCancel", "evWrite", "evRead">>) >>
    <3>1. \A x, y : <<x>> \o <<y>> = <<x, y>>
      <4> TAKE x, y
      <4>1. <<x>> \in Seq({x, y}) /\ <<y>> \in Seq({x, y}) /\ <<x, y>> \in Seq({x, y})
        OBVIOUS
      <4>2. /\ <<x>> \o <<y>> \in Seq({x, y}) /\ Len(<<x>> \o <<y>>) = Len(<<x, y>>)
            /\ \A i \in 1..2 : (<<x>> \o <<y>>)[i] = IF i <= 1 THEN x ELSE y
        BY <4>1, ConcatProperties
      <4>3. \A i \in 1..Len(<<x, y>>) : (<<x>> \o <<y>>)[i] = <<x, y>>[i]
        BY <4>2
      <4> QED
        BY <4>1, <4>2, <4>3, SeqEqual
    <3> QED
      BY <3>1, Zenon DEF UnInitCalls, CancelCalls
  <2>2. ToSet(UnInitCalls) = {PoolCall("SetEvent", <<"evCancel">>),
                              PoolCall("WaitAll", <<"evCancel", "evWrite", "evRead">>)}
    BY <2>1 DEF ToSet
  <2> QED
    BY <2>2 DEF PoolCall
<1>5. \A c \in UNION ToSet(DestructorCalls) : Good(c)
  BY DEF DestructorCalls, PoolCall, ToSet
<1> HIDE DEF Good
<1>6. \A c \in PoolCalls : Good(c)
  BY <1>1, <1>2, <1>3, <1>4, <1>5 DEF PoolCalls
<1> QED
  BY <1>6 DEF Good

(* However many threads write to a pool, read from it, cancel it and close *)
(* it, the mutexes of its events are always given back.                    *)
THEOREM PoolDeadlockFree ==
  ASSUME Events = PoolEventNames,
         \A t \in Threads : \A n \in DOMAIN Script[t] : Script[t][n] \subseteq PoolCalls
  PROVE  Spec => []NoMutexDeadlock
<1>1. PoolRank \in [Events -> Nat]
  BY DEF PoolRank
<1>2. ListsFollow(PoolRank)
  <2> SUFFICES ASSUME NEW t \in Threads, NEW n \in DOMAIN Script[t], NEW c \in Script[t][n],
                      c.op \in {"WaitAny", "WaitAll"},
                      NEW i \in DOMAIN c.evs, NEW j \in DOMAIN c.evs, i < j
               PROVE  PoolRank[c.evs[j]] < PoolRank[c.evs[i]]
    BY DEF ListsFollow
  <2>1. c.evs \in {<<"evCancel", "evRead">>, <<"evCancel", "evWrite">>,
                   <<"evCancel", "evWrite", "evRead">>}
    BY PoolLists
  <2>2. PoolRank["evCancel"] = 2 /\ PoolRank["evWrite"] = 1 /\ PoolRank["evRead"] = 0
    BY DEF PoolRank, PoolEventNames
  <2>3. CASE c.evs = <<"evCancel", "evRead">>
    <3>1. i = 1 /\ j = 2
      BY <2>3
    <3> QED
      BY <3>1, <2>2, <2>3
  <2>4. CASE c.evs = <<"evCancel", "evWrite">>
    <3>1. i = 1 /\ j = 2
      BY <2>4
    <3> QED
      BY <3>1, <2>2, <2>4
  <2>5. CASE c.evs = <<"evCancel", "evWrite", "evRead">>
    <3>1. i \in 1..3 /\ j \in 1..3
      BY <2>5
    <3>2. (i = 1 /\ j \in {2, 3}) \/ (i = 2 /\ j = 3)
      BY <3>1
    <3> QED
      BY <3>2, <2>2, <2>5
  <2> QED
    BY <2>1, <2>3, <2>4, <2>5
<1> QED
  BY <1>1, <1>2, EventsDeadlockFree

=============================================================================
