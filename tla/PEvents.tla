------------------------------- MODULE PEvents -------------------------------
(***************************************************************************)
(* WIN32-style events on top of pthread mutexes and condition variables:   *)
(* sdk_net/rpevents.cpp.  Every step of a thread is what it does between   *)
(* two points where another thread can see a difference: acquiring a       *)
(* mutex, a load or store of an atomic made without the mutex, a wait on a *)
(* condition variable, a decrement of a reference count.                   *)
(*                                                                         *)
(* Memory is sequentially consistent: the relaxed loads of the code are    *)
(* all re-done under a mutex or only delay the removal of a registration.  *)
(***************************************************************************)
EXTENDS Integers, Sequences, FiniteSets, SequencesExt

CONSTANTS
  Events,       \* the event objects
  AutoReset,    \* those created with manualReset = false
  InitiallySet, \* those created with initialState = true
  Threads,
  Nobody,       \* the owner of a free mutex
  Script        \* [Threads -> Seq(set of calls)]: the n-th call a thread makes
                \* is any member of Script[t][n]

(* A call: its operation, the events it names, and its time limit.         *)
WaitOps == {"WaitForEvent", "WaitAny", "WaitAll"}
Ops     == WaitOps \cup {"SetEvent", "ResetEvent", "PulseEvent", "DestroyEvent"}
Limits  == {"zero", "finite", "infinite"}
Calls   == [op : Ops, evs : Seq(Events), ms : Limits]

ASSUME EventsAssumption ==
  /\ AutoReset \subseteq Events /\ InitiallySet \subseteq Events
  /\ IsFiniteSet(Events) /\ IsFiniteSet(Threads)
ASSUME ScriptAssumption ==
  /\ Script \in [Threads -> Seq(SUBSET Calls)] /\ Nobody \notin Threads
  /\ \A t \in Threads : \A n \in DOMAIN Script[t] : \A c \in Script[t][n] :
       /\ c.evs # <<>> /\ IsInjective(c.evs)
       /\ c.op \notin {"WaitAny", "WaitAll"} => Len(c.evs) = 1

Timeout == 110          \* WAIT_TIMEOUT; any value but 0 would do

(* One smart_wfmo_t_ per multi-event wait: the thread and which of its     *)
(* calls it belongs to.                                                    *)
Waiters == UNION {{t} \X (1..Len(Script[t])) : t \in Threads}

VARIABLES
  state,      \* State of each event
  eMutex,     \* owner of the event's Mutex
  registered, \* RegisteredWaits of each event: <<waiter, WaitIndex>> pairs
  destroyed,  \* events freed by DestroyEvent
  wfmo,       \* the smart_wfmo_t_ of each wait; refs = 0 once freed
  pc,         \* where each thread is
  calls,      \* calls each thread has started
  call,       \* its current call
  pos,        \* loop index of WaitForMultipleEvents
  skipped,    \* its skipped_refs
  result,     \* its result
  taken,      \* history: the auto-reset signals each wait has consumed
  sets,       \* history: SetEvent calls that reached each event
  seen        \* history: the events each thread's call names that were set in its time

vars == <<state, eMutex, registered, destroyed, wfmo, pc, calls, call, pos,
          skipped, result, taken, sets, seen>>

Freed   == [refs |-> 0, status |-> -1, still |-> FALSE, all |-> FALSE, owner |-> Nobody]
NoCall  == [op |-> "ResetEvent", evs |-> <<>>, ms |-> "infinite"]

W(t)    == <<t, calls[t]>>           \* the wait thread t is in
E(t)    == call[t].evs[pos[t]]       \* the event it is working on
Timed(t) == call[t].ms = "finite"

Goto(t, l) == pc' = [pc EXCEPT ![t] = l]

(* --cnt; free the object when the count it held was the last.             *)
Unref(f, w, cnt) == IF f[w].refs = cnt THEN [f EXCEPT ![w] = Freed]
                                       ELSE [f EXCEPT ![w].refs = @ - cnt]

Init ==
  /\ state = [e \in Events |-> e \in InitiallySet]
  /\ eMutex = [e \in Events |-> Nobody]
  /\ registered = [e \in Events |-> <<>>]
  /\ destroyed = {}
  /\ wfmo = [w \in Waiters |-> Freed]
  /\ pc = [t \in Threads |-> "idle"]
  /\ calls = [t \in Threads |-> 0]
  /\ call = [t \in Threads |-> NoCall]
  /\ pos = [t \in Threads |-> 1]
  /\ skipped = [t \in Threads |-> 0]
  /\ result = [t \in Threads |-> 0]
  /\ taken = [w \in Waiters |-> {}]
  /\ sets = [e \in Events |-> 0]
  /\ seen = [t \in Threads |-> {}]

-----------------------------------------------------------------------------
(* What the history variables record: wait w consumes a signal of e.       *)
Consume(w, e) == IF e \in AutoReset THEN taken' = [taken EXCEPT ![w] = @ \cup {e}]
                                    ELSE UNCHANGED taken

(* Mutant: the event stays signaled.                                       *)
ObtainKeeping(t, e) == UNCHANGED state /\ Consume(W(t), e)

(* ... and e is set while calls that name it are under way.                *)
Witness(e) == seen' = [u \in Threads |-> IF pc[u] # "idle" /\ e \in ToSet(call[u].evs)
                                         THEN seen[u] \cup {e} ELSE seen[u]]

(* A successful UnlockedWaitForEvent: an auto-reset event is unsignaled.   *)
Obtain(t, e) ==
  /\ state' = [state EXCEPT ![e] = @ /\ e \notin AutoReset]
  /\ Consume(W(t), e)

EntryPoint == [WaitForEvent |-> "fastPath", WaitAny |-> "register", WaitAll |-> "register",
               SetEvent |-> "setLock", PulseEvent |-> "setLock", ResetEvent |-> "reset",
               DestroyEvent |-> "destroy"]

(* A thread makes its next call; a multi-event wait allocates its          *)
(* smart_wfmo_t_ and locks it.  Events are destroyed only when no other    *)
(* thread can use them any more, the rule their owners follow.             *)
Begin(t) ==
  /\ pc[t] = "idle"
  /\ calls[t] < Len(Script[t])
  /\ LET n == calls[t] + 1 IN \E c \in Script[t][n] :
       /\ c.op = "DestroyEvent" => \A u \in Threads \ {t} :
                                     pc[u] = "idle" /\ calls[u] = Len(Script[u])
       /\ calls' = [calls EXCEPT ![t] = n]
       /\ call' = [call EXCEPT ![t] = c]
       /\ Goto(t, EntryPoint[c.op])
       /\ wfmo' = IF c.op \in {"WaitAny", "WaitAll"}
                  THEN [wfmo EXCEPT ![<<t, n>>] =
                         [refs |-> 1 + Len(c.evs), still |-> TRUE, owner |-> t,
                          all |-> c.op = "WaitAll",
                          status |-> IF c.op = "WaitAll" THEN Len(c.evs) ELSE -1]]
                  ELSE wfmo
  /\ pos' = [pos EXCEPT ![t] = 1]
  /\ skipped' = [skipped EXCEPT ![t] = 0]
  /\ result' = [result EXCEPT ![t] = 0]
  /\ seen' = [seen EXCEPT ![t] = {e \in ToSet(call'[t].evs) : state[e]}]
  /\ UNCHANGED <<state, eMutex, registered, destroyed, taken, sets>>

-----------------------------------------------------------------------------
(* WaitForEvent                                                            *)

(* The two checks made without the mutex, each with a load of its own: the *)
(* first may have seen the event set and the second see it reset, so that  *)
(* a wait of no time, too, may get to the mutex with the event not set.    *)
WaitFastPath(t) ==
  /\ pc[t] = "fastPath"
  /\ \/ /\ call[t].ms = "zero" /\ ~state[E(t)]
        /\ result' = [result EXCEPT ![t] = Timeout]
        /\ Goto(t, "idle")
     \/ /\ E(t) \notin AutoReset /\ state[E(t)]
        /\ Goto(t, "idle") /\ UNCHANGED result
     \/ /\ E(t) \in AutoReset \/ ~state[E(t)]
        /\ Goto(t, "waitLock") /\ UNCHANGED result
  /\ UNCHANGED <<state, eMutex, registered, destroyed, wfmo, calls, call, pos, skipped, taken, sets, seen>>

(* Mutant: "if" for "while": a wakeup is taken for the event.              *)
WaitLockedOnce(t) ==
  /\ pc[t] \in {"waitLock", "relock"}
  /\ eMutex[E(t)] = Nobody
  /\ \/ /\ result[t] = 0 /\ (state[E(t)] \/ pc[t] = "relock")
        /\ Obtain(t, E(t)) /\ Goto(t, "idle") /\ UNCHANGED result
     \/ /\ result[t] = 0 /\ ~state[E(t)] /\ pc[t] = "waitLock" /\ call[t].ms # "zero"
        /\ Goto(t, "asleep") /\ UNCHANGED <<state, taken, result>>
     \/ /\ result[t] # 0
        /\ Goto(t, "idle") /\ UNCHANGED <<state, taken, result>>
  /\ UNCHANGED <<eMutex, registered, destroyed, wfmo, calls, call, pos, skipped, sets, seen>>

(* With the mutex: obtain the event, give up, or sleep on its CVariable.   *)
WaitLocked(t) ==
  /\ pc[t] \in {"waitLock", "relock"}
  /\ eMutex[E(t)] = Nobody
  /\ \/ /\ result[t] = 0 /\ state[E(t)]
        /\ Obtain(t, E(t)) /\ Goto(t, "idle") /\ UNCHANGED result
     \/ /\ result[t] = 0 /\ ~state[E(t)] /\ call[t].ms = "zero"
        /\ result' = [result EXCEPT ![t] = Timeout]
        /\ Goto(t, "idle") /\ UNCHANGED <<state, taken>>
     \/ /\ result[t] = 0 /\ ~state[E(t)] /\ call[t].ms # "zero"
        /\ Goto(t, "asleep") /\ UNCHANGED <<state, taken, result>>
     \/ /\ result[t] # 0         \* pthread_cond_timedwait timed out: State is not looked at again
        /\ Goto(t, "idle") /\ UNCHANGED <<state, taken, result>>
  /\ UNCHANGED <<eMutex, registered, destroyed, wfmo, calls, call, pos, skipped, sets, seen>>

(* A spurious return of pthread_cond_wait.                                 *)
SpuriousWake(t) ==
  /\ \/ pc[t] = "asleep" /\ Goto(t, "relock")
     \/ pc[t] = "parked" /\ Goto(t, "unpark")
  /\ UNCHANGED <<state, eMutex, registered, destroyed, wfmo, calls, call, pos, skipped, result, taken, sets, seen>>

(* The time limit passes while the thread sleeps.                          *)
Expire(t) ==
  /\ Timed(t)
  /\ \/ pc[t] = "asleep" /\ Goto(t, "relock")
     \/ pc[t] = "parked" /\ Goto(t, "unpark")
  /\ result' = [result EXCEPT ![t] = Timeout]
  /\ UNCHANGED <<state, eMutex, registered, destroyed, wfmo, calls, call, pos, skipped, taken, sets, seen>>

-----------------------------------------------------------------------------
(* WaitForMultipleEvents.  Its registration loop runs with the waiter's    *)
(* Mutex held and takes the Mutex of one event after the other.            *)

(* Event pos of the wait was found set: wait-all counts it, wait-any stops. *)
(* f is wfmo as the cleanup of expired registrations left it.              *)
Satisfied(t, f) ==
  LET w == W(t)  cnt == Len(call[t].evs)  hits == IF f[w].all THEN 1 ELSE cnt - pos[t] + 1 IN
  /\ skipped' = [skipped EXCEPT ![t] = @ + hits]
  /\ wfmo' = [f EXCEPT ![w].status = IF f[w].all THEN @ - 1 ELSE pos[t] - 1]
  /\ pos' = [pos EXCEPT ![t] = @ + hits]
  /\ Goto(t, IF pos[t] + hits > cnt THEN "check" ELSE "register")

(* A manual-reset event that is set needs no lock.                         *)
RegisterUnlocked(t) ==
  /\ pc[t] = "register"
  /\ IF E(t) \notin AutoReset /\ state[E(t)]
     THEN Satisfied(t, wfmo)
     ELSE Goto(t, "regLock") /\ UNCHANGED <<wfmo, skipped, pos>>
  /\ UNCHANGED <<state, eMutex, registered, destroyed, calls, call, result, taken, sets, seen>>

(* RemoveExpiredWaitHelper over RegisteredWaits: drop the registrations of *)
(* waits that have ended, and their references.                            *)

(* Mutant: remove_if without erase.                                        *)
UnexpiredKept(e) == registered[e]

Unexpired(e) ==
  LET s == registered[e]
      kept[k \in 0..Len(s)] ==   \* of the first k
        IF k = 0 THEN <<>>
        ELSE IF wfmo[s[k][1]].still THEN Append(kept[k - 1], s[k]) ELSE kept[k - 1]
  IN  kept[Len(s)]
WithoutExpired(e) ==
  [w \in Waiters |-> IF ~wfmo[w].still /\ \E k \in DOMAIN registered[e] : registered[e][k][1] = w
                     THEN Unref(wfmo, w, 1)[w] ELSE wfmo[w]]

(* Mutant: an event found set is registered with all the same.             *)
RegisterLockedAlways(t) ==
  /\ pc[t] = "regLock"
  /\ eMutex[E(t)] = Nobody
  /\ LET e == E(t) IN
     /\ registered' = [registered EXCEPT ![e] = Append(Unexpired(e), <<W(t), pos[t] - 1>>)]
     /\ \/ state[e] /\ Obtain(t, e) /\ Satisfied(t, WithoutExpired(e))
        \/ /\ ~state[e]
           /\ wfmo' = WithoutExpired(e)
           /\ pos' = [pos EXCEPT ![t] = @ + 1]
           /\ Goto(t, IF pos[t] = Len(call[t].evs) THEN "check" ELSE "register")
           /\ UNCHANGED <<state, taken, skipped>>
  /\ UNCHANGED <<eMutex, destroyed, calls, call, result, sets, seen>>

(* With the event's Mutex: clean up, then obtain the event or register.    *)
RegisterLocked(t) ==
  /\ pc[t] = "regLock"
  /\ eMutex[E(t)] = Nobody
  /\ LET e == E(t) IN
     \/ /\ state[e]
        /\ registered' = [registered EXCEPT ![e] = Unexpired(e)]
        /\ Obtain(t, e)
        /\ Satisfied(t, WithoutExpired(e))
     \/ /\ ~state[e]
        /\ registered' = [registered EXCEPT ![e] = Append(Unexpired(e), <<W(t), pos[t] - 1>>)]
        /\ wfmo' = WithoutExpired(e)
        /\ pos' = [pos EXCEPT ![t] = @ + 1]
        /\ Goto(t, IF pos[t] = Len(call[t].evs) THEN "check" ELSE "register")
        /\ UNCHANGED <<state, taken, skipped>>
  /\ UNCHANGED <<eMutex, destroyed, calls, call, result, sets, seen>>

(* Mutant: a wait-any looks for the event it was woken for again.          *)
DoneIfStillSet(w) == IF wfmo[w].all THEN wfmo[w].status = 0
                     ELSE wfmo[w].status # -1 /\ state[call[w[1]].evs[wfmo[w].status + 1]]

Done(w) == IF wfmo[w].all THEN wfmo[w].status = 0 ELSE wfmo[w].status # -1

(* The end of the registration loop, and every return from the condition   *)
(* variable: finish, or wait (again) with the Mutex released.  A wait      *)
(* whose time is up finishes without another look at its status.           *)
CheckDone(t) ==
  LET w == W(t) IN
  /\ pc[t] \in {"check", "unpark"}
  /\ wfmo[w].owner = IF pc[t] = "check" THEN t ELSE Nobody
  /\ \/ /\ result[t] # 0 \/ Done(w)
        /\ wfmo' = [wfmo EXCEPT ![w].owner = Nobody, ![w].still = FALSE]
        /\ Goto(t, "unref") /\ UNCHANGED result
     \/ /\ result[t] = 0 /\ ~Done(w) /\ call[t].ms = "zero"
        /\ wfmo' = [wfmo EXCEPT ![w].owner = Nobody, ![w].still = FALSE]
        /\ result' = [result EXCEPT ![t] = Timeout]
        /\ Goto(t, "unref")
     \/ /\ result[t] = 0 /\ ~Done(w) /\ call[t].ms # "zero"
        /\ wfmo' = [wfmo EXCEPT ![w].owner = Nobody]
        /\ Goto(t, "parked") /\ UNCHANGED result
  /\ UNCHANGED <<state, eMutex, registered, destroyed, calls, call, pos, skipped, taken, sets, seen>>

(* Mutant: skipped_refs is left out.                                       *)
WaitReturnOne(t) ==
  /\ pc[t] = "unref"
  /\ wfmo' = Unref(wfmo, W(t), 1)
  /\ Goto(t, "idle")
  /\ UNCHANGED <<state, eMutex, registered, destroyed, calls, call, pos, skipped, result, taken, sets, seen>>

(* RefCount.fetch_sub(1 + skipped_refs), and return.                       *)
WaitReturn(t) ==
  /\ pc[t] = "unref"
  /\ wfmo' = Unref(wfmo, W(t), 1 + skipped[t])
  /\ Goto(t, "idle")
  /\ UNCHANGED <<state, eMutex, registered, destroyed, calls, call, pos, skipped, result, taken, sets, seen>>

-----------------------------------------------------------------------------
(* SetEvent.  The event's Mutex is held from SetLock to the last step of   *)
(* SetScan or SetUnref; the code's index into RegisteredWaits and its      *)
(* clear() at the end are the removal of the head here, which nobody else  *)
(* can see before the Mutex is released.                                   *)

Head1(e) == Head(registered[e])[1]

SetLock(t) ==
  /\ pc[t] = "setLock"
  /\ eMutex[E(t)] = Nobody
  /\ eMutex' = [eMutex EXCEPT ![E(t)] = t]
  /\ state' = [state EXCEPT ![E(t)] = @ \/ E(t) \notin AutoReset]
  /\ sets' = [sets EXCEPT ![E(t)] = @ + 1]
  /\ Witness(E(t))
  /\ Goto(t, "scan")
  /\ UNCHANGED <<registered, destroyed, wfmo, calls, call, pos, skipped, result, taken>>

(* Mutant: the event's Mutex stays locked when nothing is registered.      *)
SetScanLocked(t) ==
  /\ pc[t] = "scan"
  /\ LET e == E(t) IN
     \/ /\ registered[e] = <<>>
        /\ state' = [state EXCEPT ![e] = @ \/ e \in AutoReset]
        /\ Goto(t, "notify") /\ Witness(e)
        /\ UNCHANGED <<registered, wfmo>>
     \/ /\ registered[e] # <<>> /\ ~wfmo[Head1(e)].still
        /\ wfmo' = Unref(wfmo, Head1(e), 1)
        /\ registered' = [registered EXCEPT ![e] = Tail(@)]
        /\ UNCHANGED <<state, pc, seen>>
     \/ /\ registered[e] # <<>> /\ wfmo[Head1(e)].still
        /\ Goto(t, "fire")
        /\ UNCHANGED <<state, registered, wfmo, seen>>
  /\ UNCHANGED <<eMutex, destroyed, calls, call, pos, skipped, result, taken, sets>>

(* Look at the next registration: skip one whose wait has ended; with none *)
(* left an auto-reset event is signaled, and the Mutex released.           *)
SetScan(t) ==
  /\ pc[t] = "scan"
  /\ LET e == E(t) IN
     \/ /\ registered[e] = <<>>
        /\ state' = [state EXCEPT ![e] = @ \/ e \in AutoReset]
        /\ eMutex' = [eMutex EXCEPT ![e] = Nobody]
        /\ Goto(t, "notify") /\ Witness(e)
        /\ UNCHANGED <<registered, wfmo>>
     \/ /\ registered[e] # <<>> /\ ~wfmo[Head1(e)].still
        /\ wfmo' = Unref(wfmo, Head1(e), 1)
        /\ registered' = [registered EXCEPT ![e] = Tail(@)]
        /\ UNCHANGED <<state, eMutex, pc, seen>>
     \/ /\ registered[e] # <<>> /\ wfmo[Head1(e)].still
        /\ Goto(t, "fire")
        /\ UNCHANGED <<state, eMutex, registered, wfmo, seen>>
  /\ UNCHANGED <<destroyed, calls, call, pos, skipped, result, taken, sets>>

(* Whether SetEvent looks at StillWaiting again once it has the waiter's   *)
(* Mutex: for auto-reset events it does, for manual-reset events it counts *)
(* on the wait having been satisfied anyway.                               *)
MustFireBlindly(e) == TRUE   \* mutant: no recheck at all

MustFire(e) == e \notin AutoReset \/ wfmo[Head1(e)].still

(* With the waiter's Mutex: report the event to the waiter.                *)
SetFire(t) ==
  /\ pc[t] = "fire"
  /\ LET e == E(t)  w == Head1(e)  index == Head(registered[e])[2] IN
     /\ wfmo[w].owner = Nobody
     /\ IF MustFire(e)
        THEN /\ wfmo' = IF wfmo[w].all
                        THEN [wfmo EXCEPT ![w].status = @ - 1]
                        ELSE [wfmo EXCEPT ![w].status = index, ![w].still = FALSE]
             /\ Consume(w, e)
             /\ Goto(t, "signal")
        ELSE /\ Goto(t, "drop")
             /\ UNCHANGED <<wfmo, taken>>
  /\ UNCHANGED <<state, eMutex, registered, destroyed, calls, call, pos, skipped, result, sets, seen>>

(* Mutant: the signal is left out.                                         *)
SetSignalNone(t) ==
  /\ pc[t] = "signal"
  /\ Goto(t, "fired")
  /\ UNCHANGED <<state, eMutex, registered, destroyed, wfmo, calls, call, pos, skipped, result, taken, sets, seen>>

(* pthread_cond_signal on the waiter's CVariable, its Mutex released.      *)
SetSignal(t) ==
  /\ pc[t] = "signal"
  /\ LET w == Head1(E(t))  u == w[1] IN
     pc' = [pc EXCEPT ![t] = "fired",
                      ![u] = IF W(u) = w /\ @ = "parked" THEN "unpark" ELSE @]
  /\ UNCHANGED <<state, eMutex, registered, destroyed, wfmo, calls, call, pos, skipped, result, taken, sets, seen>>

Finish(t) == IF call[t].op = "PulseEvent" THEN "reset" ELSE "idle"

(* Give the registration's reference back.  An auto-reset event that found *)
(* its waiter is done; otherwise the scan goes on.                         *)
SetUnref(t) ==
  /\ pc[t] \in {"fired", "drop"}
  /\ LET e == E(t) IN
     /\ wfmo' = Unref(wfmo, Head1(e), 1)
     /\ registered' = [registered EXCEPT ![e] = Tail(@)]
     /\ IF pc[t] = "fired" /\ e \in AutoReset
        THEN eMutex' = [eMutex EXCEPT ![e] = Nobody] /\ Goto(t, Finish(t))
        ELSE Goto(t, "scan") /\ UNCHANGED eMutex
  /\ UNCHANGED <<state, destroyed, calls, call, pos, skipped, result, taken, sets, seen>>

Sleepers(e) == {u \in Threads : pc[u] = "asleep" /\ E(u) = e}

(* Mutant: pthread_cond_signal for both kinds of event.                    *)
SetNotifyOne(t) ==
  /\ pc[t] = "notify"
  /\ LET S == Sleepers(E(t)) IN
     \E woken \in IF S = {} THEN {S} ELSE {{u} : u \in S} :
       pc' = [u \in Threads |-> IF u \in woken THEN "relock"
                                ELSE IF u = t THEN Finish(t) ELSE pc[u]]
  /\ UNCHANGED <<state, eMutex, registered, destroyed, wfmo, calls, call, pos, skipped, result, taken, sets, seen>>

(* pthread_cond_broadcast (manual-reset) or pthread_cond_signal on the     *)
(* event's own CVariable, where WaitForEvent sleeps.                       *)
SetNotify(t) ==
  /\ pc[t] = "notify"
  /\ LET S == Sleepers(E(t)) IN
     \E woken \in IF E(t) \notin AutoReset \/ S = {} THEN {S} ELSE {{u} : u \in S} :
       pc' = [u \in Threads |-> IF u \in woken THEN "relock"
                                ELSE IF u = t THEN Finish(t) ELSE pc[u]]
  /\ UNCHANGED <<state, eMutex, registered, destroyed, wfmo, calls, call, pos, skipped, result, taken, sets, seen>>

(* ResetEvent: one store, no mutex.                                        *)
Reset(t) ==
  /\ pc[t] = "reset"
  /\ state' = [state EXCEPT ![E(t)] = FALSE]
  /\ Goto(t, "idle")
  /\ UNCHANGED <<eMutex, registered, destroyed, wfmo, calls, call, pos, skipped, result, taken, sets, seen>>

(* DestroyEvent removes expired registrations and frees the event with     *)
(* whatever else is registered.                                            *)
Destroy(t) ==
  /\ pc[t] = "destroy"
  /\ eMutex[E(t)] = Nobody
  /\ wfmo' = WithoutExpired(E(t))
  /\ registered' = [registered EXCEPT ![E(t)] = <<>>]
  /\ destroyed' = destroyed \cup {E(t)}
  /\ Goto(t, "idle")
  /\ UNCHANGED <<state, eMutex, calls, call, pos, skipped, result, taken, sets, seen>>

-----------------------------------------------------------------------------
(* What the threads do of their own accord, and what happens to them.      *)
Step(t) ==
  \/ Begin(t)
  \/ WaitFastPath(t) \/ WaitLocked(t)
  \/ RegisterUnlocked(t) \/ RegisterLocked(t) \/ CheckDone(t) \/ WaitReturn(t)
  \/ SetLock(t) \/ SetScan(t) \/ SetFire(t) \/ SetSignal(t) \/ SetUnref(t) \/ SetNotify(t)
  \/ Reset(t) \/ Destroy(t)

Next == \E t \in Threads : Step(t) \/ Expire(t) \/ SpuriousWake(t)

Spec == Init /\ [][Next]_vars

(* A runnable thread is scheduled, and a finite time limit passes; nothing *)
(* promises a spurious wakeup.                                             *)
FairSpec == Spec /\ \A t \in Threads : WF_vars(Step(t)) /\ WF_vars(Expire(t))

-----------------------------------------------------------------------------
(* Properties                                                              *)

WaitingPcs == {"register", "regLock", "check", "parked", "unpark", "unref"}
Pcs == WaitingPcs \cup {"idle", "fastPath", "waitLock", "asleep", "relock", "setLock", "scan",
                        "fire", "signal", "fired", "drop", "notify", "reset", "destroy"}

Wfmo == [refs : Nat, status : Int, still : BOOLEAN, all : BOOLEAN, owner : Threads \cup {Nobody}]

(* Every variable holds values of its type: reference counts, whose        *)
(* assertions are at rpevents.cpp:62 and at each fetch_sub, never go below *)
(* zero.                                                                   *)
TypeOK ==
  /\ state \in [Events -> BOOLEAN]
  /\ eMutex \in [Events -> Threads \cup {Nobody}]
  /\ \A e \in Events : registered[e] \in Seq(Waiters \X Nat)
  /\ destroyed \subseteq Events
  /\ wfmo \in [Waiters -> Wfmo]
  /\ pc \in [Threads -> Pcs]
  /\ \A t \in Threads : calls[t] \in 0..Len(Script[t]) /\ pos[t] \in 1..Len(call[t].evs) + 1
  /\ skipped \in [Threads -> Nat]
  /\ result \in [Threads -> {0, Timeout}]
  /\ taken \in [Waiters -> SUBSET AutoReset]
  /\ sets \in [Events -> Nat]

InWait(w) == calls[w[1]] = w[2] /\ pc[w[1]] \in WaitingPcs

(* Events of wait w its registration loop has still to look at.            *)
Unvisited(w) == IF InWait(w) THEN Len(call[w[1]].evs) + 1 - pos[w[1]] ELSE 0

(* Events whose RegisteredWaits hold w, and those whose SetEvent has not   *)
(* reported to w yet.                                                      *)
RegisteredAt(w) == {e \in Events : \E k \in DOMAIN registered[e] : registered[e][k][1] = w}
Reporting(e) == \E t \in Threads : pc[t] \in {"signal", "fired"} /\ E(t) = e
Unreported(w) == {e \in RegisteredAt(w) : ~(Reporting(e) /\ Head1(e) = w)}

(* The reference count of a wait object is exactly the number of places    *)
(* that can still reach it: registrations at events, plus those its own    *)
(* call gives back on return.  So it is never used after it was freed and  *)
(* is freed as soon as nobody reaches it - all of them are, once the       *)
(* events are destroyed -, whatever the order of time-outs, SetEvents and  *)
(* clean-ups.                                                              *)
RefCountExact ==
  \A w \in Waiters :
    wfmo[w].refs = Cardinality(RegisteredAt(w)) +
                   IF InWait(w) THEN 1 + skipped[w[1]] + Unvisited(w) ELSE 0

(* EventsLeft of a wait-all is exactly the number of its events that have  *)
(* not been found set or reported set, and no smaller once it has given    *)
(* up: it never goes negative (assertions at rpevents.cpp:243, :398 and    *)
(* :470), and no event is counted twice.                                   *)
EventsLeftExact ==
  \A w \in Waiters : wfmo[w].refs > 0 /\ wfmo[w].all =>
    LET left == Cardinality(Unreported(w)) + Unvisited(w) IN
    IF wfmo[w].still THEN wfmo[w].status = left ELSE wfmo[w].status >= left

(* One SetEvent of an auto-reset event lets at most one wait through.      *)
AutoResetExclusive ==
  \A e \in AutoReset :
    Cardinality({w \in Waiters : e \in taken[w]}) + (IF state[e] THEN 1 ELSE 0)
      <= sets[e] + (IF e \in InitiallySet THEN 1 ELSE 0)

(* A wait-any that consumed the signal of an auto-reset event succeeds and *)
(* names that event: "in which case we must not unlock the same waiter or  *)
(* else a SetEvent() call on an auto-reset event may end up with a lost    *)
(* wakeup" (rpevents.cpp:378).                                             *)
SignalNotLost ==
  \A t \in Threads : LET w == W(t) IN
    pc[t] = "unref" /\ call[t].op = "WaitAny" /\ taken[w] # {} =>
      result[t] = 0 /\ taken[w] = {call[t].evs[wfmo[w].status + 1]}

(* A wait succeeds only if it has cause to: the event it waits for, or     *)
(* names as the one that ended it, was set in its time, all of them for a  *)
(* wait-all - not necessarily at once.  So no spurious wakeup, no SetEvent *)
(* meant for another wait and no registration left by an earlier wait is   *)
(* ever taken for the event.                                               *)
NoFalseWakeup ==
  \A t \in Threads : result[t] = 0 =>
    LET w == W(t)  evs == call[t].evs IN
    /\ pc[t] = "idle" /\ call[t].op = "WaitForEvent" => ToSet(evs) \subseteq seen[t]
    /\ pc[t] = "unref" =>
         IF wfmo[w].all THEN ToSet(evs) \subseteq seen[t] ELSE evs[wfmo[w].status + 1] \in seen[t]

(* The mutexes are always given back: no set of threads waits for mutexes  *)
(* that one of them, or a thread that sleeps or has returned, holds.  A    *)
(* wait holds its own Mutex while it takes those of the events, SetEvent   *)
(* holds the event's while it takes the waiter's.                          *)
Blockers(t) ==
  CASE pc[t] \in {"waitLock", "relock", "regLock", "setLock", "destroy"} -> {eMutex[E(t)]}
    [] pc[t] = "fire"   -> {wfmo[Head1(E(t))].owner}
    [] pc[t] = "unpark" -> {wfmo[W(t)].owner}
    [] OTHER -> {}
NotRunning == {t \in Threads : pc[t] \in {"idle", "asleep", "parked"}}
NoMutexDeadlock ==
  ~ \E S \in (SUBSET Threads) \ {{}} : \A t \in S : Blockers(t) \cap (S \cup NotRunning) # {}

(* When SignalNotLost and NoMutexDeadlock hold whatever the threads do: a  *)
(* wait-any that names an auto-reset event has no time limit that can run  *)
(* out while it sleeps and names no manual-reset event; and every          *)
(* multi-event wait lists its events by falling rank.                      *)
SignalsApart ==
  \A t \in Threads : \A n \in DOMAIN Script[t] : \A c \in Script[t][n] :
    c.op = "WaitAny" /\ ToSet(c.evs) \cap AutoReset # {} =>
      c.ms # "finite" /\ ToSet(c.evs) \subseteq AutoReset

ListsFollow(Rank) ==
  \A t \in Threads : \A n \in DOMAIN Script[t] : \A c \in Script[t][n] :
    c.op \in {"WaitAny", "WaitAll"} =>
      \A i, j \in DOMAIN c.evs : i < j => Rank[c.evs[j]] < Rank[c.evs[i]]

(* The threads that ever wait.                                             *)
Waiting == {t \in Threads : \E n \in DOMAIN Script[t] : \E c \in Script[t][n] : c.op \in WaitOps}

(* A wait that has been satisfied returns: its wakeup is never missed.     *)
SatisfiedWaitReturns ==
  \A t \in Waiting : (pc[t] = "parked" /\ Done(W(t))) ~> pc[t] = "idle"

WaitsFor(t, e) == /\ pc[t] # "idle" /\ call[t].op \in {"WaitForEvent", "WaitAny"}
                  /\ e \in ToSet(call[t].evs)

(* An event that stays set releases everyone who waits for it, by either   *)
(* kind of wait.                                                           *)
SetEventReleases ==
  \A t \in Waiting, e \in Events :
    (WaitsFor(t, e) /\ state[e]) ~> (~WaitsFor(t, e) \/ ~state[e])

(* PulseEvent on a manual-reset event releases every wait-any that sleeps  *)
(* with it, although the event may be reset before any of them runs again  *)
(* (it is WaitForEvent whose sleepers a pulse may wake in vain).           *)
PulsedWhileParked(t, e) ==
  /\ pc[t] = "parked" /\ call[t].op = "WaitAny" /\ e \in ToSet(call[t].evs)
  /\ \E u \in Threads : pc[u] = "scan" /\ call[u].op = "PulseEvent" /\ E(u) = e
PulseReleases ==
  \A t \in Waiting, e \in Events \ AutoReset : PulsedWhileParked(t, e) ~> pc[t] = "idle"

=============================================================================
