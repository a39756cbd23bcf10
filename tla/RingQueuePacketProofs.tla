------------------------ MODULE RingQueuePacketProofs ------------------------
(***************************************************************************)
(* Proofs about the packet ring, for any capacity and any numbers of       *)
(* producers and consumers.                                                *)
(***************************************************************************)
EXTENDS RingQueuePacket, FiniteSetTheorems, SequenceTheorems, TLAPS

-----------------------------------------------------------------------------
(* Types                                                                   *)

LEMMA StepInRange == ASSUME NEW s \in 0..Cap - 1
                     PROVE  (s + 1) % Cap \in 0..Cap - 1
  BY CapAssumption

LEMMA TypesKept == TypeOK /\ [Next]_vars => TypeOK'
<1> SUFFICES ASSUME TypeOK, [Next]_vars PROVE TypeOK'
  OBVIOUS
<1> USE CapAssumption, ThreadsAssumption DEF TypeOK, Threads, Consumers, ProducerPcs, ConsumerPcs, Packets
<1>1. ASSUME NEW p \in Producers, PushWait(p) PROVE TypeOK'
  BY <1>1 DEF PushWait, Goto
<1>2. ASSUME NEW p \in Producers, PushStore(p) PROVE TypeOK'
  <2>1. p_step' \in 0..Cap - 1
    BY <1>2, StepInRange DEF PushStore
  <2>2. <<p, pushed[p]>> \in Packets
    BY <1>2 DEF PushStore
  <2>3. ring_queue' \in [0..Cap - 1 -> Packets \cup {NoPacket}]
    BY <1>2, <2>2 DEF PushStore
  <2> QED
    BY <1>2, <2>1, <2>3 DEF PushStore, Goto
<1>3. ASSUME NEW p \in Producers, PushPost(p) PROVE TypeOK'
  BY <1>3 DEF PushPost, Goto
<1>4. ASSUME NEW c \in Consumers, PopBegin(c) \/ DrainLook(c) PROVE TypeOK'
  BY <1>4 DEF PopBegin, DrainLook, Goto
<1>5. ASSUME NEW c \in Consumers, PopTry(c) PROVE TypeOK'
  <2>1. data_sem' \in Nat
    BY <1>5 DEF PopTry
  <2>2. ret' \in [Consumers -> {0, -1}]
    BY <1>5 DEF PopTry
  <2> QED
    BY <1>5, <2>1, <2>2 DEF PopTry, Goto
<1>6. ASSUME NEW c \in Consumers, PopTake(c) PROVE TypeOK'
  <2>1. c_step' \in 0..Cap - 1
    BY <1>6, StepInRange DEF PopTake
  <2>2. out' \in Seq(Packets \cup {NoPacket})
    BY <1>6 DEF PopTake
  <2> QED
    BY <1>6, <2>1, <2>2 DEF PopTake, Goto
<1>7. ASSUME NEW c \in Consumers, PopPost(c) PROVE TypeOK'
  BY <1>7 DEF PopPost, Return, Goto
<1>8. CASE UNCHANGED vars
  BY <1>8 DEF vars
<1> QED
  BY <1>1, <1>2, <1>3, <1>4, <1>5, <1>6, <1>7, <1>8 DEF Next, Push, Pop

(* Every variable keeps its type; both indices stay inside the vector.     *)
THEOREM Typing == Spec => []TypeOK
<1>1. Init => TypeOK
  BY CapAssumption, ThreadsAssumption
  DEF Init, TypeOK, Threads, Consumers, ProducerPcs, ConsumerPcs, Packets
<1> QED
  BY <1>1, TypesKept, PTL DEF Spec

-----------------------------------------------------------------------------
(* The places of the ring                                                  *)

LEMMA AtFinite == ASSUME NEW S \in SUBSET Threads, NEW l
                  PROVE  IsFiniteSet(At(S, l)) /\ Cardinality(At(S, l)) \in Nat
  BY ThreadsAssumption, FS_Subset, FS_CardinalityType DEF At

(* A thread that moves changes the number of threads at a label by one, up *)
(* or down, or not at all.                                                 *)
LEMMA AtMove ==
  ASSUME TypeOK, NEW S \in SUBSET Threads, NEW t \in Threads, NEW l, NEW m, Goto(t, m)
  PROVE  Cardinality(At(S, l)') = Cardinality(At(S, l))
                                  + (IF t \in S /\ pc[t] # l /\ m = l THEN 1 ELSE 0)
                                  - (IF t \in S /\ pc[t] = l /\ m # l THEN 1 ELSE 0)
<1>1. CASE t \in S /\ pc[t] # l /\ m = l
  <2>1. At(S, l)' = At(S, l) \cup {t} /\ t \notin At(S, l)
    BY <1>1 DEF At, Goto, TypeOK
  <2>2. Cardinality(At(S, l) \cup {t}) = Cardinality(At(S, l)) + 1
    BY <2>1, AtFinite, FS_AddElement
  <2> QED
    BY <1>1, <2>1, <2>2, AtFinite
<1>2. CASE t \in S /\ pc[t] = l /\ m # l
  <2>1. At(S, l)' = At(S, l) \ {t} /\ t \in At(S, l)
    BY <1>2 DEF At, Goto, TypeOK
  <2> QED
    BY <1>2, <2>1, AtFinite, FS_RemoveElement
<1>3. CASE ~(t \in S /\ pc[t] # l /\ m = l) /\ ~(t \in S /\ pc[t] = l /\ m # l)
  <2>1. At(S, l)' = At(S, l)
    BY <1>3 DEF At, Goto, TypeOK
  <2> QED
    BY <1>3, <2>1, AtFinite
<1> QED
  BY <1>1, <1>2, <1>3

(* The number of threads at every label a step does not concern stays.     *)
LEMMA AtStay == ASSUME NEW S \in SUBSET Threads, NEW l, UNCHANGED pc
                PROVE  Cardinality(At(S, l)') = Cardinality(At(S, l))
  BY DEF At

(* No interleaving of pushes and pops loses or invents a place.            *)
THEOREM PlacesConserved == Spec => []BlankConservation
<1> DEFINE Storing == At(Producers, "store")
           Giving  == At(Consumers, "unblank")
<1>1. Init => BlankConservation
  <2> SUFFICES ASSUME Init PROVE BlankConservation
    OBVIOUS
  <2>1. Storing = {} /\ Giving = {}
    BY DEF Init, At, Threads
  <2>2. Cardinality(Storing) = 0 /\ Cardinality(Giving) = 0
    BY <2>1, FS_EmptySet
  <2> QED
    BY <2>2, CapAssumption DEF Init, BlankConservation
<1>2. TypeOK /\ BlankConservation /\ [Next]_vars => BlankConservation'
  <2> SUFFICES ASSUME TypeOK, BlankConservation, [Next]_vars
               PROVE  BlankConservation'
    OBVIOUS
  <2>0. /\ Producers \in SUBSET Threads /\ Consumers \in SUBSET Threads
        /\ cur_count \in Int /\ blank_sem \in Nat /\ Cap \in Nat
        /\ Cardinality(Storing) \in Nat /\ Cardinality(Giving) \in Nat
        /\ \A t \in Producers : t \in Threads /\ t \notin Consumers
        /\ \A t \in Consumers : t \in Threads /\ t \notin Producers
    BY AtFinite, CapAssumption, ThreadsAssumption DEF Threads, TypeOK
  <2>1. ASSUME NEW p \in Producers, PushWait(p) PROVE BlankConservation'
    <3>1. Goto(p, "store") /\ pc[p] = "idle" /\ blank_sem' = blank_sem - 1 /\ cur_count' = cur_count
      BY <2>1 DEF PushWait
    <3>2. Cardinality(Storing') = Cardinality(Storing) + 1
      BY <3>1, <2>0, AtMove
    <3>3. Cardinality(Giving') = Cardinality(Giving)
      BY <3>1, <2>0, AtMove
    <3> QED
      BY <3>1, <3>2, <3>3, <2>0 DEF BlankConservation
  <2>2. ASSUME NEW p \in Producers, PushStore(p) PROVE BlankConservation'
    <3>1. Goto(p, "post") /\ pc[p] = "store" /\ blank_sem' = blank_sem /\ cur_count' = cur_count + 1
      BY <2>2 DEF PushStore
    <3>2. Cardinality(Storing') = Cardinality(Storing) - 1
      BY <3>1, <2>0, AtMove
    <3>3. Cardinality(Giving') = Cardinality(Giving)
      BY <3>1, <2>0, AtMove
    <3> QED
      BY <3>1, <3>2, <3>3, <2>0 DEF BlankConservation
  <2>3. ASSUME NEW p \in Producers, PushPost(p) PROVE BlankConservation'
    <3>1. Goto(p, "idle") /\ pc[p] = "post" /\ blank_sem' = blank_sem /\ cur_count' = cur_count
      BY <2>3 DEF PushPost
    <3>2. Cardinality(Storing') = Cardinality(Storing)
      BY <3>1, <2>0, AtMove
    <3>3. Cardinality(Giving') = Cardinality(Giving)
      BY <3>1, <2>0, AtMove
    <3> QED
      BY <3>1, <3>2, <3>3, <2>0 DEF BlankConservation
  <2>4. ASSUME NEW c \in Consumers, PopBegin(c) \/ DrainLook(c) PROVE BlankConservation'
    <3>1. PICK l \in {"look", "try", "gone"} :
            Goto(c, l) /\ pc[c] \in {"idle", "look"} /\ blank_sem' = blank_sem /\ cur_count' = cur_count
      BY <2>4 DEF PopBegin, DrainLook
    <3>2. Cardinality(Storing') = Cardinality(Storing)
      BY <3>1, <2>0, AtMove
    <3>3. Cardinality(Giving') = Cardinality(Giving)
      BY <3>1, <2>0, AtMove
    <3> QED
      BY <3>1, <3>2, <3>3, <2>0 DEF BlankConservation
  <2>5. ASSUME NEW c \in Consumers, PopTry(c) PROVE BlankConservation'
    <3>1. Goto(c, "take") /\ pc[c] = "try" /\ blank_sem' = blank_sem /\ cur_count' = cur_count
      BY <2>5 DEF PopTry
    <3>2. Cardinality(Storing') = Cardinality(Storing)
      BY <3>1, <2>0, AtMove
    <3>3. Cardinality(Giving') = Cardinality(Giving)
      BY <3>1, <2>0, AtMove
    <3> QED
      BY <3>1, <3>2, <3>3, <2>0 DEF BlankConservation
  <2>6. ASSUME NEW c \in Consumers, PopTake(c) PROVE BlankConservation'
    <3>1. Goto(c, "unblank") /\ pc[c] = "take" /\ blank_sem' = blank_sem /\ cur_count' = cur_count - 1
      BY <2>6 DEF PopTake
    <3>2. Cardinality(Storing') = Cardinality(Storing)
      BY <3>1, <2>0, AtMove
    <3>3. Cardinality(Giving') = Cardinality(Giving) + 1
      BY <3>1, <2>0, AtMove
    <3> QED
      BY <3>1, <3>2, <3>3, <2>0 DEF BlankConservation
  <2>7. ASSUME NEW c \in Consumers, PopPost(c) PROVE BlankConservation'
    <3>1. PICK l \in {"look", "idle"} :
            Goto(c, l) /\ pc[c] = "unblank" /\ blank_sem' = blank_sem + 1 /\ cur_count' = cur_count
      BY <2>7 DEF PopPost, Return
    <3>2. Cardinality(Storing') = Cardinality(Storing)
      BY <3>1, <2>0, AtMove
    <3>3. Cardinality(Giving') = Cardinality(Giving) - 1
      BY <3>1, <2>0, AtMove
    <3> QED
      BY <3>1, <3>2, <3>3, <2>0 DEF BlankConservation
  <2>8. CASE UNCHANGED vars
    BY <2>8, <2>0, AtStay DEF vars, BlankConservation
  <2> QED
    BY <2>1, <2>2, <2>3, <2>4, <2>5, <2>6, <2>7, <2>8 DEF Next, Push, Pop
<1> QED
  BY <1>1, <1>2, Typing, PTL DEF Spec

-----------------------------------------------------------------------------
(* One drainer, which is how Stop empties the ring                         *)

SingleDrainer == Writers = {} /\ \E d : Drainers = {d}

(* The drainer pops only what it has seen: nobody else takes a packet      *)
(* between its look at isEmpty and its block under the mutex.              *)
DrainerSaw == \A c \in Consumers : pc[c] \in {"try", "take"} => cur_count > 0

CountInv == TypeOK /\ BlankConservation /\ cur_count >= 0 /\ DrainerSaw

(* A Push that has got a blank finds a free place.                         *)
LEMMA StoreHasPlace ==
  ASSUME TypeOK, BlankConservation, NEW p \in Producers, pc[p] = "store"
  PROVE  cur_count < Cap
<1>1. p \in At(Producers, "store") /\ At(Producers, "store") # {}
  BY DEF At
<1>2. /\ IsFiniteSet(At(Producers, "store")) /\ Cardinality(At(Producers, "store")) \in Nat
      /\ Cardinality(At(Consumers, "unblank")) \in Nat
  BY AtFinite DEF Threads
<1>3. Cardinality(At(Producers, "store")) > 0
  BY <1>1, <1>2, FS_EmptySet
<1> QED
  BY <1>2, <1>3, CapAssumption DEF TypeOK, BlankConservation

LEMMA CountBounded == ASSUME TypeOK, BlankConservation PROVE cur_count <= Cap
<1>1. /\ Cardinality(At(Producers, "store")) \in Nat
      /\ Cardinality(At(Consumers, "unblank")) \in Nat
  BY AtFinite DEF Threads
<1> QED
  BY <1>1, CapAssumption DEF TypeOK, BlankConservation

LEMMA CountInvariant == ASSUME SingleDrainer PROVE Spec => []CountInv
<1>1. Init => cur_count >= 0 /\ DrainerSaw
  BY DEF Init, DrainerSaw, Consumers, Threads
<1>2. CountInv /\ [Next]_vars => (cur_count >= 0 /\ DrainerSaw)'
  <2> SUFFICES ASSUME CountInv, [Next]_vars PROVE (cur_count >= 0 /\ DrainerSaw)'
    OBVIOUS
  <2>0. PICK d : Consumers = {d} /\ Drainers = {d} /\ d \notin Producers
    BY ThreadsAssumption DEF SingleDrainer, Consumers
  <2> USE DEF CountInv, TypeOK, DrainerSaw, Threads, Goto
  <2>1. ASSUME NEW p \in Producers, PushWait(p) \/ PushPost(p) PROVE (cur_count >= 0 /\ DrainerSaw)'
    BY <2>0, <2>1 DEF PushWait, PushPost
  <2>2. ASSUME NEW p \in Producers, PushStore(p) PROVE (cur_count >= 0 /\ DrainerSaw)'
    BY <2>0, <2>2 DEF PushStore
  <2>3. ASSUME NEW c \in Consumers, PopBegin(c) \/ DrainLook(c) PROVE (cur_count >= 0 /\ DrainerSaw)'
    BY <2>0, <2>3 DEF PopBegin, DrainLook, isEmpty
  <2>4. ASSUME NEW c \in Consumers, PopTry(c) PROVE (cur_count >= 0 /\ DrainerSaw)'
    BY <2>0, <2>4 DEF PopTry
  <2>5. ASSUME NEW c \in Consumers, PopTake(c) PROVE (cur_count >= 0 /\ DrainerSaw)'
    BY <2>0, <2>5 DEF PopTake
  <2>6. ASSUME NEW c \in Consumers, PopPost(c) PROVE (cur_count >= 0 /\ DrainerSaw)'
    BY <2>0, <2>6 DEF PopPost, Return
  <2>7. CASE UNCHANGED vars
    BY <2>7 DEF vars
  <2> QED
    BY <2>1, <2>2, <2>3, <2>4, <2>5, <2>6, <2>7 DEF Next, Push, Pop
<1> QED
  BY <1>1, <1>2, Typing, PlacesConserved, PTL DEF Spec, CountInv

(* With one drainer the ring holds between none and Cap packets.           *)
THEOREM CountStaysInRange == ASSUME SingleDrainer PROVE Spec => []CountInRange
<1>1. CountInv => CountInRange
  BY CountBounded, CapAssumption DEF CountInv, CountInRange, TypeOK
<1> QED
  BY <1>1, CountInvariant, PTL

-----------------------------------------------------------------------------
(* The ring as a queue                                                     *)

Wrap(s) == IF s < Cap THEN s ELSE s - Cap

LEMMA WrapMod == \A s \in 0..2 * Cap - 1 : s % Cap = Wrap(s)
  BY CapAssumption DEF Wrap

QueueInv == CountInv /\ IndicesAgree

LEMMA QueueInvariant == ASSUME SingleDrainer PROVE Spec => []QueueInv
<1>1. Init => IndicesAgree
  BY WrapMod, CapAssumption DEF Init, IndicesAgree, Wrap
<1>2. QueueInv /\ [Next]_vars => IndicesAgree'
  <2> SUFFICES ASSUME QueueInv, [Next]_vars PROVE IndicesAgree'
    OBVIOUS
  <2>0. /\ Cap \in Nat /\ Cap > 0 /\ c_step \in 0..Cap - 1 /\ p_step \in 0..Cap - 1
        /\ cur_count \in 0..Cap
        /\ p_step = Wrap(c_step + cur_count)
    <3>1. /\ Cap \in Nat /\ Cap > 0 /\ c_step \in 0..Cap - 1 /\ p_step \in 0..Cap - 1
          /\ cur_count \in 0..Cap
      BY CountBounded, CapAssumption DEF QueueInv, CountInv, TypeOK
    <3>2. c_step + cur_count \in 0..2 * Cap - 1
      BY <3>1
    <3> QED
      BY <3>1, <3>2, WrapMod DEF QueueInv, IndicesAgree
  <2>1. ASSUME NEW p \in Producers, PushStore(p) PROVE IndicesAgree'
    <3>1. /\ p_step' = (p_step + 1) % Cap /\ cur_count' = cur_count + 1 /\ c_step' = c_step
          /\ cur_count < Cap
      BY <2>1, StoreHasPlace DEF PushStore, QueueInv, CountInv
    <3>2. p_step + 1 \in 0..2 * Cap - 1 /\ c_step + cur_count + 1 \in 0..2 * Cap - 1
      BY <3>1, <2>0
    <3>3. p_step' = Wrap(p_step + 1)
      BY <3>1, <3>2, WrapMod
    <3>4. (c_step' + cur_count') % Cap = Wrap(c_step + cur_count + 1)
      <4>1. c_step' + cur_count' = c_step + cur_count + 1
        BY <3>1, <2>0
      <4> QED
        BY <4>1, <3>2, WrapMod
    <3> QED
      BY <3>3, <3>4, <3>1, <2>0 DEF Wrap, IndicesAgree
  <2>2. ASSUME NEW c \in Consumers, PopTake(c) PROVE IndicesAgree'
    <3>1. /\ c_step' = (c_step + 1) % Cap /\ cur_count' = cur_count - 1 /\ p_step' = p_step
          /\ cur_count > 0
      BY <2>2 DEF PopTake, QueueInv, CountInv, DrainerSaw
    <3>2. c_step' = Wrap(c_step + 1)
      <4>1. c_step + 1 \in 0..2 * Cap - 1
        BY <2>0
      <4> QED
        BY <3>1, <4>1, WrapMod
    <3>3. c_step' \in 0..Cap - 1
      BY <3>2, <2>0 DEF Wrap
    <3>4. (c_step' + cur_count') % Cap = Wrap(c_step' + cur_count')
      <4>1. c_step' + cur_count' \in 0..2 * Cap - 1
        BY <3>1, <3>3, <2>0
      <4> QED
        BY <4>1, WrapMod
    <3> QED
      BY <3>1, <3>2, <3>4, <2>0 DEF Wrap, IndicesAgree
  <2>3. ASSUME UNCHANGED <<p_step, c_step, cur_count>> PROVE IndicesAgree'
    BY <2>3 DEF IndicesAgree, QueueInv
  <2> QED
    BY <2>1, <2>2, <2>3
    DEF Next, Push, Pop, PushWait, PushPost, PopBegin, DrainLook, PopTry, PopPost, vars
<1> QED
  BY <1>1, <1>2, CountInvariant, PTL DEF Spec, QueueInv

(* The two indices and the counter describe the same stretch of the ring.  *)
THEOREM IndicesStayInStep == ASSUME SingleDrainer PROVE Spec => []IndicesAgree
  BY QueueInvariant, PTL DEF QueueInv

-----------------------------------------------------------------------------
(* Refinement of the bounded queue                                         *)

Contents == Packets \cup {NoPacket}

LEMMA StretchIsSeq ==
  ASSUME NEW ring \in [0..Cap - 1 -> Contents], NEW c \in 0..Cap - 1, NEW n \in Nat
  PROVE  LET q == [i \in 1..n |-> ring[(c + i - 1) % Cap]]
         IN  q \in Seq(Contents) /\ Len(q) = n
<1>1. \A i \in 1..n : (c + i - 1) % Cap \in 0..Cap - 1
  BY CapAssumption
<1>2. \A i \in 1..n : ring[(c + i - 1) % Cap] \in Contents
  BY <1>1
<1> QED
  BY <1>2

(* A place beyond the unread packets is none of theirs.                    *)
LEMMA PlacesDistinct ==
  ASSUME TypeOK, NEW i \in 1..Cap, NEW j \in 1..Cap, i # j
  PROVE  (c_step + i - 1) % Cap # (c_step + j - 1) % Cap
<1>0. Cap \in Nat /\ Cap > 0 /\ c_step \in 0..Cap - 1
  BY CapAssumption DEF TypeOK
<1>1. c_step + i - 1 \in 0..2 * Cap - 1 /\ c_step + j - 1 \in 0..2 * Cap - 1
  BY <1>0
<1>2. /\ (c_step + i - 1) % Cap = Wrap(c_step + i - 1)
      /\ (c_step + j - 1) % Cap = Wrap(c_step + j - 1)
  BY <1>1, WrapMod
<1> QED
  BY <1>0, <1>2 DEF Wrap

(* The store of a Push appends to the queue.                               *)
LEMMA StorePuts ==
  ASSUME QueueInv, NEW p \in Producers, PushStore(p)
  PROVE  Fifo!Put(<<p, pushed[p]>>) /\ <<p, pushed[p]>> \in Packets
<1> DEFINE x == <<p, pushed[p]>>
<1>0. TypeOK /\ Cap \in Nat /\ Cap > 0 /\ c_step \in 0..Cap - 1 /\ cur_count \in 0..Cap - 1
  BY StoreHasPlace, CapAssumption DEF QueueInv, CountInv, TypeOK, PushStore
<1>1. x \in Packets /\ x \in Contents
  BY DEF PushStore, QueueInv, CountInv, TypeOK, Packets, Contents
<1>2. queue \in Seq(Contents) /\ Len(queue) = cur_count
  BY <1>0, StretchIsSeq DEF queue, TypeOK, Contents
<1>3. cur_count' = cur_count + 1 /\ c_step' = c_step /\ out' = out
      /\ ring_queue' = [ring_queue EXCEPT ![p_step] = x]
  BY DEF PushStore
<1>4. p_step = (c_step + (cur_count + 1) - 1) % Cap
  BY <1>0 DEF QueueInv, IndicesAgree
<1>5. queue' \in Seq(Contents) /\ Len(queue') = cur_count + 1
  <2>1. TypeOK' /\ cur_count' \in Nat
    BY <1>0, <1>3, TypesKept DEF Next, Push
  <2>2. ring_queue' \in [0..Cap - 1 -> Contents] /\ c_step' \in 0..Cap - 1
    BY <2>1 DEF TypeOK, Contents
  <2>3. queue' = [i \in 1..cur_count' |-> ring_queue'[(c_step' + i - 1) % Cap]]
    BY DEF queue
  <2>4. queue' \in Seq(Contents) /\ Len(queue') = cur_count'
    BY <2>1, <2>2, <2>3, StretchIsSeq
  <2> QED
    BY <2>4, <1>3
<1>6. ASSUME NEW i \in 1..cur_count + 1 PROVE queue'[i] = Append(queue, x)[i]
  <2>1. queue'[i] = ring_queue'[(c_step + i - 1) % Cap]
    BY <1>3 DEF queue
  <2>2. CASE i = cur_count + 1
    <3>1. queue'[i] = x
      BY <2>1, <2>2, <1>3, <1>4, <1>0 DEF TypeOK
    <3> QED
      BY <3>1, <2>2, <1>2, <1>1
  <2>3. CASE i # cur_count + 1
    <3>1. i \in 1..cur_count /\ i \in 1..Cap /\ cur_count + 1 \in 1..Cap
      BY <2>3, <1>0
    <3>2. (c_step + i - 1) % Cap # p_step
      BY <3>1, <1>0, <1>4, <2>3, PlacesDistinct
    <3>3. queue'[i] = ring_queue[(c_step + i - 1) % Cap]
      BY <2>1, <3>2, <1>3, <1>0 DEF TypeOK
    <3>4. queue[i] = ring_queue[(c_step + i - 1) % Cap]
      BY <3>1 DEF queue
    <3> QED
      BY <3>1, <3>3, <3>4, <1>2, <1>1
  <2> QED
    BY <2>2, <2>3
<1>7. queue' = Append(queue, x)
  <2>1. Append(queue, x) \in Seq(Contents) /\ Len(Append(queue, x)) = cur_count + 1
    BY <1>1, <1>2
  <2> QED
    BY <2>1, <1>5, <1>6, SeqEqual
<1> QED
  BY <1>0, <1>1, <1>2, <1>3, <1>7 DEF Fifo!Put

(* The block of a Pop takes the head of the queue.                         *)
LEMMA TakeGets ==
  ASSUME QueueInv, NEW c \in Consumers, PopTake(c)
  PROVE  Fifo!Get
<1>0. /\ TypeOK /\ Cap \in Nat /\ Cap > 0 /\ c_step \in 0..Cap - 1
      /\ cur_count \in 1..Cap
  BY CountBounded, CapAssumption DEF QueueInv, CountInv, TypeOK, DrainerSaw, PopTake
<1>1. queue \in Seq(Contents) /\ Len(queue) = cur_count /\ queue # <<>>
  <2>1. queue \in Seq(Contents) /\ Len(queue) = cur_count
    BY <1>0, StretchIsSeq DEF queue, TypeOK, Contents
  <2> QED
    BY <2>1, <1>0, EmptySeq
<1>2. /\ cur_count' = cur_count - 1 /\ c_step' = (c_step + 1) % Cap
      /\ ring_queue' = ring_queue /\ out' = Append(out, ring_queue[c_step])
  BY DEF PopTake
<1>3. Head(queue) = ring_queue[c_step]
  <2>1. (c_step + 1 - 1) % Cap = c_step
    BY <1>0
  <2>2. queue[1] = ring_queue[(c_step + 1 - 1) % Cap]
    BY <1>0 DEF queue
  <2> QED
    BY <2>1, <2>2, <1>1
<1>4. /\ Tail(queue) \in Seq(Contents) /\ Len(Tail(queue)) = cur_count - 1
      /\ \A i \in 1..cur_count - 1 : Tail(queue)[i] = queue[i + 1]
  BY <1>1, HeadTailProperties
<1>5. queue' \in Seq(Contents) /\ Len(queue') = cur_count - 1
  <2>1. TypeOK' /\ cur_count' \in Nat
    BY <1>0, <1>2, TypesKept DEF Next, Pop
  <2>2. ring_queue' \in [0..Cap - 1 -> Contents] /\ c_step' \in 0..Cap - 1
    BY <2>1 DEF TypeOK, Contents
  <2>3. queue' = [i \in 1..cur_count' |-> ring_queue'[(c_step' + i - 1) % Cap]]
    BY DEF queue
  <2>4. queue' \in Seq(Contents) /\ Len(queue') = cur_count'
    BY <2>1, <2>2, <2>3, StretchIsSeq
  <2> QED
    BY <2>4, <1>2
<1>6. ASSUME NEW i \in 1..cur_count - 1 PROVE queue'[i] = Tail(queue)[i]
  <2>1. queue'[i] = ring_queue[(c_step' + i - 1) % Cap]
    BY <1>2, <1>0 DEF queue
  <2>2. (c_step' + i - 1) % Cap = (c_step + (i + 1) - 1) % Cap
    <3>1. c_step + 1 \in 0..2 * Cap - 1 /\ c_step + (i + 1) - 1 \in 0..2 * Cap - 1
      BY <1>0
    <3>2. c_step' = Wrap(c_step + 1) /\ (c_step + (i + 1) - 1) % Cap = Wrap(c_step + (i + 1) - 1)
      BY <3>1, <1>2, WrapMod
    <3>3. c_step' + i - 1 \in 0..2 * Cap - 1
      BY <3>2, <1>0 DEF Wrap
    <3>4. (c_step' + i - 1) % Cap = Wrap(c_step' + i - 1)
      BY <3>3, WrapMod
    <3> QED
      BY <3>2, <3>4, <1>0 DEF Wrap
  <2>3. queue[i + 1] = ring_queue[(c_step + (i + 1) - 1) % Cap]
    BY <1>0 DEF queue
  <2> QED
    BY <2>1, <2>2, <2>3, <1>4
<1>7. queue' = Tail(queue)
  BY <1>4, <1>5, <1>6, SeqEqual
<1> QED
  BY <1>1, <1>2, <1>3, <1>7 DEF Fifo!Get

(* With one drainer the ring implements the bounded queue: every packet is *)
(* popped once and in the order in which the stores were made.             *)
THEOREM RingIsFifo == ASSUME SingleDrainer PROVE Spec => FifoSpec
<1>1. Init => Fifo!Init
  <2> SUFFICES ASSUME Init PROVE Fifo!Init
    OBVIOUS
  <2>1. queue = <<>>
    BY DEF Init, queue
  <2> QED
    BY <2>1 DEF Init, Fifo!Init
<1>2. QueueInv /\ [Next]_vars => [Fifo!Next]_<<queue, out>>
  <2> SUFFICES ASSUME QueueInv, [Next]_vars PROVE [Fifo!Next]_<<queue, out>>
    OBVIOUS
  <2>1. ASSUME NEW p \in Producers, PushStore(p) PROVE Fifo!Next
    BY <2>1, StorePuts DEF Fifo!Next
  <2>2. ASSUME NEW c \in Consumers, PopTake(c) PROVE Fifo!Next
    BY <2>2, TakeGets DEF Fifo!Next
  <2>3. ASSUME UNCHANGED <<ring_queue, c_step, cur_count, out>> PROVE UNCHANGED <<queue, out>>
    BY <2>3 DEF queue
  <2> QED
    BY <2>1, <2>2, <2>3
    DEF Next, Push, Pop, PushWait, PushPost, PopBegin, DrainLook, PopTry, PopPost, vars
<1> QED
  BY <1>1, <1>2, QueueInvariant, PTL DEF Spec, FifoSpec, Fifo!Spec

=============================================================================
