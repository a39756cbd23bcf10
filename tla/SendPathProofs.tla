---------------------------- MODULE SendPathProofs ----------------------------
(***************************************************************************)
(* Proofs about the send path, for any packets, limits and capacities.     *)
(***************************************************************************)
EXTENDS SendPath, FiniteSetTheorems, SequenceTheorems, WellFoundedInduction, TLAPS

-----------------------------------------------------------------------------
(* Where a command is inserted                                             *)

LEMMA CmdPrefixIs ==
  ASSUME NEW s \in Seq(Packets)
  PROVE  /\ CmdPrefix(s) \in 0..Len(s)
         /\ \A i \in 1..Len(s) : i <= CmdPrefix(s) <=> \A j \in 1..i : IsCmd(s[j])
<1> DEFINE L == Len(s)
           S == {i \in 1..L : \A j \in 1..i : IsCmd(s[j])}
<1>1. L \in Nat
  BY LenProperties
<1>2. IsFiniteSet(1..L) /\ Cardinality(1..L) = L
  BY <1>1, FS_Interval
<1>3. IsFiniteSet(S) /\ Cardinality(S) \in Nat /\ Cardinality(S) <= L
  BY <1>2, FS_Subset, FS_CardinalityType
<1>4. ASSUME NEW i \in S PROVE i <= Cardinality(S)
  <2>1. 1..i \subseteq S
    BY <1>1
  <2>2. Cardinality(1..i) = i
    BY FS_Interval
  <2> QED
    BY <2>1, <2>2, <1>3, FS_Subset
<1>5. ASSUME NEW i \in 1..L, i \notin S PROVE ~(i <= Cardinality(S))
  <2>1. S \subseteq 1..i - 1
    <3> SUFFICES ASSUME NEW k \in S, k >= i PROVE FALSE
      BY <1>1
    <3> QED
      BY <1>5, <1>1
  <2>2. IsFiniteSet(1..i - 1) /\ Cardinality(1..i - 1) = i - 1
    BY FS_Interval
  <2>3. Cardinality(S) <= i - 1
    BY <2>1, <2>2, FS_Subset
  <2> QED
    BY <2>3, <1>3
<1>6. CmdPrefix(s) = Cardinality(S)
  BY DEF CmdPrefix
<1> HIDE DEF L
<1>7. \A i \in 1..L : i <= CmdPrefix(s) <=> i \in S
  BY <1>4, <1>5, <1>6
<1> QED
  BY <1>1, <1>3, <1>6, <1>7 DEF L

LEMMA CmdPrefixUnique ==
  ASSUME NEW s \in Seq(Packets), NEW m \in 0..Len(s),
         \A i \in 1..m : IsCmd(s[i]), m < Len(s) => ~IsCmd(s[m + 1])
  PROVE  CmdPrefix(s) = m
<1> DEFINE c == CmdPrefix(s)
<1>1. /\ Len(s) \in Nat /\ c \in 0..Len(s)
      /\ \A i \in 1..Len(s) : i <= c <=> \A j \in 1..i : IsCmd(s[j])
  BY CmdPrefixIs, LenProperties
<1> HIDE DEF c
<1>2. ~(c < m)
  <2> SUFFICES ASSUME c < m PROVE FALSE
    OBVIOUS
  <2>1. m \in 1..Len(s) /\ \A j \in 1..m : IsCmd(s[j])
    BY <1>1
  <2> QED
    BY <2>1, <1>1
<1>3. ~(c > m)
  <2> SUFFICES ASSUME c > m PROVE FALSE
    OBVIOUS
  <2>1. m + 1 \in 1..Len(s) /\ m + 1 <= c /\ m + 1 \in 1..m + 1
    BY <1>1
  <2>2. IsCmd(s[m + 1])
    BY <2>1, <1>1
  <2> QED
    BY <2>1, <2>2, <1>1
<1>4. c = m
  BY <1>1, <1>2, <1>3
<1> QED
  BY <1>4 DEF c

(* The rest of a sequence after its first n elements.                      *)
LEMMA RestIs ==
  ASSUME NEW S, NEW s \in Seq(S), NEW n \in 0..Len(s)
  PROVE  /\ SubSeq(s, n + 1, Len(s)) \in Seq(S)
         /\ Len(SubSeq(s, n + 1, Len(s))) = Len(s) - n
         /\ \A i \in 1..Len(s) - n : SubSeq(s, n + 1, Len(s))[i] = s[n + i]
<1> DEFINE L == Len(s)
           b == SubSeq(s, n + 1, L)
<1>1. L \in Nat /\ n \in Nat /\ n <= L /\ \A i \in 1..L : s[i] \in S
  BY LenProperties
<1>2. SUFFICES b \in Seq(S) /\ Len(b) = L - n /\ \A i \in 1..L - n : b[i] = s[n + i]
  OBVIOUS
<1>3. \A i \in n + 1..L : s[i] \in S
  BY <1>1
<1>4. CASE n = L
  <2>1. b = << >>
    BY <1>1, <1>4, SubSeqEmpty
  <2> HIDE DEF b
  <2> QED
    BY <2>1, <1>1, <1>4
<1>5. CASE n < L
  <2>1. /\ b \in Seq(S)
        /\ Len(b) = L - (n + 1) + 1
        /\ \A i \in 1..L - (n + 1) + 1 : b[i] = s[(n + 1) + i - 1]
    BY <1>1, <1>3, <1>5, SubSeqProperties
  <2> HIDE DEF b, L
  <2>2. L - (n + 1) + 1 = L - n
    BY <1>1
  <2>3. ASSUME NEW i \in 1..L - n PROVE b[i] = s[n + i]
    <3>1. (n + 1) + i - 1 = n + i
      BY <1>1
    <3> QED
      BY <2>1, <2>2, <3>1
  <2> QED
    BY <2>1, <2>2, <2>3
<1> QED
  BY <1>1, <1>4, <1>5

LEMMA InsertAtIs ==
  ASSUME NEW s \in Seq(Packets), NEW n \in 0..Len(s), NEW p \in Packets
  PROVE  LET r == InsertAt(s, n + 1, p) IN
         /\ r \in Seq(Packets) /\ Len(r) = Len(s) + 1
         /\ \A k \in 1..Len(r) : r[k] = IF k <= n THEN s[k] ELSE IF k = n + 1 THEN p ELSE s[k - 1]
<1> DEFINE a == SubSeq(s, 1, n)
           b == SubSeq(s, n + 1, Len(s))
           t == (a \o <<p>>) \o b
<1>0. Len(s) \in Nat /\ n \in Nat /\ n <= Len(s) /\ s \in [1..Len(s) -> Packets]
  BY LenProperties
<1>1. a \in Seq(Packets) /\ Len(a) = n /\ \A i \in 1..n : a[i] = s[i]
  BY <1>0, SubSeqProperties
<1>2. b \in Seq(Packets) /\ Len(b) = Len(s) - n /\ \A i \in 1..Len(s) - n : b[i] = s[n + i]
  BY RestIs, Zenon
<1>3. <<p>> \in Seq(Packets) /\ Len(<<p>>) = 1 /\ <<p>>[1] = p
  OBVIOUS
<1> HIDE DEF a, b
<1>4. /\ a \o <<p>> \in Seq(Packets) /\ Len(a \o <<p>>) = n + 1
      /\ \A i \in 1..n + 1 : (a \o <<p>>)[i] = IF i <= n THEN s[i] ELSE p
  BY <1>0, <1>1, <1>3, ConcatProperties
<1>5. /\ t \in Seq(Packets) /\ Len(t) = Len(s) + 1
      /\ \A i \in 1..Len(s) + 1 : t[i] = IF i <= n + 1 THEN (a \o <<p>>)[i] ELSE b[i - (n + 1)]
  BY <1>0, <1>2, <1>4, ConcatProperties
<1>6. InsertAt(s, n + 1, p) = t
  <2>1. (n + 1) - 1 = n
    BY <1>0
  <2>2. InsertAt(s, n + 1, p) = (SubSeq(s, 1, (n + 1) - 1) \o <<p>>) \o SubSeq(s, n + 1, Len(s))
    BY Zenon DEF InsertAt
  <2> QED
    BY <2>1, <2>2, Zenon DEF a, b
<1> HIDE DEF t
<1>7. ASSUME NEW k \in 1..Len(t)
      PROVE  t[k] = IF k <= n THEN s[k] ELSE IF k = n + 1 THEN p ELSE s[k - 1]
  <2>0. k \in 1..Len(s) + 1
    BY <1>5
  <2>1. CASE k <= n + 1
    <3>1. k \in 1..n + 1 /\ (~(k <= n) => k = n + 1)
      BY <2>0, <2>1, <1>0
    <3>2. t[k] = (a \o <<p>>)[k]
      BY <2>0, <2>1, <1>5
    <3>3. t[k] = IF k <= n THEN s[k] ELSE p
      BY <3>1, <3>2, <1>4
    <3> QED
      BY <3>1, <3>3
  <2>2. CASE k > n + 1
    <3>1. k - (n + 1) \in 1..Len(s) - n /\ n + (k - (n + 1)) = k - 1
      BY <2>0, <2>2, <1>0
    <3>2. t[k] = b[k - (n + 1)]
      BY <2>0, <2>2, <1>0, <1>5
    <3> QED
      BY <3>1, <3>2, <2>0, <2>2, <1>0, <1>2
  <2> QED
    BY <2>0, <2>1, <2>2, <1>0
<1> QED
  BY <1>5, <1>6, <1>7

-----------------------------------------------------------------------------
(* The inductive invariant                                                 *)

(* The sending thread has a packet while it converts one, and has filed at *)
(* least one chunk while it hands a chunk over.                            *)
HasPacket ==
  /\ pc \in {"convert", "send", "push"} => cur \in Packets
  /\ pc \in {"send", "push"} => packCount > 0

SendInv == TypeOK /\ SemCountsList /\ CmdsFirst /\ HasPacket

LEMMA InitInv == Init => SendInv
<1> SUFFICES ASSUME Init PROVE SendInv
  OBVIOUS
<1>1. list = <<>> /\ Len(list) = 0
  BY DEF Init
<1>2. SemCountsList /\ CmdsFirst /\ HasPacket
  BY <1>1 DEF Init, SemCountsList, CmdsFirst, HasPacket
<1>3. TypeOK
  <2>1. list \in Seq(Packets) /\ accepted \in Seq(Packets) /\ handled \in Seq(Packets)
    BY DEF Init
  <2>2. ring \in Seq(ChunkRecords) /\ taken \in Seq(ChunkRecords)
    BY DEF Init, Ring!Init
  <2>3. answer \in [Packets -> Int]
    BY DEF Init, NotCalled
  <2> QED
    BY <2>1, <2>2, <2>3 DEF Init, TypeOK, SenderPcs
<1> QED
  BY <1>2, <1>3 DEF SendInv

(* A command goes where the commands end, so that they stay in front.      *)
LEMMA SubmitCmdStep ==
  ASSUME SendInv, NEW p \in Packets, Submit(p), SubmitCmd(p)
  PROVE  SendInv'
<1> DEFINE n == CmdPrefix(list)
<1>0. /\ list \in Seq(Packets) /\ Len(list) \in Nat /\ sem \in Nat
      /\ list' = InsertAt(list, n + 1, p) /\ sem' = sem + 1 /\ pc' = pc /\ IsCmd(p)
      /\ answer' = [answer EXCEPT ![p] = n] /\ accepted' = Append(accepted, p)
      /\ UNCHANGED <<threadVars, epollVars>>
  BY LenProperties DEF SendInv, TypeOK, Submit, SubmitCmd, threadVars
<1>1. /\ n \in 0..Len(list)
      /\ \A i \in 1..Len(list) : i <= n <=> \A j \in 1..i : IsCmd(list[j])
  BY <1>0, CmdPrefixIs
<1> HIDE DEF n
<1>2. /\ list' \in Seq(Packets) /\ Len(list') = Len(list) + 1
      /\ \A k \in 1..Len(list') : list'[k] = IF k <= n THEN list[k]
                                               ELSE IF k = n + 1 THEN p ELSE list[k - 1]
  <2>1. list' = InsertAt(list, n + 1, p) /\ list \in Seq(Packets) /\ n \in 0..Len(list)
    BY <1>0, <1>1
  <2> DEFINE r == InsertAt(list, n + 1, p)
  <2>2. /\ r \in Seq(Packets) /\ Len(r) = Len(list) + 1
        /\ \A k \in 1..Len(r) : r[k] = IF k <= n THEN list[k] ELSE IF k = n + 1 THEN p ELSE list[k - 1]
    BY <2>1, InsertAtIs, Zenon
  <2> QED
    BY <2>1, <2>2, Zenon
<1>3. CmdsFirst'
  <2> SUFFICES ASSUME NEW i \in 1..Len(list'), NEW j \in 1..Len(list'), i < j, IsCmd(list'[j])
               PROVE  IsCmd(list'[i])
    BY DEF CmdsFirst, IsCmd
  <2>1. CASE j <= n + 1
    <3>1. i \in 1..Len(list) /\ i <= n
      BY <2>1, <1>0, <1>1, <1>2
    <3>2. IsCmd(list[i])
      BY <3>1, <1>1
    <3> QED
      BY <3>1, <3>2, <1>2
  <2>2. CASE j > n + 1
    <3>1. j - 1 \in 1..Len(list) /\ j - 1 > n /\ list'[j] = list[j - 1]
      BY <2>2, <1>0, <1>1, <1>2
    <3>2. \A k \in 1..j - 1 : IsCmd(list[k])
      BY <3>1, <1>0 DEF SendInv, CmdsFirst
    <3> QED
      BY <3>1, <3>2, <1>1
  <2> QED
    BY <2>1, <2>2, <1>0, <1>1, <1>2
<1>4. SemCountsList'
  BY <1>0, <1>2 DEF SendInv, SemCountsList
<1>5. TypeOK'
  BY <1>0, <1>1, <1>2 DEF SendInv, TypeOK, threadVars, epollVars
<1>6. HasPacket'
  BY <1>0 DEF SendInv, HasPacket, threadVars
<1> QED
  BY <1>3, <1>4, <1>5, <1>6 DEF SendInv

LEMMA SubmitOtherStep ==
  ASSUME SendInv, NEW p \in Packets, Submit(p), SubmitOther(p)
  PROVE  SendInv'
<1>0. /\ list \in Seq(Packets) /\ Len(list) \in Nat /\ ~IsCmd(p)
      /\ UNCHANGED <<threadVars, epollVars>>
  BY LenProperties DEF SendInv, TypeOK, Submit, SubmitOther
<1>1. CASE list' = Append(list, p) /\ sem' = sem + 1
           /\ answer' = [answer EXCEPT ![p] = Len(list)] /\ accepted' = Append(accepted, p)
  <2>1. /\ list' \in Seq(Packets) /\ Len(list') = Len(list) + 1
        /\ \A k \in 1..Len(list) + 1 : list'[k] = IF k = Len(list) + 1 THEN p ELSE list[k]
    BY <1>0, <1>1
  <2>2. CmdsFirst'
    BY <2>1, <1>0 DEF SendInv, CmdsFirst, IsCmd
  <2>3. SemCountsList'
    BY <1>0, <1>1, <2>1 DEF SendInv, SemCountsList, threadVars, TypeOK
  <2>4. TypeOK'
    BY <1>0, <1>1, <2>1 DEF SendInv, TypeOK, threadVars, epollVars
  <2>5. HasPacket'
    BY <1>0 DEF SendInv, HasPacket, threadVars
  <2> QED
    BY <2>2, <2>3, <2>4, <2>5 DEF SendInv
<1>2. CASE answer' = [answer EXCEPT ![p] = -1] /\ UNCHANGED <<list, sem, accepted>>
  BY <1>0, <1>2 DEF SendInv, TypeOK, SemCountsList, CmdsFirst, HasPacket, IsCmd, threadVars, epollVars
<1> QED
  BY <1>1, <1>2 DEF SubmitOther

-----------------------------------------------------------------------------
(* The steps of the sending thread and of Stop                             *)

LEMMA StartSteps ==
  ASSUME SendInv, StartSucceeds \/ Launch
  PROVE  SendInv'
<1>1. /\ UNCHANGED <<queueVars, handled, cur, packCount, msgId, sending, freed, ring, taken, stop>>
      /\ pc = "none" /\ pc' \in {"none", "semWait"} /\ running' \in BOOLEAN
  BY DEF StartSucceeds, Launch, threadVars, epollVars, SendInv, TypeOK
<1>2. SemCountsList' /\ CmdsFirst' /\ HasPacket'
  BY <1>1 DEF SendInv, SemCountsList, CmdsFirst, HasPacket, IsCmd, queueVars
<1>3. TypeOK'
  BY <1>1 DEF SendInv, TypeOK, SenderPcs, queueVars
<1> QED
  BY <1>2, <1>3 DEF SendInv

LEMMA SemWaitStep ==
  ASSUME SendInv, SemWait
  PROVE  SendInv'
<1>1. /\ list' = list /\ sem' = sem - 1 /\ sem > 0 /\ pc = "semWait" /\ pc' = "front"
      /\ sem \in Nat /\ Len(list) \in Nat
  BY LenProperties DEF SendInv, TypeOK, SemWait
<1>2. SemCountsList'
  BY <1>1 DEF SendInv, SemCountsList
<1>3. CmdsFirst' /\ HasPacket'
  BY <1>1 DEF SendInv, CmdsFirst, HasPacket, IsCmd
<1>4. TypeOK'
  BY <1>1 DEF SendInv, TypeOK, SemWait, epollVars, SenderPcs
<1> QED
  BY <1>2, <1>3, <1>4 DEF SendInv

(* The semaphore says that there is a packet to take.                      *)
LEMMA TakeFrontStep ==
  ASSUME SendInv, TakeFront
  PROVE  SendInv'
<1>1. /\ list \in Seq(Packets) /\ Len(list) \in Nat /\ sem \in Nat /\ pc = "front"
      /\ list' = Tail(list) /\ sem' = sem /\ cur' = Head(list) /\ packCount' = 0
      /\ pc' \in {"exited", "convert"} /\ handled' = Append(handled, Head(list))
  BY LenProperties DEF SendInv, TypeOK, TakeFront
<1>2. list # <<>>
  <2>1. sem + 1 = Len(list)
    BY <1>1 DEF SendInv, SemCountsList
  <2> QED
    BY <2>1, <1>1, EmptySeq
<1>3. /\ Head(list) \in Packets
      /\ list' \in Seq(Packets) /\ Len(list') = Len(list) - 1
      /\ \A i \in 1..Len(list') : list'[i] = list[i + 1]
  BY <1>1, <1>2, HeadTailProperties
<1>4. SemCountsList'
  BY <1>1, <1>3 DEF SendInv, SemCountsList
<1>5. CmdsFirst'
  <2> SUFFICES ASSUME NEW i \in 1..Len(list'), NEW j \in 1..Len(list'), i < j, IsCmd(list'[j])
               PROVE  IsCmd(list'[i])
    BY DEF CmdsFirst, IsCmd
  <2>1. i + 1 \in 1..Len(list) /\ j + 1 \in 1..Len(list) /\ i + 1 < j + 1
    BY <1>1, <1>3
  <2>2. IsCmd(list[j + 1])
    BY <1>3
  <2>3. IsCmd(list[i + 1])
    BY <2>1, <2>2 DEF SendInv, CmdsFirst
  <2> QED
    BY <2>3, <1>3
<1>6. TypeOK'
  BY <1>1, <1>3 DEF SendInv, TypeOK, TakeFront, epollVars, SenderPcs
<1>7. HasPacket'
  BY <1>1, <1>3 DEF HasPacket
<1> QED
  BY <1>4, <1>5, <1>6, <1>7 DEF SendInv

LEMMA FileChunkStep ==
  ASSUME SendInv, FileChunk
  PROVE  SendInv'
<1>1. /\ list' = list /\ sem' = sem /\ pc = "convert" /\ pc' = "send" /\ cur' = cur
      /\ packCount' = packCount + 1 /\ packCount \in Nat /\ cur \in Packets
      /\ msgId \in Nat /\ msgId' = msgId + 1
      /\ sending' = sending \cup {<<msgId + 1, cur, packCount>>}
  BY DEF SendInv, TypeOK, FileChunk, queueVars, HasPacket
<1>2. SemCountsList' /\ CmdsFirst' /\ HasPacket'
  BY <1>1 DEF SendInv, SemCountsList, CmdsFirst, HasPacket, IsCmd
<1>3. sending' \subseteq ChunkRecords
  <2>1. <<msgId + 1, cur, packCount>> \in ChunkRecords
    BY <1>1 DEF ChunkRecords
  <2> QED
    BY <1>1, <2>1 DEF SendInv, TypeOK
<1>4. TypeOK'
  <2>1. sending' \subseteq ChunkRecords /\ msgId' \in Nat /\ packCount' \in Nat /\ pc' \in SenderPcs
    BY <1>1, <1>3 DEF SenderPcs
  <2> QED
    BY <2>1 DEF SendInv, TypeOK, FileChunk, queueVars, epollVars
<1> QED
  BY <1>2, <1>4 DEF SendInv

LEMMA SendDataStep ==
  ASSUME SendInv, SendData
  PROVE  SendInv'
<1>1. /\ list' = list /\ sem' = sem /\ pc = "send" /\ pc' \in {"push", "convert"}
      /\ cur' = cur /\ packCount' = packCount
  BY DEF SendData, queueVars
<1>2. SemCountsList' /\ CmdsFirst' /\ HasPacket'
  BY <1>1 DEF SendInv, SemCountsList, CmdsFirst, HasPacket, IsCmd
<1>3. TypeOK'
  BY <1>1 DEF SendInv, TypeOK, SendData, queueVars, epollVars, SenderPcs
<1> QED
  BY <1>2, <1>3 DEF SendInv

LEMMA PushChunkStep ==
  ASSUME SendInv, PushChunk
  PROVE  SendInv'
<1>1. /\ list' = list /\ sem' = sem /\ pc = "push" /\ pc' = "convert" /\ cur' = cur
      /\ packCount' = packCount /\ packCount \in Nat /\ packCount > 0
      /\ cur \in Packets /\ msgId \in Nat /\ ring \in Seq(ChunkRecords)
      /\ ring' = Append(ring, <<msgId, cur, packCount - 1>>) /\ taken' = taken
  BY DEF SendInv, TypeOK, PushChunk, queueVars, HasPacket, Ring!Put
<1>2. SemCountsList' /\ CmdsFirst' /\ HasPacket'
  BY <1>1 DEF SendInv, SemCountsList, CmdsFirst, HasPacket, IsCmd
<1>3. ring' \in Seq(ChunkRecords)
  <2>1. packCount - 1 \in Nat
    BY <1>1
  <2>2. <<msgId, cur, packCount - 1>> \in ChunkRecords
    BY <1>1, <2>1 DEF ChunkRecords
  <2> QED
    BY <1>1, <2>2, AppendProperties
<1>4. TypeOK'
  BY <1>1, <1>3 DEF SendInv, TypeOK, PushChunk, queueVars, SenderPcs
<1> QED
  BY <1>2, <1>4 DEF SendInv

LEMMA FreePacketStep ==
  ASSUME SendInv, FreePacket
  PROVE  SendInv'
<1>1. /\ list' = list /\ sem' = sem /\ pc = "convert" /\ pc' = "semWait"
      /\ cur \in Packets /\ cur' = NoPacket /\ freed' = freed \cup {cur}
  BY DEF SendInv, FreePacket, queueVars, HasPacket
<1>2. SemCountsList' /\ CmdsFirst' /\ HasPacket'
  BY <1>1 DEF SendInv, SemCountsList, CmdsFirst, HasPacket, IsCmd
<1>3. TypeOK'
  BY <1>1 DEF SendInv, TypeOK, FreePacket, queueVars, epollVars, SenderPcs
<1> QED
  BY <1>2, <1>3 DEF SendInv

LEMMA StopSteps ==
  ASSUME SendInv, StopStep
  PROVE  SendInv'
<1>1. UNCHANGED <<queueVars, threadVars>>
  BY DEF StopStep, StopBegin, StopDrain
<1>2. SemCountsList' /\ CmdsFirst' /\ HasPacket'
  BY <1>1 DEF SendInv, SemCountsList, CmdsFirst, HasPacket, IsCmd, queueVars, threadVars
<1>3. /\ running' \in BOOLEAN /\ stop' \in {"no", "drain", "done"}
      /\ ring' \in Seq(ChunkRecords) /\ taken' \in Seq(ChunkRecords)
  <2>1. CASE StopBegin
    BY <2>1 DEF StopBegin, SendInv, TypeOK
  <2>2. CASE StopDrain
    <3>1. CASE Ring!Get
      <4>1. /\ ring \in Seq(ChunkRecords) /\ taken \in Seq(ChunkRecords) /\ ring # <<>>
            /\ taken' = Append(taken, Head(ring)) /\ ring' = Tail(ring)
            /\ running' = running
        BY <2>2, <3>1 DEF SendInv, TypeOK, StopDrain, Ring!Get
      <4>2. Head(ring) \in ChunkRecords /\ Tail(ring) \in Seq(ChunkRecords)
        BY <4>1, HeadTailProperties
      <4>3. taken' \in Seq(ChunkRecords)
        BY <4>1, <4>2, AppendProperties
      <4>4. stop' \in {"no", "drain", "done"} /\ running' \in BOOLEAN
        BY <2>2 DEF SendInv, TypeOK, StopDrain
      <4> QED
        BY <4>1, <4>2, <4>3, <4>4
    <3>2. CASE stop' = "done" /\ UNCHANGED <<ring, taken>>
      BY <2>2, <3>2 DEF SendInv, TypeOK, StopDrain
    <3> QED
      BY <2>2, <3>1, <3>2 DEF StopDrain
  <2> QED
    BY <2>1, <2>2 DEF StopStep
<1>4. TypeOK'
  BY <1>1, <1>3 DEF SendInv, TypeOK, queueVars, threadVars
<1> QED
  BY <1>2, <1>4 DEF SendInv

(* SendInv is inductive.                                                   *)
LEMMA NextInv == SendInv /\ [Next]_vars => SendInv'
<1> SUFFICES ASSUME SendInv, [Next]_vars PROVE SendInv'
  OBVIOUS
<1>1. CASE \E p \in Packets : Submit(p)
  <2>1. PICK p \in Packets : Submit(p)
    BY <1>1
  <2>2. SubmitCmd(p) \/ SubmitOther(p)
    BY <2>1 DEF Submit
  <2> QED
    BY <2>1, <2>2, SubmitCmdStep, SubmitOtherStep
<1>2. CASE SenderStep
  BY <1>2, SemWaitStep, TakeFrontStep, FileChunkStep, SendDataStep, PushChunkStep,
     FreePacketStep DEF SenderStep
<1>3. CASE StopStep
  BY <1>3, StopSteps
<1>4. CASE StartSucceeds \/ Launch
  BY <1>4, StartSteps
<1>5. CASE UNCHANGED vars
  BY <1>5 DEF SendInv, TypeOK, SemCountsList, CmdsFirst, HasPacket, IsCmd, vars
<1> QED
  BY <1>1, <1>2, <1>3, <1>4, <1>5 DEF Next

LEMMA SendInvHolds == Spec => []SendInv
  BY InitInv, NextInv, PTL DEF Spec

-----------------------------------------------------------------------------
(* The variables of the send path keep their types: m_listSendNetPacket    *)
(* and the ring hold packets, whatever the interleaving.                   *)
THEOREM SendTyping == Spec => []TypeOK
  BY SendInvHolds, PTL DEF SendInv

(* m_semSendNetPacket counts m_listSendNetPacket: SendPacketThread never   *)
(* calls front() on an empty list and leaves none behind without a post.   *)
THEOREM SemaphoreCounts == Spec => []SemCountsList
  BY SendInvHolds, PTL DEF SendInv

(* submitPacket keeps the commands of m_listSendNetPacket in front of      *)
(* everything else.                                                        *)
THEOREM CommandsStayFirst == Spec => []CmdsFirst
  BY SendInvHolds, PTL DEF SendInv

-----------------------------------------------------------------------------
(* m_mapSendingNetPacket: every chunk handed over is filed.  The           *)
(* strengthening: numbers do not pass m_msgId and places stay inside of    *)
(* their packets, the chunk on its way to the ring is filed already, and   *)
(* so are the first packCount chunks of the packet at hand.                *)

InRing == \A i \in DOMAIN ring : ring[i] \in sending
InTaken == \A i \in DOMAIN taken : taken[i] \in sending
NumbersDiffer == \A a, b \in sending : a[1] = b[1] => a = b
PlacesInside == \A e \in sending : e[1] <= msgId /\ e[3] \in 0..Chunks[e[2]] - 1
OnItsWay == pc \in {"send", "push"} => <<msgId, cur, packCount - 1>> \in sending
FiledUpTo(p, n) == \A k \in 0..n - 1 : \E e \in sending : e[2] = p /\ e[3] = k
AtHand == pc \in {"convert", "send", "push"} => FiledUpTo(cur, packCount)
Finished == \A p \in freed : FiledUpTo(p, Chunks[p])

FiledInv ==
  InRing /\ InTaken /\ NumbersDiffer /\ PlacesInside /\ OnItsWay /\ AtHand /\ Finished

LEMMA FiledInit == Init => FiledInv
  BY DEF Init, Ring!Init, FiledInv, InRing, InTaken, NumbersDiffer, PlacesInside, OnItsWay,
         FiledUpTo, AtHand, Finished

LEMMA FiledGives == SendInv /\ FiledInv => ChunksFiled
<1> SUFFICES ASSUME SendInv, FiledInv PROVE ChunksFiled
  OBVIOUS
<1>1. ToSet(ring) \cup ToSet(taken) \subseteq sending
  BY DEF FiledInv, InRing, InTaken, ToSet
<1>2. \A a, b \in sending : a[1] = b[1] => a = b
  BY DEF FiledInv, NumbersDiffer
<1>3. ASSUME NEW p \in freed
      PROVE  {e[3] : e \in {s \in sending : s[2] = p}} = 0..Chunks[p] - 1
  <2>1. \A e \in {s \in sending : s[2] = p} : e[3] \in 0..Chunks[p] - 1
    BY DEF FiledInv, PlacesInside
  <2>2. \A k \in 0..Chunks[p] - 1 : \E e \in {s \in sending : s[2] = p} : e[3] = k
    BY <1>3 DEF FiledInv, Finished, FiledUpTo
  <2> QED
    BY <2>1, <2>2
<1> QED
  BY <1>1, <1>2, <1>3 DEF ChunksFiled

(* The number of the new chunk is above all numbers in use.                *)
LEMMA FiledByFileChunk ==
  ASSUME SendInv, FiledInv, FileChunk
  PROVE  FiledInv'
<1> DEFINE new == <<msgId + 1, cur, packCount>>
<1>1. /\ pc = "convert" /\ pc' = "send" /\ msgId \in Nat /\ packCount \in Nat
      /\ cur \in Packets /\ packCount < Chunks[cur] /\ Chunks[cur] \in Nat
      /\ msgId' = msgId + 1 /\ packCount' = packCount + 1
      /\ sending' = sending \cup {new}
      /\ UNCHANGED <<cur, freed, ring, taken>>
  BY SendPathAssumption DEF SendInv, TypeOK, HasPacket, FileChunk, epollVars
<1>2. new[1] = msgId + 1 /\ new[2] = cur /\ new[3] = packCount
  OBVIOUS
<1> HIDE DEF new
<1>3. \A e \in sending : e[1] \in Nat /\ e[1] <= msgId
  BY DEF SendInv, TypeOK, ChunkRecords, FiledInv, PlacesInside
<1>4. InRing' /\ InTaken'
  BY <1>1 DEF FiledInv, InRing, InTaken
<1>5. NumbersDiffer'
  BY <1>1, <1>2, <1>3 DEF FiledInv, NumbersDiffer
<1>6. PlacesInside'
  BY <1>1, <1>2, <1>3 DEF FiledInv, PlacesInside
<1>7. OnItsWay'
  BY <1>1 DEF OnItsWay, new
<1>8. AtHand'
  BY <1>1, <1>2 DEF FiledInv, AtHand, FiledUpTo
<1>9. Finished'
  BY <1>1 DEF FiledInv, Finished, FiledUpTo
<1> QED
  BY <1>4, <1>5, <1>6, <1>7, <1>8, <1>9 DEF FiledInv

LEMMA FiledByPushChunk ==
  ASSUME SendInv, FiledInv, PushChunk
  PROVE  FiledInv'
<1> DEFINE x == <<msgId, cur, packCount - 1>>
<1>1. /\ pc = "push" /\ pc' = "convert" /\ ring \in Seq(ChunkRecords)
      /\ ring' = Append(ring, x) /\ x \in sending
      /\ UNCHANGED <<cur, packCount, msgId, sending, freed, taken>>
  BY DEF SendInv, TypeOK, PushChunk, Ring!Put, FiledInv, OnItsWay
<1> HIDE DEF x
<1>2. InRing'
  <2>1. \A i \in DOMAIN ring' : ring'[i] = x \/ (i \in DOMAIN ring /\ ring'[i] = ring[i])
    BY <1>1
  <2> QED
    BY <1>1, <2>1 DEF FiledInv, InRing
<1> QED
  BY <1>1, <1>2 DEF FiledInv, InRing, InTaken, NumbersDiffer, PlacesInside, OnItsWay, AtHand,
                    Finished, FiledUpTo

(* A packet is freed when all of its chunks are filed.                     *)
LEMMA FiledByFreePacket ==
  ASSUME SendInv, FiledInv, FreePacket
  PROVE  FiledInv'
<1>1. /\ pc = "convert" /\ pc' = "semWait" /\ packCount = Chunks[cur] /\ freed' = freed \cup {cur}
      /\ UNCHANGED <<msgId, sending, ring, taken>>
  BY DEF FreePacket, epollVars
<1>2. Finished'
  BY <1>1 DEF FiledInv, AtHand, Finished, FiledUpTo
<1> QED
  BY <1>1, <1>2 DEF FiledInv, InRing, InTaken, NumbersDiffer, PlacesInside, OnItsWay, AtHand

LEMMA FiledByStop ==
  ASSUME SendInv, FiledInv, StopStep
  PROVE  FiledInv'
<1>1. UNCHANGED <<pc, cur, packCount, msgId, sending, freed>>
  BY DEF StopStep, StopBegin, StopDrain, threadVars
<1>2. InRing' /\ InTaken'
  <2>1. CASE Ring!Get
    <3>1. /\ ring \in Seq(ChunkRecords) /\ taken \in Seq(ChunkRecords) /\ ring # <<>>
          /\ taken' = Append(taken, Head(ring)) /\ ring' = Tail(ring)
      BY <2>1 DEF SendInv, TypeOK, Ring!Get
    <3>2. \A i \in DOMAIN ring' : i + 1 \in DOMAIN ring /\ ring'[i] = ring[i + 1]
      BY <3>1
    <3>3. Head(ring) = ring[1] /\ 1 \in DOMAIN ring
      BY <3>1
    <3>4. \A i \in DOMAIN taken' :
            taken'[i] = Head(ring) \/ (i \in DOMAIN taken /\ taken'[i] = taken[i])
      BY <3>1
    <3> QED
      BY <3>2, <3>3, <3>4, <1>1 DEF FiledInv, InRing, InTaken
  <2>2. CASE UNCHANGED <<ring, taken>>
    BY <2>2, <1>1 DEF FiledInv, InRing, InTaken
  <2> QED
    BY <2>1, <2>2 DEF StopStep, StopBegin, StopDrain
<1> QED
  BY <1>1, <1>2 DEF FiledInv, NumbersDiffer, PlacesInside, OnItsWay, AtHand, Finished, FiledUpTo

(* The steps that neither file a chunk nor move one.                       *)
LEMMA FiledElsewhere ==
  ASSUME SendInv, FiledInv, UNCHANGED <<msgId, sending, freed, ring, taken>>,
         \/ pc' \notin {"convert", "send", "push"}
         \/ pc' = "convert" /\ packCount' = 0
         \/ /\ pc' \in {pc, "push", "convert"} /\ pc \in {"convert", "send", "push"}
            /\ pc' = "push" => pc \in {"send", "push"}
            /\ UNCHANGED <<cur, packCount>>
  PROVE  FiledInv'
<1>1. InRing' /\ InTaken' /\ NumbersDiffer' /\ PlacesInside'
  BY DEF FiledInv, InRing, InTaken, NumbersDiffer, PlacesInside
<1>2. OnItsWay'
  BY DEF FiledInv, OnItsWay
<1>3. AtHand'
  BY DEF FiledInv, AtHand, FiledUpTo
<1>4. Finished'
  BY DEF FiledInv, Finished, FiledUpTo
<1> QED
  BY <1>1, <1>2, <1>3, <1>4 DEF FiledInv

LEMMA FiledNext == SendInv /\ FiledInv /\ [Next]_vars => FiledInv'
<1> SUFFICES ASSUME SendInv, FiledInv, [Next]_vars PROVE FiledInv'
  OBVIOUS
<1>1. CASE (\E p \in Packets : Submit(p)) \/ UNCHANGED vars
  <2>1. UNCHANGED <<pc, cur, packCount, msgId, sending, freed, ring, taken>>
    BY <1>1 DEF Submit, threadVars, epollVars, vars
  <2> QED
    BY <2>1, FiledElsewhere
<1>2. CASE StartSucceeds \/ Launch
  <2>1. UNCHANGED <<msgId, sending, freed, ring, taken>> /\ pc' \in {"none", "semWait"}
    BY <1>2 DEF StartSucceeds, Launch, threadVars, epollVars
  <2> QED
    BY <2>1, FiledElsewhere
<1>3. CASE SemWait \/ TakeFront \/ SendData
  <2>1. UNCHANGED <<msgId, sending, freed, ring, taken>>
    BY <1>3 DEF SemWait, TakeFront, SendData, epollVars
  <2>2. \/ pc' \notin {"convert", "send", "push"}
        \/ pc' = "convert" /\ packCount' = 0
        \/ pc = "send" /\ pc' \in {"push", "convert"} /\ UNCHANGED <<cur, packCount>>
    BY <1>3 DEF SemWait, TakeFront, SendData
  <2> QED
    BY <2>1, <2>2, FiledElsewhere
<1>4. CASE FileChunk \/ PushChunk \/ FreePacket
  BY <1>4, FiledByFileChunk, FiledByPushChunk, FiledByFreePacket
<1>5. CASE StopStep
  BY <1>5, FiledByStop
<1> QED
  BY <1>1, <1>2, <1>3, <1>4, <1>5 DEF Next, SenderStep

(* Every chunk in the ring or taken from it is in m_mapSendingNetPacket    *)
(* under a number of its own, and a packet that was freed is there with    *)
(* all of its chunks, for any packets, limits and moments of Stop.         *)
THEOREM NumbersLeadBack == Spec => []ChunksFiled
<1>1. Init => FiledInv
  BY FiledInit
<1>2. SendInv /\ FiledInv /\ [Next]_vars => FiledInv'
  BY FiledNext
<1>3. SendInv /\ FiledInv => ChunksFiled
  BY FiledGives
<1> QED
  BY <1>1, <1>2, <1>3, SendInvHolds, PTL DEF Spec

-----------------------------------------------------------------------------
(* The list implements TwoClassQueue: what each operation on it does to    *)
(* its commands and to the rest of it                                      *)

CmdsOf(s) == SubSeq(s, 1, CmdPrefix(s))
RestOf(s) == SubSeq(s, CmdPrefix(s) + 1, Len(s))

(* The two parts of a list, element by element.                            *)
LEMMA PartsAre ==
  ASSUME NEW s \in Seq(Packets), NEW m \in 0..Len(s), CmdPrefix(s) = m
  PROVE  /\ CmdsOf(s) \in Seq(Packets) /\ Len(CmdsOf(s)) = m
         /\ \A i \in 1..m : CmdsOf(s)[i] = s[i]
         /\ RestOf(s) \in Seq(Packets) /\ Len(RestOf(s)) = Len(s) - m
         /\ \A i \in 1..Len(s) - m : RestOf(s)[i] = s[m + i]
<1>1. Len(s) \in Nat /\ \A i \in 1..Len(s) : s[i] \in Packets
  BY LenProperties
<1>2. SubSeq(s, 1, m) \in Seq(Packets) /\ Len(SubSeq(s, 1, m)) = m
      /\ \A i \in 1..m : SubSeq(s, 1, m)[i] = s[i]
  BY <1>1, SubSeqProperties
<1>3. /\ SubSeq(s, m + 1, Len(s)) \in Seq(Packets) /\ Len(SubSeq(s, m + 1, Len(s))) = Len(s) - m
      /\ \A i \in 1..Len(s) - m : SubSeq(s, m + 1, Len(s))[i] = s[m + i]
  BY RestIs, Zenon
<1> QED
  BY <1>2, <1>3, Zenon DEF CmdsOf, RestOf

(* What the number of commands says of the first of them.                  *)
LEMMA PrefixOf ==
  ASSUME NEW s \in Seq(Packets)
  PROVE  /\ Len(s) \in Nat /\ CmdPrefix(s) \in 0..Len(s)
         /\ \A i \in 1..CmdPrefix(s) : IsCmd(s[i])
         /\ CmdPrefix(s) < Len(s) => ~IsCmd(s[CmdPrefix(s) + 1])
<1> DEFINE n == CmdPrefix(s)
<1>1. /\ Len(s) \in Nat /\ n \in 0..Len(s)
      /\ \A i \in 1..Len(s) : i <= n <=> \A j \in 1..i : IsCmd(s[j])
  BY CmdPrefixIs, LenProperties
<1> HIDE DEF n
<1>2. \A i \in 1..n : IsCmd(s[i])
  BY <1>1
<1>3. ASSUME n < Len(s) PROVE ~IsCmd(s[n + 1])
  <2>1. n + 1 \in 1..Len(s) /\ ~(n + 1 <= n)
    BY <1>1, <1>3
  <2>2. PICK j \in 1..n + 1 : ~IsCmd(s[j])
    BY <2>1, <1>1
  <2>3. j = n + 1
    BY <2>2, <1>1, <1>2
  <2> QED
    BY <2>2, <2>3
<1> QED
  BY <1>1, <1>2, <1>3 DEF n

(* A command is put behind the commands, the rest stays.                   *)
LEMMA PutCmd ==
  ASSUME NEW s \in Seq(Packets), NEW p \in Packets, IsCmd(p),
         NEW r, r = InsertAt(s, CmdPrefix(s) + 1, p)
  PROVE  CmdsOf(r) = Append(CmdsOf(s), p) /\ RestOf(r) = RestOf(s)
<1> DEFINE n == CmdPrefix(s)
<1>1. /\ Len(s) \in Nat /\ n \in 0..Len(s) /\ \A i \in 1..n : IsCmd(s[i])
      /\ n < Len(s) => ~IsCmd(s[n + 1])
  BY PrefixOf
<1>2. r = InsertAt(s, n + 1, p) /\ CmdPrefix(s) = n
  OBVIOUS
<1> HIDE DEF n
<1>3. /\ r \in Seq(Packets) /\ Len(r) = Len(s) + 1
      /\ \A k \in 1..Len(r) : r[k] = IF k <= n THEN s[k] ELSE IF k = n + 1 THEN p ELSE s[k - 1]
  <2> DEFINE t == InsertAt(s, n + 1, p)
  <2>1. /\ t \in Seq(Packets) /\ Len(t) = Len(s) + 1
        /\ \A k \in 1..Len(t) : t[k] = IF k <= n THEN s[k] ELSE IF k = n + 1 THEN p ELSE s[k - 1]
    BY <1>1, InsertAtIs, Zenon
  <2>2. t = r
    BY <1>2
  <2> HIDE DEF t
  <2> QED
    BY <2>1, <2>2
<1>4. CmdPrefix(r) = n + 1
  <2>1. n + 1 \in 0..Len(r)
    BY <1>1, <1>3
  <2>2. \A i \in 1..n + 1 : IsCmd(r[i])
    BY <1>1, <1>3
  <2>3. n + 1 < Len(r) => ~IsCmd(r[(n + 1) + 1])
    BY <1>1, <1>3
  <2> QED
    BY <2>1, <2>2, <2>3, <1>3, CmdPrefixUnique
<1>5. /\ CmdsOf(s) \in Seq(Packets) /\ Len(CmdsOf(s)) = n /\ \A i \in 1..n : CmdsOf(s)[i] = s[i]
      /\ RestOf(s) \in Seq(Packets) /\ Len(RestOf(s)) = Len(s) - n
      /\ \A i \in 1..Len(s) - n : RestOf(s)[i] = s[n + i]
  BY <1>1, <1>2, PartsAre
<1>6. /\ CmdsOf(r) \in Seq(Packets) /\ Len(CmdsOf(r)) = n + 1
      /\ \A i \in 1..n + 1 : CmdsOf(r)[i] = r[i]
      /\ RestOf(r) \in Seq(Packets) /\ Len(RestOf(r)) = Len(s) - n
      /\ \A i \in 1..Len(s) - n : RestOf(r)[i] = r[(n + 1) + i]
  <2>1. n + 1 \in 0..Len(r) /\ Len(r) - (n + 1) = Len(s) - n
    BY <1>1, <1>3
  <2>2. /\ CmdsOf(r) \in Seq(Packets) /\ Len(CmdsOf(r)) = n + 1
        /\ \A i \in 1..n + 1 : CmdsOf(r)[i] = r[i]
        /\ RestOf(r) \in Seq(Packets) /\ Len(RestOf(r)) = Len(r) - (n + 1)
        /\ \A i \in 1..Len(r) - (n + 1) : RestOf(r)[i] = r[(n + 1) + i]
    BY <2>1, <1>3, <1>4, PartsAre, Zenon
  <2> QED
    BY <2>1, <2>2, Zenon
<1>7. CmdsOf(r) = Append(CmdsOf(s), p)
  <2>1. /\ Append(CmdsOf(s), p) \in Seq(Packets) /\ Len(Append(CmdsOf(s), p)) = n + 1
        /\ \A i \in 1..n + 1 : Append(CmdsOf(s), p)[i] = IF i <= n THEN CmdsOf(s)[i] ELSE p
    BY <1>1, <1>5, AppendProperties
  <2>2. ASSUME NEW i \in 1..n + 1 PROVE CmdsOf(r)[i] = Append(CmdsOf(s), p)[i]
    <3>1. CmdsOf(r)[i] = r[i] /\ i \in 1..Len(r)
      BY <1>1, <1>3, <1>6
    <3>2. r[i] = IF i <= n THEN s[i] ELSE p
      BY <3>1, <1>1, <1>3
    <3>3. i <= n => CmdsOf(s)[i] = s[i]
      BY <1>1, <1>5
    <3> QED
      BY <3>1, <3>2, <3>3, <2>1
  <2> QED
    BY <2>1, <2>2, <1>6, SeqEqual
<1>8. RestOf(r) = RestOf(s)
  <2>1. ASSUME NEW i \in 1..Len(s) - n PROVE RestOf(r)[i] = RestOf(s)[i]
    <3>1. /\ (n + 1) + i \in 1..Len(r) /\ ~((n + 1) + i <= n) /\ (n + 1) + i # n + 1
          /\ ((n + 1) + i) - 1 = n + i
      BY <1>1, <1>3
    <3>2. r[(n + 1) + i] = s[n + i]
      BY <3>1, <1>3
    <3> QED
      BY <3>2, <1>5, <1>6
  <2> QED
    BY <2>1, <1>5, <1>6, SeqEqual
<1> QED
  BY <1>7, <1>8

(* Anything else is put behind the rest, the commands stay.                *)
LEMMA PutOther ==
  ASSUME NEW s \in Seq(Packets), NEW p \in Packets, ~IsCmd(p),
         NEW r, r = Append(s, p)
  PROVE  CmdsOf(r) = CmdsOf(s) /\ RestOf(r) = Append(RestOf(s), p)
<1> DEFINE n == CmdPrefix(s)
<1>1. /\ Len(s) \in Nat /\ n \in 0..Len(s) /\ \A i \in 1..n : IsCmd(s[i])
      /\ n < Len(s) => ~IsCmd(s[n + 1])
  BY PrefixOf
<1>2. CmdPrefix(s) = n
  OBVIOUS
<1> HIDE DEF n
<1>3. /\ r \in Seq(Packets) /\ Len(r) = Len(s) + 1
      /\ \A k \in 1..Len(s) + 1 : r[k] = IF k <= Len(s) THEN s[k] ELSE p
  BY <1>1, AppendProperties
<1>4. CmdPrefix(r) = n
  <2>1. n \in 0..Len(r) /\ \A i \in 1..n : IsCmd(r[i])
    BY <1>1, <1>3
  <2>2. n < Len(r) => ~IsCmd(r[n + 1])
    BY <1>1, <1>3
  <2> QED
    BY <2>1, <2>2, <1>3, CmdPrefixUnique
<1>5. /\ CmdsOf(s) \in Seq(Packets) /\ Len(CmdsOf(s)) = n /\ \A i \in 1..n : CmdsOf(s)[i] = s[i]
      /\ RestOf(s) \in Seq(Packets) /\ Len(RestOf(s)) = Len(s) - n
      /\ \A i \in 1..Len(s) - n : RestOf(s)[i] = s[n + i]
  BY <1>1, <1>2, PartsAre
<1>6. /\ CmdsOf(r) \in Seq(Packets) /\ Len(CmdsOf(r)) = n /\ \A i \in 1..n : CmdsOf(r)[i] = r[i]
      /\ RestOf(r) \in Seq(Packets) /\ Len(RestOf(r)) = Len(s) + 1 - n
      /\ \A i \in 1..Len(s) + 1 - n : RestOf(r)[i] = r[n + i]
  <2>1. n \in 0..Len(r) /\ Len(r) - n = Len(s) + 1 - n
    BY <1>1, <1>3
  <2>2. /\ CmdsOf(r) \in Seq(Packets) /\ Len(CmdsOf(r)) = n
        /\ \A i \in 1..n : CmdsOf(r)[i] = r[i]
        /\ RestOf(r) \in Seq(Packets) /\ Len(RestOf(r)) = Len(r) - n
        /\ \A i \in 1..Len(r) - n : RestOf(r)[i] = r[n + i]
    BY <2>1, <1>3, <1>4, PartsAre, Zenon
  <2> QED
    BY <2>1, <2>2, Zenon
<1>7. CmdsOf(r) = CmdsOf(s)
  <2>1. \A i \in 1..n : CmdsOf(r)[i] = CmdsOf(s)[i]
    BY <1>1, <1>3, <1>5, <1>6
  <2> QED
    BY <2>1, <1>5, <1>6, SeqEqual
<1>8. RestOf(r) = Append(RestOf(s), p)
  <2> DEFINE d == RestOf(s)
             m == Len(s) - n
  <2>1. /\ m \in Nat /\ m + 1 = Len(s) + 1 - n /\ d \in Seq(Packets) /\ Len(d) = m
        /\ \A i \in 1..m : d[i] = s[n + i]
    BY <1>1, <1>5
  <2> HIDE DEF d
  <2>2. /\ Append(d, p) \in Seq(Packets) /\ Len(Append(d, p)) = m + 1
        /\ \A i \in 1..m + 1 : Append(d, p)[i] = IF i <= m THEN d[i] ELSE p
    BY <2>1, AppendProperties
  <2>3. ASSUME NEW i \in 1..m + 1 PROVE RestOf(r)[i] = Append(d, p)[i]
    <3>0. i \in 1..Len(s) + 1 - n
      BY <2>1
    <3>1. RestOf(r)[i] = r[n + i] /\ n + i \in 1..Len(s) + 1 /\ (n + i <= Len(s) <=> i <= m)
      <4>1. RestOf(r)[i] = r[n + i]
        BY <3>0, <1>6
      <4>2. n + i \in 1..Len(s) + 1 /\ (n + i <= Len(s) <=> i <= m)
        BY <3>0, <1>1
      <4> QED
        BY <4>1, <4>2
    <3>2. r[n + i] = IF i <= m THEN s[n + i] ELSE p
      BY <3>1, <1>3
    <3>3. i <= m => d[i] = s[n + i]
      BY <2>1
    <3> QED
      BY <3>1, <3>2, <3>3, <2>2
  <2>4. Len(RestOf(r)) = m + 1 /\ RestOf(r) \in Seq(Packets)
    BY <2>1, <1>6
  <2> HIDE DEF m
  <2>5. RestOf(r) = Append(d, p)
    BY <2>2, <2>3, <2>4, SeqEqual
  <2> QED
    BY <2>5 DEF d
<1> QED
  BY <1>7, <1>8

(* A list with commands gives its first one away, the rest stays.          *)
LEMMA TakeCmd ==
  ASSUME NEW s \in Seq(Packets), s # <<>>, CmdPrefix(s) > 0
  PROVE  /\ CmdsOf(s) # <<>> /\ Head(s) = Head(CmdsOf(s))
         /\ CmdsOf(Tail(s)) = Tail(CmdsOf(s)) /\ RestOf(Tail(s)) = RestOf(s)
<1> DEFINE n == CmdPrefix(s)
           r == Tail(s)
<1>1. /\ Len(s) \in Nat /\ n \in 0..Len(s) /\ n > 0 /\ \A i \in 1..n : IsCmd(s[i])
      /\ n < Len(s) => ~IsCmd(s[n + 1])
  BY PrefixOf
<1>2. CmdPrefix(s) = n
  OBVIOUS
<1>3. /\ r \in Seq(Packets) /\ Len(r) = Len(s) - 1 /\ \A k \in 1..Len(s) - 1 : r[k] = s[k + 1]
      /\ Head(s) = s[1]
  BY HeadTailProperties
<1> HIDE DEF n, r
<1>4. CmdPrefix(r) = n - 1
  <2>1. n - 1 \in 0..Len(r) /\ \A i \in 1..n - 1 : IsCmd(r[i])
    BY <1>1, <1>3
  <2>2. n - 1 < Len(r) => ~IsCmd(r[(n - 1) + 1])
    BY <1>1, <1>3
  <2> QED
    BY <2>1, <2>2, <1>3, CmdPrefixUnique
<1> DEFINE c == CmdsOf(s)
<1>5. /\ c \in Seq(Packets) /\ Len(c) = n /\ \A i \in 1..n : c[i] = s[i]
      /\ RestOf(s) \in Seq(Packets) /\ Len(RestOf(s)) = Len(s) - n
      /\ \A i \in 1..Len(s) - n : RestOf(s)[i] = s[n + i]
  BY <1>1, <1>2, PartsAre
<1> HIDE DEF c
<1>6. /\ CmdsOf(r) \in Seq(Packets) /\ Len(CmdsOf(r)) = n - 1
      /\ \A i \in 1..n - 1 : CmdsOf(r)[i] = r[i]
      /\ RestOf(r) \in Seq(Packets) /\ Len(RestOf(r)) = Len(s) - n
      /\ \A i \in 1..Len(s) - n : RestOf(r)[i] = r[(n - 1) + i]
  <2>1. n - 1 \in 0..Len(r) /\ Len(r) - (n - 1) = Len(s) - n
    BY <1>1, <1>3
  <2>2. /\ CmdsOf(r) \in Seq(Packets) /\ Len(CmdsOf(r)) = n - 1
        /\ \A i \in 1..n - 1 : CmdsOf(r)[i] = r[i]
        /\ RestOf(r) \in Seq(Packets) /\ Len(RestOf(r)) = Len(r) - (n - 1)
        /\ \A i \in 1..Len(r) - (n - 1) : RestOf(r)[i] = r[(n - 1) + i]
    BY <2>1, <1>3, <1>4, PartsAre, Zenon
  <2> QED
    BY <2>1, <2>2, Zenon
<1>7. c # <<>> /\ Head(c) = c[1]
  BY <1>1, <1>5, EmptySeq, HeadTailProperties
<1>8. Tail(c) \in Seq(Packets) /\ Len(Tail(c)) = n - 1 /\ \A i \in 1..n - 1 : Tail(c)[i] = c[i + 1]
  BY <1>1, <1>5, <1>7, HeadTailProperties
<1>9. CmdsOf(r) = Tail(c)
  <2>1. ASSUME NEW i \in 1..n - 1 PROVE CmdsOf(r)[i] = Tail(c)[i]
    BY <1>1, <1>3, <1>5, <1>6, <1>8
  <2> QED
    BY <2>1, <1>6, <1>8, SeqEqual
<1>10. RestOf(r) = RestOf(s)
  <2>1. ASSUME NEW i \in 1..Len(s) - n PROVE RestOf(r)[i] = RestOf(s)[i]
    <3>1. (n - 1) + i \in 1..Len(s) - 1 /\ ((n - 1) + i) + 1 = n + i
      BY <1>1
    <3>2. r[(n - 1) + i] = s[n + i]
      BY <3>1, <1>3
    <3> QED
      BY <3>2, <1>5, <1>6
  <2> QED
    BY <2>1, <1>5, <1>6, SeqEqual
<1>11. Head(s) = Head(c)
  BY <1>1, <1>3, <1>5, <1>7
<1> QED
  BY <1>7, <1>9, <1>10, <1>11 DEF c, r

(* A list that starts with no command has none, and gives the first of the *)
(* rest away.                                                              *)
LEMMA TakeOther ==
  ASSUME NEW s \in Seq(Packets), s # <<>>, CmdPrefix(s) = 0,
         \A i, j \in 1..Len(s) : i < j /\ IsCmd(s[j]) => IsCmd(s[i])
  PROVE  /\ CmdsOf(s) = <<>> /\ RestOf(s) # <<>> /\ Head(s) = Head(RestOf(s))
         /\ CmdsOf(Tail(s)) = <<>> /\ RestOf(Tail(s)) = Tail(RestOf(s))
<1> DEFINE r == Tail(s)
<1>1. Len(s) \in Nat /\ Len(s) > 0 /\ ~IsCmd(s[1])
  <2>1. Len(s) \in Nat /\ Len(s) > 0
    BY EmptySeq, LenProperties
  <2> QED
    BY <2>1, PrefixOf
<1>2. /\ r \in Seq(Packets) /\ Len(r) = Len(s) - 1 /\ \A k \in 1..Len(s) - 1 : r[k] = s[k + 1]
      /\ Head(s) = s[1]
  BY HeadTailProperties
<1> HIDE DEF r
<1>3. CmdPrefix(r) = 0
  <2>1. 0 < Len(r) => ~IsCmd(r[0 + 1])
    BY <1>1, <1>2
  <2>2. 0 \in 0..Len(r)
    BY <1>1, <1>2
  <2> QED
    BY <2>1, <2>2, <1>2, CmdPrefixUnique
<1> DEFINE d == RestOf(s)
<1>4. /\ CmdsOf(s) \in Seq(Packets) /\ Len(CmdsOf(s)) = 0
      /\ d \in Seq(Packets) /\ Len(d) = Len(s) /\ \A i \in 1..Len(s) : d[i] = s[i]
  <2>1. 0 \in 0..Len(s) /\ Len(s) - 0 = Len(s)
    BY <1>1
  <2>2. /\ CmdsOf(s) \in Seq(Packets) /\ Len(CmdsOf(s)) = 0
        /\ d \in Seq(Packets) /\ Len(d) = Len(s) - 0 /\ \A i \in 1..Len(s) - 0 : d[i] = s[0 + i]
    BY <2>1, PartsAre, Zenon
  <2> HIDE DEF d
  <2> QED
    BY <2>1, <2>2
<1> HIDE DEF d
<1>5. /\ CmdsOf(r) \in Seq(Packets) /\ Len(CmdsOf(r)) = 0
      /\ RestOf(r) \in Seq(Packets) /\ Len(RestOf(r)) = Len(s) - 1
      /\ \A i \in 1..Len(s) - 1 : RestOf(r)[i] = r[i]
  <2>1. 0 \in 0..Len(r) /\ Len(r) - 0 = Len(s) - 1
    BY <1>1, <1>2
  <2> DEFINE e == RestOf(r)
  <2>2. /\ CmdsOf(r) \in Seq(Packets) /\ Len(CmdsOf(r)) = 0
        /\ e \in Seq(Packets) /\ Len(e) = Len(r) - 0 /\ \A i \in 1..Len(r) - 0 : e[i] = r[0 + i]
    BY <2>1, <1>2, <1>3, PartsAre, Zenon
  <2> HIDE DEF e
  <2>3. \A i \in 1..Len(s) - 1 : e[i] = r[i]
    BY <2>1, <2>2, <1>1
  <2> QED
    BY <2>1, <2>2, <2>3 DEF e
<1>6. CmdsOf(s) = <<>> /\ CmdsOf(r) = <<>>
  BY <1>4, <1>5, EmptySeq
<1>7. d # <<>> /\ Head(d) = d[1]
  BY <1>1, <1>4, EmptySeq, HeadTailProperties
<1>8. Tail(d) \in Seq(Packets) /\ Len(Tail(d)) = Len(s) - 1
      /\ \A i \in 1..Len(s) - 1 : Tail(d)[i] = d[i + 1]
  BY <1>4, <1>7, HeadTailProperties
<1>9. RestOf(r) = Tail(d)
  <2>1. ASSUME NEW i \in 1..Len(s) - 1 PROVE RestOf(r)[i] = Tail(d)[i]
    BY <1>1, <1>2, <1>4, <1>5, <1>8
  <2> QED
    BY <2>1, <1>5, <1>8, SeqEqual
<1>10. Head(s) = Head(d)
  BY <1>1, <1>2, <1>4, <1>7
<1> QED
  BY <1>6, <1>7, <1>9, <1>10 DEF d, r

-----------------------------------------------------------------------------
(* ... and so every step of the send path is one of the two queues         *)

LEMMA QueueParts == Cmds = CmdsOf(list) /\ Rest = RestOf(list)
                    /\ Cmds' = CmdsOf(list') /\ Rest' = RestOf(list')
  BY Zenon DEF Cmds, Rest, CmdsOf, RestOf, CmdPrefix, IsCmd

queueState == <<Cmds, Rest, handled>>

LEMMA QueueInit == Init => Queue!Init
<1> SUFFICES ASSUME Init PROVE Queue!Init
  OBVIOUS
<1>1. list = <<>> /\ Len(list) = 0 /\ list \in Seq(Packets) /\ handled = <<>>
  BY DEF Init
<1>2. CmdPrefix(list) = 0
  <2>1. CmdPrefix(list) \in 0..Len(list)
    BY <1>1, PrefixOf, Zenon
  <2> QED
    BY <1>1, <2>1
<1>3. Cmds = <<>> /\ Rest = <<>>
  BY <1>1, <1>2 DEF Cmds, Rest
<1> QED
  BY <1>1, <1>3 DEF Queue!Init

LEMMA SubmitIsPut ==
  ASSUME SendInv, NEW p \in Packets, Submit(p)
  PROVE  [Queue!Next]_queueState
<1>1. list \in Seq(Packets) /\ Len(list) \in Nat /\ handled' = handled
  BY LenProperties DEF SendInv, TypeOK, Submit, threadVars
<1>2. CASE SubmitCmd(p)
  <2>1. IsCmd(p) /\ list' = InsertAt(list, CmdPrefix(list) + 1, p)
    BY <1>2 DEF SubmitCmd
  <2>2. CmdsOf(list') = Append(CmdsOf(list), p) /\ RestOf(list') = RestOf(list)
    BY <2>1, <1>1, PutCmd, Zenon
  <2>3. Queue!PutFirst(p)
    BY <2>1, <2>2, <1>1, QueueParts DEF Queue!PutFirst
  <2> QED
    BY <2>3 DEF Queue!Next
<1>3. CASE SubmitOther(p)
  <2>1. CASE UNCHANGED <<list, sem, accepted>>
    BY <2>1, <1>1, QueueParts DEF queueState
  <2>2. CASE ~IsCmd(p) /\ ~Full /\ list' = Append(list, p)
    <3>1. CmdsOf(list') = CmdsOf(list) /\ RestOf(list') = Append(RestOf(list), p)
      BY <2>2, <1>1, PutOther, Zenon
    <3>2. Len(Cmds) + Len(Rest) < MaxQueue
      <4>1. CmdPrefix(list) \in 0..Len(list)
        BY <1>1, PrefixOf
      <4>2. Len(CmdsOf(list)) = CmdPrefix(list) /\ Len(RestOf(list)) = Len(list) - CmdPrefix(list)
        BY <4>1, <1>1, PartsAre, Zenon
      <4> QED
        BY <4>1, <4>2, <2>2, <1>1, QueueParts, SendPathAssumption DEF Full
    <3>3. Queue!PutRest(p)
      BY <3>1, <3>2, <2>2, <1>1, QueueParts DEF Queue!PutRest
    <3> QED
      BY <3>3 DEF Queue!Next
  <2> QED
    BY <1>3, <2>1, <2>2 DEF SubmitOther
<1> QED
  BY <1>2, <1>3 DEF Submit

LEMMA TakeFrontIsTake ==
  ASSUME SendInv, TakeFront
  PROVE  [Queue!Next]_queueState
<1>1. /\ list \in Seq(Packets) /\ Len(list) \in Nat /\ list' = Tail(list)
      /\ handled' = Append(handled, Head(list)) /\ sem \in Nat /\ pc = "front"
  BY LenProperties DEF SendInv, TypeOK, TakeFront
<1>2. list # <<>>
  <2>1. sem + 1 = Len(list)
    BY <1>1 DEF SendInv, SemCountsList
  <2> QED
    BY <2>1, <1>1, EmptySeq
<1>3. CmdPrefix(list) \in 0..Len(list)
  BY <1>1, PrefixOf
<1>4. CASE CmdPrefix(list) > 0
  <2>1. /\ Cmds # <<>> /\ Head(list) = Head(Cmds)
        /\ CmdsOf(list') = Tail(CmdsOf(list)) /\ RestOf(list') = RestOf(list)
    BY <1>1, <1>2, <1>4, TakeCmd, QueueParts, Zenon
  <2>2. Queue!TakeFirst
    BY <2>1, <1>1, QueueParts DEF Queue!TakeFirst
  <2> QED
    BY <2>2 DEF Queue!Next
<1>5. CASE CmdPrefix(list) = 0
  <2>0. \A i, j \in 1..Len(list) : i < j /\ IsCmd(list[j]) => IsCmd(list[i])
    BY DEF SendInv, CmdsFirst
  <2>1. /\ Cmds = <<>> /\ Rest # <<>> /\ Head(list) = Head(Rest)
        /\ CmdsOf(list') = <<>> /\ RestOf(list') = Tail(RestOf(list))
    BY <2>0, <1>1, <1>2, <1>5, TakeOther, QueueParts, Zenon
  <2>2. Queue!TakeRest
    BY <2>1, <1>1, QueueParts DEF Queue!TakeRest
  <2> QED
    BY <2>2 DEF Queue!Next
<1> QED
  BY <1>1, <1>3, <1>4, <1>5

(* Nothing else touches the list.                                          *)
LEMMA OthersLeaveQueue ==
  ASSUME \/ StartSucceeds \/ Launch \/ SemWait \/ FileChunk \/ SendData \/ PushChunk \/ FreePacket
         \/ StopStep \/ UNCHANGED vars
  PROVE  [Queue!Next]_queueState
<1>1. UNCHANGED <<list, handled>>
  BY DEF StartSucceeds, Launch, SemWait, FileChunk, SendData, PushChunk, FreePacket, StopStep,
         StopBegin, StopDrain, queueVars, threadVars, vars
<1> QED
  BY <1>1, QueueParts DEF queueState

(* m_listSendNetPacket implements TwoClassQueue: commands overtake what is *)
(* no command and nothing else overtakes anything, no packet is lost or    *)
(* taken twice, and others are refused once MaxQueue packets lie there.    *)
THEOREM ListIsTwoQueues == Spec => QueueSpec
<1>1. SendInv /\ [Next]_vars => [Queue!Next]_queueState
  <2> SUFFICES ASSUME SendInv, [Next]_vars PROVE [Queue!Next]_queueState
    OBVIOUS
  <2>1. CASE \E p \in Packets : Submit(p)
    BY <2>1, SubmitIsPut
  <2>2. CASE TakeFront
    BY <2>2, TakeFrontIsTake
  <2>3. CASE StartSucceeds \/ Launch \/ StopStep \/ UNCHANGED vars
    BY <2>3, OthersLeaveQueue
  <2>4. CASE SemWait \/ FileChunk \/ SendData \/ PushChunk \/ FreePacket
    BY <2>4, OthersLeaveQueue
  <2> QED
    BY <2>1, <2>2, <2>3, <2>4 DEF Next, SenderStep
<1> QED
  BY QueueInit, SendInvHolds, <1>1, PTL DEF Spec, QueueSpec, Queue!Spec, queueState

-----------------------------------------------------------------------------
(* The chunks of a list of packets                                         *)

(* A nonempty set of numbers has a least one.                              *)
LEMMA NatMin ==
  ASSUME NEW P \in SUBSET Nat, P # {}
  PROVE  \E x \in P : \A y \in P : ~(y < x)
<1>1. PICK x \in P : \A y \in P : <<y, x>> \notin OpToRel(<,Nat)
  BY WFMin, NatLessThanWellFounded
<1> QED
  BY <1>1 DEF OpToRel

Places == Packets \X Nat

StreamStep(s, g, k) == IF k = 0 THEN <<>> ELSE g[k - 1] \o ChunksOf(s[k])

(* The function that StreamOf looks up exists, by induction on its domain. *)
LEMMA StreamExists ==
  ASSUME NEW n \in Nat, NEW s
  PROVE  \E g : g = [k \in 0..n |-> StreamStep(s, g, k)]
<1> DEFINE Has(m) == \E g : g = [k \in 0..m |-> StreamStep(s, g, k)]
           Not == {m \in Nat : ~Has(m)}
<1>1. Has(0)
  <2> DEFINE g == [k \in 0..0 |-> <<>>]
  <2>1. g = [k \in 0..0 |-> StreamStep(s, g, k)]
    BY DEF StreamStep
  <2> QED
    BY <2>1
<1>2. ASSUME NEW m \in Nat, Has(m) PROVE Has(m + 1)
  <2>1. PICK g : g = [k \in 0..m |-> StreamStep(s, g, k)]
    BY <1>2
  <2> DEFINE h == [k \in 0..m + 1 |-> IF k = m + 1 THEN StreamStep(s, g, k) ELSE g[k]]
  <2>2. \A k \in 0..m + 1 : h[k] = StreamStep(s, h, k)
    <3> SUFFICES ASSUME NEW k \in 0..m + 1 PROVE h[k] = StreamStep(s, h, k)
      OBVIOUS
    <3>1. k # 0 => k - 1 \in 0..m /\ h[k - 1] = g[k - 1]
      OBVIOUS
    <3>2. StreamStep(s, h, k) = StreamStep(s, g, k)
      BY <3>1 DEF StreamStep
    <3>3. k # m + 1 => g[k] = StreamStep(s, g, k)
      <4>1. k # m + 1 => k \in 0..m
        OBVIOUS
      <4> QED
        BY <4>1, <2>1
    <3> QED
      BY <3>2, <3>3
  <2>3. h = [k \in 0..m + 1 |-> StreamStep(s, h, k)]
    BY <2>2
  <2> QED
    BY <2>3
<1> HIDE DEF Has
<1>3. Not = {}
  <2> SUFFICES ASSUME Not # {} PROVE FALSE
    OBVIOUS
  <2>1. PICK x \in Not : \A y \in Not : ~(y < x)
    BY NatMin
  <2>2. x \in Nat /\ x # 0 /\ ~Has(x)
    BY <1>1
  <2>3. x - 1 \in Nat /\ Has(x - 1)
    BY <2>1, <2>2
  <2>4. Has((x - 1) + 1)
    BY <2>3, <1>2
  <2> QED
    BY <2>2, <2>4
<1>4. Has(n)
  BY <1>3
<1> QED
  BY <1>4 DEF Has

LEMMA StreamFcn ==
  ASSUME NEW s \in Seq(Packets)
  PROVE  \E g : /\ \A k \in 0..Len(s) : g[k] = StreamStep(s, g, k)
                /\ StreamOf(s) = g[Len(s)]
<1> DEFINE f == CHOOSE g : g = [k \in 0..Len(s) |->
                  IF k = 0 THEN <<>> ELSE g[k - 1] \o ChunksOf(s[k])]
<1>1. Len(s) \in Nat
  BY LenProperties
<1>2. \E g : g = [k \in 0..Len(s) |-> StreamStep(s, g, k)]
  BY <1>1, StreamExists
<1>3. f = [k \in 0..Len(s) |-> StreamStep(s, f, k)]
  BY <1>2 DEF StreamStep
<1>4. StreamOf(s) = f[Len(s)]
  BY DEF StreamOf
<1> HIDE DEF f
<1>5. \A k \in 0..Len(s) : f[k] = StreamStep(s, f, k)
  BY <1>3
<1> QED
  BY <1>4, <1>5

LEMMA ChunksTyped ==
  ASSUME NEW p \in Packets
  PROVE  ChunksOf(p) \in Seq(Places)
<1>1. CASE Kind[p] = "EXIT"
  BY <1>1 DEF ChunksOf
<1>2. CASE Kind[p] # "EXIT"
  <2>1. Chunks[p] \in Nat
    BY SendPathAssumption
  <2>2. \A k \in 1..Chunks[p] : <<p, k - 1>> \in Places
    BY <2>1 DEF Places
  <2> QED
    BY <1>2, <2>1, <2>2 DEF ChunksOf
<1> QED
  BY <1>1, <1>2

(* One packet more puts its chunks behind those of the others.             *)
LEMMA StreamGrows ==
  ASSUME NEW s \in Seq(Packets), NEW p \in Packets
  PROVE  StreamOf(Append(s, p)) = StreamOf(s) \o ChunksOf(p)
<1> DEFINE r == Append(s, p)
           L == Len(s)
<1>1. L \in Nat
  BY LenProperties
<1>2. /\ r \in Seq(Packets) /\ Len(r) = L + 1 /\ r[L + 1] = p
      /\ \A i \in 1..L : r[i] = s[i]
  BY <1>1, AppendProperties
<1>3. PICK g : (\A k \in 0..L : g[k] = StreamStep(s, g, k)) /\ StreamOf(s) = g[L]
  BY StreamFcn
<1> HIDE DEF r, L
<1>4. PICK h : (\A k \in 0..L + 1 : h[k] = StreamStep(r, h, k)) /\ StreamOf(r) = h[L + 1]
  BY <1>2, StreamFcn
<1> DEFINE Bad == {k \in 0..L : g[k] # h[k]}
<1>5. Bad = {}
  <2> SUFFICES ASSUME Bad # {} PROVE FALSE
    OBVIOUS
  <2>1. Bad \in SUBSET Nat
    BY <1>1
  <2>2. PICK x \in Bad : \A y \in Bad : ~(y < x)
    BY <2>1, NatMin
  <2>3. x \in 0..L /\ x \in 0..L + 1 /\ g[x] # h[x]
    BY <1>1
  <2>4. x # 0 => x - 1 \in 0..L /\ g[x - 1] = h[x - 1] /\ r[x] = s[x]
    BY <2>2, <2>3, <1>1, <1>2
  <2>5. StreamStep(s, g, x) = StreamStep(r, h, x)
    BY <2>4 DEF StreamStep
  <2> QED
    BY <2>3, <2>5, <1>3, <1>4
<1>6. g[L] = h[L]
  BY <1>1, <1>5
<1>7. h[L + 1] = h[L] \o ChunksOf(p)
  <2>1. L + 1 \in 0..L + 1 /\ L + 1 # 0 /\ (L + 1) - 1 = L
    BY <1>1
  <2>2. h[L + 1] = StreamStep(r, h, L + 1)
    BY <2>1, <1>4
  <2> QED
    BY <2>1, <2>2, <1>2 DEF StreamStep
<1> QED
  BY <1>3, <1>4, <1>6, <1>7 DEF r

LEMMA StreamEmpty == StreamOf(<<>>) = <<>>
<1>1. <<>> \in Seq(Packets) /\ Len(<<>>) = 0 /\ 0 \in 0..0
  OBVIOUS
<1>2. PICK g : (\A k \in 0..0 : g[k] = StreamStep(<<>>, g, k)) /\ StreamOf(<<>>) = g[0]
  BY <1>1, StreamFcn
<1> QED
  BY <1>1, <1>2 DEF StreamStep

LEMMA StreamTyped ==
  ASSUME NEW s \in Seq(Packets)
  PROVE  StreamOf(s) \in Seq(Places)
<1> DEFINE L == Len(s)
<1>1. L \in Nat /\ \A i \in 1..L : s[i] \in Packets
  BY LenProperties
<1>2. PICK g : (\A k \in 0..L : g[k] = StreamStep(s, g, k)) /\ StreamOf(s) = g[L]
  BY StreamFcn
<1> HIDE DEF L
<1> DEFINE Bad == {k \in 0..L : g[k] \notin Seq(Places)}
<1>3. Bad = {}
  <2> SUFFICES ASSUME Bad # {} PROVE FALSE
    OBVIOUS
  <2>1. Bad \in SUBSET Nat
    BY <1>1
  <2>2. PICK x \in Bad : \A y \in Bad : ~(y < x)
    BY <2>1, NatMin
  <2>3. x \in 0..L /\ g[x] = StreamStep(s, g, x) /\ g[x] \notin Seq(Places)
    BY <1>2
  <2>4. CASE x = 0
    <3>1. StreamStep(s, g, x) = <<>>
      BY <2>4 DEF StreamStep
    <3> QED
      BY <3>1, <2>3
  <2>5. CASE x # 0
    <3>1. x - 1 \in 0..L /\ x - 1 < x /\ x \in 1..L
      BY <2>3, <2>5, <1>1
    <3>2. g[x - 1] \in Seq(Places) /\ ChunksOf(s[x]) \in Seq(Places)
      BY <3>1, <2>2, <1>1, ChunksTyped
    <3>3. StreamStep(s, g, x) = g[x - 1] \o ChunksOf(s[x])
      BY <2>5 DEF StreamStep
    <3> QED
      BY <3>2, <3>3, <2>3, ConcatProperties
  <2> QED
    BY <2>4, <2>5
<1> QED
  BY <1>1, <1>2, <1>3

-----------------------------------------------------------------------------
(* The stream of chunks                                                    *)

InHand == pc \in {"convert", "send", "push"}

(* The chunks of the packet in hand that were neither handed over nor      *)
(* given up.                                                               *)
Left == IF pc = "convert" THEN Chunks[cur] - packCount
        ELSE IF pc \in {"send", "push"} THEN Chunks[cur] - packCount + 1 ELSE 0

(* The chunks the thread has come past.                                    *)
Past == Len(ChunkStream) - Left

NotBegun == pc = "none" => handled = <<>>
Tailed ==
  InHand =>
    /\ Kind[cur] # "EXIT" /\ packCount <= Chunks[cur] /\ Chunks[cur] <= Len(ChunkStream)
    /\ \A j \in 1..Chunks[cur] :
         ChunkStream[(Len(ChunkStream) - Chunks[cur]) + j] = <<cur, j - 1>>
Begins ==
  /\ Len(Sent) <= Past
  /\ \A i \in 1..Len(Sent) : Sent[i] = ChunkStream[i]
NoGap == running \/ pc = "push" => Len(Sent) = Past
NotStarted == ~running /\ stop = "no" => Sent = <<>> /\ pc # "push"
StopLate == Stops = "afterJoin" /\ stop # "no" => pc = "exited" /\ Len(Sent) = Past

StreamInv == NotBegun /\ Tailed /\ Begins /\ NoGap /\ NotStarted /\ StopLate

LEMMA PlacesTwo == \A c \in ChunkRecords : <<c[2], c[3]>> \in Places
  BY DEF ChunkRecords, Places

SentOf(t, r) == [i \in DOMAIN (t \o r) |-> <<(t \o r)[i][2], (t \o r)[i][3]>>]

LEMMA SentIs == Sent = SentOf(taken, ring) /\ Sent' = SentOf(taken', ring')
  BY Zenon DEF Sent, SentOf

LEMMA SentOfIs ==
  ASSUME NEW t \in Seq(ChunkRecords), NEW r \in Seq(ChunkRecords)
  PROVE  /\ t \o r \in Seq(ChunkRecords) /\ Len(t \o r) = Len(t) + Len(r)
         /\ SentOf(t, r) \in Seq(Places) /\ Len(SentOf(t, r)) = Len(t) + Len(r)
         /\ \A i \in 1..Len(t) + Len(r) : SentOf(t, r)[i] = <<(t \o r)[i][2], (t \o r)[i][3]>>
<1> DEFINE q == t \o r
           L == Len(t) + Len(r)
<1>1. q \in Seq(ChunkRecords) /\ Len(q) = L /\ L \in Nat
  BY ConcatProperties, LenProperties
<1>2. DOMAIN q = 1..L /\ \A i \in 1..L : q[i] \in ChunkRecords
  BY <1>1, LenProperties
<1>3. SentOf(t, r) = [i \in 1..L |-> <<q[i][2], q[i][3]>>]
  BY <1>2 DEF SentOf
<1> HIDE DEF q, L
<1>4. \A i \in 1..L : <<q[i][2], q[i][3]>> \in Places
  BY <1>2, PlacesTwo
<1>5. [i \in 1..L |-> <<q[i][2], q[i][3]>>] \in Seq(Places)
  BY <1>1, <1>4
<1>6. Len(SentOf(t, r)) = L
  BY <1>1, <1>3, <1>5
<1> QED
  BY <1>1, <1>3, <1>5, <1>6 DEF q, L

LEMMA SentOfPut ==
  ASSUME NEW t \in Seq(ChunkRecords), NEW r \in Seq(ChunkRecords), NEW c \in ChunkRecords
  PROVE  SentOf(t, Append(r, c)) = Append(SentOf(t, r), <<c[2], c[3]>>)
<1> DEFINE a == Append(r, c)
           L == Len(t) + Len(r)
           x == <<c[2], c[3]>>
           u == SentOf(t, r)
           v == SentOf(t, a)
<1>1. Len(t) \in Nat /\ Len(r) \in Nat /\ L \in Nat /\ x \in Places
  BY LenProperties, PlacesTwo
<1>2. /\ a \in Seq(ChunkRecords) /\ Len(a) = Len(r) + 1
      /\ \A i \in 1..Len(r) + 1 : a[i] = IF i <= Len(r) THEN r[i] ELSE c
  BY <1>1, AppendProperties
<1> HIDE DEF a
<1>3. ASSUME NEW i \in 1..L + 1
      PROVE  (t \o a)[i] = IF i <= L THEN (t \o r)[i] ELSE c
  <2>1. /\ \A k \in 1..Len(t) + Len(a) : (t \o a)[k] = IF k <= Len(t) THEN t[k] ELSE a[k - Len(t)]
        /\ \A k \in 1..Len(t) + Len(r) : (t \o r)[k] = IF k <= Len(t) THEN t[k] ELSE r[k - Len(t)]
    BY <1>2, ConcatProperties
  <2>2. i \in 1..Len(t) + Len(a)
    BY <1>1, <1>2
  <2>3. i > Len(t) => i - Len(t) \in 1..Len(r) + 1 /\ (i - Len(t) <= Len(r) <=> i <= L)
    BY <1>1
  <2>4. i <= L => i \in 1..Len(t) + Len(r)
    OBVIOUS
  <2>5. i <= Len(t) => i <= L
    BY <1>1
  <2>6. CASE i <= Len(t)
    BY <2>1, <2>2, <2>4, <2>5, <2>6
  <2>7. CASE ~(i <= Len(t))
    <3>1. i > Len(t)
      BY <2>7, <1>1
    <3>2. (t \o a)[i] = a[i - Len(t)]
      BY <2>1, <2>2, <2>7
    <3>3. a[i - Len(t)] = IF i <= L THEN r[i - Len(t)] ELSE c
      BY <3>1, <2>3, <1>2
    <3>4. i <= L => (t \o r)[i] = r[i - Len(t)]
      BY <2>1, <2>4, <2>7
    <3> QED
      BY <3>2, <3>3, <3>4
  <2> QED
    BY <2>6, <2>7
<1>4. /\ u \in Seq(Places) /\ Len(u) = L
      /\ \A i \in 1..L : u[i] = <<(t \o r)[i][2], (t \o r)[i][3]>>
  BY SentOfIs
<1>5. /\ v \in Seq(Places) /\ Len(v) = L + 1
      /\ \A i \in 1..L + 1 : v[i] = <<(t \o a)[i][2], (t \o a)[i][3]>>
  <2>1. Len(t) + Len(a) = L + 1
    BY <1>1, <1>2
  <2>2. /\ v \in Seq(Places) /\ Len(v) = Len(t) + Len(a)
        /\ \A i \in 1..Len(t) + Len(a) : v[i] = <<(t \o a)[i][2], (t \o a)[i][3]>>
    BY <1>2, SentOfIs
  <2> HIDE DEF v, L
  <2> QED
    BY <2>1, <2>2
<1> HIDE DEF u, v, x, L
<1>6. /\ Append(u, x) \in Seq(Places) /\ Len(Append(u, x)) = L + 1
      /\ \A i \in 1..L + 1 : Append(u, x)[i] = IF i <= L THEN u[i] ELSE x
  BY <1>1, <1>4, AppendProperties
<1>7. ASSUME NEW i \in 1..L + 1 PROVE v[i] = Append(u, x)[i]
  <2>1. CASE i <= L
    <3>1. i \in 1..L
      BY <2>1, <1>1
    <3> QED
      BY <3>1, <2>1, <1>3, <1>4, <1>5, <1>6
  <2>2. CASE ~(i <= L)
    BY <2>2, <1>3, <1>5, <1>6 DEF x
  <2> QED
    BY <2>1, <2>2
<1>8. v = Append(u, x)
  BY <1>5, <1>6, <1>7, SeqEqual
<1> QED
  BY <1>8 DEF u, v, x, a

(* What is popped was sent before and stays sent.                          *)
LEMMA SentOfGet ==
  ASSUME NEW t \in Seq(ChunkRecords), NEW r \in Seq(ChunkRecords), r # <<>>
  PROVE  SentOf(Append(t, Head(r)), Tail(r)) = SentOf(t, r)
<1>1. Append(t, Head(r)) \o Tail(r) = t \o r
  <2> DEFINE a == Append(t, Head(r))
             b == Tail(r)
             m == Len(t)
             n == Len(r)
  <2>1. m \in Nat /\ n \in Nat /\ n > 0
    BY LenProperties, EmptySeq
  <2>2. /\ Head(r) = r[1] /\ Head(r) \in ChunkRecords
        /\ b \in Seq(ChunkRecords) /\ Len(b) = n - 1 /\ \A i \in 1..n - 1 : b[i] = r[i + 1]
    BY HeadTailProperties
  <2>3. /\ a \in Seq(ChunkRecords) /\ Len(a) = m + 1
        /\ \A i \in 1..m + 1 : a[i] = IF i <= m THEN t[i] ELSE Head(r)
    BY <2>1, <2>2, AppendProperties
  <2> HIDE DEF a, b
  <2>4. /\ t \o r \in Seq(ChunkRecords) /\ Len(t \o r) = m + n
        /\ \A i \in 1..m + n : (t \o r)[i] = IF i <= m THEN t[i] ELSE r[i - m]
    BY ConcatProperties
  <2>5. /\ a \o b \in Seq(ChunkRecords) /\ Len(a \o b) = m + n
        /\ \A i \in 1..m + n : (a \o b)[i] = IF i <= m + 1 THEN a[i] ELSE b[i - (m + 1)]
    <3>1. (m + 1) + (n - 1) = m + n
      BY <2>1
    <3>2. /\ a \o b \in Seq(ChunkRecords) /\ Len(a \o b) = Len(a) + Len(b)
          /\ \A i \in 1..Len(a) + Len(b) :
               (a \o b)[i] = IF i <= Len(a) THEN a[i] ELSE b[i - Len(a)]
      BY <2>2, <2>3, ConcatProperties
    <3> HIDE DEF m, n
    <3> QED
      BY <3>1, <3>2, <2>2, <2>3
  <2> HIDE DEF m, n
  <2>6. ASSUME NEW i \in 1..m + n PROVE (a \o b)[i] = (t \o r)[i]
    <3>1. CASE i <= m
      <4>1. i <= m + 1 /\ i \in 1..m + 1
        BY <3>1, <2>1
      <4> QED
        BY <4>1, <3>1, <2>3, <2>4, <2>5
    <3>2. CASE i = m + 1
      <4>1. i - m = 1 /\ i \in 1..m + 1 /\ ~(i <= m)
        BY <3>2, <2>1
      <4> QED
        BY <4>1, <3>2, <2>2, <2>3, <2>4, <2>5
    <3>3. CASE i > m + 1
      <4>1. /\ ~(i <= m) /\ ~(i <= m + 1) /\ i - (m + 1) \in 1..n - 1
            /\ (i - (m + 1)) + 1 = i - m
        BY <3>3, <2>1
      <4>2. (a \o b)[i] = b[i - (m + 1)]
        BY <4>1, <2>5
      <4>3. b[i - (m + 1)] = r[i - m]
        BY <4>1, <2>2
      <4>4. (t \o r)[i] = r[i - m]
        BY <4>1, <2>4
      <4> QED
        BY <4>2, <4>3, <4>4
    <3>4. i <= m \/ i = m + 1 \/ i > m + 1
      BY <2>1
    <3> QED
      BY <3>1, <3>2, <3>3, <3>4, Zenon
  <2>7. a \o b = t \o r
    BY <2>4, <2>5, <2>6, SeqEqual
  <2> QED
    BY <2>7 DEF a, b
<1> QED
  BY <1>1 DEF SentOf

LEMMA StreamFacts ==
  ASSUME SendInv
  PROVE  /\ Sent \in Seq(Places) /\ Len(Sent) \in Nat
         /\ ChunkStream \in Seq(Places) /\ Len(ChunkStream) \in Nat
         /\ packCount \in Nat /\ handled \in Seq(Packets)
         /\ InHand => cur \in Packets /\ Chunks[cur] \in Nat
         /\ pc \in {"send", "push"} => packCount > 0
<1>1. handled \in Seq(Packets) /\ ring \in Seq(ChunkRecords) /\ taken \in Seq(ChunkRecords)
  BY DEF SendInv, TypeOK
<1>2. Sent \in Seq(Places) /\ Len(Sent) \in Nat
  BY <1>1, SentIs, SentOfIs, LenProperties
<1>3. ChunkStream \in Seq(Places) /\ Len(ChunkStream) \in Nat
  BY <1>1, StreamTyped, LenProperties DEF ChunkStream
<1>4. packCount \in Nat /\ (InHand => cur \in Packets /\ Chunks[cur] \in Nat)
      /\ (pc \in {"send", "push"} => packCount > 0)
  BY SendPathAssumption DEF SendInv, TypeOK, HasPacket, InHand
<1> QED
  BY <1>1, <1>2, <1>3, <1>4

LEMMA StreamInit == Init => StreamInv
<1> SUFFICES ASSUME Init PROVE StreamInv
  OBVIOUS
<1>1. /\ handled = <<>> /\ pc = "none" /\ ring = <<>> /\ taken = <<>> /\ running = FALSE
      /\ stop = "no"
  BY DEF Init, Ring!Init
<1>2. Sent = <<>> /\ Len(Sent) = 0
  <2>0. <<>> \in Seq(ChunkRecords) /\ Len(<<>>) = 0
    OBVIOUS
  <2>1. /\ SentOf(<<>>, <<>>) \in Seq(Places)
        /\ Len(SentOf(<<>>, <<>>)) = Len(<<>>) + Len(<<>>)
    BY <2>0, SentOfIs, Zenon
  <2>2. Len(SentOf(<<>>, <<>>)) = 0
    BY <2>0, <2>1
  <2>3. SentOf(<<>>, <<>>) = <<>>
    BY <2>1, <2>2, EmptySeq
  <2> QED
    BY <2>2, <2>3, <1>1, SentIs
<1>3. ChunkStream = <<>> /\ Len(ChunkStream) = 0
  BY <1>1, StreamEmpty DEF ChunkStream
<1>4. Left = 0 /\ ~InHand
  BY <1>1 DEF Left, InHand
<1> QED
  BY <1>1, <1>2, <1>3, <1>4
  DEF StreamInv, NotBegun, Tailed, Begins, NoGap, NotStarted, StopLate, Past

(* Steps that touch none of what the stream is made of.                    *)
LEMMA StreamElsewhere ==
  ASSUME StreamInv, UNCHANGED <<handled, pc, cur, packCount, ring, taken, running, stop>>
  PROVE  StreamInv'
<1>1. Sent' = Sent /\ ChunkStream' = ChunkStream
  <2>1. Sent' = Sent
    BY SentIs
  <2>2. ChunkStream' = ChunkStream
    BY DEF ChunkStream
  <2> QED
    BY <2>1, <2>2
<1>2. (InHand' <=> InHand) /\ Left' = Left
  BY DEF InHand, Left
<1>3. Past' = Past
  BY <1>1, <1>2 DEF Past
<1> QED
  BY <1>1, <1>2, <1>3 DEF StreamInv, NotBegun, Tailed, Begins, NoGap, NotStarted, StopLate

(* Before the thread exists nothing was taken and nothing sent.            *)
LEMMA StreamStarts ==
  ASSUME SendInv, StreamInv, StartSucceeds
  PROVE  StreamInv'
<1>1. /\ pc = "none" /\ ~running /\ stop = "no" /\ stop' = stop
      /\ UNCHANGED <<handled, pc, cur, packCount, ring, taken>>
  BY DEF StartSucceeds, threadVars
<1>2. handled = <<>> /\ Sent = <<>> /\ Len(Sent) = 0
  BY <1>1 DEF StreamInv, NotBegun, NotStarted
<1>3. ChunkStream = <<>> /\ Len(ChunkStream) = 0
  BY <1>2, StreamEmpty DEF ChunkStream
<1>4. Sent' = Sent /\ ChunkStream' = ChunkStream
  <2>1. Sent' = Sent
    BY <1>1, SentIs
  <2>2. ChunkStream' = ChunkStream
    BY <1>1 DEF ChunkStream
  <2> QED
    BY <2>1, <2>2
<1>5. Left' = 0 /\ ~InHand'
  BY <1>1 DEF Left, InHand
<1>6. Len(Sent') = 0 /\ Past' = 0
  BY <1>2, <1>3, <1>4, <1>5 DEF Past
<1>7. NotBegun' /\ Tailed' /\ Begins' /\ NoGap' /\ NotStarted' /\ StopLate'
  BY <1>1, <1>2, <1>4, <1>5, <1>6
  DEF NotBegun, Tailed, Begins, NoGap, NotStarted, StopLate
<1> QED
  BY <1>7 DEF StreamInv

(* The thread moves on between two packets.                                *)
LEMMA StreamBetween ==
  ASSUME SendInv, StreamInv, Launch \/ SemWait \/ FreePacket
  PROVE  StreamInv'
<1>1. /\ UNCHANGED <<handled, ring, taken, running, stop>>
      /\ pc' \in {"semWait", "front"}
      /\ pc \in {"none", "semWait"} \/ (pc = "convert" /\ packCount = Chunks[cur])
  <2>1. CASE Launch
    BY <2>1 DEF Launch, epollVars
  <2>2. CASE SemWait
    BY <2>2 DEF SemWait, epollVars
  <2>3. CASE FreePacket
    BY <2>3 DEF FreePacket, epollVars
  <2> QED
    BY <2>1, <2>2, <2>3
<1>2. Sent' = Sent /\ ChunkStream' = ChunkStream
  <2>1. Sent' = Sent
    BY <1>1, SentIs
  <2>2. ChunkStream' = ChunkStream
    BY <1>1 DEF ChunkStream
  <2> QED
    BY <2>1, <2>2
<1>3. Left = 0 /\ Left' = 0 /\ ~InHand'
  BY <1>1, StreamFacts DEF Left, InHand
<1>4. Past' = Past
  BY <1>2, <1>3 DEF Past
<1>5. NotBegun' /\ Tailed'
  BY <1>1, <1>3 DEF NotBegun, Tailed
<1>6. Begins' /\ NoGap' /\ NotStarted' /\ StopLate'
  BY <1>1, <1>2, <1>4 DEF StreamInv, Begins, NoGap, NotStarted, StopLate
<1> QED
  BY <1>5, <1>6 DEF StreamInv

(* The chunks of the packet that is taken come behind those before.        *)
LEMMA StreamTakes ==
  ASSUME SendInv, StreamInv, TakeFront
  PROVE  StreamInv'
<1> DEFINE p == Head(list)
           old == ChunkStream
           mine == ChunksOf(p)
<1>1. /\ list \in Seq(Packets) /\ Len(list) \in Nat /\ sem \in Nat /\ pc = "front"
      /\ cur' = p /\ packCount' = 0 /\ handled' = Append(handled, p)
      /\ pc' = IF Kind[p] = "EXIT" THEN "exited" ELSE "convert"
      /\ UNCHANGED <<ring, taken, running, stop>>
  BY LenProperties DEF SendInv, TypeOK, TakeFront, epollVars
<1>2. list # <<>>
  <2>1. sem + 1 = Len(list)
    BY <1>1 DEF SendInv, SemCountsList
  <2> QED
    BY <2>1, <1>1, EmptySeq
<1>3. p \in Packets /\ handled \in Seq(Packets) /\ Chunks[p] \in Nat
  BY <1>1, <1>2, HeadTailProperties, StreamFacts, SendPathAssumption
<1> HIDE DEF p
<1>4. /\ old \in Seq(Places) /\ Len(old) \in Nat
      /\ Len(Sent) \in Nat /\ Sent \in Seq(Places)
  BY StreamFacts
<1>5. mine \in Seq(Places) /\ Len(mine) \in Nat
  BY <1>3, ChunksTyped, LenProperties
<1>6. Kind[p] # "EXIT" => Len(mine) = Chunks[p] /\ \A j \in 1..Chunks[p] : mine[j] = <<p, j - 1>>
  <2> SUFFICES ASSUME Kind[p] # "EXIT"
               PROVE  Len(mine) = Chunks[p] /\ \A j \in 1..Chunks[p] : mine[j] = <<p, j - 1>>
    OBVIOUS
  <2>1. mine = [j \in 1..Chunks[p] |-> <<p, j - 1>>]
    BY DEF ChunksOf
  <2> QED
    BY <2>1, <1>3, <1>5
<1>7. Kind[p] = "EXIT" => Len(mine) = 0
  BY DEF ChunksOf
<1>8. ChunkStream' = old \o mine
  BY <1>1, <1>3, StreamGrows DEF ChunkStream
<1> HIDE DEF mine, old
<1>9. /\ Len(ChunkStream') = Len(old) + Len(mine)
      /\ \A i \in 1..Len(old) + Len(mine) :
           ChunkStream'[i] = IF i <= Len(old) THEN old[i] ELSE mine[i - Len(old)]
  BY <1>4, <1>5, <1>8, ConcatProperties
<1>10. Sent' = Sent
  BY <1>1, SentIs
<1>11. Past = Len(old) /\ ~InHand
  BY <1>1, <1>4 DEF Past, Left, InHand, old
<1>12. Past' = Len(old)
  <2>1. Left' = Len(mine)
    <3>1. CASE Kind[p] = "EXIT"
      BY <3>1, <1>1, <1>7 DEF Left
    <3>2. CASE Kind[p] # "EXIT"
      BY <3>2, <1>1, <1>3, <1>6 DEF Left
    <3> QED
      BY <3>1, <3>2
  <2> QED
    BY <2>1, <1>4, <1>5, <1>9 DEF Past
<1>13. NotBegun'
  BY <1>1 DEF NotBegun
<1>14. Tailed'
  <2> SUFFICES ASSUME InHand'
               PROVE  /\ Kind[p] # "EXIT" /\ 0 <= Chunks[p] /\ Chunks[p] <= Len(ChunkStream')
                      /\ \A j \in 1..Chunks[p] :
                           ChunkStream'[(Len(ChunkStream') - Chunks[p]) + j] = <<p, j - 1>>
    BY <1>1 DEF Tailed
  <2>1. Kind[p] # "EXIT"
    BY <1>1 DEF InHand
  <2>2. Len(ChunkStream') = Len(old) + Chunks[p]
    BY <2>1, <1>6, <1>9
  <2>3. ASSUME NEW j \in 1..Chunks[p]
        PROVE  ChunkStream'[(Len(ChunkStream') - Chunks[p]) + j] = <<p, j - 1>>
    <3>1. /\ (Len(ChunkStream') - Chunks[p]) + j = Len(old) + j
          /\ Len(old) + j \in 1..Len(old) + Len(mine) /\ ~(Len(old) + j <= Len(old))
          /\ (Len(old) + j) - Len(old) = j
      BY <2>1, <2>2, <1>3, <1>4, <1>6
    <3>2. ChunkStream'[Len(old) + j] = mine[j]
      BY <3>1, <1>9
    <3> QED
      BY <3>1, <3>2, <2>1, <1>6
  <2> QED
    BY <2>1, <2>2, <2>3, <1>3, <1>4
<1>15. Begins'
  <2>1. Len(Sent) <= Len(old) /\ \A i \in 1..Len(Sent) : Sent[i] = old[i]
    BY <1>11 DEF StreamInv, Begins, old
  <2>2. ASSUME NEW i \in 1..Len(Sent) PROVE Sent[i] = ChunkStream'[i]
    BY <2>1, <1>4, <1>5, <1>9
  <2> QED
    BY <2>1, <2>2, <1>10, <1>12 DEF Begins
<1>16. NoGap' /\ NotStarted' /\ StopLate'
  BY <1>1, <1>10, <1>11, <1>12 DEF StreamInv, NoGap, NotStarted, StopLate
<1> QED
  BY <1>13, <1>14, <1>15, <1>16 DEF StreamInv

(* A chunk is cut off and given to SendData, which takes it or gives it up.*)
LEMMA StreamCuts ==
  ASSUME SendInv, StreamInv, FileChunk \/ SendData
  PROVE  StreamInv'
<1>1. UNCHANGED <<handled, cur, ring, taken, running, stop>> /\ InHand /\ InHand'
  BY DEF FileChunk, SendData, epollVars, InHand
<1>2. Sent' = Sent /\ ChunkStream' = ChunkStream
  <2>1. Sent' = Sent
    BY <1>1, SentIs
  <2>2. ChunkStream' = ChunkStream
    BY <1>1 DEF ChunkStream
  <2> QED
    BY <2>1, <2>2
<1>3. /\ packCount \in Nat /\ Chunks[cur] \in Nat /\ Len(ChunkStream) \in Nat /\ Len(Sent) \in Nat
      /\ packCount <= Chunks[cur]
  BY <1>1, StreamFacts DEF StreamInv, Tailed
<1>4. CASE FileChunk
  <2>1. /\ pc = "convert" /\ pc' = "send" /\ packCount < Chunks[cur]
        /\ packCount' = packCount + 1
    BY <1>4 DEF FileChunk
  <2>2. Left' = Left
    BY <2>1, <1>1, <1>3 DEF Left
  <2>3. Past' = Past
    BY <1>2, <2>2 DEF Past
  <2>4. packCount' <= Chunks[cur]
    BY <2>1, <1>3
  <2>5. Tailed'
    BY <2>4, <1>1, <1>2 DEF StreamInv, Tailed
  <2>6. NotBegun' /\ Begins' /\ NoGap' /\ NotStarted' /\ StopLate'
    BY <2>1, <2>3, <1>1, <1>2
    DEF StreamInv, NotBegun, Begins, NoGap, NotStarted, StopLate
  <2> QED
    BY <2>5, <2>6 DEF StreamInv
<1>5. CASE SendData
  <2>1. pc = "send" /\ packCount' = packCount /\ pc' = IF running THEN "push" ELSE "convert"
    BY <1>5 DEF SendData
  <2>2. Tailed'
    BY <2>1, <1>1, <1>2 DEF StreamInv, Tailed
  <2>3. IF running THEN Past' = Past ELSE Past' = Past + 1
    BY <2>1, <1>1, <1>2, <1>3 DEF Past, Left
  <2>4. Begins'
    <3>1. Len(Sent) <= Past /\ Past \in Int
      BY <1>3 DEF StreamInv, Begins, Past, Left
    <3>2. Len(Sent') <= Past'
      BY <3>1, <2>3, <1>2, <1>3
    <3> QED
      BY <3>2, <1>2 DEF StreamInv, Begins
  <2>5. NoGap'
    BY <2>1, <2>3, <1>1, <1>2 DEF StreamInv, NoGap
  <2>6. NotBegun' /\ NotStarted' /\ StopLate'
    BY <2>1, <1>1, <1>2 DEF StreamInv, NotBegun, NotStarted, StopLate
  <2> QED
    BY <2>2, <2>4, <2>5, <2>6 DEF StreamInv
<1> QED
  BY <1>4, <1>5

(* The chunk that is pushed is the next one of the stream: since SendData  *)
(* saw running_status_, none before it was given up.                       *)
LEMMA StreamPushes ==
  ASSUME SendInv, StreamInv, PushChunk
  PROVE  StreamInv'
<1> DEFINE c == <<msgId, cur, packCount - 1>>
           x == <<cur, packCount - 1>>
           N == Len(ChunkStream)
<1>1. /\ pc = "push" /\ pc' = "convert" /\ ring' = Append(ring, c) /\ taken' = taken
      /\ UNCHANGED <<handled, cur, packCount, running, stop>>
      /\ InHand /\ InHand'
  BY DEF PushChunk, Ring!Put, InHand
<1>2. /\ packCount \in Nat /\ packCount > 0 /\ Chunks[cur] \in Nat /\ cur \in Packets
      /\ N \in Nat /\ Len(Sent) \in Nat /\ packCount <= Chunks[cur] /\ Sent \in Seq(Places)
      /\ Chunks[cur] <= N
  BY <1>1, StreamFacts DEF StreamInv, Tailed
<1>3. ring \in Seq(ChunkRecords) /\ taken \in Seq(ChunkRecords) /\ msgId \in Nat
  BY DEF SendInv, TypeOK
<1>4. c \in ChunkRecords /\ c[2] = cur /\ c[3] = packCount - 1
  BY <1>2, <1>3 DEF ChunkRecords
<1>5. x \in Places
  BY <1>2 DEF Places
<1>6. Sent' = Append(Sent, x)
  <2>1. SentOf(taken, Append(ring, c)) = Append(SentOf(taken, ring), <<c[2], c[3]>>)
    BY <1>3, <1>4, SentOfPut
  <2> QED
    BY <2>1, <1>1, <1>4, SentIs
<1>7. ChunkStream' = ChunkStream
  BY <1>1 DEF ChunkStream
<1>8. Past = (N - Chunks[cur]) + packCount - 1 /\ Past' = (N - Chunks[cur]) + packCount
  BY <1>1, <1>2, <1>7 DEF Past, Left
<1>9. Len(Sent) = Past
  BY <1>1 DEF StreamInv, NoGap
<1> HIDE DEF c, x
<1>10. /\ Len(Sent') = Len(Sent) + 1
       /\ \A i \in 1..Len(Sent) + 1 : Sent'[i] = IF i <= Len(Sent) THEN Sent[i] ELSE x
  BY <1>2, <1>5, <1>6, AppendProperties
<1>11. Len(Sent') = Past'
  BY <1>2, <1>8, <1>9, <1>10
<1>12. ChunkStream[Len(Sent) + 1] = x
  <2>1. packCount \in 1..Chunks[cur]
    BY <1>2
  <2>2. ChunkStream[(N - Chunks[cur]) + packCount] = <<cur, packCount - 1>>
    BY <2>1, <1>1 DEF StreamInv, Tailed
  <2>3. Len(Sent) + 1 = (N - Chunks[cur]) + packCount
    BY <1>2, <1>8, <1>9
  <2> QED
    BY <2>2, <2>3 DEF x
<1>13. Begins'
  <2>1. ASSUME NEW i \in 1..Len(Sent) + 1 PROVE Sent'[i] = ChunkStream[i]
    <3>1. CASE i <= Len(Sent)
      <4>1. i \in 1..Len(Sent)
        BY <3>1, <1>2
      <4> QED
        BY <4>1, <3>1, <1>10 DEF StreamInv, Begins
    <3>2. CASE ~(i <= Len(Sent))
      <4>1. i = Len(Sent) + 1
        BY <3>2, <1>2
      <4> QED
        BY <4>1, <3>2, <1>10, <1>12
    <3> QED
      BY <3>1, <3>2
  <2>2. Past' \in Int /\ Len(Sent') <= Past'
    BY <1>2, <1>8, <1>9, <1>11
  <2> QED
    BY <2>1, <2>2, <1>7, <1>10 DEF Begins
<1>14. NotBegun' /\ Tailed'
  BY <1>1, <1>7 DEF StreamInv, NotBegun, Tailed
<1>15. NoGap' /\ NotStarted' /\ StopLate'
  BY <1>1, <1>11 DEF StreamInv, NoGap, NotStarted, StopLate
<1> QED
  BY <1>13, <1>14, <1>15 DEF StreamInv

(* Stop takes chunks out of the ring, but none out of what was sent.       *)
LEMMA StreamStops ==
  ASSUME SendInv, StreamInv, StopStep
  PROVE  StreamInv'
<1>1. UNCHANGED <<handled, pc, cur, packCount>>
  BY DEF StopStep, StopBegin, StopDrain, threadVars
<1>2. Sent' = Sent
  <2>1. CASE UNCHANGED <<ring, taken>>
    BY <2>1, SentIs
  <2>2. CASE Ring!Get
    <3>1. /\ ring \in Seq(ChunkRecords) /\ taken \in Seq(ChunkRecords) /\ ring # <<>>
          /\ taken' = Append(taken, Head(ring)) /\ ring' = Tail(ring)
      BY <2>2 DEF SendInv, TypeOK, Ring!Get
    <3> QED
      BY <3>1, SentIs, SentOfGet
  <2> QED
    BY <2>1, <2>2 DEF StopStep, StopBegin, StopDrain
<1>3. ChunkStream' = ChunkStream
  BY <1>1 DEF ChunkStream
<1>4. Past' = Past /\ (InHand' <=> InHand)
  BY <1>1, <1>3 DEF Past, Left, InHand
<1>5. NotBegun' /\ Tailed' /\ Begins'
  BY <1>1, <1>2, <1>3, <1>4 DEF StreamInv, NotBegun, Tailed, Begins
<1>6. stop' # "no" /\ (running' => running)
  BY DEF StopStep, StopBegin, StopDrain
<1>7. NoGap' /\ NotStarted'
  BY <1>1, <1>2, <1>4, <1>6 DEF StreamInv, NoGap, NotStarted
<1>8. StopLate'
  <2>1. CASE StopBegin
    <3>1. running /\ (Stops = "afterJoin" => pc = "exited")
      BY <2>1 DEF StopBegin, MayStop
    <3> QED
      BY <3>1, <1>1, <1>2, <1>4 DEF StreamInv, NoGap, StopLate
  <2>2. CASE StopDrain
    <3>1. stop # "no"
      BY <2>2 DEF StopDrain
    <3> QED
      BY <3>1, <1>1, <1>2, <1>4 DEF StreamInv, StopLate
  <2> QED
    BY <2>1, <2>2 DEF StopStep
<1> QED
  BY <1>5, <1>7, <1>8 DEF StreamInv

LEMMA StreamNext == SendInv /\ StreamInv /\ [Next]_vars => StreamInv'
<1> SUFFICES ASSUME SendInv, StreamInv, [Next]_vars PROVE StreamInv'
  OBVIOUS
<1>1. CASE UNCHANGED vars \/ \E p \in Packets : Submit(p)
  BY <1>1, StreamElsewhere DEF Submit, vars, threadVars, epollVars
<1>2. CASE StartSucceeds
  BY <1>2, StreamStarts
<1>3. CASE Launch \/ SemWait \/ FreePacket
  BY <1>3, StreamBetween
<1>4. CASE TakeFront
  BY <1>4, StreamTakes
<1>5. CASE FileChunk \/ SendData
  BY <1>5, StreamCuts
<1>6. CASE PushChunk
  BY <1>6, StreamPushes
<1>7. CASE StopStep
  BY <1>7, StreamStops
<1> QED
  BY <1>1, <1>2, <1>3, <1>4, <1>5, <1>6, <1>7 DEF Next, SenderStep

LEMMA StreamInvHolds == Spec => [](SendInv /\ StreamInv)
  BY StreamInit, StreamNext, SendInvHolds, PTL DEF Spec

(* What reaches the ring is a beginning of the chunks of the packets       *)
(* taken, without a gap, whenever Stop is called.                          *)
THEOREM StreamIsUnbroken == Spec => []StreamUnbroken
<1>1. SendInv /\ StreamInv => StreamUnbroken
  <2> SUFFICES ASSUME SendInv, StreamInv PROVE StreamUnbroken
    OBVIOUS
  <2> DEFINE n == Len(Sent)
  <2>1. /\ Sent \in Seq(Places) /\ ChunkStream \in Seq(Places) /\ n \in Nat
        /\ Len(ChunkStream) \in Nat /\ packCount \in Nat
        /\ (InHand => Chunks[cur] \in Nat) /\ (pc \in {"send", "push"} => packCount > 0)
    BY StreamFacts
  <2>2. Left \in Nat
    BY <2>1 DEF StreamInv, Tailed, Left, InHand
  <2>3. n <= Len(ChunkStream) /\ \A i \in 1..n : Sent[i] = ChunkStream[i]
    BY <2>1, <2>2 DEF StreamInv, Begins, Past
  <2>4. \A i \in 1..n : Sent[i] \in Places /\ ChunkStream[i] \in Places
    BY <2>1, <2>3, LenProperties
  <2> HIDE DEF n
  <2>5. /\ SubSeq(Sent, 1, n) \in Seq(Places) /\ Len(SubSeq(Sent, 1, n)) = n
        /\ \A i \in 1..n : SubSeq(Sent, 1, n)[i] = Sent[i]
    BY <2>1, <2>4, SubSeqProperties
  <2>6. /\ SubSeq(ChunkStream, 1, n) \in Seq(Places) /\ Len(SubSeq(ChunkStream, 1, n)) = n
        /\ \A i \in 1..n : SubSeq(ChunkStream, 1, n)[i] = ChunkStream[i]
    BY <2>1, <2>4, SubSeqProperties
  <2>7. SubSeq(Sent, 1, n) = SubSeq(ChunkStream, 1, n)
    BY <2>3, <2>5, <2>6, SeqEqual
  <2> QED
    BY <2>3, <2>7 DEF StreamUnbroken, IsPrefix, n
<1> QED
  BY <1>1, StreamInvHolds, PTL

(* If Stop comes behind the end of the thread, the stream is whole then:   *)
(* all chunks of all packets taken, if the client was ever running, and    *)
(* none otherwise.                                                         *)
Delivered ==
  pc = "exited" => Sent = IF running \/ stop # "no" THEN ChunkStream ELSE <<>>

THEOREM NothingCutOff == ASSUME Stops = "afterJoin" PROVE Spec => []Delivered
<1>1. SendInv /\ StreamInv => Delivered
  <2> SUFFICES ASSUME SendInv, StreamInv, pc = "exited", running \/ stop # "no"
               PROVE  Sent = ChunkStream
    BY DEF Delivered, StreamInv, NotStarted
  <2>1. Sent \in Seq(Places) /\ ChunkStream \in Seq(Places) /\ Len(ChunkStream) \in Nat
    BY StreamFacts
  <2>2. Past = Len(ChunkStream)
    BY <2>1 DEF Past, Left
  <2>3. Len(Sent) = Len(ChunkStream)
    BY <2>2 DEF StreamInv, NoGap, StopLate
  <2> QED
    BY <2>1, <2>3, SeqEqual DEF StreamInv, Begins
<1> QED
  BY <1>1, StreamInvHolds, PTL

=============================================================================
