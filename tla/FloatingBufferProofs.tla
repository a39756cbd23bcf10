------------------------- MODULE FloatingBufferProofs -------------------------
(***************************************************************************)
(* FloatingBuffer for every size, limit and sequence of pieces.  The four  *)
(* invariants are inductive only together: that nothing is cut before the  *)
(* limit (PrefixKept) needs len <= alloc <= Large, and that all of the     *)
(* memory behind the text is clear (RestCleared) gives the terminator its  *)
(* room once len < alloc is known while the buffer can grow.               *)
(***************************************************************************)
EXTENDS FloatingBuffer, TLAPS

RoomWhileGrowing == alloc < Large => len < alloc

(* Where '\0' is, growing or not: everywhere behind the text and nowhere   *)
(* else, which at the limit is nowhere at all.                             *)
RestCleared == zeros = len..alloc - 1

BufInv == TypeOK /\ PrefixKept /\ RestCleared /\ RoomWhileGrowing

(* Growing gives at least n more places, or the limit is reached.          *)
LEMMA GrownSize ==
  ASSUME NEW n \in Nat, alloc \in Nat, alloc < Large
  PROVE  /\ Grown(n) \in Nat /\ alloc < Grown(n) /\ Grown(n) <= Large
         /\ Grown(n) < Large => Grown(n) >= alloc + n /\ Grown(n) >= alloc + Grow
  BY SizeAssumption DEF Grown, Capped

(* The places behind the text lie in the memory.                           *)
LEMMA TailOfInterval ==
  ASSUME NEW a \in Nat, NEW b \in Nat
  PROVE  a..b - 1 \subseteq 0..b - 1
  OBVIOUS

LEMMA InitBuf == Init => BufInv
<1> SUFFICES ASSUME Init PROVE BufInv
  OBVIOUS
<1>1. /\ alloc \in Nat /\ alloc <= Large /\ Small <= alloc
      /\ len = 0 /\ zeros = 0..alloc - 1 /\ asked = 0 /\ dropped = 0
  BY SizeAssumption DEF Init, Capped
<1>2. TypeOK /\ RestCleared
  BY <1>1 DEF TypeOK, RestCleared
<1>3. PrefixKept
  BY <1>1, SizeAssumption DEF PrefixKept, Capped
<1>4. RoomWhileGrowing
  <2>1. Large > 0 => alloc > 0
    BY SizeAssumption DEF Init, Capped
  <2> QED BY <1>1, <2>1, SizeAssumption DEF RoomWhileGrowing
<1> QED BY <1>2, <1>3, <1>4 DEF BufInv

LEMMA AppendStep ==
  ASSUME BufInv, NEW n \in Nat, append(n)
  PROVE  BufInv'
<1> USE SizeAssumption DEF BufInv, TypeOK, Handed
<1>1. /\ asked' = asked + n /\ dropped' = dropped
      /\ alloc \in Nat /\ len \in Nat /\ len <= alloc /\ alloc <= Large
  BY DEF append
<1>2. CASE AppendFits(n)
  <2>1. len + n < alloc /\ len' = len + n /\ alloc' = alloc
    BY <1>1, <1>2 DEF AppendFits, avail
  <2>2. PrefixKept'
    BY <1>1, <2>1 DEF PrefixKept, Capped
  <2>3. RestCleared'
    BY <1>1, <1>2, <2>1 DEF AppendFits, RestCleared
  <2> QED
    BY <1>1, <2>1, <2>2, <2>3 DEF RestCleared, RoomWhileGrowing
<1>3. CASE AppendGrows(n)
  <2>1. /\ alloc < Large /\ len < alloc
        /\ alloc' = Grown(n)
        /\ len' = IF n > alloc' - len THEN alloc' ELSE len + n
        /\ zeros' = {k \in zeros : k < len} \cup (len'..alloc' - 1)
    BY <1>3 DEF AppendGrows, RoomWhileGrowing
  <2>2. /\ alloc' \in Nat /\ alloc < alloc' /\ alloc' <= Large
        /\ alloc' < Large => alloc' >= alloc + n
    BY <1>1, <2>1, GrownSize
  <2>3. len' \in Nat /\ len <= len' /\ len' <= alloc'
    BY <1>1, <2>1, <2>2
  <2>4. PrefixKept'
    BY <1>1, <2>1, <2>2 DEF PrefixKept, Capped
  <2>5. {k \in len..alloc - 1 : k < len} = {}
    <3> SUFFICES ASSUME NEW k \in len..alloc - 1 PROVE ~(k < len)
      OBVIOUS
    <3> QED BY <1>1
  <2>6. RestCleared'
    BY <2>1, <2>5 DEF RestCleared
  <2>7. RoomWhileGrowing'
    BY <1>1, <2>1, <2>2 DEF RoomWhileGrowing
  <2>8. TypeOK'
    <3>1. zeros' = len'..alloc' - 1
      BY <2>6 DEF RestCleared
    <3>2. Small <= alloc' /\ len' \in 0..alloc'
      BY <1>1, <2>2, <2>3
    <3>3. zeros' \subseteq 0..alloc' - 1
      BY <2>2, <2>3, <3>1, TailOfInterval
    <3>4. asked' \in Nat /\ dropped' \in 0..asked'
      BY <1>1
    <3> QED BY <2>2, <3>2, <3>3, <3>4
  <2> QED
    BY <2>4, <2>6, <2>7, <2>8
<1>4. CASE AppendCut(n)
  <2>1. alloc = Large /\ len' = alloc /\ alloc' = alloc /\ zeros' = zeros \ (len..alloc - 1) /\ alloc - len <= n
    BY <1>1, <1>4 DEF AppendCut, avail
  <2>2. PrefixKept'
    BY <1>1, <2>1 DEF PrefixKept, Capped
  <2>3. zeros' = {} /\ RestCleared'
    BY <1>1, <2>1 DEF RestCleared
  <2> QED
    BY <1>1, <2>1, <2>2, <2>3 DEF RoomWhileGrowing
<1> QED
  BY <1>2, <1>3, <1>4 DEF append

LEMMA NumberStep ==
  ASSUME BufInv, NEW n \in Digits, formatNumber(n)
  PROVE  BufInv'
<1> USE SizeAssumption, DigitsAssumption DEF BufInv, TypeOK, Handed
<1>1. /\ n \in Nat /\ n < MaxNumeric /\ n > 0
      /\ asked' = asked + n /\ alloc' = alloc
      /\ alloc \in Nat /\ len \in Nat /\ len <= alloc /\ alloc <= Large
  BY DEF formatNumber
<1>2. CASE avail >= MaxNumeric
  <2>1. /\ len' = len + n /\ len' < alloc /\ dropped' = dropped
        /\ zeros' = (zeros \ (len..len + n - 1)) \cup {len + n}
    BY <1>1, <1>2 DEF formatNumber, avail
  <2>2. PrefixKept'
    BY <1>1, <2>1 DEF PrefixKept, Capped
  <2>3. RestCleared'
    BY <1>1, <2>1 DEF RestCleared
  <2> QED
    BY <1>1, <2>1, <2>2, <2>3 DEF RestCleared, RoomWhileGrowing
<1>3. CASE avail < MaxNumeric
  <2>1. dropped' = dropped + n /\ len' = len /\ zeros' = zeros
    BY <1>1, <1>3 DEF formatNumber, avail
  <2>2. PrefixKept'
    BY <1>1, <2>1 DEF PrefixKept, Capped
  <2> QED
    BY <1>1, <2>1, <2>2 DEF RestCleared, RoomWhileGrowing
<1> QED
  BY <1>1, <1>2, <1>3 DEF avail

LEMMA BufStep == BufInv /\ [Next]_vars => BufInv'
<1> SUFFICES ASSUME BufInv, [Next]_vars PROVE BufInv'
  OBVIOUS
<1>1. CASE \E n \in Lengths : append(n)
  BY <1>1, AppendStep, SizeAssumption
<1>2. CASE \E n \in Digits : formatNumber(n)
  BY <1>2, NumberStep
<1>3. CASE UNCHANGED vars
  BY <1>3 DEF vars, BufInv, TypeOK, PrefixKept, RestCleared, RoomWhileGrowing, Capped
<1> QED
  BY <1>1, <1>2, <1>3 DEF Next

LEMMA BufInvariant == Spec => []BufInv
  BY InitBuf, BufStep, PTL DEF Spec

(* No write goes past end(), no buffer past kLargeBuffer                   *)
(* (floatingbuffer.cpp, append).                                           *)
THEOREM BufferTyping == Spec => []TypeOK
<1>1. BufInv => TypeOK
  BY DEF BufInv
<1> QED BY <1>1, BufInvariant, PTL

(* The buffer holds everything appended, or its first kLargeBuffer         *)
(* characters, in however many pieces it came.                             *)
THEOREM NothingLostInside == Spec => []PrefixKept
<1>1. BufInv => PrefixKept
  BY DEF BufInv
<1> QED BY <1>1, BufInvariant, PTL

(* The C string RsLog::output prints is the text of length len(), as long  *)
(* as the text is shorter than kLargeBuffer.                               *)
THEOREM CStringIsText == Spec => []TextEndsAtLen
<1>1. BufInv => TextEndsAtLen
  <2> SUFFICES ASSUME BufInv, len < Large
               PROVE  len \in zeros /\ \A k \in zeros : len <= k
    BY DEF TextEndsAtLen
  <2>1. alloc \in Nat /\ len \in Nat /\ len <= alloc /\ alloc <= Large /\ zeros = len..alloc - 1
    BY DEF BufInv, TypeOK, RestCleared
  <2>2. len < alloc
    BY <2>1, SizeAssumption DEF BufInv, RoomWhileGrowing
  <2> QED
    BY <2>1, <2>2
<1> QED BY <1>1, BufInvariant, PTL

(* A text of kLargeBuffer characters is followed by no '\0' in its memory: *)
(* at the limit the C string is not the text (floatingbuffer.cpp:102).     *)
THEOREM NoRoomAtLimit == Spec => []UnterminatedAtLimit
<1>1. BufInv => UnterminatedAtLimit
  <2> SUFFICES ASSUME BufInv, len = Large PROVE zeros = {}
    BY DEF UnterminatedAtLimit
  <2>1. alloc = Large /\ alloc \in Nat /\ zeros = alloc..alloc - 1
    BY SizeAssumption DEF BufInv, TypeOK, RestCleared
  <2> QED
    BY <2>1
<1> QED BY <1>1, BufInvariant, PTL

=============================================================================
