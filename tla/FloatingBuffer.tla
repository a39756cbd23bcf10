---------------------------- MODULE FloatingBuffer ----------------------------
(***************************************************************************)
(* The text of one log line: RsFloatingBuffer (logger/floatingbuffer.cpp)  *)
(* and the operators of RsLogStream that write into it                     *)
(* (logger/logstream.cpp).  Characters are abstracted to their number and  *)
(* to the places where the memory holds '\0', which is where a reader of   *)
(* buff() as a C string stops.  reset and bzero are called by nobody.      *)
(***************************************************************************)
EXTENDS Integers

CONSTANTS
  SIZE,        \* the template's argument
  Small,       \* kSmallBuffer
  Large,       \* kLargeBuffer
  Grow,        \* 1024, the least by which append grows
  MaxNumeric,  \* kMaxNumericSize, the room asked for before a number is written
  Lengths,     \* lengths of the texts appended
  Digits,      \* lengths of the numbers
  MaxText      \* bound on the text of a line, for TLC

ASSUME SizeAssumption ==
  /\ SIZE \in Nat /\ Small \in Nat /\ Large \in Nat /\ 0 < Small /\ Small <= Large
  /\ 0 < Grow /\ Grow \in Nat
  /\ MaxNumeric \in Nat /\ MaxText \in Nat
  /\ Lengths \subseteq Nat

(* A 64-bit number has at most 20 characters, with a sign, %.12g has fewer *)
(* and a pointer 18: each fits into kMaxNumericSize with its '\0'.         *)
ASSUME DigitsAssumption == Digits \subseteq 1..MaxNumeric - 1

VARIABLES
  alloc,    \* alloc_size_
  len,      \* cur_ - data_
  zeros,    \* the places of data_ that hold '\0'
  asked,    \* history: characters handed to the stream
  dropped   \* history: characters of numbers that formatInteger left out

vars == <<alloc, len, zeros, asked, dropped>>

avail == alloc - len
Capped(n) == IF n > Large THEN Large ELSE n

Init ==
  /\ alloc = Capped(IF SIZE < Small THEN Small ELSE SIZE)
  /\ len = 0
  /\ zeros = 0..alloc - 1
  /\ asked = 0 /\ dropped = 0

Handed(n) == asked + n <= MaxText /\ asked' = asked + n

(* Mutants: the new size is not limited; it does not regard len.           *)
GrownUncapped(n) == alloc + (IF n >= Grow THEN n ELSE Grow)
GrownByOne(n) == Capped(alloc + Grow)

(* allocSize                                                               *)
Grown(n) == Capped(alloc + (IF n >= Grow THEN n ELSE Grow))

AppendFits(n) ==
  /\ avail > n
  /\ len' = len + n
  /\ zeros' = zeros \ (len..len + n - 1)
  /\ UNCHANGED alloc

(* Mutant: the memory realloc adds is not cleared.                         *)
AppendGrowsUncleared(n) ==
  /\ avail <= n /\ alloc < Large
  /\ alloc' = Grown(n)
  /\ len' = IF n > alloc' - len THEN alloc' ELSE len + n
  /\ zeros' = zeros \ (len..len' - 1)

(* realloc, memset from cur_ on, and memcpy of what fits.                  *)
AppendGrows(n) ==
  /\ avail <= n /\ alloc < Large
  /\ alloc' = Grown(n)
  /\ len' = IF n > alloc' - len THEN alloc' ELSE len + n
  /\ zeros' = {k \in zeros : k < len} \cup (len'..alloc' - 1)

AppendCut(n) ==
  /\ avail <= n /\ alloc >= Large
  /\ len' = alloc
  /\ zeros' = zeros \ (len..alloc - 1)
  /\ UNCHANGED alloc

append(n) ==
  /\ Handed(n)
  /\ AppendFits(n) \/ AppendGrows(n) \/ AppendCut(n)
  /\ UNCHANGED dropped

(* formatInteger, and the operators for pointers and doubles: the number   *)
(* and its '\0' are written straight to current(), or not at all.          *)
formatNumber(n) ==
  /\ Handed(n)
  /\ \/ /\ avail >= MaxNumeric
        /\ len' = len + n
        /\ zeros' = (zeros \ (len..len + n - 1)) \cup {len + n}
        /\ UNCHANGED dropped
     \/ /\ avail < MaxNumeric
        /\ dropped' = dropped + n
        /\ UNCHANGED <<len, zeros>>
  /\ UNCHANGED alloc

Next == (\E n \in Lengths : append(n)) \/ (\E n \in Digits : formatNumber(n))

Spec == Init /\ [][Next]_vars

-----------------------------------------------------------------------------
(* Properties                                                              *)

(* cur_ never passes end(), and no size passes kLargeBuffer.               *)
TypeOK ==
  /\ alloc \in Nat /\ alloc <= Large /\ (Small <= alloc)
  /\ len \in 0..alloc
  /\ zeros \subseteq 0..alloc - 1
  /\ asked \in Nat /\ dropped \in 0..asked

(* Whatever is appended in whatever pieces, the buffer holds all of it or  *)
(* its first kLargeBuffer characters, numbers left out apart: growing and  *)
(* cutting never lose anything in between.                                 *)
PrefixKept == len = Capped(asked - dropped)

(* RsLog::output writes buff() as a C string and ignores len(): below the  *)
(* limit the first '\0' in the memory, grown or not, is the one behind the *)
(* text, so that the two agree on where the line ends.                     *)
TextEndsAtLen == len < Large => len \in zeros /\ \A k \in zeros : len <= k

(* At the limit they do not: a line of kLargeBuffer characters fills the   *)
(* memory and has no '\0', and fprintf("%s") reads on behind the block.    *)
UnterminatedAtLimit == len = Large => zeros = {}

=============================================================================
