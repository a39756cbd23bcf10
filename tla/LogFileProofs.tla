---------------------------- MODULE LogFileProofs -----------------------------
(***************************************************************************)
(* LogFile for every set of threads, directories and names.                *)
(*                                                                         *)
(* A roll into a new second empties no file, because no file has a later   *)
(* second in its name than m_file_name_; the lines of a thread stay in     *)
(* order, because a line is newer than all lines its thread has in files   *)
(* and the renaming keeps the files of a name in order; and the first two  *)
(* rolls of a second keep all lines, because the number the roll looks for *)
(* is free and all smaller ones are taken.                                 *)
(***************************************************************************)
EXTENDS LogFile, FiniteSetTheorems, WellFoundedInduction, TLAPS

-----------------------------------------------------------------------------
(* The inductive invariant                                                 *)

Line == Threads \X (1..MaxLines)

Settings ==
  /\ path \in Dirs /\ dirs \subseteq Dirs /\ base \in Bases
  /\ name \in {base} \X (0..now) /\ now \in 0..MaxSecond
  /\ level \in Levels

(* A thread hands over the line it builds before it makes another.         *)
Counts ==
  /\ line \in [Threads -> 0..MaxLines] /\ made \in [Threads -> 0..MaxLines]
  /\ \A t \in Threads : line[t] \in {0, made[t]}
Handed == [t \in Threads |-> IF line[t] = 0 THEN made[t] ELSE made[t] - 1]

(* Files fs, in the directories ds, none of a second after that of name f. *)
Filed(fs, f, ds) ==
  /\ IsFiniteSet(DOMAIN fs) /\ DOMAIN fs \subseteq ds \X (Bases \X (0..f[2])) \X Nat
  /\ \A x \in DOMAIN fs : fs[x] \in Seq(Line)

(* They hold at most the first h[t] lines of thread t, ...                 *)
UpTo(fs, h) == \A x \in DOMAIN fs : \A i \in DOMAIN fs[x] : fs[x][i][2] <= h[fs[x][i][1]]

(* ... in the order the thread made them.                                  *)
InOrder(fs) ==
  \A x, y \in DOMAIN fs : \A i \in DOMAIN fs[x], j \in DOMAIN fs[y] :
    /\ (x = y /\ i < j) \/ Older(x, y)
    /\ fs[x][i][1] = fs[y][j][1]
    => fs[x][i][2] < fs[y][j][2]

Kept(fs, f, ds, h) == Filed(fs, f, ds) /\ UpTo(fs, h) /\ InOrder(fs)

LogInv == Settings /\ Counts /\ Kept(files, name, dirs, Handed)

(* Every line of fs is in gs, at the same place of some file.              *)
Carried(fs, gs) ==
  \A x \in DOMAIN fs : \E y \in DOMAIN gs :
    \A i \in DOMAIN fs[x] : i \in DOMAIN gs[y] /\ gs[y][i] = fs[x][i]

-----------------------------------------------------------------------------
(* Lemmas about the operators of the model                                 *)

LEMMA CarriedLines ==
  ASSUME NEW fs, NEW gs, Carried(fs, gs)
  PROVE  Lines(fs) \subseteq Lines(gs)
<1> SUFFICES ASSUME NEW x \in DOMAIN fs, NEW i \in DOMAIN fs[x] PROVE fs[x][i] \in Lines(gs)
  BY DEF Lines
<1>1. PICK y \in DOMAIN gs : i \in DOMAIN gs[y] /\ gs[y][i] = fs[x][i]
  BY DEF Carried
<1> QED
  BY <1>1 DEF Lines

LEMMA CarriedOn ==
  ASSUME NEW fs, NEW gs, NEW hs, Carried(fs, gs), Carried(gs, hs)
  PROVE  Carried(fs, hs)
<1> SUFFICES ASSUME NEW x \in DOMAIN fs
             PROVE  \E z \in DOMAIN hs : \A i \in DOMAIN fs[x] : i \in DOMAIN hs[z] /\ hs[z][i] = fs[x][i]
  BY DEF Carried
<1>1. PICK y \in DOMAIN gs : \A i \in DOMAIN fs[x] : i \in DOMAIN gs[y] /\ gs[y][i] = fs[x][i]
  BY DEF Carried
<1>2. PICK z \in DOMAIN hs : \A i \in DOMAIN gs[y] : i \in DOMAIN hs[z] /\ hs[z][i] = gs[y][i]
  BY DEF Carried
<1> QED
  BY <1>1, <1>2

LEMMA NatMin ==
  ASSUME NEW P \in SUBSET Nat, P # {}
  PROVE  \E x \in P : \A y \in P : x <= y
<1>1. PICK x \in P : \A y \in P : <<y, x>> \notin OpToRel(<,Nat)
  BY WFMin, NatLessThanWellFounded
<1>2. \A y \in P : ~(y < x)
  BY <1>1 DEF OpToRel
<1> QED
  BY <1>2

(* "Find the next available name": there is one, and the loop stops at the *)
(* first.                                                                  *)
LEMMA FreeNumberIs ==
  ASSUME NEW fs, IsFiniteSet(DOMAIN fs)
  PROVE  /\ FreeNumber(fs) \in Nat /\ FreeNumber(fs) >= 1
         /\ File(path, name, FreeNumber(fs)) \notin DOMAIN fs
         /\ \A k \in Nat : 1 <= k /\ k < FreeNumber(fs) => File(path, name, k) \in DOMAIN fs
<1> DEFINE n == Cardinality(DOMAIN fs)
           free == {k \in 1..n + 1 : File(path, name, k) \notin DOMAIN fs}
<1>1. n \in Nat
  BY FS_CardinalityType
<1> HIDE DEF n
<1>2. free # {}
  <2> SUFFICES ASSUME \A k \in 1..n + 1 : File(path, name, k) \in DOMAIN fs PROVE FALSE
    OBVIOUS
  <2> DEFINE g == [k \in 1..n + 1 |-> File(path, name, k)]
  <2>1. g \in Injection(1..n + 1, DOMAIN fs)
    BY DEF Injection, IsInjective, File
  <2>2. Cardinality(1..n + 1) <= Cardinality(DOMAIN fs)
    BY <2>1, FS_Injection
  <2>3. Cardinality(1..n + 1) = n + 1
    BY <1>1, FS_Interval
  <2> QED
    BY <1>1, <2>2, <2>3 DEF n
<1>3. free \in SUBSET Nat
  BY <1>1
<1>4. \E x \in free : \A y \in free : x <= y
  BY <1>2, <1>3, NatMin
<1>5. FreeNumber(fs) \in free /\ \A y \in free : FreeNumber(fs) <= y
  BY <1>4 DEF FreeNumber, Min, n
<1> QED
  BY <1>1, <1>5
(* Which file becomes file x when the full file is rolled; id is the free  *)
(* number.                                                                 *)
Source(id, x) == IF x = File(path, name, 1) THEN File(path, name, 0)
                 ELSE IF x = File(path, name, id) THEN File(path, name, id - 1) ELSE x

LEMMA RolledIs ==
  ASSUME NEW fs, IsFiniteSet(DOMAIN fs), File(path, name, 0) \in DOMAIN fs
  PROVE  /\ DOMAIN Rolled(fs) = (DOMAIN fs \ {File(path, name, FreeNumber(fs) - 1), File(path, name, 0)})
                                  \cup {File(path, name, FreeNumber(fs)), File(path, name, 1)}
         /\ \A x \in DOMAIN Rolled(fs) : LET y == Source(FreeNumber(fs), x) IN
              y \in DOMAIN fs /\ Rolled(fs)[x] = fs[y]
         /\ File(path, name, 0) \notin DOMAIN Rolled(fs)
<1>1. PICK id \in Nat : id = FreeNumber(fs) /\ id >= 1
  BY FreeNumberIs
<1>2. /\ File(path, name, id) \notin DOMAIN fs
      /\ \A k \in Nat : 1 <= k /\ k < id => File(path, name, k) \in DOMAIN fs
  BY <1>1, FreeNumberIs
<1> DEFINE Moved == (DOMAIN fs \ {File(path, name, id - 1), File(path, name, 0)})
                      \cup {File(path, name, id), File(path, name, 1)}
           val(x) == CASE x = File(path, name, 1) -> fs[File(path, name, 0)]
                       [] x = File(path, name, id) /\ id > 1 -> fs[File(path, name, id - 1)]
                       [] OTHER -> fs[x]
<1>3. Rolled(fs) = [x \in Moved |-> val(x)]
  BY <1>1 DEF Rolled
<1>4. ASSUME NEW x \in Moved PROVE Source(id, x) \in DOMAIN fs /\ val(x) = fs[Source(id, x)]
  <2>1. CASE x = File(path, name, 1)
    <3>1. ~(x = File(path, name, id) /\ id > 1)
      BY <1>1, <2>1 DEF File
    <3> QED
      BY <2>1, <3>1 DEF Source
  <2>2. CASE x # File(path, name, 1) /\ x = File(path, name, id)
    <3>1. id # 1
      BY <2>2
    <3>2. id > 1 /\ id - 1 \in Nat /\ 1 <= id - 1 /\ id - 1 < id
      BY <3>1, <1>1
    <3>3. File(path, name, id - 1) \in DOMAIN fs
      BY <3>2, <1>2
    <3> QED
      BY <2>2, <3>2, <3>3 DEF Source
  <2>3. CASE x # File(path, name, 1) /\ x # File(path, name, id)
    BY <2>3 DEF Source
  <2> QED
    BY <2>1, <2>2, <2>3
<1>5. File(path, name, 0) \notin Moved
  <2>1. File(path, name, 0) # File(path, name, id) /\ File(path, name, 0) # File(path, name, 1)
    BY <1>1 DEF File
  <2> QED
    BY <2>1
<1> HIDE DEF Moved, val
<1>6. DOMAIN Rolled(fs) = Moved /\ \A x \in Moved : Rolled(fs)[x] = val(x)
  BY <1>3
<1>7. \A x \in Moved : Source(id, x) \in DOMAIN fs /\ Rolled(fs)[x] = fs[Source(id, x)]
  BY <1>4, <1>6
<1> QED
  BY <1>1, <1>5, <1>6, <1>7 DEF Moved

(* The renaming leaves the order of the files as it was.                   *)
LEMMA SourceOrder ==
  ASSUME NEW id \in Nat, id >= 1, NEW x, NEW y, x[3] \in Nat, y[3] \in Nat, Older(x, y),
         x = File(x[1], x[2], x[3]), y = File(y[1], y[2], y[3]),
         File(path, name, id - 1) \notin {x, y} \ {File(path, name, 1), File(path, name, id)},
         File(path, name, 0) \notin {x, y}
  PROVE  Older(Source(id, x), Source(id, y))
<1> DEFINE src(k) == IF k = 1 THEN 0 ELSE IF k = id THEN id - 1 ELSE k
<1>1. ASSUME NEW z, z[3] \in Nat, z = File(z[1], z[2], z[3])
      PROVE  /\ Source(id, z)[1] = z[1] /\ Source(id, z)[2] = z[2]
             /\ Source(id, z)[3] = IF z[1] = path /\ z[2] = name THEN src(z[3]) ELSE z[3]
  <2>1. CASE z[1] = path /\ z[2] = name
    <3>1. \A k : z = File(path, name, k) <=> z[3] = k
      BY <1>1, <2>1 DEF File
    <3>2. Source(id, z) = File(path, name, src(z[3]))
      BY <1>1, <2>1, <3>1 DEF Source
    <3> HIDE DEF src
    <3> QED
      BY <3>2, <2>1 DEF File
  <2>2. CASE ~(z[1] = path /\ z[2] = name)
    <3>1. \A k : z # File(path, name, k)
      BY <1>1, <2>2 DEF File
    <3> QED
      BY <2>2, <3>1 DEF Source
  <2> QED
    BY <2>1, <2>2
<1>2. CASE x[2] # y[2]
  BY <1>1, <1>2 DEF Older
<1>3. CASE x[2] = y[2] /\ ~(x[1] = path /\ x[2] = name)
  BY <1>1, <1>3 DEF Older
<1>4. CASE x[2] = y[2] /\ x[1] = path /\ x[2] = name
  <2>1. y[1] = path /\ y[2] = name /\ x[1] = y[1]
    BY <1>4 DEF Older
  <2>2. \A k : (x = File(path, name, k) <=> x[3] = k) /\ (y = File(path, name, k) <=> y[3] = k)
    BY <1>4, <2>1 DEF File
  <2>3. CASE x[3] > y[3]
    <3>1. x[3] # 0 /\ y[3] # 0
      BY <2>2
    <3>2. /\ x[3] = id - 1 => x[3] \in {1, id}
          /\ y[3] = id - 1 => y[3] \in {1, id}
      BY <2>2
    <3>3. src(x[3]) > src(y[3])
      BY <2>3, <3>1, <3>2
    <3>4. Source(id, x)[3] > Source(id, y)[3]
      BY <1>1, <1>4, <2>1, <3>3
    <3> QED
      BY <1>1, <1>4, <2>1, <3>4 DEF Older
  <2>4. CASE x[2][2] < y[2][2]
    BY <2>4, <1>1, <1>4 DEF Older
  <2> QED
    BY <2>3, <2>4 DEF Older
<1> QED
  BY <1>2, <1>3, <1>4

LEMMA FileIs ==
  ASSUME NEW fs, NEW f, NEW ds, Filed(fs, f, ds), NEW x \in DOMAIN fs
  PROVE  /\ x = File(x[1], x[2], x[3]) /\ x[1] \in ds /\ x[2] \in Bases \X (0..f[2]) /\ x[3] \in Nat
         /\ fs[x] \in Seq(Line)
         /\ \A i \in DOMAIN fs[x] : fs[x][i] \in Line /\ fs[x][i][1] \in Threads /\ fs[x][i][2] \in Nat
<1>1. x \in ds \X (Bases \X (0..f[2])) \X Nat /\ fs[x] \in Seq(Line)
  BY DEF Filed
<1>2. \A i \in DOMAIN fs[x] : fs[x][i] \in Line
  BY <1>1
<1> QED
  BY <1>1, <1>2 DEF File, Line

(* The files of fs with other names, in the same order, some left out.     *)
LEMMA RolledKept ==
  ASSUME NEW fs, NEW ds, NEW h, Kept(fs, name, ds, h), File(path, name, 0) \in DOMAIN fs
  PROVE  Kept(Rolled(fs), name, ds, h)
<1> DEFINE gs == Rolled(fs)
<1>1. PICK id \in Nat : id = FreeNumber(fs) /\ id >= 1
  BY FreeNumberIs DEF Kept, Filed
<1>2. /\ DOMAIN gs = (DOMAIN fs \ {File(path, name, id - 1), File(path, name, 0)})
                       \cup {File(path, name, id), File(path, name, 1)}
      /\ \A x \in DOMAIN gs : Source(id, x) \in DOMAIN fs /\ gs[x] = fs[Source(id, x)]
      /\ File(path, name, 0) \notin DOMAIN gs
  BY <1>1, RolledIs DEF Kept, Filed
<1> HIDE DEF gs
<1>3. path \in ds /\ name \in Bases \X (0..name[2])
  BY FileIs DEF Kept, File
<1>4. DOMAIN gs \subseteq ds \X (Bases \X (0..name[2])) \X Nat
  <2>1. \A k \in Nat : File(path, name, k) \in ds \X (Bases \X (0..name[2])) \X Nat
    BY <1>3 DEF File
  <2>2. DOMAIN fs \subseteq ds \X (Bases \X (0..name[2])) \X Nat
    BY DEF Kept, Filed
  <2> QED
    BY <1>2, <2>1, <2>2
<1>5. IsFiniteSet(DOMAIN gs)
  <2> DEFINE S == DOMAIN fs \cup {File(path, name, id)}
             T == S \cup {File(path, name, 1)}
  <2>1. IsFiniteSet(S)
    BY FS_AddElement DEF Kept, Filed
  <2>2. IsFiniteSet(T)
    BY <2>1, FS_AddElement
  <2>3. DOMAIN gs \in SUBSET T
    BY <1>2
  <2> QED
    BY <2>2, <2>3, FS_Subset
<1>6. Filed(gs, name, ds)
  BY <1>2, <1>4, <1>5 DEF Filed, Kept
<1>7. UpTo(gs, h)
  BY <1>2 DEF UpTo, Kept
<1>8. InOrder(gs)
  <2> SUFFICES ASSUME NEW x \in DOMAIN gs, NEW y \in DOMAIN gs, NEW i \in DOMAIN gs[x], NEW j \in DOMAIN gs[y],
                      (x = y /\ i < j) \/ Older(x, y), gs[x][i][1] = gs[y][j][1]
               PROVE  gs[x][i][2] < gs[y][j][2]
    BY DEF InOrder
  <2>1. /\ Source(id, x) \in DOMAIN fs /\ gs[x] = fs[Source(id, x)]
        /\ Source(id, y) \in DOMAIN fs /\ gs[y] = fs[Source(id, y)]
    BY <1>2
  <2>2. Older(x, y) => Older(Source(id, x), Source(id, y))
    <3>1. x[3] \in Nat /\ y[3] \in Nat /\ x = File(x[1], x[2], x[3]) /\ y = File(y[1], y[2], y[3])
      BY <1>6, FileIs
    <3>2. File(path, name, id - 1) \notin {x, y} \ {File(path, name, 1), File(path, name, id)}
      BY <1>2
    <3>3. File(path, name, 0) \notin {x, y}
      BY <1>2
    <3> QED
      BY <1>1, <3>1, <3>2, <3>3, SourceOrder
  <2> QED
    BY <2>1, <2>2 DEF Kept, InOrder
<1> QED
  BY <1>6, <1>7, <1>8 DEF Kept, gs

(* reset leaves nothing out of order, and loses nothing when the file was  *)
(* not there.                                                              *)
LEMMA FreshKept ==
  ASSUME NEW fs, NEW f \in Bases \X Nat, NEW ds, NEW h, Kept(fs, f, ds, h),
         NEW d, NEW g \in Bases \X Nat, NEW es, f[2] <= g[2], ds \subseteq es
  PROVE  /\ Kept(Fresh(fs, d, g, es), g, es, h)
         /\ File(d, g, 0) \notin DOMAIN fs => Carried(fs, Fresh(fs, d, g, es))
<1>1. Kept(fs, g, es, h) /\ Carried(fs, fs)
  <2>1. ds \X (Bases \X (0..f[2])) \X Nat \subseteq es \X (Bases \X (0..g[2])) \X Nat
    <3>1. 0..f[2] \subseteq 0..g[2]
      OBVIOUS
    <3> QED
      BY <3>1
  <2> QED
    BY <2>1 DEF Kept, Filed, Carried
<1>2. CASE d \notin es
  BY <1>1, <1>2 DEF Fresh
<1>3. CASE d \in es
  <2> DEFINE x == File(d, g, 0)
             gs == Put(fs, x, <<>>)
  <2>1. DOMAIN gs = DOMAIN fs \cup {x} /\ \A y \in DOMAIN fs \cup {x} : gs[y] = IF y = x THEN <<>> ELSE fs[y]
    BY DEF Put
  <2>2. Fresh(fs, d, g, es) = gs
    BY <1>3 DEF Fresh
  <2>3. x \in es \X (Bases \X (0..g[2])) \X Nat
    BY <1>3 DEF File
  <2> HIDE DEF x, gs
  <2>4. Filed(gs, g, es)
    <3>1. IsFiniteSet(DOMAIN gs)
      BY <1>1, <2>1, FS_AddElement DEF Kept, Filed
    <3>2. <<>> \in Seq(Line)
      OBVIOUS
    <3> QED
      BY <1>1, <2>1, <2>3, <3>1, <3>2 DEF Kept, Filed
  <2>5. \A y \in DOMAIN gs : gs[y] = <<>> \/ (y \in DOMAIN fs /\ gs[y] = fs[y])
    BY <2>1
  <2>6. \A y \in DOMAIN gs : \A i \in DOMAIN gs[y] : y \in DOMAIN fs /\ gs[y] = fs[y]
    BY <2>5
  <2>7. UpTo(gs, h) /\ InOrder(gs)
    BY <1>1, <2>6 DEF Kept, UpTo, InOrder
  <2>8. x \notin DOMAIN fs => Carried(fs, gs)
    BY <2>1 DEF Carried
  <2> QED
    BY <2>2, <2>4, <2>7, <2>8 DEF Kept, x
<1> QED
  BY <1>2, <1>3

(* A line newer than all of its thread goes to the newest file.            *)
LEMMA PutKept ==
  ASSUME NEW fs, NEW f \in Bases \X Nat, NEW ds, NEW h, Kept(fs, f, ds, h), NEW d \in ds,
         NEW l \in Line, NEW g, l[2] > h[l[1]], l[2] <= g[l[1]],
         \A t \in Threads : h[t] \in Int /\ g[t] \in Int /\ h[t] <= g[t], NEW old,
         old = IF File(d, f, 0) \in DOMAIN fs THEN fs[File(d, f, 0)] ELSE <<>>
  PROVE  /\ Kept(Put(fs, File(d, f, 0), Append(old, l)), f, ds, g)
         /\ Carried(fs, Put(fs, File(d, f, 0), Append(old, l)))
<1> DEFINE x == File(d, f, 0)
           gs == Put(fs, x, Append(old, l))
<1>1. DOMAIN gs = DOMAIN fs \cup {x} /\ \A y \in DOMAIN fs \cup {x} : gs[y] = IF y = x THEN Append(old, l) ELSE fs[y]
  BY DEF Put
<1>2. /\ old \in Seq(Line) /\ Append(old, l) \in Seq(Line) /\ Len(Append(old, l)) = Len(old) + 1
      /\ Append(old, l)[Len(old) + 1] = l
      /\ \A i \in DOMAIN old : i \in DOMAIN Append(old, l) /\ Append(old, l)[i] = old[i]
  <2>1. old \in Seq(Line)
    <3>1. <<>> \in Seq(Line)
      OBVIOUS
    <3> QED
      BY <3>1 DEF Kept, Filed
  <2> QED
    BY <2>1
<1>3. x \in ds \X (Bases \X (0..f[2])) \X Nat
  BY DEF File
<1>4. l[1] \in Threads /\ l[2] \in Nat
  BY DEF Line
<1>5. \A y \in DOMAIN fs : ~Older(x, y)
  BY FileIs DEF Kept, Older, File
<1>6. x \in DOMAIN fs => old = fs[x]
  OBVIOUS
<1>7. x \notin DOMAIN fs => old = <<>>
  OBVIOUS
<1> HIDE DEF x, gs
<1>8. Filed(gs, f, ds)
  <2>1. IsFiniteSet(DOMAIN gs)
    BY <1>1, FS_AddElement DEF Kept, Filed
  <2> QED
    BY <1>1, <1>2, <1>3, <2>1 DEF Kept, Filed
(* Each place of gs is one of fs or that of the line.                      *)
<1>9. ASSUME NEW y \in DOMAIN gs, NEW i \in DOMAIN gs[y], ~(y = x /\ i = Len(old) + 1)
      PROVE  y \in DOMAIN fs /\ i \in DOMAIN fs[y] /\ gs[y][i] = fs[y][i]
  <2>1. CASE y = x
    <3>1. gs[y] = Append(old, l)
      BY <1>1, <2>1
    <3>2. i \in 1..Len(old)
      BY <1>2, <1>9, <2>1, <3>1
    <3>3. x \in DOMAIN fs
      BY <1>7, <3>2
    <3> QED
      BY <1>2, <1>6, <2>1, <3>1, <3>2, <3>3
  <2>2. CASE y # x
    BY <1>1, <2>2
  <2> QED
    BY <2>1, <2>2
<1>10. ASSUME NEW y \in DOMAIN gs, NEW i \in DOMAIN gs[y], y = x /\ i = Len(old) + 1
       PROVE  gs[y][i] = l
  BY <1>1, <1>2, <1>10
<1>11. UpTo(gs, g)
  <2> SUFFICES ASSUME NEW y \in DOMAIN gs, NEW i \in DOMAIN gs[y] PROVE gs[y][i][2] <= g[gs[y][i][1]]
    BY DEF UpTo
  <2>1. CASE y = x /\ i = Len(old) + 1
    BY <1>10, <2>1
  <2>2. CASE ~(y = x /\ i = Len(old) + 1)
    <3>1. y \in DOMAIN fs /\ i \in DOMAIN fs[y] /\ gs[y][i] = fs[y][i]
      BY <1>9, <2>2
    <3>2. PICK m : m = fs[y][i]
      OBVIOUS
    <3>3. m[1] \in Threads /\ m[2] \in Nat /\ m[2] <= h[m[1]]
      BY <3>1, <3>2, FileIs DEF Kept, UpTo
    <3>4. m[2] <= g[m[1]]
      BY <3>3
    <3> QED
      BY <3>1, <3>2, <3>4
  <2> QED
    BY <2>1, <2>2
<1>12. InOrder(gs)
  <2> SUFFICES ASSUME NEW y \in DOMAIN gs, NEW z \in DOMAIN gs, NEW i \in DOMAIN gs[y], NEW j \in DOMAIN gs[z],
                      (y = z /\ i < j) \/ Older(y, z), gs[y][i][1] = gs[z][j][1]
               PROVE  gs[y][i][2] < gs[z][j][2]
    BY DEF InOrder
  <2>1. CASE y = x /\ i = Len(old) + 1
    <3>1. ~Older(x, z)
      <4>1. ~Older(x, x)
        BY <1>3 DEF Older
      <4> QED
        BY <1>1, <1>5, <4>1
    <3>2. z = x /\ i < j
      BY <2>1, <3>1
    <3>3. gs[z] = Append(old, l)
      BY <1>1, <3>2
    <3>4. j \in 1..Len(old) + 1
      BY <1>2, <3>3
    <3> QED
      BY <1>2, <2>1, <3>2, <3>4
  <2>2. CASE ~(y = x /\ i = Len(old) + 1) /\ z = x /\ j = Len(old) + 1
    <3>1. y \in DOMAIN fs /\ i \in DOMAIN fs[y] /\ gs[y][i] = fs[y][i]
      BY <1>9, <2>2
    <3>2. gs[z][j] = l
      BY <1>10, <2>2
    <3>3. PICK m : m = fs[y][i]
      OBVIOUS
    <3>4. m[1] \in Threads /\ m[2] \in Nat /\ m[2] <= h[m[1]]
      BY <3>1, <3>3, FileIs DEF Kept, UpTo
    <3>5. m[1] = l[1]
      BY <3>1, <3>2, <3>3
    <3>6. m[2] < l[2]
      BY <1>4, <3>4, <3>5
    <3> QED
      BY <3>1, <3>2, <3>3, <3>6
  <2>3. CASE ~(y = x /\ i = Len(old) + 1) /\ ~(z = x /\ j = Len(old) + 1)
    <3>1. y \in DOMAIN fs /\ i \in DOMAIN fs[y] /\ gs[y][i] = fs[y][i]
      BY <1>9, <2>3
    <3>2. z \in DOMAIN fs /\ j \in DOMAIN fs[z] /\ gs[z][j] = fs[z][j]
      BY <1>9, <2>3
    <3> QED
      BY <3>1, <3>2 DEF Kept, InOrder
  <2> QED
    BY <2>1, <2>2, <2>3
<1>13. Carried(fs, gs)
  <2> SUFFICES ASSUME NEW y \in DOMAIN fs
               PROVE  \A i \in DOMAIN fs[y] : i \in DOMAIN gs[y] /\ gs[y][i] = fs[y][i]
    BY <1>1 DEF Carried
  <2>1. CASE y = x
    BY <1>1, <1>2, <1>6, <2>1
  <2>2. CASE y # x
    BY <1>1, <2>2
  <2> QED
    BY <2>1, <2>2
<1> QED
  BY <1>8, <1>11, <1>12, <1>13 DEF Kept, x, gs

(* The first two rolls of a second: numbers 1 and 2 are the free ones.     *)
LEMMA RolledCarries ==
  ASSUME NEW fs, IsFiniteSet(DOMAIN fs), File(path, name, 0) \in DOMAIN fs, File(path, name, 2) \notin DOMAIN fs
  PROVE  Carried(fs, Rolled(fs))
<1> DEFINE gs == Rolled(fs)
<1>1. PICK id \in Nat : id = FreeNumber(fs) /\ id >= 1
  BY FreeNumberIs
<1>2. /\ DOMAIN gs = (DOMAIN fs \ {File(path, name, id - 1), File(path, name, 0)})
                       \cup {File(path, name, id), File(path, name, 1)}
      /\ \A x \in DOMAIN gs : gs[x] = fs[Source(id, x)]
  BY <1>1, RolledIs
<1> HIDE DEF gs
<1>3. File(path, name, id) \notin DOMAIN fs
  BY <1>1, FreeNumberIs
<1>4. id = 1 \/ id = 2
  <2>1. \A k \in Nat : 1 <= k /\ k < id => File(path, name, k) \in DOMAIN fs
    BY <1>1, FreeNumberIs
  <2>2. ~(2 < id)
    BY <2>1
  <2> QED
    BY <1>1, <2>2
<1> SUFFICES ASSUME NEW x \in DOMAIN fs PROVE \E y \in DOMAIN gs : gs[y] = fs[x]
  BY DEF Carried, gs
<1>5. CASE x = File(path, name, 0)
  BY <1>2, <1>5 DEF Source
<1>6. CASE x = File(path, name, 1)
  <2>1. id = 2
    BY <1>3, <1>4, <1>6
  <2>2. Source(id, File(path, name, 2)) = File(path, name, 1)
    BY <2>1 DEF Source, File
  <2> QED
    BY <1>2, <1>6, <2>1, <2>2
<1>7. CASE x # File(path, name, 0) /\ x # File(path, name, 1)
  <2>1. x # File(path, name, id - 1) /\ x # File(path, name, id)
    BY <1>3, <1>4, <1>7
  <2>2. Source(id, x) = x
    BY <1>7, <2>1 DEF Source
  <2> QED
    BY <1>2, <1>7, <2>1, <2>2
<1> QED
  BY <1>5, <1>6, <1>7

-----------------------------------------------------------------------------
(* The invariant holds                                                     *)

LEMMA HandedIs ==
  ASSUME Counts
  PROVE  \A t \in Threads : Handed[t] \in Int /\ Handed[t] = IF line[t] = 0 THEN made[t] ELSE made[t] - 1
<1> SUFFICES ASSUME NEW t \in Threads PROVE Handed[t] \in Int /\ Handed[t] = IF line[t] = 0 THEN made[t] ELSE made[t] - 1
  OBVIOUS
<1>1. made[t] \in Int
  BY LogAssumption DEF Counts
<1>2. Handed[t] = IF line[t] = 0 THEN made[t] ELSE made[t] - 1
  BY DEF Handed
<1> QED
  BY <1>1, <1>2

(* A write of the next line of a thread, with the roll that may follow.    *)
LEMMA WriteStep ==
  ASSUME LogInv, NEW t \in Threads, NEW n \in 1..MaxLines, n > Handed[t], Written(<<t, n>>),
         NEW h, n <= h[t], \A u \in Threads : h[u] \in Int /\ Handed[u] <= h[u]
  PROVE  /\ Kept(files', name', dirs, h) /\ name' \in {base} \X (0..now)
         /\ name' # name => Carried(files, files')
         /\ name' = name /\ File(path, name, 2) \notin DOMAIN files => Carried(files, files')
<1> DEFINE cur == File(path, name, 0)
           l == <<t, n>>
<1>1. PICK old : old = IF cur \in DOMAIN files THEN files[cur] ELSE <<>>
  OBVIOUS
<1>2. PICK gs : gs = Put(files, cur, Append(old, l))
  OBVIOUS
<1>3. Written(l) <=> IF path \in dirs THEN rollFile(gs) ELSE UNCHANGED <<files, name>>
  BY <1>1, <1>2 DEF Written
<1>4. /\ name \in Bases \X Nat /\ name[2] \in 0..now /\ base \in Bases /\ now \in Nat
      /\ name = <<base, name[2]>> /\ name \in {base} \X (0..now)
  BY LogAssumption DEF LogInv, Settings
<1>5. Kept(files, name, dirs, h) /\ Carried(files, files)
  <2>1. UpTo(files, h)
    <3> SUFFICES ASSUME NEW x \in DOMAIN files, NEW i \in DOMAIN files[x] PROVE files[x][i][2] <= h[files[x][i][1]]
      BY DEF UpTo
    <3>1. PICK m : m = files[x][i]
      OBVIOUS
    <3>2. m[1] \in Threads /\ m[2] \in Nat /\ m[2] <= Handed[m[1]]
      BY <3>1, FileIs DEF LogInv, Kept, UpTo
    <3>3. Handed[m[1]] \in Int /\ h[m[1]] \in Int /\ Handed[m[1]] <= h[m[1]]
      BY <3>2, HandedIs DEF LogInv
    <3> QED
      BY <3>1, <3>2, <3>3
  <2> QED
    BY <2>1 DEF LogInv, Kept, Carried
<1>6. CASE path \notin dirs
  BY <1>3, <1>4, <1>5, <1>6
<1>7. CASE path \in dirs
  <2>1. Kept(gs, name, dirs, h) /\ Carried(files, gs)
    <3>1. l \in Line /\ l[1] = t /\ l[2] = n
      BY DEF Line
    <3>2. \A u \in Threads : Handed[u] \in Int
      BY HandedIs DEF LogInv
    <3>3. Kept(files, name, dirs, Handed)
      BY DEF LogInv
    <3> HIDE DEF l
    <3> QED
      BY <1>1, <1>2, <1>4, <1>7, <3>1, <3>2, <3>3, PutKept
  <2>2. cur \in DOMAIN gs /\ DOMAIN gs = DOMAIN files \cup {cur}
    BY <1>2 DEF Put
  <2>3. rollFile(gs)
    BY <1>3, <1>7
  <2>4. CASE files' = gs /\ UNCHANGED name
    BY <1>4, <2>1, <2>4
  <2>5. CASE name' = getLogFileName(base) /\ files' = Fresh(IF name' = name THEN Rolled(gs) ELSE gs, path, name', dirs)
    <3>1. name' = <<base, now>> /\ name' \in Bases \X Nat /\ name'[2] = now /\ name[2] <= now /\ name' \in {base} \X (0..now)
      BY <1>4, <2>5 DEF getLogFileName
    <3>2. CASE name' = name
      <4> DEFINE rs == Rolled(gs)
      <4>1. Kept(rs, name, dirs, h)
        BY <2>1, <2>2, RolledKept
      <4>2. IsFiniteSet(DOMAIN gs)
        BY <2>1 DEF Kept, Filed
      <4>3. cur \notin DOMAIN rs
        BY <2>2, <4>2, RolledIs
      <4>4. name[2] <= name[2]
        BY <1>4
      <4> HIDE DEF rs
      <4>5. files' = Fresh(rs, path, name, dirs)
        BY <2>5, <3>2 DEF rs
      <4>6. Kept(files', name, dirs, h) /\ Carried(rs, files')
        BY <1>4, <4>1, <4>3, <4>4, <4>5, FreshKept
      <4>7. ASSUME File(path, name, 2) \notin DOMAIN files PROVE Carried(files, files')
        <5>1. File(path, name, 2) \notin DOMAIN gs
          BY <2>2, <4>7 DEF File
        <5>2. Carried(gs, rs)
          BY <2>2, <4>2, <5>1, RolledCarries DEF rs
        <5> QED
          BY <2>1, <4>6, <5>2, CarriedOn
      <4> QED
        BY <3>1, <3>2, <4>6, <4>7
    <3>3. CASE name' # name
      <4>1. files' = Fresh(gs, path, name', dirs)
        BY <2>5, <3>3
      <4>2. name[2] < now
        BY <1>4, <3>1, <3>3
      <4>3. File(path, name', 0) \notin DOMAIN gs
        <5> SUFFICES ASSUME File(path, name', 0) \in DOMAIN gs PROVE FALSE
          OBVIOUS
        <5>1. name' \in Bases \X (0..name[2])
          BY <2>1, FileIs DEF Kept, File
        <5> QED
          BY <1>4, <3>1, <4>2, <5>1
      <4>4. Kept(files', name', dirs, h) /\ Carried(gs, files')
        BY <1>4, <2>1, <3>1, <4>1, <4>3, FreshKept
      <4>5. Carried(files, files')
        BY <2>1, <4>4, CarriedOn
      <4> QED
        BY <3>1, <3>3, <4>4, <4>5
    <3> QED
      BY <3>2, <3>3
  <2> QED
    BY <2>3, <2>4, <2>5 DEF rollFile
<1> QED
  BY <1>6, <1>7

LEMMA InitLog == Init => LogInv
<1> SUFFICES ASSUME Init PROVE LogInv
  OBVIOUS
<1>1. /\ name = <<base, 0>> /\ now = 0 /\ base = Default /\ path = Home /\ level = Warn /\ dirs \subseteq {Home}
      /\ line = [t \in Threads |-> 0] /\ made = [t \in Threads |-> 0] /\ files = Fresh(<<>>, Home, name, dirs)
  BY DEF Init, getLogFileName
<1>2. Settings /\ Counts
  BY <1>1, LogAssumption DEF Settings, Counts
<1>3. Kept(<<>>, name, dirs, Handed)
  <2>1. DOMAIN <<>> = {}
    OBVIOUS
  <2>2. IsFiniteSet({})
    BY FS_EmptySet
  <2> QED
    BY <2>1, <2>2 DEF Kept, Filed, UpTo, InOrder
<1>4. name \in Bases \X Nat /\ name[2] <= name[2]
  BY <1>1, LogAssumption
<1>5. Kept(Fresh(<<>>, Home, name, dirs), name, dirs, Handed)
  BY <1>3, <1>4, FreshKept
<1> QED
  BY <1>1, <1>2, <1>5 DEF LogInv

(* The lines are handed over in the order they are made ...                *)
LEMMA OutputStep ==
  ASSUME LogInv, NEW t \in Threads, output(t)
  PROVE  /\ LogInv'
         /\ name' # name => Carried(files, files')
         /\ name' = name /\ File(path, name, 2) \notin DOMAIN files => Carried(files, files')
<1>1. PICK n : n = line[t]
  OBVIOUS
<1>2. n \in 1..MaxLines /\ n = made[t] /\ Handed[t] = n - 1
  BY <1>1, HandedIs, LogAssumption DEF output, LogInv, Counts
<1>3. Written(<<t, n>>) /\ line' = [line EXCEPT ![t] = 0] /\ UNCHANGED <<dirs, path, base, level, now, made>>
  BY <1>1 DEF output
<1>4. Counts'
  BY <1>3, LogAssumption DEF LogInv, Counts
<1>5. Handed'[t] = n /\ \A u \in Threads : Handed'[u] \in Int /\ Handed[u] <= Handed'[u]
  <2>1. \A u \in Threads : Handed'[u] \in Int /\ Handed'[u] = IF line'[u] = 0 THEN made'[u] ELSE made'[u] - 1
    BY <1>4, LogAssumption DEF Counts, Handed
  <2>2. \A u \in Threads : Handed[u] \in Int /\ Handed[u] = IF line[u] = 0 THEN made[u] ELSE made[u] - 1
    BY HandedIs DEF LogInv
  <2>3. line'[t] = 0 /\ made' = made /\ \A u \in Threads \ {t} : line'[u] = line[u]
    BY <1>3 DEF LogInv, Counts
  <2> QED
    BY <1>2, <2>1, <2>2, <2>3
<1>6. PICK h : h = Handed'
  OBVIOUS
<1>7. n > Handed[t] /\ n <= h[t] /\ \A u \in Threads : h[u] \in Int /\ Handed[u] <= h[u]
  BY <1>2, <1>5, <1>6
<1>8. /\ Kept(files', name', dirs, h) /\ name' \in {base} \X (0..now)
      /\ name' # name => Carried(files, files')
      /\ name' = name /\ File(path, name, 2) \notin DOMAIN files => Carried(files, files')
  BY <1>2, <1>3, <1>7, WriteStep
<1>9. Settings'
  BY <1>3, <1>8 DEF LogInv, Settings
<1>10. Kept(files', name', dirs', Handed')
  BY <1>3, <1>6, <1>8
<1> QED
  BY <1>4, <1>8, <1>9, <1>10 DEF LogInv

LEMMA PrintStep ==
  ASSUME LogInv, NEW t \in Threads, NEW l \in Levels, NEW hasSlash \in BOOLEAN, PrintLine(t, l, hasSlash)
  PROVE  /\ LogInv'
         /\ name' # name => Carried(files, files')
         /\ name' = name /\ File(path, name, 2) \notin DOMAIN files => Carried(files, files')
<1>1. PICK n : n = made'[t]
  OBVIOUS
<1>2. line[t] = 0 /\ made[t] \in 0..MaxLines /\ made[t] < MaxLines /\ made' = [made EXCEPT ![t] = @ + 1]
      /\ UNCHANGED <<dirs, path, base, level, now, line>>
  BY DEF PrintLine, Made, LogInv, Counts
<1>3. n = made[t] + 1 /\ n \in 1..MaxLines
  BY <1>1, <1>2, LogAssumption DEF LogInv, Counts
<1>4. Counts'
  BY <1>1, <1>2, <1>3, LogAssumption DEF LogInv, Counts
<1>5. Handed[t] = n - 1 /\ Handed'[t] = n /\ \A u \in Threads : Handed'[u] \in Int /\ Handed[u] \in Int /\ Handed[u] <= Handed'[u]
  <2>1. \A u \in Threads : Handed'[u] \in Int /\ Handed'[u] = IF line'[u] = 0 THEN made'[u] ELSE made'[u] - 1
    BY <1>4, LogAssumption DEF Counts, Handed
  <2>2. \A u \in Threads : Handed[u] \in Int /\ Handed[u] = IF line[u] = 0 THEN made[u] ELSE made[u] - 1
    BY HandedIs DEF LogInv
  <2>3. line' = line /\ made'[t] = n /\ \A u \in Threads \ {t} : made'[u] = made[u]
    BY <1>1, <1>2 DEF LogInv, Counts
  <2> QED
    BY <1>2, <1>3, <2>1, <2>2, <2>3
<1>6. PICK h : h = Handed'
  OBVIOUS
<1>7. n > Handed[t] /\ n <= h[t] /\ \A u \in Threads : h[u] \in Int /\ Handed[u] <= h[u]
  BY <1>3, <1>5, <1>6
<1>8. /\ Kept(files', name', dirs, h) /\ name' \in {base} \X (0..now)
      /\ name' # name => Carried(files, files')
      /\ name' = name /\ File(path, name, 2) \notin DOMAIN files => Carried(files, files')
  <2>1. CASE Written(<<t, n>>)
    BY <1>3, <1>7, <2>1, WriteStep
  <2>2. CASE UNCHANGED <<files, name>>
    <3>1. UpTo(files, h)
      <4> SUFFICES ASSUME NEW x \in DOMAIN files, NEW i \in DOMAIN files[x] PROVE files[x][i][2] <= h[files[x][i][1]]
        BY DEF UpTo
      <4>1. PICK m : m = files[x][i]
        OBVIOUS
      <4>2. m[1] \in Threads /\ m[2] \in Nat /\ m[2] <= Handed[m[1]]
        BY <4>1, FileIs DEF LogInv, Kept, UpTo
      <4>3. Handed[m[1]] \in Int /\ h[m[1]] \in Int /\ Handed[m[1]] <= h[m[1]]
        BY <4>2, <1>5, <1>6
      <4> QED
        BY <4>1, <4>2, <4>3
    <3> QED
      BY <2>2, <3>1 DEF LogInv, Settings, Kept, Carried
  <2> QED
    BY <1>1, <2>1, <2>2 DEF PrintLine
<1>9. Settings'
  BY <1>2, <1>8 DEF LogInv, Settings
<1>10. Kept(files', name', dirs', Handed')
  BY <1>2, <1>6, <1>8
<1> QED
  BY <1>4, <1>8, <1>9, <1>10 DEF LogInv

LEMMA LogStep == LogInv /\ [Next]_vars => LogInv'
<1> SUFFICES ASSUME LogInv, [Next]_vars PROVE LogInv'
  OBVIOUS
<1>0. /\ name \in Bases \X Nat /\ name = <<base, name[2]>> /\ name[2] \in 0..now /\ now \in Nat
      /\ Kept(files, name, dirs, Handed)
  BY LogAssumption DEF LogInv, Settings
<1>1. ASSUME NEW t \in Threads, output(t) PROVE LogInv'
  BY <1>1, OutputStep
<1>2. ASSUME NEW t \in Threads, NEW l \in Levels, Build(t, l) PROVE LogInv'
  <2>1. /\ line[t] = 0 /\ made[t] \in 0..MaxLines /\ made[t] < MaxLines
        /\ made' = [made EXCEPT ![t] = @ + 1] /\ line' = [line EXCEPT ![t] = made[t] + 1]
        /\ UNCHANGED <<files, dirs, path, base, name, level, now>>
    BY <1>2 DEF Build, Made, LogInv, Counts
  <2>2. made[t] + 1 \in 0..MaxLines /\ made[t] + 1 # 0
    BY <2>1, LogAssumption
  <2>3. Counts'
    BY <2>1, <2>2 DEF LogInv, Counts
  <2>4. Handed' = Handed
    <3> SUFFICES ASSUME NEW u \in Threads PROVE Handed'[u] = Handed[u]
      BY DEF Handed
    <3>1. Handed'[u] = IF line'[u] = 0 THEN made'[u] ELSE made'[u] - 1
      BY <2>3, LogAssumption DEF Counts, Handed
    <3>2. Handed[u] = IF line[u] = 0 THEN made[u] ELSE made[u] - 1
      BY HandedIs DEF LogInv
    <3>3. CASE u = t
      <4>1. line'[t] = made[t] + 1 /\ made'[t] = made[t] + 1
        BY <2>1 DEF LogInv, Counts
      <4> QED
        BY <2>1, <2>2, <3>1, <3>2, <3>3, <4>1
    <3>4. CASE u # t
      BY <2>1, <3>1, <3>2, <3>4 DEF LogInv, Counts
    <3> QED
      BY <3>3, <3>4
  <2> QED
    BY <2>1, <2>3, <2>4 DEF LogInv, Settings
<1>3. ASSUME NEW t \in Threads, NEW l \in Levels, NEW hasSlash \in BOOLEAN, PrintLine(t, l, hasSlash) PROVE LogInv'
  BY <1>3, PrintStep
<1>4. ASSUME NEW l \in Levels, setLogLevel(l) PROVE LogInv'
  BY <1>4 DEF setLogLevel, LogInv, Settings, Counts, Handed
<1>5. ASSUME NEW b \in Bases, setBaseLogName(b) PROVE LogInv'
  <2>1. /\ name' = <<b, now>> /\ base' = b /\ UNCHANGED <<dirs, path, level, now, line, made>>
        /\ files' = Fresh(files, path, name', dirs)
    BY <1>5 DEF setBaseLogName, getLogFileName
  <2>2. name' \in Bases \X Nat /\ name[2] <= name'[2] /\ name' \in {base'} \X (0..now')
    BY <1>0, <2>1
  <2>3. Kept(files', name', dirs, Handed)
    BY <1>0, <2>1, <2>2, FreshKept
  <2>4. Settings' /\ Counts' /\ Handed' = Handed
    BY <2>1, <2>2 DEF LogInv, Settings, Counts, Handed
  <2> QED
    BY <2>1, <2>3, <2>4 DEF LogInv
<1>6. ASSUME NEW d \in Dirs, NEW exact \in BOOLEAN, setLogPath(d, exact) PROVE LogInv'
  <2>1. /\ UNCHANGED <<base, name, level, now, line, made>> /\ files' = Fresh(files, d, name, dirs')
        /\ path' = d /\ dirs \subseteq dirs' /\ dirs' \subseteq Dirs
    BY <1>6 DEF setLogPath, LogInv, Settings
  <2>2. name[2] <= name[2]
    BY <1>0
  <2>3. Kept(files', name, dirs', Handed)
    BY <1>0, <2>1, <2>2, FreshKept
  <2>4. Settings' /\ Counts' /\ Handed' = Handed
    BY <2>1 DEF LogInv, Settings, Counts, Handed
  <2> QED
    BY <2>1, <2>3, <2>4 DEF LogInv
<1>7. CASE Tick
  <2>1. now' = now + 1 /\ now' \in 0..MaxSecond /\ UNCHANGED <<files, dirs, path, base, name, level, line, made>>
    BY <1>7, LogAssumption DEF Tick, LogInv, Settings
  <2>2. name \in {base} \X (0..now')
    BY <1>0, <2>1
  <2> QED
    BY <2>1, <2>2 DEF LogInv, Settings, Counts, Handed
<1>8. CASE UNCHANGED vars
  BY <1>8 DEF vars, LogInv, Settings, Counts, Handed
<1> QED
  BY <1>1, <1>2, <1>3, <1>4, <1>5, <1>6, <1>7, <1>8 DEF Next

LEMMA LogInvariant == Spec => []LogInv
  BY InitLog, LogStep, PTL DEF Spec

-----------------------------------------------------------------------------
(* The theorems                                                            *)

(* Type correctness: files are made only in directories that exist, under  *)
(* the names that were set, and hold lines of the threads.                 *)
THEOREM LogTyping == Spec => []TypeOK
<1>1. LogInv => TypeOK
  <2> SUFFICES ASSUME LogInv PROVE TypeOK
    OBVIOUS
  <2>1. name[2] \in 0..now /\ now \in Nat
    BY LogAssumption DEF LogInv, Settings
  <2>2. 0..name[2] \subseteq 0..now
    BY <2>1
  <2>3. DOMAIN files \subseteq dirs \X (Bases \X (0..name[2])) \X Nat /\ \A x \in DOMAIN files : files[x] \in Seq(Line)
    BY DEF LogInv, Kept, Filed
  <2>4. \A x \in DOMAIN files : x[1] \in dirs
    BY <2>3
  <2>5. DOMAIN files \subseteq Dirs \X (Bases \X (0..now)) \X Nat
    BY <2>2, <2>3 DEF LogInv, Settings
  <2> QED
    BY <2>3, <2>4, <2>5 DEF TypeOK, LogInv, Settings, Counts, Line
<1> QED
  BY <1>1, LogInvariant, PTL

(* m_file_name_ is the latest of all names on the disk (rollFile, reset,   *)
(* setBaseLogName, setLogPath).                                            *)
THEOREM NamesNotAhead == Spec => []NoNameAhead
<1>1. LogInv => NoNameAhead
  <2> SUFFICES ASSUME LogInv, NEW x \in DOMAIN files PROVE x[2][2] <= name[2]
    BY DEF NoNameAhead
  <2>1. x[2] \in Bases \X (0..name[2])
    BY FileIs DEF LogInv, Kept
  <2> QED
    BY <2>1
<1> QED
  BY <1>1, LogInvariant, PTL

(* The lines of a thread stand in the files in the order the thread made   *)
(* them, whoever wrote, rolled or renamed in between (RsLogger, trace and  *)
(* the others, rollFile).                                                  *)
THEOREM LinesInOrder == Spec => []ThreadOrder
<1>1. LogInv => ThreadOrder
  BY DEF LogInv, Kept, InOrder, ThreadOrder
<1> QED
  BY <1>1, LogInvariant, PTL

(* What a step that makes or hands over a line carries over.               *)
LEMMA LineStep ==
  ASSUME LogInv, [Next]_vars, made' # made \/ line' # line
  PROVE  /\ name' # name => Carried(files, files')
         /\ name' = name /\ File(path, name, 2) \notin DOMAIN files => Carried(files, files')
<1>1. ASSUME NEW t \in Threads, NEW l \in Levels, Build(t, l) PROVE files' = files /\ name' = name
  BY <1>1 DEF Build
<1>2. files' = files => Carried(files, files')
  BY DEF Carried
<1> QED
  BY <1>1, <1>2, OutputStep, PrintStep DEF Next, setLogLevel, setBaseLogName, setLogPath, Tick, vars

(* rollFile's reset with "w+" into a new second empties no file that has   *)
(* lines, whatever was set and rolled before.                              *)
THEOREM NewSecondLosesNothing == Spec => NewSecondKeepsLines
<1> DEFINE Keeps == name' # name /\ (made' # made \/ line' # line) => Lines(files) \subseteq Lines(files')
<1>1. LogInv /\ [Next]_vars => [Keeps]_vars
  BY LineStep, CarriedLines
<1> QED
  BY <1>1, LogInvariant, PTL DEF Spec, NewSecondKeepsLines

(* The first two rolls within a second take no line from the disk, however *)
(* many files of the name, and of others, there are (rollFile).            *)
THEOREM TwoRollsLoseNothing == Spec => TwoRollsKeepLines
<1> DEFINE Keeps == /\ name' = name /\ (made' # made \/ line' # line)
                    /\ File(path, name, 2) \notin DOMAIN files
                    => Lines(files) \subseteq Lines(files')
<1>1. LogInv /\ [Next]_vars => [Keeps]_vars
  BY LineStep, CarriedLines
<1> QED
  BY <1>1, LogInvariant, PTL DEF Spec, TwoRollsKeepLines

=============================================================================
