------------------------------- MODULE LogFile --------------------------------
(***************************************************************************)
(* The log of the process: the singleton RsLog (logger/rslog.cpp), which   *)
(* all threads write to through RSLOG_x << ... (logger/rslogging.h) and    *)
(* LOG_x_F, and the files it keeps.  A file's name holds the second in     *)
(* which it was made; a file that has grown to MAX_LOG_SIZE is left, under *)
(* its name when the second has changed and under a number otherwise.      *)
(* Everything under mutex_ is one action.  A line is the thread that made  *)
(* it and its number among that thread's lines; sizes count lines, the     *)
(* title not.  clearExpiredLogs is called by nobody.                       *)
(***************************************************************************)
EXTENDS Integers, Sequences, FiniteSetsExt

CONSTANTS
  Threads,   \* threads that log
  Dirs,      \* directories the application sets
  Home,      \* the directory of the constructor, $HOME/.config/<program>/log
  Bases,     \* names the application sets
  Default,   \* DEFAULT_FILE_NAME_PREFIXX
  Levels,    \* numbers of the levels used
  Warn,      \* the number of RS_LOG_WARN
  MaxSize,   \* MAX_LOG_SIZE
  MaxSecond, \* bound on the clock, for TLC
  MaxLines   \* bound on the lines of a thread, for TLC

ASSUME LogAssumption ==
  /\ Home \in Dirs /\ Default \in Bases
  /\ Levels \subseteq Int /\ Warn \in Levels
  /\ MaxSize \in Nat \ {0} /\ MaxSecond \in Nat /\ MaxLines \in Nat

VARIABLES
  files,     \* what is on the disk: name |-> the lines
  dirs,      \* the directories that exist
  path,      \* m_log_path_
  base,      \* m_base_file_name_
  name,      \* m_file_name_: base name and second
  level,     \* log_level_
  now,       \* the second of the clock, which does not go back
  line,      \* the line a thread is building with RSLOG_x, its level, or 0
  made       \* how many lines a thread has made

vars == <<files, dirs, path, base, name, level, now, line, made>>

File(d, f, n) == <<d, f, n>>
Put(fs, x, ls) == [y \in DOMAIN fs \cup {x} |-> IF y = x THEN ls ELSE fs[y]]

getLogFileName(b) == <<b, now>>

is_loggable(l) == level <= l

(* reset: "w+" makes the file empty or does nothing without the directory. *)
Fresh(fs, d, f, ds) == IF d \in ds THEN Put(fs, File(d, f, 0), <<>>) ELSE fs

Init ==
  /\ now = 0 /\ path = Home /\ base = Default /\ name = getLogFileName(Default)
  /\ dirs \in {{}, {Home}}
  /\ files = Fresh(<<>>, Home, name, dirs)
  /\ level = Warn
  /\ line = [t \in Threads |-> 0] /\ made = [t \in Threads |-> 0]

-----------------------------------------------------------------------------
(* Writing                                                                 *)

FreeNumber(fs) == Min({k \in 1..Cardinality(DOMAIN fs) + 1 : File(path, name, k) \notin DOMAIN fs})

(* Mutant: the full file gets the free number itself.                      *)
RolledLast(fs) ==
  LET id == FreeNumber(fs)
      Moved == (DOMAIN fs \ {File(path, name, 0)}) \cup {File(path, name, id)}
  IN  [x \in Moved |-> IF x = File(path, name, id) THEN fs[File(path, name, 0)] ELSE fs[x]]

(* Mutant: number 1 is not moved away before it is replaced.               *)
RolledOver(fs) ==
  LET Moved == (DOMAIN fs \ {File(path, name, 0)}) \cup {File(path, name, 1)}
  IN  [x \in Moved |-> IF x = File(path, name, 1) THEN fs[File(path, name, 0)] ELSE fs[x]]

(* The last numbered file gets the free number, number 1 is removed, and   *)
(* the full file becomes number 1.  All turns of the rename loop use       *)
(* lastID, so that only the first one renames anything.                    *)
Rolled(fs) ==
  LET id == FreeNumber(fs)
      Moved == (DOMAIN fs \ {File(path, name, id - 1), File(path, name, 0)})
                 \cup {File(path, name, id), File(path, name, 1)}
  IN  [x \in Moved |->
         CASE x = File(path, name, 1) -> fs[File(path, name, 0)]
           [] x = File(path, name, id) /\ id > 1 -> fs[File(path, name, id - 1)]
           [] OTHER -> fs[x]]

(* Mutant: the file of the new second is not the one that is emptied.      *)
rollFileStale(fs) ==
  IF Len(fs[File(path, name, 0)]) < MaxSize
  THEN files' = fs /\ UNCHANGED name
  ELSE /\ name' = getLogFileName(base)
       /\ files' = Fresh(IF name' = name THEN Rolled(fs) ELSE fs, path, name, dirs)

rollFile(fs) ==
  IF Len(fs[File(path, name, 0)]) < MaxSize
  THEN files' = fs /\ UNCHANGED name
  ELSE /\ name' = getLogFileName(base)
       /\ files' = Fresh(IF name' = name THEN Rolled(fs) ELSE fs, path, name', dirs)

(* Mutant: that fopen failed is not noticed.                               *)
WrittenUnchecked(l) ==
  LET x == File(path, name, 0)
      old == IF x \in DOMAIN files THEN files[x] ELSE <<>>
  IN  rollFile(Put(files, x, Append(old, l)))

(* fopen(.., "a"), the line, and rollFile.                                 *)
Written(l) ==
  LET x == File(path, name, 0)
      old == IF x \in DOMAIN files THEN files[x] ELSE <<>>
  IN  IF path \in dirs THEN rollFile(Put(files, x, Append(old, l)))
                       ELSE UNCHANGED <<files, name>>

Made(t) == made[t] < MaxLines /\ made' = [made EXCEPT ![t] = @ + 1]

(* The lines of RSLOG_x: the level is looked at, without mutex_, by the    *)
(* macros below WARN only, and the line is put together ...                *)
Build(t, l) ==
  /\ line[t] = 0 /\ (l >= Warn \/ is_loggable(l))
  /\ Made(t)
  /\ line' = [line EXCEPT ![t] = made'[t]]
  /\ UNCHANGED <<files, dirs, path, base, name, level, now>>

(* ... and handed over by ~RsLogger.                                       *)
output(t) ==
  /\ line[t] # 0
  /\ Written(<<t, line[t]>>)
  /\ line' = [line EXCEPT ![t] = 0]
  /\ UNCHANGED <<dirs, path, base, level, now, made>>

(* trace, debug, info, warn, error, fatal of the macros LOG_x_F: from WARN *)
(* on func is null, and file is for a __FILE__ without a '/' (hasSlash);   *)
(* sprintf returns at once for both.                                       *)
PrintLine(t, l, hasSlash) ==
  /\ line[t] = 0 /\ Made(t)
  /\ IF is_loggable(l) /\ l < Warn /\ hasSlash
     THEN Written(<<t, made'[t]>>)
     ELSE UNCHANGED <<files, name>>
  /\ UNCHANGED <<dirs, path, base, level, now, line>>

-----------------------------------------------------------------------------
(* Settings                                                                *)

setLogLevel(l) ==
  /\ level' = l
  /\ UNCHANGED <<files, dirs, path, base, name, now, line, made>>

setBaseLogName(b) ==
  /\ base' = b /\ name' = getLogFileName(b)
  /\ files' = Fresh(files, path, name', dirs)
  /\ UNCHANGED <<dirs, path, level, now, line, made>>

(* The path is compared as it is spelt and kept as mkdir went through it,  *)
(* without a last '/': exact is FALSE for another spelling.  mkdir may     *)
(* fail.  Comparison and mkdir come before the mutex; this is the moment   *)
(* of the assignment under it.  A comparison that another thread's call    *)
(* has made stale since leads to a second setting of the same path, as     *)
(* another spelling does.                                                  *)
setLogPath(d, exact) ==
  /\ d # path \/ ~exact
  /\ path' = d
  /\ dirs' \in {dirs, dirs \cup {d}}
  /\ files' = Fresh(files, d, name, dirs')
  /\ UNCHANGED <<base, name, level, now, line, made>>

Tick ==
  /\ now < MaxSecond /\ now' = now + 1
  /\ UNCHANGED <<files, dirs, path, base, name, level, line, made>>

Next ==
  \/ \E t \in Threads :
       \/ output(t)
       \/ \E l \in Levels : Build(t, l) \/ \E hasSlash \in BOOLEAN : PrintLine(t, l, hasSlash)
  \/ \E l \in Levels : setLogLevel(l)
  \/ \E b \in Bases : setBaseLogName(b)
  \/ \E d \in Dirs, exact \in BOOLEAN : setLogPath(d, exact)
  \/ Tick

Spec == Init /\ [][Next]_vars

-----------------------------------------------------------------------------
(* Properties                                                              *)

TypeOK ==
  /\ DOMAIN files \subseteq Dirs \X (Bases \X (0..now)) \X Nat
  /\ \A x \in DOMAIN files : files[x] \in Seq(Threads \X (1..MaxLines)) /\ x[1] \in dirs
  /\ path \in Dirs /\ dirs \subseteq Dirs /\ base \in Bases
  /\ name \in {base} \X (0..now) /\ now \in 0..MaxSecond
  /\ level \in Levels
  /\ line \in [Threads -> 0..MaxLines] /\ made \in [Threads -> 0..MaxLines]

(* No file of a later second than m_file_name_ exists: why a new name is   *)
(* never the name of a file that has lines.                                *)
NoNameAhead == \A x \in DOMAIN files : x[2][2] <= name[2]

Older(x, y) ==
  /\ x[1] = y[1] /\ x[2][1] = y[2][1]
  /\ x[2][2] < y[2][2] \/ (x[2] = y[2] /\ x[3] > y[3])

(* The lines of a thread stand in the files in the order the thread made   *)
(* them, read from the oldest file to the newest, whoever wrote, rolled or *)
(* renamed in between.                                                     *)
ThreadOrder ==
  \A x, y \in DOMAIN files : \A i \in DOMAIN files[x], j \in DOMAIN files[y] :
    /\ (x = y /\ i < j) \/ Older(x, y)
    /\ files[x][i][1] = files[y][j][1]
    => files[x][i][2] < files[y][j][2]

Lines(fs) == UNION {{fs[x][i] : i \in DOMAIN fs[x]} : x \in DOMAIN fs}

(* A line that rolls the log into a new second leaves every older line on  *)
(* the disk: reset opens the new name with "w+", which would empty it.     *)
NewSecondKeepsLines ==
  [][name' # name /\ (made' # made \/ line' # line) => Lines(files) \subseteq Lines(files')]_vars

(* "Find the next available name" (rslog.cpp:654): rolling twice within a  *)
(* second, into .1 and .2, takes no line from the disk.  (A third roll     *)
(* takes the newest full file.)                                            *)
TwoRollsKeepLines ==
  [][/\ name' = name /\ (made' # made \/ line' # line)
     /\ File(path, name, 2) \notin DOMAIN files
     => Lines(files) \subseteq Lines(files')]_vars

=============================================================================
