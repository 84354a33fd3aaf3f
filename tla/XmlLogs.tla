------------------------------ MODULE XmlLogs ------------------------------
(***************************************************************************)
(* The two XML logs of the R2Lab window (dialog.cpp): the circle's places  *)
(* and the motion's rates.  A log has a path, a QFile that is opened and   *)
(* closed around every write, a QXmlStreamWriter that remembers which      *)
(* elements it has begun, and a counter: the tick that finds it at zero    *)
(* writes the document's header, every later tick one entry.  Browse and   *)
(* the two "Log" buttons act on the file between ticks, and the files stay *)
(* when the program is started again.                                      *)
(*                                                                         *)
(* A file is the sequence of what was written to it.  The text of an entry *)
(* is its index; indentation and line ends are left out.                   *)
(***************************************************************************)
EXTENDS Integers, SequencesExt

CONSTANTS
  Paths,        (* what a file may be called                               *)
  Writable,     (* those that can be opened for writing                    *)
  CirclePath,   (* the paths the two logs start with                       *)
  MotionPath,
  NoName,       (* the empty name a cancelled Browse answers               *)
  MaxTicks,     (* bound on the ticks of a log in one run of the program   *)
  MaxRuns,      (* bound on the runs of the program                        *)
  MaxClicks     (* bound on what the operator does                         *)

Circle == "circle"
Motion == "motion"
Logs == {Circle, Motion}
DefaultPath == [l \in Logs |-> IF l = Circle THEN CirclePath ELSE MotionPath]

ASSUME PathsAssumption ==
  /\ Writable \subseteq Paths
  /\ {CirclePath, MotionPath} \subseteq Paths
  /\ NoName \notin Paths
ASSUME LogBoundsAssumption == MaxTicks \in Nat /\ MaxRuns \in Nat \ {0} /\ MaxClicks \in Nat

VARIABLES
  files,     (* files[p]: what is in the file called p                     *)
  path,      (* circleXmlPath, motionXmlPath                               *)
  file,      (* fileName() of circleXmlFile, motionXmlFile                 *)
  counter,   (* circleXmlCounter, motionXmlCounter                         *)
  writer,    (* the stream writer: "idle" without a device, "started" with *)
             (*   the root's tag unclosed, "inside" the root or "ended"    *)
  run,       (* the run of the program                                     *)
  clicks,    (* operator actions so far; bounded by MaxClicks              *)
  intact,    (* history: since the log's header nothing but its own ticks  *)
             (*   and one Complete touched its file or its name            *)
  begun,     (* history: logs whose header was written in this run         *)
  headless   (* history: files reset, or given to a log that had begun     *)

memoryVars == <<path, file, counter, writer>>
vars == <<files, memoryVars, run, clicks, intact, begun, headless>>

Token(l, kind, index) == [log |-> l, run |-> run, kind |-> kind, index |-> index]

Opens(name) == name \in Writable

Init ==
  /\ files = [p \in Paths |-> <<>>]
  /\ path = DefaultPath
  /\ file = [l \in Logs |-> NoName]
  /\ counter = [l \in Logs |-> 0]
  /\ writer = [l \in Logs |-> "idle"]
  /\ run = 1
  /\ clicks = 0
  /\ intact = [l \in Logs |-> FALSE]
  /\ begun = {} /\ headless = {}

---------------------------------------------------------------------------
(* What the timers do.                                                     *)

\* The text goes to the end of the file called name, which leaves the other
\* log's document intact only if that is another file; kept tells whether it
\* leaves l's own so.
AppendTo(name, l, text, kept) ==
  /\ files' = [files EXCEPT ![name] = @ \o text]
  /\ intact' = [m \in Logs |-> IF m = l THEN kept ELSE intact[m] /\ file[m] # name]

\* Only the circle's log names its file here: the motion's has a name once
\* Browse or Reset gave it one.
HeaderName(l) == IF l = Circle THEN path[l] ELSE file[l]

DeviceWithoutFile(l) ==                                   \* mutant
  /\ writer' = [writer EXCEPT ![l] = "started"]
  /\ IF Opens(HeaderName(l))
     THEN AppendTo(HeaderName(l), l, <<Token(l, "header", 0)>>, TRUE)
     ELSE UNCHANGED <<files, intact>>
WriteHeader(l) ==
  IF Opens(HeaderName(l))
  THEN /\ writer' = [writer EXCEPT ![l] = "started"]
       /\ AppendTo(HeaderName(l), l, <<Token(l, "header", 0)>>, TRUE)
  ELSE UNCHANGED <<writer, files, intact>>

HeaderTick(l) ==
  /\ counter[l] = 0
  /\ file' = [file EXCEPT ![l] = HeaderName(l)]
  /\ WriteHeader(l)
  /\ begun' = begun \cup (IF Opens(HeaderName(l)) THEN {l} ELSE {})

\* The first thing written in the root closes its tag.
Closing(l) == IF writer[l] = "started" THEN <<Token(l, "close", 0)>> ELSE <<>>

\* A writer without a device drops what it is given.
EntryTick(l) ==
  /\ counter[l] > 0
  /\ IF Opens(file[l]) /\ writer[l] # "idle"
     THEN /\ AppendTo(file[l], l, Append(Closing(l), Token(l, "entry", counter[l])),
                      intact[l] /\ writer[l] # "ended")
          /\ writer' = [writer EXCEPT ![l] = IF @ = "started" THEN "inside" ELSE @]
     ELSE UNCHANGED <<files, writer, intact>>
  /\ UNCHANGED <<file, begun>>

CountTwice(l) == counter' = [counter EXCEPT ![l] = @ + 2]   \* mutant
CountWithDevice(l) ==                                     \* mutant
  counter' = [counter EXCEPT ![l] = IF writer[l] = "idle" THEN @ ELSE @ + 1]
CountTick(l) == counter' = [counter EXCEPT ![l] = @ + 1]

\* circleXmlAppendingFunction and motionXmlAppendingFunction.
Tick(l) ==
  /\ counter[l] < MaxTicks
  /\ HeaderTick(l) \/ EntryTick(l)
  /\ CountTick(l)
  /\ UNCHANGED <<path, run, clicks, headless>>

---------------------------------------------------------------------------
(* What the operator does.                                                 *)

Click == clicks < MaxClicks /\ clicks' = clicks + 1

\* Browse, answering p or cancelled, also in the middle of a log.
Browse(l, p) ==
  /\ Click
  /\ path' = [path EXCEPT ![l] = p]
  /\ file' = [file EXCEPT ![l] = p]
  /\ intact' = [intact EXCEPT ![l] = FALSE]
  /\ headless' = headless \cup (IF l \in begun THEN {p} ELSE {})
  /\ UNCHANGED <<files, counter, writer, run, begun>>

\* "Complete Log" ends the root, if it was begun; timers are in CameraPanel.
Ending(l) ==
  IF writer[l] = "started" THEN <<Token(l, "empty", 0)>>
  ELSE IF writer[l] = "inside" THEN <<Token(l, "end", 0)>>
  ELSE <<>>

RootKept(l) == UNCHANGED writer                           \* mutant
EndRoot(l) == writer' = [writer EXCEPT ![l] = IF @ = "idle" THEN @ ELSE "ended"]

Complete(l) ==
  /\ Click
  /\ IF Opens(file[l])
     THEN EndRoot(l) /\ AppendTo(file[l], l, Ending(l), intact[l])
     ELSE UNCHANGED <<files, writer, intact>>
  /\ UNCHANGED <<path, file, counter, run, begun, headless>>

\* "Reset Log" empties the file and leaves counter and writer as they are.  The
\* button of the motion's log, too, names the circle's path.
ResetName(l) == path[Circle]

Reset(l) ==
  LET name == ResetName(l) IN
  /\ Click
  /\ file' = [file EXCEPT ![l] = name]
  /\ files' = [p \in Paths |-> IF p = name /\ Opens(name) THEN <<>> ELSE files[p]]
  /\ intact' = [m \in Logs |-> intact[m] /\ m # l /\ file[m] # name]
  /\ headless' = headless \cup {name}
  /\ UNCHANGED <<path, counter, writer, run, begun>>

\* The program ends, or crashes, and is started again.
Restart ==
  /\ run < MaxRuns
  /\ run' = run + 1
  /\ path' = DefaultPath
  /\ file' = [l \in Logs |-> NoName]
  /\ counter' = [l \in Logs |-> 0]
  /\ writer' = [l \in Logs |-> "idle"]
  /\ intact' = [l \in Logs |-> FALSE]
  /\ begun' = {}
  /\ UNCHANGED <<files, clicks, headless>>

Next ==
  \/ \E l \in Logs : Tick(l) \/ Complete(l) \/ Reset(l)
  \/ \E l \in Logs, p \in Paths \cup {NoName} : Browse(l, p)
  \/ Restart

Spec == Init /\ [][Next]_vars

---------------------------------------------------------------------------
(* Properties.                                                             *)

Kinds == {"header", "close", "entry", "empty", "end"}
Tokens == [log : Logs, run : 1 .. MaxRuns, kind : Kinds, index : 0 .. MaxTicks]

TypeOK ==
  /\ files \in [Paths -> Seq(Tokens)]
  /\ path \in [Logs -> Paths \cup {NoName}]
  /\ file \in [Logs -> Paths \cup {NoName}]
  /\ counter \in [Logs -> 0 .. MaxTicks]
  /\ writer \in [Logs -> {"idle", "started", "inside", "ended"}]
  /\ run \in 1 .. MaxRuns
  /\ clicks \in 0 .. MaxClicks
  /\ intact \in [Logs -> BOOLEAN]
  /\ begun \subseteq Logs
  /\ headless \subseteq Paths \cup {NoName}

\* A log's document with its first n entries, its root still open.
Opened(l) == <<Token(l, "header", 0)>>
Entries(l, n) == [k \in 1 .. n |-> Token(l, "entry", k)]
Body(l, n) == Opened(l) \o <<Token(l, "close", 0)>> \o Entries(l, n)

FileEndsWith(l, document) == IsSuffix(document, files[file[l]])

\* What its writer takes a log's file to end with.
DocumentOK(l) ==
  /\ writer[l] # "idle"
  /\ writer[l] = "started" => FileEndsWith(l, Opened(l))
  /\ writer[l] = "inside" => FileEndsWith(l, Body(l, counter[l] - 1))
  /\ writer[l] = "ended" =>
       \/ FileEndsWith(l, Append(Opened(l), Token(l, "empty", 0)))
       \/ FileEndsWith(l, Append(Body(l, counter[l] - 1), Token(l, "end", 0)))

\* As long as nobody renames or resets a log's file or logs to the same one,
\* the file ends with the whole document of this run: every measurement but
\* the first has its entry, none is missing, doubled or out of order, and once
\* completed the document is closed.
IntactLog == \A l \in Logs : intact[l] => DocumentOK(l)

\* What is written of one log in one run is in the order of its ticks in every
\* file, and nothing is written twice, however its files are renamed, reset,
\* shared or carried over to the next run.
Stamped(t) == t.kind \in {"header", "entry"}
Before(s, t) == s.run < t.run \/ (s.run = t.run /\ s.index < t.index)
EntriesInOrder ==
  /\ \A p \in Paths : \A i, j \in DOMAIN files[p] :
       /\ i < j /\ files[p][i].log = files[p][j].log
       /\ Stamped(files[p][i]) /\ Stamped(files[p][j])
       => Before(files[p][i], files[p][j])
  /\ \A p, q \in Paths : \A i \in DOMAIN files[p], j \in DOMAIN files[q] :
       p # q /\ Stamped(files[p][i]) => files[p][i] # files[q][j]

\* A file begins with a header unless it was reset or given to a log that had
\* begun in another: a log whose header could not be written stays silent in
\* that run, whatever name it is given later.
BeginsWithHeader ==
  \A p \in Paths \ headless : files[p] # <<>> => files[p][1].kind = "header"

---------------------------------------------------------------------------
\* "Reset Log" (dialog.ui:2368) on the motion's tab resets the motion's log:
\* the circle's, in another file, is left alone.
ResetSparesOtherLog ==
  [][Reset(Motion) /\ path[Motion] # path[Circle] =>
       UNCHANGED files[path[Circle]]]_vars
=============================================================================
