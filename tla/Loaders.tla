------------------------------- MODULE Loaders -------------------------------
(***************************************************************************)
(* The two PeriodicPollers that feed the scheduling loop: FileConfigLoader,  *)
(* which watches the configuration file, and NodesLoader, which fetches the  *)
(* nodes of whatever configuration the other one serves.  Each refreshes in  *)
(* a thread of its own; the file is written by others, not always in one     *)
(* step and not always with a new modification time.                        *)
(***************************************************************************)
EXTENDS NodeFetching

CONSTANTS
  Unparsable,  \* contents that parseConfigFile throws on: a torn write, no file
  Absent,      \* there is no file
  NoData,      \* Result: an exception instead of data
  MaxTime, MaxWrites,  \* bounds
  MaxOddWrites         \* bounds the torn and the moved ones

VARIABLES
  now,          \* the clock of the file system, in seconds
  file,         \* [content, mtime]
  cfgPoller,    \* [phase, served, seen]: seen is modificationTime_
  nodesPoller,  \* [phase, served, using]: using is the configuration it read
  newest,       \* the newest modification time the file ever had
  fresh,        \* every change of the file so far was given a newer time
  writes, odd   \* number of changes of the file, and of odd ones

fileVars == <<file, newest, fresh, writes, odd>>
loaderVars == <<now, fileVars, cfgPoller, nodesPoller>>

ASSUME ContentsAssumption ==
  /\ Unparsable \notin Contents /\ Absent \notin Contents /\ NoData \notin Contents

Parse(content) == IF content \in Contents THEN content ELSE NoData

\* What RunFetchers may publish; the Result of a failed fetch is an exception.
FetchedFrom(c) == {IF nodes = FetchError THEN NoData ELSE nodes : nodes \in MayBeFetchedFrom(c)}

\* Both constructors refresh once; NodesLoader is made after ConfigLoader.
LoadersInit ==
  /\ now = 1
  /\ \E c \in Contents : file = [content |-> c, mtime |-> 1]
  /\ cfgPoller = [phase |-> "idle", served |-> file.content, seen |-> 1]
  /\ \E nodes \in FetchedFrom(file.content) :
       nodesPoller = [phase |-> "idle", served |-> nodes, using |-> file.content]
  /\ newest = 1 /\ fresh = TRUE /\ writes = 0 /\ odd = 0

-----------------------------------------------------------------------------
(* The file *)

ChangeFile(content, mtime) ==
  /\ writes < MaxWrites
  /\ writes' = writes + 1
  /\ file' = [content |-> content, mtime |-> mtime]
  /\ fresh' = (fresh /\ mtime > newest)
  /\ newest' = Max({newest, mtime})
  /\ UNCHANGED <<now, cfgPoller, nodesPoller>>

OddChange == odd < MaxOddWrites /\ odd' = odd + 1

WriteFile(c) == ChangeFile(c, now) /\ UNCHANGED odd
\* An editor truncates the file before it writes it.
TruncateFile == OddChange /\ ChangeFile(Unparsable, now)
\* A file that is moved into place keeps its modification time.
MoveFile(c, mtime) == OddChange /\ mtime < now /\ ChangeFile(c, mtime)

RemoveFile ==
  /\ OddChange
  /\ file.content # Absent
  /\ file' = [file EXCEPT !.content = Absent]
  /\ UNCHANGED <<now, newest, fresh, writes, cfgPoller, nodesPoller>>

\* One tick of the clock
LoadersTick ==
  /\ now < MaxTime
  /\ now' = now + 1
  /\ UNCHANGED <<fileVars, cfgPoller, nodesPoller>>

-----------------------------------------------------------------------------
(* FileConfigLoader.  last_write_time and the read of the file are two steps. *)

\* Mutant of CheckFile: it notes when it looked, not what it saw.
CheckFileAtNow ==
  /\ cfgPoller.phase = "idle"
  /\ cfgPoller' =
       IF file.content = Absent
       THEN [phase |-> "idle", served |-> NoData, seen |-> 0]
       ELSE IF cfgPoller.seen >= file.mtime THEN cfgPoller
       ELSE [cfgPoller EXCEPT !.phase = "read", !.seen = now]
  /\ UNCHANGED <<now, fileVars, nodesPoller>>

\* Mutant of CheckFile: a file that is one second newer is not read.
CheckFileCoarsely ==
  /\ cfgPoller.phase = "idle"
  /\ cfgPoller' =
       IF file.content = Absent
       THEN [phase |-> "idle", served |-> NoData, seen |-> 0]
       ELSE IF cfgPoller.seen + 1 >= file.mtime THEN cfgPoller
       ELSE [cfgPoller EXCEPT !.phase = "read", !.seen = file.mtime]
  /\ UNCHANGED <<now, fileVars, nodesPoller>>

\* A file that is not there throws, and that resets the state of the poller.
CheckFile ==
  /\ cfgPoller.phase = "idle"
  /\ cfgPoller' =
       IF file.content = Absent
       THEN [phase |-> "idle", served |-> NoData, seen |-> 0]
       ELSE IF cfgPoller.seen >= file.mtime THEN cfgPoller
       ELSE [cfgPoller EXCEPT !.phase = "read", !.seen = file.mtime]
  /\ UNCHANGED <<now, fileVars, nodesPoller>>

\* Reading a file that is gone yields nothing and does not throw; parsing what
\* was read does, and that keeps the state of the poller.
ReadFile ==
  /\ cfgPoller.phase = "read"
  /\ cfgPoller' = [cfgPoller EXCEPT !.phase = "idle", !.served = Parse(file.content)]
  /\ UNCHANGED <<now, fileVars, nodesPoller>>

-----------------------------------------------------------------------------
(* NodesLoader reads the configuration, and then runs the fetchers.          *)

ReadConfig ==
  /\ nodesPoller.phase = "idle"
  /\ nodesPoller' =
       IF cfgPoller.served = NoData THEN [nodesPoller EXCEPT !.served = NoData]
       ELSE [nodesPoller EXCEPT !.phase = "fetch", !.using = cfgPoller.served]
  /\ UNCHANGED <<now, fileVars, cfgPoller>>

RunFetchers ==
  /\ nodesPoller.phase = "fetch"
  /\ \E nodes \in FetchedFrom(nodesPoller.using) :
       nodesPoller' = [nodesPoller EXCEPT !.phase = "idle", !.served = nodes]
  /\ UNCHANGED <<now, fileVars, cfgPoller>>

LoadersNext ==
  \/ TruncateFile \/ RemoveFile
  \/ \E c \in Contents : WriteFile(c)
  \/ \E c \in Contents, m \in 1..now : MoveFile(c, m)
  \/ LoadersTick
  \/ CheckFile \/ ReadFile
  \/ ReadConfig \/ RunFetchers

\* The pollers' threads run for as long as the scheduler does.
LoadersSpec ==
  /\ LoadersInit /\ [][LoadersNext]_loaderVars
  /\ WF_loaderVars(CheckFile) /\ WF_loaderVars(ReadFile)
  /\ WF_loaderVars(ReadConfig) /\ WF_loaderVars(RunFetchers)

-----------------------------------------------------------------------------
(* As long as every change of the configuration file gets a newer          *)
(* modification time, a config poller that believes it has read the file     *)
(* (FileConfigLoader compares modification times) serves what the file says, *)
(* an exception if it does not parse.                                       *)
ServedConfigIsCurrent ==
  (fresh /\ file.content # Absent /\ cfgPoller.phase = "idle" /\ cfgPoller.seen = file.mtime)
    => cfgPoller.served = Parse(file.content)

(* Under the same proviso the loop gets to see the last contents of the      *)
(* file, and the nodes that these contents define.                           *)
LoadersCatchUp ==
  <>[](fresh => /\ cfgPoller.served = Parse(file.content)
                /\ file.content \in Contents =>
                     nodesPoller.served \in FetchedFrom(file.content))
=============================================================================
