------------------------------- MODULE Session ------------------------------
(***************************************************************************)
(* Processes of the program that share config.txt and records.txt: what    *)
(* main (main.cpp) reads at the start, the commands of source/App.cpp, the *)
(* lists of TranslateRecorder, and the saves, with processes that run one  *)
(* after the other or at the same time and may crash anywhere.  multiRun   *)
(* is here a push of its records and one send after the other; module      *)
(* Transfer has its threads.                                               *)
(***************************************************************************)
EXTENDS Launcher

CONSTANTS
  Procs,     \* the processes
  Lines,     \* the command lines that the processes may get
  Ids,       \* the ids that the clock can yield
  Existing   \* the files that exist

ASSUME LinesAssumption == Lines \subseteq [Procs -> Seq(STRING)]

VARIABLES
  files,    \* "config" and "records" to their contents
  argv,     \* each process to its command line
  pc,       \* "new", "config", "records", "start", "run", "send", "open",
            \* "write", "over" or "dead"
  todo,     \* the commands that Start still has to run
  nicks,    \* nickNames
  undone, done,   \* the recorder's lists
  needRem,  \* need_rem
  port,     \* the static port
  batch,    \* the translators of multiRun that are not sent
  saving,   \* the file that is being saved
  asked,    \* how often the process asked for the shutdown
  ran,      \* the commands that have run, with their arguments
  overlap,  \* two processes have run at the same time
  pushed,   \* the ids that the process has pushed
  loaded    \* the records that it has read

vars == <<files, argv, pc, todo, nicks, undone, done, needRem, port, batch,
          saving, asked, ran, pushed, loaded, overlap>>
lists == <<undone, done, pushed, loaded>>


NoLists == [undone |-> <<>>, done |-> <<>>]
NoNicks == {}
Nothing(f) == IF f = "config" THEN NoNicks ELSE NoLists

\* A file is absent, "empty" (truncated), "cut" in a write, or "whole".
File(s, c) == [state |-> s, content |-> c]

\* What >> makes of a word with a blank in it.
Squeeze(w) == IF w = "b c" THEN "bc" ELSE w
Reread(s) == [i \in DOMAIN s |-> [s[i] EXCEPT !.path = Squeeze(@)]]

Init ==
  /\ files = [f \in {"config", "records"} |-> File("absent", Nothing(f))]
  /\ argv \in Lines
  /\ pc = [p \in Procs |-> "new"]
  /\ todo = [p \in Procs |-> <<>>]
  /\ nicks = [p \in Procs |-> NoNicks]
  /\ undone = [p \in Procs |-> <<>>] /\ done = [p \in Procs |-> <<>>]
  /\ needRem = [p \in Procs |-> FALSE]
  /\ port = [p \in Procs |-> "1997"]
  /\ batch = [p \in Procs |-> <<>>]
  /\ saving = [p \in Procs |-> "config"]
  /\ asked = [p \in Procs |-> 0]
  /\ ran = [p \in Procs |-> <<>>]
  /\ pushed = [p \in Procs |-> <<>>]
  /\ loaded = [p \in Procs |-> NoLists]
  /\ overlap = FALSE

Goto(p, l) == pc' = [pc EXCEPT ![p] = l]

-----------------------------------------------------------------------------
(* The files *)

\* What readJsonFromFile and the parser find.  A cut text does not parse, but
\* the last word counts twice when a blank follows it, which can close the text;
\* an empty file leaves the buffer uninitialised.
Content(f) ==
  CASE files[f].state \in {"absent", "empty"} -> {Nothing(f)}
    [] files[f].state = "cut" -> {Nothing(f), files[f].content}
    [] OTHER -> {files[f].content}

Launch(p) ==
  /\ pc[p] = "new"
  /\ Goto(p, "config")
  /\ overlap' = (overlap \/ \E q \in Procs \ {p} : pc[q] \notin {"new", "over", "dead"})
  /\ UNCHANGED <<argv, files, todo, nicks, lists, needRem, port, batch, saving, asked, ran>>

\* readConfig
ReadConfig(p) ==
  /\ pc[p] = "config"
  /\ \E c \in Content("config") : nicks' = [nicks EXCEPT ![p] = c]
  /\ Goto(p, "records")
  /\ UNCHANGED <<files, todo, lists, needRem, port, batch, saving, asked, ran>>

\* readRecord, import and toObject
ReadRecord(p) ==
  /\ pc[p] = "records"
  /\ \E c \in Content("records") :
       /\ undone' = [undone EXCEPT ![p] = @ \o Reread(c.undone)]
       /\ done' = [done EXCEPT ![p] = @ \o Reread(c.done)]
       /\ loaded' = [loaded EXCEPT ![p] =
                      [undone |-> Reread(c.undone), done |-> Reread(c.done)]]
  /\ Goto(p, "start")
  /\ UNCHANGED <<files, todo, nicks, needRem, port, batch, saving, asked, ran, pushed>>

\* The uninitialised buffer has no end within the process's memory.
ReadFaults(p) ==
  /\ \/ pc[p] = "config" /\ files["config"].state = "empty"
     \/ pc[p] = "records" /\ files["records"].state = "empty"
  /\ Goto(p, "dead")
  /\ UNCHANGED <<files, todo, nicks, lists, needRem, port, batch, saving, asked, ran>>

\* writeToFile opens the file, which truncates it ...
OpenForWrite(p) ==
  /\ pc[p] = "open"
  /\ files' = [files EXCEPT ![saving[p]].state = "empty"]
  /\ Goto(p, "write")
  /\ UNCHANGED <<todo, nicks, lists, needRem, port, batch, saving, asked, ran>>

\* Mutated output: only the records of this process.
OutputPushed(p) ==
  LET Pushed(r) == Contains(pushed[p], r.id) IN
    IF saving[p] = "config" THEN nicks[p]
    ELSE [undone |-> SelectSeq(undone[p], Pushed), done |-> SelectSeq(done[p], Pushed)]

\* The text of the nick names or of the lists (to_string).
Output(p) ==
  IF saving[p] = "config" THEN nicks[p]
                          ELSE [undone |-> undone[p], done |-> done[p]]

\* ... and writes and closes it; batch tells where the save was called from.
WriteFile(p) ==
  /\ pc[p] = "write"
  /\ files' = [files EXCEPT ![saving[p]] = File("whole", Output(p))]
  /\ Goto(p, IF batch[p] = <<>> THEN "run" ELSE "send")
  /\ UNCHANGED <<todo, nicks, lists, needRem, port, batch, saving, asked, ran>>

Crash(p) ==
  /\ pc[p] \notin {"new", "over", "dead"}
  /\ \/ UNCHANGED files
     \/ pc[p] = "write" /\ files' = [files EXCEPT ![saving[p]] = File("cut", Output(p))]
  /\ Goto(p, "dead")
  /\ UNCHANGED <<argv, overlap, todo, nicks, lists, needRem, port, batch, saving, asked, ran>>

-----------------------------------------------------------------------------
(* Launcher::Start *)

\* The exception leaves Start for main, which asks for the shutdown.
Throw(p) ==
  /\ Goto(p, "over")
  /\ asked' = [asked EXCEPT ![p] = @ + 1]

Start(p) ==
  /\ pc[p] = "start"
  /\ LET infos == catchArg(argv[p]) IN
       IF Compatible(infos)
       THEN /\ \E o \in Orders(infos) :
                 todo' = [todo EXCEPT ![p] =
                   [i \in DOMAIN o |-> [cmd |-> o[i].name, args |-> PickArg(argv[p], o[i].name)]]]
            /\ Goto(p, "run")
            /\ UNCHANGED asked
       ELSE Throw(p) /\ UNCHANGED todo
  /\ UNCHANGED <<files, nicks, lists, needRem, port, batch, saving, ran>>

\* Mutated Cleanup: nobody asks for the shutdown.
CleanupQuiet(p) ==
  /\ pc[p] = "run" /\ todo[p] = <<>>
  /\ Goto(p, "over")
  /\ UNCHANGED <<files, todo, nicks, lists, needRem, port, batch, saving, asked, ran>>

\* cleanup: shutdown_WhenEmpty.
Cleanup(p) ==
  /\ pc[p] = "run" /\ todo[p] = <<>>
  /\ Goto(p, "over")
  /\ asked' = [asked EXCEPT ![p] = @ + 1]
  /\ UNCHANGED <<files, todo, nicks, lists, needRem, port, batch, saving, ran>>

Args(p) == Head(todo[p]).args

\* The next command is c.
Command(p, c) ==
  /\ pc[p] = "run" /\ todo[p] # <<>> /\ Head(todo[p]).cmd = c
  /\ todo' = [todo EXCEPT ![p] = Tail(@)]
  /\ ran' = [ran EXCEPT ![p] = Append(@, Head(todo[p]))]

-----------------------------------------------------------------------------
(* The commands *)

\* forH, forShowNick, forShowHis and every command with a wrong number of
\* arguments: only texts.
Show(p) ==
  /\ \E c \in Commands \ {"-mem"} :
       /\ Command(p, c)
       /\ LET n == Len(Args(p)) IN
            \/ c \in {"-h", "--help", "-nick", "-history"}
            \/ c = "run" /\ n < 2
            \/ c = "run_port" /\ n # 3
            \/ c = "-retry" /\ n # 1
            \/ c = "-config_nick" /\ n # 2
  /\ UNCHANGED <<files, pc, nicks, lists, needRem, port, batch, saving, asked>>

forMem(p) ==
  /\ Command(p, "-mem")
  /\ needRem' = [needRem EXCEPT ![p] = TRUE]
  /\ UNCHANGED <<files, pc, nicks, lists, port, batch, saving, asked>>

\* The file is saved whether -mem is given or not.
forConfigNick(p) ==
  /\ Command(p, "-config_nick")
  /\ LET a == Args(p) IN
       /\ Len(a) = 2
       /\ nicks' = [nicks EXCEPT ![p] = {e \in @ : e[1] # a[1]} \union {<<a[1], a[2]>>}]
  /\ saving' = [saving EXCEPT ![p] = "config"]
  /\ Goto(p, "open")
  /\ UNCHANGED <<files, lists, needRem, port, batch, asked>>

\* outputRecord, called at l.
OutputRecord(p, l) ==
  /\ saving' = [saving EXCEPT ![p] = "records"]
  /\ Goto(p, IF needRem[p] THEN "open" ELSE l)

\* multiRun up to its loop: a record, with an id from the clock, for each file.
MultiRun(p, paths, to) ==
  /\ \E ids \in [DOMAIN paths -> Ids] :
       LET new == [i \in DOMAIN paths |-> [id |-> ids[i], path |-> paths[i]]] IN
         /\ undone' = [undone EXCEPT ![p] = @ \o new]
         /\ pushed' = [pushed EXCEPT ![p] = @ \o ids]
         /\ batch' = [batch EXCEPT ![p] =
              [i \in DOMAIN paths |-> [id |-> ids[i], path |-> paths[i], port |-> to]]]
  /\ OutputRecord(p, IF paths = <<>> THEN "run" ELSE "send")
  /\ UNCHANGED <<done, loaded, asked>>

AllExist(paths) == \A i \in DOMAIN paths : paths[i] \in Existing

\* forRun: a file that is not there ends the whole line.
forRun(p) ==
  /\ Command(p, "run")
  /\ Len(Args(p)) >= 2
  /\ LET paths == Tail(Args(p)) IN
       IF AllExist(paths) THEN MultiRun(p, paths, port[p])
                          ELSE Throw(p) /\ UNCHANGED <<lists, batch, saving>>
  /\ UNCHANGED <<files, nicks, needRem, port>>

\* forRun_port: the port is set first, and every exception is caught.
forRun_port(p) ==
  /\ Command(p, "run_port")
  /\ LET a == Args(p) IN
       /\ Len(a) = 3
       /\ port' = [port EXCEPT ![p] = a[2]]
       /\ IF a[3] \in Existing THEN MultiRun(p, <<a[3]>>, a[2])
                               ELSE UNCHANGED <<lists, batch, saving, pc, asked>>
  /\ UNCHANGED <<files, nicks, needRem>>

\* atoi of the words that the command lines use.
Number(w) == CASE w = "1" -> 1 [] w = "2" -> 2 [] OTHER -> 0

\* forRetry: the first n undone records, or all of them for 0; n past the end
\* throws.  The old records stay where they are, new ones are pushed.
forRetry(p) ==
  /\ Command(p, "-retry")
  /\ LET a == Args(p)
         n == Number(a[1])
         paths == [i \in 1 .. (IF n > 0 THEN n ELSE Len(undone[p])) |-> undone[p][i].path]
     IN /\ Len(a) = 1
        /\ IF n <= Len(undone[p]) /\ AllExist(paths)
           THEN MultiRun(p, paths, "recorded")
           ELSE Throw(p) /\ UNCHANGED <<lists, batch, saving>>
  /\ UNCHANGED <<files, nicks, needRem, port>>

\* Mutated TurnDone: the record stays on the undone list as well.
TurnDoneKeeps(p, id) ==
  LET at == {i \in DOMAIN undone[p] : undone[p][i].id = id} IN
    /\ done' = IF at = {} THEN done ELSE [done EXCEPT ![p] = Append(@, undone[p][Min(at)])]
    /\ UNCHANGED undone

\* Mutated TurnDone: the oldest record moves, whatever its id.
TurnDoneOldest(p, id) ==
  /\ done' = [done EXCEPT ![p] = Append(@, undone[p][1])]
  /\ undone' = [undone EXCEPT ![p] = Tail(@)]

\* turnDone: the first undone record with the id moves to the done list.
TurnDone(p, id) ==
  LET at == {i \in DOMAIN undone[p] : undone[p][i].id = id} IN
    IF at = {} THEN UNCHANGED <<undone, done>>
    ELSE /\ done' = [done EXCEPT ![p] = Append(@, undone[p][Min(at)])]
         /\ undone' = [undone EXCEPT ![p] = RemoveAt(@, Min(at))]

\* One turn of multiRun's loop: runit succeeds or fails.
SendNext(p) ==
  /\ pc[p] = "send"
  /\ LET rest == Tail(batch[p])
         back == IF rest = <<>> THEN "run" ELSE "send" IN
       /\ batch' = [batch EXCEPT ![p] = rest]
       /\ \/ TurnDone(p, Head(batch[p]).id) /\ OutputRecord(p, back)
          \/ Goto(p, back) /\ UNCHANGED <<undone, done, saving>>
  /\ UNCHANGED <<files, todo, nicks, pushed, loaded, needRem, port, asked, ran>>

-----------------------------------------------------------------------------

\* What the process does by itself, once it is started.
Step(p) ==
  /\ \/ ReadConfig(p) \/ ReadRecord(p) \/ ReadFaults(p)
     \/ OpenForWrite(p) \/ WriteFile(p)
     \/ Start(p) \/ Cleanup(p) \/ Show(p) \/ forMem(p) \/ forConfigNick(p)
     \/ forRun(p) \/ forRun_port(p) \/ forRetry(p) \/ SendNext(p)
  /\ UNCHANGED <<argv, overlap>>

Next == \E p \in Procs : Launch(p) \/ Step(p) \/ Crash(p)

\* A process that can go on does, but for a turn of multiRun: that waits for the
\* thread that prepares the files, whose wakeup can be lost, and for the peer,
\* so that nothing makes it end (Transfer and Delivery have it in detail).
Fairness == \A p \in Procs : WF_vars(pc[p] # "send" /\ Step(p))

Spec == Init /\ [][Next]_vars /\ Fairness

-----------------------------------------------------------------------------
(* Properties *)

Names(p) == Range(argv[p]) \intersect Commands
Groups(p) == {groupSet(c) : c \in Names(p)}
Total(l) == Len(l.undone) + Len(l.done)
InMemory(p) == [undone |-> undone[p], done |-> done[p]]

States == {"new", "config", "records", "start", "run", "send", "open", "write",
           "over", "dead"}

\* The control stays in its states, saves happen only to the two files, and
\* the port is the default or the one of the line's run_port.
TypeOK ==
  /\ \A f \in {"config", "records"} : files[f].state \in {"absent", "empty", "cut", "whole"}
  /\ pc \in [Procs -> States]
  /\ needRem \in [Procs -> BOOLEAN]
  /\ saving \in [Procs -> {"config", "records"}]
  /\ \A p \in Procs :
       /\ asked[p] \in {0, 1}
       /\ port[p] = "1997" \/ "run_port" \in Names(p)
       /\ pc[p] = "send" => batch[p] # <<>>

\* A line with commands of two groups runs none of them (Launcher::Start throws
\* before the first function is called).
MixedRunsNothing ==
  \A p \in Procs : Cardinality(Groups(p)) > 1 => ran[p] = <<>>

\* Whatever the order of the words, -mem holds for every send of its line, and
\* only with -mem does a process write records.txt: a retry never does.
MemCoversLine ==
  \A p \in Procs :
    /\ pc[p] = "send" /\ "-mem" \in Names(p) => needRem[p]
    /\ pc[p] \in {"open", "write"} /\ saving[p] = "records" =>
         "-mem" \in Names(p) /\ "-retry" \notin Names(p)

\* The places of c on the line, and of its calls among those made.
Occurs(p, c) == {j \in DOMAIN argv[p] : argv[p][j] = c}
Runs(p, c) == {k \in DOMAIN ran[p] : ran[p][k].cmd = c}

\* Every call has the words behind the last occurrence of its command, all of
\* them up to the next command or the end of the line; and a line that comes to
\* cleanup has run each command as often as it occurs, no line more often:
\* run h a run h b sends b twice and a never.
LastOccurrenceDecides ==
  \A p \in Procs :
    /\ \A i \in DOMAIN ran[p] :
         LET a == ran[p][i].args
             last == Max(Occurs(p, ran[p][i].cmd))
             next == last + Len(a) + 1
         IN /\ a = SubSeq(argv[p], last + 1, next - 1)
            /\ Range(a) \intersect Commands = {}
            /\ next \in DOMAIN argv[p] => argv[p][next] \in Commands
    /\ \A c \in Commands :
         /\ Cardinality(Runs(p, c)) <= Cardinality(Occurs(p, c))
         /\ pc[p] = "run" /\ todo[p] = <<>> =>
              Cardinality(Runs(p, c)) = Cardinality(Occurs(p, c))

\* Every record that was read or pushed is on exactly one of the two lists, and
\* is never dropped: what the recorder writes is all it knows.
EachRecordOnce ==
  \A p \in Procs : Total(InMemory(p)) = Total(loaded[p]) + Len(pushed[p])

\* The places of the records in l whose id the process has not pushed.
OldAt(p, l) == {i \in DOMAIN l : ~Contains(pushed[p], l[i].id)}

\* A process completes only records it pushed: those that were read as undone
\* stay undone, in their order, and are sent again by each retry, unless an id
\* collides.
OldRecordsStayUndone ==
  \A p \in Procs :
    LET was == OldAt(p, loaded[p].undone)
        is == OldAt(p, undone[p])
    IN \E f \in Bijection(was, is) :
         /\ \A i \in was : undone[p][f[i]] = loaded[p].undone[i]
         /\ \A i, j \in was : i < j => f[i] < f[j]

\* As long as processes have run one after the other and none has crashed, no
\* save shortens the history in records.txt.  Of two that overlap the later
\* save wins, and a crash may leave a file that the next process reads as empty.
HistoryKept ==
  [][ ~overlap /\ (\A p \in Procs : pc'[p] # "dead") /\ files'["records"].state = "whole"
        => Total(files'["records"].content) >= Total(files["records"].content) ]_vars

\* Every process that starts comes to its end, and asks the user interface to
\* shut down exactly once, whatever its commands throw: unless it dies, or a
\* turn of multiRun never ends.
ProcessEnds ==
  \A p \in Procs :
    \/ pc[p] = "config" ~> (pc[p] = "dead" \/ (pc[p] = "over" /\ asked[p] = 1))
    \/ <>[](pc[p] = "send")

\* The usage text (App.cpp, forH): run sends "to target with port 1997".
RunUsesDefaultPort ==
  \A p \in Procs :
    pc[p] = "send" /\ Last(ran[p]).cmd = "run" => Head(batch[p]).port = "1997"

=============================================================================
