# Specifications of socket_client

`socket_client` sends files to a peer over TCP. One process runs the commands
of its command line: `run` and `run_port` send files, `-retry` sends again what
an earlier process did not finish, `-mem` keeps a history in `records.txt`, and
the nickname commands edit `config.txt`. The program is small, and what can go
wrong in it is of four kinds. Threads: a worker, a prepare thread, a progress
thread for each file and a user interface thread share state with few locks,
and two of these kinds of threads are detached. The network: a send runs an
event loop until a callback ends it, while the peer may go at any moment.
Processes: a command line is cut into commands, and processes that may crash or
overlap share two files. Text: those files are JSON, written by cJSON and read
back with a reader that drops blanks.

This directory has TLA+ models of all four, the TLC runs that check them, and
proofs for the TLA+ proof system, which show most of the safety properties for
any number of files, messages, bytes and packets.

## Inventory

| component | state | operations | modelled by |
|---|---|---|---|
| `multiRun`, `runit`, `sendingAction`, `finishAction` (`source/App.cpp` 222-264, 385-470) | `ready_count`, `ready_control`, `isok`, `finish_mut`, `finish_control`, the threads' positions | send the files of one command in order, prepare them ahead, show progress, give the verdicts | `Transfer`, `Progress` |
| `LocalTranslator` (`source/LocalTranslator.cpp`) | `prepared_status`, `_data_q`, `hassent`, the client | `prepareData`, `Connect`, `sendPreparedData`, `getSent` | `Translator` (threads), `Delivery` (bytes) |
| `FileInfo` (`imp_FileInfo.hpp`) | an `ifstream`, `filesize` | `init`, `readFile` | `FileReader` |
| `SocketClient` (`imp_SocketClient.hpp`) | `connected`, `sends`, a bufferevent | `connect`, `send`, `closeSocket`, the callbacks | `SocketClient` |
| `TranslateRecorder` (`source/TranslateRecorder.cpp`, `imp_TranslateRecorder.hpp`) | the lists `m_not_done` and `m_has_done` | `pushRecord`, `turnToDone`, `getRecord`; import, output, listing; two conversions | `Progress` and `Transfer` (threads), `Session` (processes), `JsonStore` (text) |
| `UserInterface` (`source/UserInterface.cpp`) | the handler and its loop | `printText`, `printProgress`, `loop`, `shutdown_WhenEmpty`, the message handler | `UILoop` |
| `main`, `TranslateLauncher::cleanup` | two threads | read the files, start the worker, loop, end | `UILoop`, `Session` |
| Handler library (`include/Handler`, a binary) | a queue ordered by time, `isRunning`, the request to stop | `loop`, `enqueue`, `stopLoop_util_empty`, `next` | `HandlerLoop`, external |
| `Launcher`, `TranslateLauncher` | commands, arguments, groups, priorities | `Start`, `catchArg`, `pickArg` | `Launcher` |
| commands and files (`source/App.cpp` 98-377) | `nickNames`, `port`, `need_rem`, two JSON files | one function per command, `readConfig`, `readRecord`, the saves | `Session` |
| cJSON (`source/cJSON.c`) | a tree of items; a text; a buffer | print, parse, minify, compare; the calls on lists | `JsonPrinter`, `JsonParser`, `PrintAndParse` (bytes), `JsonText`, `JsonStore` (values), `JsonList` |
| `Watcher.hpp`, `Pointerable.hpp`, build files | | unused, or without behaviour | not modelled |

How they interact. `main` starts a worker thread that runs the commands and
itself stays in `UI::loop()`. All output is a message to that loop. A sending
command builds a deque of translators in its frame and calls `multiRun`, which
pushes a record for each, detaches the prepare thread (`prepareData` on each
translator, then `++ready_count` and `ready_control.notify_one()`), and sends
each file as soon as `ready_count` says that it is ready. For each file that
connects, `sendingAction` detaches a progress thread, which every 500 ms copies
`hassent` into the file's record and prints a bar, until `finishAction`'s
`notify_all` reaches it. After the commands, `cleanup` posts a shutdown with a
delay of 100 ms, which lets the loop end once its queue is empty.

What is hard here:

* `ready_count` is guarded by two different mutexes, which is no guard;
* the prepare thread and the progress threads are detached, and point into a
  frame that goes when the command returns;
* the worker erases list nodes while a progress thread holds a pointer to one;
* `finish_mut` is locked by hand around a `continue`;
* a clock reading is used as a record's identifier;
* errors of the lower layers are dropped on the way up;
* the end of a send is the end of an event loop, which an empty packet does not
  bring about;
* the two files are truncated before they are written, by processes that know
  nothing of each other;
* a keyword is a command wherever it stands, also as a file name;
* the printer of cJSON leaves its offset behind what it wrote and looks for the
  end later; its parser and its printer both go over a string twice and write in
  the second pass what they measured in the first;
* the lists of cJSON keep their last item in `prev` of the first, which each call
  has to preserve;
* the loop drops messages that come after the request to stop, and the request
  to stop is itself dropped when it comes before the loop runs.

The file `PROJECT.json` lists the hazards line by line, with the properties
that cover them.

## Modules

`Translator` has the state of the N translators of one run and the pieces of
their operations that threads interleave. Data is counted in units: the header
is one unit, each packet of at most 32 KiB is one. `Packs[i]` is the number of
packets of file i; `readFile` makes at least one, and the last one is empty for
the files in `EmptyLast`. `hassent` counts modulo `Ulong`, since an `atomic_ulong`
has 32 bits on Windows; before `sendPreparedData` writes it, it is `Garbage`, which
stands for any number but 0 that nobody counted. An empty packet counts nothing,
and its send ends only as the peer closes (`SendNothing`).

`Progress` EXTENDS `Translator` with the progress threads. A thread's step is a
piece of the loop in `sendingAction` between two points at which another thread
can matter: `Wait` (lock and start to wait), `Timeout`, `SpuriousWake`,
`Reacquire` (`wait_for` returns with the mutex), `Read` (`getSent`, the start of
`getRecord`), `Search` (the end of `getRecord`), `Write` (through the pointer,
and the branch on `sent == 0`), `ShowBar`, `Final`. It also has the recorder's
lists. A record is named by its file. `id` gives each file the id of its
record; ids may be equal in any pattern, so an id is named by the first file
that drew it. `walk[i]` is the set of list nodes that the thread of file i has
its hands on; a node in it that is no longer in the list is freed memory.

`Transfer` EXTENDS `Progress` with the worker (`multiRun`, `runit`,
`sendPreparedData`, `finishAction`, `turnToDone`) and the prepare thread. The
worker's wait is three steps, because that is where the lost wakeup lives:
`Check` evaluates the predicate, `Block` registers as a waiter, and
`NotifyOne` or `WorkerWakes` send it back to `Check`. The prepare thread is
created for a run of no file as well, and starts its loop over the deque with
`BeginLoop`. `PeerCloses` ends the send of an empty packet. `alive` is true while
the frame of the command exists; `program` says whether the process still runs
and otherwise how it died: `terminate` for the uncaught exception of a double
lock, `segv` for a use of freed memory that did not go unnoticed.

`SequentialSend` is what `multiRun` promises its caller: files are prepared
ahead in order, sent one at a time and in order, each only once it is prepared,
each gets one verdict that never changes, and the call returns true exactly
when all were sent. `Transfer` implements it under the mapping at the end of
that module: `ready` is `ready_count + 1`, the active file is `cur` between a
successful check and the verdict, the verdicts are what `runit` returned.

`HandlerLoop` is the Handler library as the program uses it: only its headers
and a binary are in the repository, so it is modelled from the headers and from
`UserInterface.cpp`, and marked external in the map. Messages are ordered by
the time they are due, and equal times in any order.

`UILoop` EXTENDS `HandlerLoop` with the senders and the main thread. Posting is
two steps, `Post` (the message is stamped with the clock, or refused by a
draining loop) and `Push` (it enters the queue), since two threads may do so at
the same time. `worker` stands for the thread of the commands, which prints
`Texts` texts and then asks for the shutdown; `progress` for a progress thread
with its bars, which may come at any time, also after the shutdown. The main
thread prints in `HandleMessage`; a text of more than 1024 bytes makes the handler
throw (`HandlerThrows`), which leaves the loop for the catch clause of `main` and so
ends the process without a request.

`FileReader` has the `ifstream` of one file: its get position, its `eofbit`, and
`filesize` as `init` measured it. A read that finds fewer bytes than it asked
for sets `eofbit`, one that ends exactly at the end does not, which is where
empty packets come from. Another program may change the length meanwhile.

`SocketClient` has the libevent build of `imp_SocketClient`. A call runs the
loop: `SendBegin` puts bytes into the output buffer, then `Write` (the kernel
takes some of them; when none is left, `conn_writecb`), `WriteError` and
`ReadEvent` (`conn_eventcb`) happen until the loop is told to exit or has no
event left (`LoopOver`), and `SendEnd` is the return. Which events libevent
keeps pending after an error is an assumption about it, stated in the module.

`Delivery` EXTENDS both with one `LocalTranslator` from its construction to its
destruction. A byte is the number of the unit it belongs to, so that a wrong
order, a gap or a repetition shows in what the kernel was handed.

`Launcher` has `Start` as operators on a line: `catchArg` gives the set of
commands with where their words start and how many they are, `Compatible` is
the check of the groups, which the code makes between neighbours only, `Orders`
are the orders the sort may produce, and `PickArg` the words a command gets.

`Session` EXTENDS `Launcher` with processes. A process reads the two files
(`ReadConfig`, `ReadRecord`), runs `Start`, then one action per command, saves in
two steps (`OpenForWrite` truncates, `WriteFile` writes and closes), sends its
files one by one (`SendNext`, a turn of `multiRun`, which may never end) and asks for
the shutdown. `Crash` ends it at any
step, and leaves a file it was writing cut. `multiRun` is atomic up to its loop
here; its threads are in `Transfer`. A nickname is resolved to nothing, since no
property looks at addresses, and `port` is kept, since it is static.

`JsonText` has the printer and the parser of cJSON as functions between values
and sequences of symbols: a text for each value and a value for each text. `JsonStore`
adds the program's two conversions, the file in between with `readJsonFromFile`,
and `cJSON_Minify` and `cJSON_Compare`; its states apply one of them to one value.

`JsonPrinter` and `JsonParser` are the same two parts of cJSON as they work: byte by
byte, with no recursion but a stack of calls. `JsonPrinter` has a tree of items in
memory, any that a program can build, and the `printbuffer`: its length, the offset,
the bytes written and whether a terminator follows them. Each piece that a
function writes is a step: what it asks of `ensure`, which may grow the buffer or
refuse, what it writes, and where it leaves the offset; `update_offset` finds the
end by the terminator. `print_string_ptr` is a counting pass and a copying pass.
`JsonParser` has the cursor in a text of any bytes, the depth, the calls of
`parse_array` and `parse_object` under way, and the two passes of `parse_string`
with `parse_hex4` and `utf16_literal_to_utf8`; `Look` records each place that the
code looks at without asking for the length. `Utf16` has the encoding, and what
code points and UTF-8 are; `JsonChars` what both parts know of a text.
`PrintAndParse` EXTENDS both: `cJSON_Print`, and `cJSON_Parse` of what it made, or of
a text from elsewhere.

`JsonList` has the tree of cJSON in memory: `next`, `prev` and `child` of each
item and one action per call, with the calls' assignments in their order.
`ItemLists` is what these calls promise: each item has a sequence of children,
and each call inserts, appends, removes or replaces in one of them. `JsonList`
implements it with the sequence read along `next` for each item. What
`cJSON_Delete` frees is stated as the least set that its recursion closes, and the
walk along `next` as a recursive function, so that theorems can be proved about
the module. `Indices` are the numbers that items are asked for by and `MaxNew`
bounds the items of an array that is made in one call.

`MCJson`, `MCJsonList`, `MCPrintAndParse` and `MCSession` give the values, the
trees and texts, the symmetry and the command lines. `MCTransfer` gives
`Transfer` its file lengths. `TransferProofs`, `UILoopProofs`, `DeliveryProofs`,
`SessionProofs`, `JsonListProofs`, `JsonParserProofs`, `JsonPrinterProofs` and
`PrintAndParseProofs` have the proofs.

## Runs

| run | instance | shows |
|---|---|---|
| `transfer` | a file of four packets, the last one empty, and a file of one; a counter of three values; fair; 713 000 states | the seven invariants of `Transfer`, `Refines`, and `RunEnds`: `multiRun` can hang in two ways only |
| `ui` | two texts, each of which may be too long, two bars, delay 2, four clock values; 145 000 states | which texts can be lost, order is kept, the loop ends when asked |
| `delivery` | a file of 0 to 5 bytes, packets of 2, the kernel takes 1 or 2 bytes at once; 15 500 states | what reaches the peer, what is counted, which sends end |
| `session` | two processes, 24 pairs of lines, ids 1 and 2; 166 000 states | commands, records and files over the lives of two processes |
| `json_text` | 400 values; 34 800 states | printing, parsing and what is between them |
| `print_and_parse` | 76 trees with every size of the buffer from 0 to 34, 14 000 texts; 185 000 states | the printer and the parser byte by byte: memory, depth, escapes, and that they do what `JsonText` says |
| `json_list` | five items; 6 500 states up to symmetry | the lists of cJSON, and `Refines` |
| `file_not_tried` | two files of one packet | one of those ways: a wakeup is lost |
| `success_not_sent` | two files of one packet | "send success" for a file that was not sent |
| `done_not_sent` | two files of one packet | the wrong record is moved to the done list |
| `ui_endless_bar` | as `ui`, with files of zero bytes | the loop never ends |
| `run_port_leaks` | one process, `run_port` and `run` on one line | `run` sends to the port of `run_port` |

The last five expect a violation: they check what a text of the program or a
comment says, and TLC shows how the code does something else.

Each module has a type invariant, `TypeOK` or `PrinterTypeOK`. Those of the modules
with proofs are theorems, as is `CountedWasHanded` of `Delivery`, and no run repeats
them.

The properties of `UILoop`: `TextsDelivered` (when the loop ends it was asked to, and
the terminal has every text; the only other end is a text that is too long, and
it takes only texts with it that are stamped no earlier than itself),
`ShownInOrder` (a message overtakes an earlier one of its sender only if the clock
gave both the same time), `StopsWhenAsked` (a shutdown that was posted ends the
loop, unless a text that is too long has ended it). A shutdown that is requested
before the loop runs is dropped (`request = "lost"`), and no property claims that
the process ends then: only the 100 ms that the worker sleeps at its start keep it
from happening.

The properties of `Transfer`:

* `SendOnlyPrepared`: `sendPreparedData` runs only on files that are completely
  queued, although `ready_count` is not guarded.
* `FrameOutlivesPreparer`: of all the accesses of the detached prepare thread to
  `multiRun`'s frame and the caller's deque, in a run of some files only the very
  last can come too late, the `notify_one` of the last file with the step out of the
  loop. In a run of no file (`-retry 0` with nothing undone) `multiRun` returns at
  once, and the start of the thread's loop may come too late as well.
* `RecordAlwaysListed`: at each step of `turnToDone` a record is in a list, so a
  progress thread never writes through a null pointer.
* `OneDonePerSent`: even when ids collide, as many records are moved as files
  were reported as sent.
* `DanglesOnlyAfterVerdict`: the uses of freed memory that the code does make
  (a progress thread that missed the notification) all come after the verdict
  on their file. They can still kill the process (`Fault`), while the next file is
  being sent: what they can not do is reach the node of a file without a verdict.
* `CrashOnlyBeforeCount`: while `multiRun` runs, the double lock of `finish_mut` kills
  the process only by a thread whose last bar, if it printed one, showed the
  unwritten counter: a thread that has shown a count does not, as long as its file
  fits the counter. A file that does not can make it 0 again, and does in the run.
* `SpeedNeverWraps`: while `multiRun` runs, the subtraction in `size_t` does not wrap
  around after a bar that showed a count, as long as the file fits the counter.
  After a bar with the unwritten counter it may.
* `RunEnds`: `multiRun` returns or the process dies, unless the worker stays asleep
  for a notification that came before it slept, or in the send of an empty packet
  to a peer that never closes.
* `Refines`: every behaviour is one of `SequentialSend`.

The properties of `Delivery`:

* `PacketsAddUp`: the packets of `prepareData` are full but the last, which is
  short or empty; they add up to what was read; and its result, which the
  program drops, tells a file that changed since its length was measured.
* `StreamPrefix`: whatever sends fail, the kernel gets a prefix of the header
  and the packets. The result of the header is dropped, so this holds only
  because a failed send leaves the client disconnected.
* `FailureDisconnects`: a delivery that stopped short is disconnected. (That the
  count never exceeds what was taken, `CountedWasHanded`, is proved only.)
* `EmptySendNeedsPeer`, `SendEnds`: a send of some bytes ends; a send of none ends
  only when the peer closes, so a file whose length is a multiple of the packet
  length waits for the peer.

The properties of `Session`:

* `MixedRunsNothing`: a line with commands of two groups runs none, although only
  neighbours are compared.
* `MemCoversLine`: `-mem` holds for every send of its line wherever it stands,
  because of the priorities; and a retry never writes `records.txt`.
* `LastOccurrenceDecides`: a command runs with all the words behind its last
  occurrence, up to the next command or the end of the line; and a line that comes
  to `cleanup` has run each command as often as it is given, no line more often.
* `EachRecordOnce`: the two lists have together as many records as were read and
  pushed: none is dropped and none doubled. (By number; which records stay is
  `OldRecordsStayUndone`.)
* `OldRecordsStayUndone`: a process completes only records it pushed itself, so a
  record that was retried with success stays undone.
* `HistoryKept`: no save shortens the history, as long as no two processes have
  overlapped and none has crashed so far. It says nothing of what comes after an
  overlap or a crash, and both do lose records.
* `ProcessEnds`: every process comes to its end and asks for the shutdown exactly
  once, whatever its commands throw, unless it dies or stays in a turn of `multiRun`.

The properties of `JsonStore`:

* `RoundTrips`: what is printed parses to the same value, unless it is nested
  beyond the limit, which only the parser has.
* `RereadLosesOnlyBlanks`: from one process to the next a value loses the spaces in
  its strings, and a record nothing else.
* `CutIsNothingOrWhole`: a file that a crash has cut is read as nothing or as all,
  never as a part, even with the last word counted twice.
* `MinifyAgrees`, `CompareIsSameMeaning`: the two functions against a definition of
  what they mean. The first excludes texts with a string that ends in a backslash,
  the second names that are repeated or differ only by case, where cJSON differs.

The properties of `JsonPrinter`, `JsonParser` and `PrintAndParse`:

* `BufferNeverOverrun`: each piece asks `ensure` for enough, with its own sum, and
  `strlen` in `update_offset` always finds a terminator.
* `TextIsWhole`: each piece lies right behind the one before it, although
  `print_array`, `print_object` and the strings leave the offset behind; no byte
  between is left unwritten; and the text is ended in the memory the caller gets.
* `RoomMeansSuccess`: a buffer that may grow is refused only beyond `INT_MAX`, one that
  may not only if it has less than two bytes more than the text (`cJSON.h` asks for
  five).
* `StaysInMemory`: whatever the text, the parser looks at nothing behind its
  terminator, and what `parse_string` copies fits into what it measured.
* `DepthIsNesting`: on all ways into and out of the calls the depth is their number, so
  that the limit is one of the nesting.
* `Utf16Agrees`: an escape `\u`, alone or a pair, becomes the shortest UTF-8 of its
  code point, and a lone surrogate makes the text fail.
* `AgreesWithJsonText`: both do, byte for byte, what the functions of `JsonText` say,
  so that what `json_text` shows of those holds of these.

The properties of `JsonList`: `WellLinked` (`prev` leads back, and from the first
to the last), `EachItemOnce` (no item is in two lists, nothing points to freed
memory), `DetachedPointsNowhere`, and `Refines`.

Bounds. Two files are the smallest instance in which the leftovers of one file
(its progress thread, its record, its notification) meet the transfer of
another, and in which ids can collide and the prepare thread can run ahead. A
header and packets let a transfer fail after its start and before its end. The
first file has four packets, the last of them empty, so that its four units wrap
the counter of three values back to 0 and beyond, and its send can hang; the
second has one packet and fits. A run of no file is not in the instance, and is left
to the theorem. The safety properties of `Transfer`, `Refines` among them, are
also proved, for any number of files and packets and any counter, so that for them
the bounds limit only `RunEnds`. In `ui` two messages of each
sender are enough for a message to overtake another, and for a text that is too
long to come before or after another one; the clock stops at
`Horizon`, where everything queued counts as due, and `Delay` is smaller than
`Horizon`, so that messages come both before and after the shutdown is due.

In `delivery` packets of two bytes and files of up to five give no packet but an
empty one, full packets with a short last one, and full packets with an empty
last one; the kernel takes a packet at once or in two parts. In `session` the
lines have a repeated command, a keyword as a file name, a missing file, a name
with a blank, two groups, and every command; two processes are what an overlap,
a restart after a crash and a retry of an earlier process's records take; two
ids collide and differ. In `json_text` the nesting limit is 2 and values are
nested up to 3 deep; `IntMax` is 4 and numbers go from -5 to 5; the strings have
each character that a text treats in its own way, also last and next to each
other. In `print_and_parse` `IntMax`, which stands for `INT_MAX`, is 34 and
`DefaultSize` is 4, so that texts of the trees are shorter than it, just reach
it and go beyond it, and a buffer is doubled several times and then grows to it;
the length of a given or first buffer is everything from 0 to 34. The trees have
every kind of item, also those that only a program can build: raw, invalid, a
string that is NULL, control characters without a letter, bytes above 127, a
number as long as the printer's array. The texts are all of up to four bytes out
of ten that the parser treats in their own way, nested ones with what goes wrong
in them, all strings of up to five out of a backslash, a quote, `u` and `n`, and
pairs of code units at the edges of their ranges; `Limit` is 2 and `NumberMax`,
the room for a number, is 2. In `json_list` five items are a list of four and
its container, which has a first, a middle and a last item, and trees of three
levels; a call asks for the items 0 to 2 and an array is made with up to three.

`CHECK_DEADLOCK FALSE` is set everywhere because the systems do stop: after the
return and the ends of the threads, after the death of the process, after the
lost wakeup, in the send of an empty packet, and after the end of the loop.

Fairness. `FairSpec` of `Transfer` has weak fairness for the prepare thread,
and strong fairness for the worker and each progress thread. They need it
strong since `finish_mut` is taken and released again and again: a mutex that
starves no one is the usual assumption, and nothing in the program gives more.
Strong fairness also says that a send of some bytes ends, that is, that the peer
reads or breaks the connection, and that a wait of 500 ms ends. No fairness is given
to spurious wakeups and to the peer's close (`PeerCloses`): the program may not count
on them, so that the send of an empty packet may never end. `FairSpec` of `UILoop`
has weak fairness for the clock and for each thread. `Delivery` has it for the
return of a send and for the loop's work on pending events, which says that the
loop serves what is ready and that the peer reads or breaks; the peer is never
bound to close. `Session` has it for each process that was started, but not for a
turn of `multiRun` (`SendNext`): everything else that a process does waits for
nobody, while a turn waits for the prepare thread, whose wakeup can be lost, and
for the peer.

What the models assume of the machine: Windows on x86-64 (the build links
wsock32 and libevent), so that a store to `ready_count` becomes visible after
the earlier store to `prepared_status`; the loop that reads `ready_count`
re-reads it in each evaluation, since the wait unlocks and locks in between.
The unlocked list operations are taken at the grain of: a search starts, a
search ends, a copy, an erasure. A use of freed memory either goes unnoticed or
kills the process (`Fault`), and a read of an unwritten or freed counter
returns zero or some other value (`Garbage`). `connected` is what the last send
found: a connection that breaks during a send that succeeds shows in the next one.

## Proofs

All theorems hold for every value of the constants that satisfies the named
assumptions: `NAssumption` (N is a natural number), `PacksAssumption` (each file
has at least one packet), `EmptyLastAssumption` (those with an empty last packet are
files), `UlongAssumption` (the counter has at least one value), `UIAssumption`, the ranges of a delivery's constants
(`PackLenAssumption`, `MaxSizeAssumption`, `HeadLenAssumption`, `ChunksAssumption`),
`LinesAssumption` (a command line is a sequence of words), `NodesAssumption` (the
memory is finite and NULL is no part of it), `BoundsAssumption` (`Indices` are
natural numbers, `MaxNew` is one), `TextsAssumption` (a text is bytes with a zero at
the end), `LimitAssumption` and `NumberAssumption` (natural numbers), `TreesAssumption`
(the pointers of an item are NULL or lead to items, its strings are bytes; nothing is
asked of the shape) and `SizesAssumption` (no buffer is longer than `IntMax`, and
that of `cJSON_Print` is not empty). The printer and the parser are given the memory
they ask for.

`TransferProofs` has the inductive invariant `IInv`: `TypeOK`, where the prepare
thread is relative to `ready_count` (`PreparerInv`), what it has done to each
translator (`PreparedInv`), and that the worker never passes `ready_count`
(`WorkerInv`). `SendOnlyPrepared` alone is not inductive: it needs to know that
whatever `ready_count` covers stays prepared, and that needs to know that the
prepare thread never comes back to a file. `FrameOutlivesPreparer` follows from
the same invariant, also for no file at all. `RecordAlwaysListed` needs in addition that between copy
and erasure the record is in both lists (`RecordInv`).

For the refinement it adds `OutcomeInv` (the files before `cur` have verdicts, the
later ones have none, `isok` tells whether one failed) and shows step by step
that `Transfer` implements `SequentialSend`: `Count` maps to `Prepare`, a
successful `Check` to `Open`, `ConnectCur` that fails and `Report` to `Decide`,
`Return` to `Return`, and everything else to a stutter.

For the progress threads it adds `ThreadInv`: a thread exists only for a file that was
opened, the counter is unwritten until then, and until the verdict the nodes it
uses are in the list. For the counter it adds `UnsentInv` (what is counted is at most
the units that were sent) and `CountInv`: if the file fits the counter, it only
grows, and what a thread has seen is at most what was counted. A file that does not
fit is left out there, and rightly so: TLC finds both `CrashOnlyBeforeCount` and
`SpeedNeverWraps` violated by the first file of the run if they are asked of every
file.

It also proves `OneDonePerSent`. The point is that a search takes the
first record with an id and that files are sent in the order of their records:
so the records of the files still to come stay in place (`PlaceInv`), the search
always finds one, and each copy adds one to the cardinality on both sides.

`UILoopProofs` has the invariant `Inv` of the user interface. `TextsDelivered`
needs three facts that no line of the code states together: each text is at all
times in one of four places (`KeptInv`), once the loop drains the worker has
nothing left to post (`RequestInv`), and once the loop is told to stop no
message of the worker is left in the queue (`LoopInv`). That a text that is too
long takes nothing earlier with it needs `OrderInv` as well. `ShownInOrder` needs
that what a sender has in hand is its latest message and that later messages
have later time stamps (`OrderInv`), which the shutdown with its delay would
break if the worker posted anything after it.

`DeliveryProofs` has the invariant `Inv` of a delivery, for any packet length,
header, file and kernel: `TypeOK`, which calls are possible in which phase
(`ControlInv`), that all packets so far are full until a read fell short
(`ReadingInv`), how `sends`, `loopexit` and the output buffer depend on each other
(`SocketInv`), and that what was handed and what is in the buffer cover what was
counted and is being sent (`CountInv`). `EmptySendNeedsPeer` is an action property
on top: an empty send cannot be told to exit, since only `conn_writecb` tells, so
that its loop ends only without events. `StreamPrefix` and `FailureDisconnects` need
`StreamInv`: every byte that was handed is the one of its place; between two sends of
a connected client what was counted and what was handed both end where the current
unit begins; during a send what was handed and what is in the output buffer end
together where it ends, and all of the buffer is of this unit. A failed send may
leave its unit cut, but then the client is disconnected for good, so that nothing is
handed behind the gap. `Place` finds a unit by its number, without a concatenation
of all packets, since all packets but the last are full.

`SessionProofs` starts with lemmas about `Launcher`'s operators, for a line of any length:
where the words of a command lie (`CatchTypes`, `PickArgType`), and that comparing
each command with the one before it is enough for all of them to be of one group
(`OneGroup`: of two commands of different groups that are closest to each other
none lies between, so they are neighbours). `PickArgIsLast` says that a command gets
the words right behind the last place of its keyword, all of them up to the next
keyword or the end of the line (`WordsOfCommand`).

It has the invariant `IInv`, one lemma for each action of a process and
one that no step disturbs the other processes (`OthersKeep`). `EachRecordOnce` is
inductive once the lists are known to be empty before `readRecord` (`Counted`).
`MixedRunsNothing` needs that whatever has run, or is planned, comes of a line that
passed the check (`Planned`). `MemCoversLine` needs most: that the plan is sorted,
that `-mem` has run or is still in it, that only a line without `-mem` can save or
retry before (`MemFirst`, with `OneGroup`), and that a batch left over from a save
belongs to a line whose `-mem` has run. TLC finds `IInv` true of all states of the
instance `MCSession`.

Three more invariants come on top, each also checked by TLC first.
`LastOccurrenceDecides`: what has run and what is still planned are, put together, the
same calls from `Start` on, each with the words `PickArg` found and with a place of
its own on the line, and as long as the plan is carried out every place of a command
has its call (`CallsInv`); the numbers agree since the places of one command and its
calls are in a bijection (`CountRuns`). `OldRecordsStayUndone` needs that every file
still to be sent has the id of a pushed record (`OldInv`): the record that is
completed then has such an id too, and taking it from the list moves the others
without changing their order (`KeptRemove`). `HistoryKept` is an action property that
follows from `SoloInv`: as long as no two processes have overlapped and none has
crashed, at most one runs, `records.txt` is cut only while that one saves it, and
once it has read the records, what it has in memory is not less than what the file
has.

`JsonListProofs` is about the pointers of cJSON, for any memory. Its invariant `IInv`
says that the heap is a forest of lists: there is a sequence of items for each item,
each item has at most one place in them (`Apart`), `next`, `prev` and `child` are those
of these sequences (`Linked`), what is in none of them has no neighbours (`Loose`),
what is not allocated is in none and has none, and the sequences have no cycle
(`Ranked`: each item can have a number less than that of the item that contains it).
The sequences are not a variable: `ListIs` shows that walking along `next` from
`child` yields them, so that `Children`, which the refinement uses, is the only
possible choice. The invariant needs all of it at once: `add_item_to_array` finds the
end by `prev` of the first item, `Detach` and `Relink` move `prev` of the first item
when the last one changes, and `cJSON_Delete` follows `next`, so that it frees no more
than the item and what is below it only because a root is `Loose` (`FreedBelow`).
`Ranked` is needed for `Add`: that a container is not below what it gets keeps the
numbers (`RankedPut` raises those of all items outside of its tree). TLC finds `IInv` true of
all states of `MCJsonList`, with numbers up to four.

For each of the calls there is a lemma on what it writes (`DetachWrites`,
`InsertWrites`, `RelinkWrites`), one that the heap has the lists with the one sequence
changed (`AddLinks`, `DetachLinks`, `InsertLinks`, `RelinkLinks`, by `OneList`), and one
that the step keeps `IInv` and is a step of `ItemLists`. `CopyStep` is the largest: the
new items are the image of those at or below the one that is copied (`BelowIs`,
`BelowUp`), so each new list is the image of an old one. `WellLinked`, `EachItemOnce`
and `DetachedPointsNowhere` follow from `IInv`, and `Refines` from `IInv` and the
lemmas.

`JsonParserProofs` is about the parser, for any text. `IInv` says that the
cursor is in the text and the depth is the number of open calls, that a string
under way begins with a quote and its counted backslashes lie behind it, each
with a byte of its own (`InString`, `Spaced`), and for the copying pass
`CopyInv`, the reason why the memory does: what is written, together with the
counted backslashes that lie before `input_pointer`, is not more than the way
from the quote. An escape by a letter writes one byte and takes one counted
backslash with it; `\u` writes at most three bytes of its six and a pair at most
four of its twelve, and both cover at most as many counted backslashes as that
leaves (`Makes`, `Advance`). The last escape may go beyond `input_end` by one,
which is why `CopyInv` takes the nearer of the two. That nothing is looked at
behind the terminator needs, besides, that at a byte that is not zero there is
another one behind it (`NotLast`), and that `parse_hex4` stops at what is no
digit. `Utf16Agrees` is arithmetic on all units and pairs: `Converted`, from
lemmas on the encoding of code points with two, three and four bytes.

`JsonPrinterProofs` is about the printer, for any tree, buffer and `IntMax`.
`PrinterInv` says at which places the offset is at the end of the text
(`InPlace`) and at which the text ends behind it with a terminator (`Whole`),
that the sums of the counting pass are those of the characters (`Summed`), and
that the copying pass is where the counting pass said that it would be
(`Ahead`), which gives the closing quote its place. A lemma on `ensure` says
what it grants and when it refuses, one on `Write` what a piece leaves, and
there is one for each action.

`PrintAndParseProofs` puts the two together. `BothInv` is each of the two
invariants as soon as its part is called; the step that matters is
`ParsePrinted`: what the invariant of the printer says of the buffer makes it a
text (`PrintedIsText`), which starts the parser in its invariant (`Begun`). So
the theorems hold of the very specification that the run checks, also for texts
that are no member of `Texts`. TLC finds `BothInv` true of all states of
`MCPrintAndParse`.

Only model-checked: `RunEnds`, `StopsWhenAsked`, `SendEnds` and `ProcessEnds`,
since liveness is out of the prover's reach; the properties of `JsonStore`
(`RoundTrips`, `RereadLosesOnlyBlanks`, `CutIsNothingOrWhole`, `MinifyAgrees`,
`CompareIsSameMeaning`) and `AgreesWithJsonText`, which are about recursive
data: which text a value has, and which value a text, is defined by RECURSIVE
operators, and what those compute for every value takes an induction that the
prover cannot do; and the five violations.

## Not modelled

* What is printed, and the fixed buffers of texts, words and paths (1024 bytes in
  `pickArg`, 512 in `readJsonFromFile` and in the data of a bar, 128 in a record): the
  models carry no lengths of words. Of a text `UILoop` knows whether it is longer
  than the 1024 bytes of the handler; a text of exactly 1024 counts as one that fits,
  although its terminator goes behind the buffer.
* The width of `_sent`, an int that gets what `getSent` returns (past 2 GiB the count
  in the record wraps), and of the other integers, but for `hassent` in `Transfer`,
  which wraps, and the saturation of numbers in cJSON. `Delivery` counts bytes of
  files that fit.
* `imp_SocketClient::receive` and `conn_readcb`: the program never receives. A
  second `connect` of one client, a second `readFile` of one file, a second
  `prepareData`: the program makes a new object for each file.
* The build with ASIO, which the build files do not choose.
* Two `multiRun` calls in one process with the detached threads of the first still
  running: `Session` has two calls and `Transfer` the threads of one; together they
  are out of TLC's reach.
* In cJSON: references and constant names (the program uses neither, and a list
  with a reference is not a tree), allocation hooks and a lack of memory, the
  digits that `%g` makes and that `strtod` reads (a number is the bytes that it is
  printed as, and which texts are numbers is a constant), the byte order mark,
  `return_parse_end` and the global error. `JsonText` and `JsonStore` leave out
  raw items, `\u` and the control characters without a letter, which `JsonPrinter` and
  `JsonParser` have, and a literal or a number that a crash cuts in the middle.
* `Watcher.hpp`, `Pointerable.hpp`, `Error.hpp`, the build files: unused, or
  without behaviour of their own.
