------------------------------ MODULE Launcher ------------------------------
(***************************************************************************)
(* Launcher::Start (source/Launcher.cpp) with the tables of                *)
(* TranslateLauncher: from the words of a command line to the commands     *)
(* that run, their order and their arguments.  A word is a member of a     *)
(* small set; the texts in it are not looked into.                         *)
(***************************************************************************)
EXTENDS Integers, Sequences, SequencesExt, FiniteSetsExt

\* COMMAND, the keywords that ready gives a function.
Commands == {"-h", "--help", "-config_nick", "-nick", "run", "run_port",
             "-history", "-retry", "-mem"}

\* Mutated prioritySet: -mem runs with run and run_port, in any order.
PriorityMemLast(c) ==
  CASE c = "-config_nick" -> 1
    [] c \in {"-nick", "-retry"} -> 2
    [] c \in {"run", "run_port", "-mem"} -> 3
    [] OTHER -> 0

prioritySet(c) ==
  CASE c = "-config_nick" -> 1
    [] c \in {"-nick", "-retry", "-mem"} -> 2
    [] c \in {"run", "run_port"} -> 3
    [] OTHER -> 0

\* Mutated groupSet: -retry may be given with -mem.
GroupRetryMem(c) ==
  CASE c \in {"-config_nick", "-nick", "-history"} -> 1
    [] c \in {"run", "run_port", "-mem", "-retry"} -> 2
    [] OTHER -> 0

groupSet(c) ==
  CASE c \in {"-config_nick", "-nick", "-history"} -> 1
    [] c \in {"run", "run_port", "-mem"} -> 2
    [] c = "-retry" -> 3
    [] OTHER -> 0

\* The position of the next keyword behind i, or the end of the line.
NextKey(argv, i) ==
  Min({j \in i + 1 .. Len(argv) : argv[j] \in Commands} \union {Len(argv) + 1})

\* catchArg: a keyword and the words up to the next keyword, whatever they are.
\* The order of the vector is the order of start.
catchArg(argv) ==
  { [name |-> argv[i], start |-> i + 1, length |-> NextKey(argv, i) - i - 1] :
      i \in {i \in DOMAIN argv : argv[i] \in Commands} }

\* Mutated Compatible: a command is compared with those of its name.
CompatibleNames(infos) ==
  \A a, b \in infos : a.name = b.name => groupSet(a.name) = groupSet(b.name)

\* b comes right behind a.
Follows(infos, a, b) ==
  /\ a.start < b.start
  /\ \A c \in infos : c.start <= a.start \/ c.start >= b.start

\* The loop of Start throws at the first command of another group than the one
\* before it.
Compatible(infos) ==
  \A a, b \in infos : Follows(infos, a, b) => groupSet(a.name) = groupSet(b.name)

\* sort by priority: std::sort promises nothing about equals.
Orders(infos) ==
  { o \in Bijection(1 .. Cardinality(infos), infos) :
      \A i, j \in DOMAIN o : i < j => prioritySet(o[i].name) <= prioritySet(o[j].name) }

\* Mutated PickArg: the first occurrence of the command decides.
PickFirst(argv, c) ==
  LET named == {a \in catchArg(argv) : a.name = c}
      first == CHOOSE a \in named : \A b \in named : b.start >= a.start
  IN SubSeq(argv, first.start, first.start + first.length - 1)

\* getArgInfo and getData by pickArg: m_infos and m_dataMapper are keyed by the
\* name of the command, so that its last occurrence has overwritten the others.
PickArg(argv, c) ==
  LET named == {a \in catchArg(argv) : a.name = c}
      last == CHOOSE a \in named : \A b \in named : b.start <= a.start
  IN SubSeq(argv, last.start, last.start + last.length - 1)

=============================================================================
