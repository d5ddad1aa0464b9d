---------------------------- MODULE SessionProofs ---------------------------
(***************************************************************************)
(* Proofs about Launcher and Session for any processes, command lines, ids *)
(* and files.  First what Start's operators yield: where the words of a    *)
(* command lie, and that the check of neighbours keeps all commands of a   *)
(* line in one group.  Then an inductive invariant of the state of each    *)
(* process, with type correctness and three of the invariants that         *)
(* MCSession checks.  Last what a command line does to the records: a      *)
(* command gets the words behind its last occurrence, the records a        *)
(* process found undone stay so unless it sends one again, and a process   *)
(* that runs alone loses nothing of records.txt.                           *)
(***************************************************************************)
EXTENDS Session, FiniteSetTheorems, SequenceTheorems, WellFoundedInduction,
        NaturalsInduction, TLAPS

-----------------------------------------------------------------------------
(* Launcher *)

\* A nonempty set of naturals has a least member, which Min yields.
LEMMA MinIsLeast ==
  ASSUME NEW S \in SUBSET Nat, S # {}
  PROVE  Min(S) \in S /\ \A y \in S : Min(S) <= y
<1>1. PICK m \in S : \A l \in S : ~(<<l, m>> \in OpToRel(<, Nat))
  BY NatLessThanWellFounded, WFMin
<1>2. \A l \in S : m <= l
  <2> SUFFICES ASSUME NEW l \in S PROVE m <= l
    OBVIOUS
  <2>1. l \in Nat /\ m \in Nat
    OBVIOUS
  <2>2. ~(l < m)
    BY <1>1, <2>1 DEF OpToRel
  <2> QED
    BY <2>1, <2>2
<1> QED
  BY <1>2 DEF Min

\* Among commands that start within a line one starts last.
LEMMA LastStartExists ==
  ASSUME NEW n \in Nat, NEW S, S # {}, \A a \in S : a.start \in 0 .. n
  PROVE  \E a \in S : \A b \in S : b.start <= a.start
<1> DEFINE D == {n - a.start : a \in S}
<1>1. D \in SUBSET Nat /\ D # {}
  OBVIOUS
<1>2. Min(D) \in D /\ \A y \in D : Min(D) <= y
  BY <1>1, MinIsLeast
<1>3. PICK a \in S : Min(D) = n - a.start
  BY <1>2
<1>4. \A b \in S : n - a.start <= n - b.start
  BY <1>2, <1>3
<1> QED
  BY <1>4

\* The next keyword comes later in the line, or there is none.
LEMMA NextKeyRange ==
  ASSUME NEW line \in Seq(STRING), NEW i \in DOMAIN line
  PROVE  NextKey(line, i) \in i + 1 .. Len(line) + 1
<1> DEFINE K == {j \in i + 1 .. Len(line) : line[j] \in Commands} \union {Len(line) + 1}
<1>1. K \in SUBSET (i + 1 .. Len(line) + 1) /\ K # {}
  OBVIOUS
<1>2. K \in SUBSET Nat
  BY <1>1
<1>3. Min(K) \in K
  BY <1>1, <1>2, MinIsLeast
<1> QED
  BY <1>1, <1>3 DEF NextKey

\* The commands of a line: their names are its keywords, their words lie within
\* the line, and no two start at one place.
LEMMA CatchTypes ==
  ASSUME NEW line \in Seq(STRING)
  PROVE  LET infos == catchArg(line) IN
         /\ \A a \in infos :
              /\ a.name \in Range(line) \intersect Commands
              /\ a.start \in 2 .. Len(line) + 1 /\ a.length \in Nat
              /\ a.start + a.length - 1 <= Len(line)
         /\ \A c \in Range(line) \intersect Commands : \E a \in infos : a.name = c
         /\ \A a, b \in infos : a.start = b.start => a.name = b.name
         /\ IsFiniteSet(infos)
<1> DEFINE infos == catchArg(line)
           S == {i \in DOMAIN line : line[i] \in Commands}
           Info(i) == [name |-> line[i], start |-> i + 1, length |-> NextKey(line, i) - i - 1]
           f == [i \in S |-> Info(i)]
<1>1. infos = {Info(i) : i \in S}
  BY DEF catchArg
<1>2. \A i \in S : /\ i \in 1 .. Len(line)
                   /\ NextKey(line, i) \in i + 1 .. Len(line) + 1
  BY NextKeyRange
<1>3. ASSUME NEW a \in infos
      PROVE  /\ a.name \in Range(line) \intersect Commands
             /\ a.start \in 2 .. Len(line) + 1 /\ a.length \in Nat
             /\ a.start + a.length - 1 <= Len(line)
  <2>1. PICK i \in S : a = Info(i)
    BY <1>1
  <2>2. a.name = line[i] /\ a.start = i + 1 /\ a.length = NextKey(line, i) - i - 1
    BY <2>1
  <2>3. Len(line) \in Nat
    OBVIOUS
  <2> QED
    BY <1>2, <2>2, <2>3 DEF Range
<1>4. ASSUME NEW c \in Range(line) \intersect Commands
      PROVE  \E a \in infos : a.name = c
  <2>1. PICK i \in DOMAIN line : line[i] = c
    BY DEF Range
  <2>2. Info(i) \in infos /\ Info(i).name = c
    BY <1>1, <2>1
  <2> QED
    BY <2>2
<1>5. ASSUME NEW a \in infos, NEW b \in infos, a.start = b.start
      PROVE  a.name = b.name
  <2>1. PICK i \in S : a = Info(i)
    BY <1>1
  <2>2. PICK j \in S : b = Info(j)
    BY <1>1
  <2>3. i + 1 = j + 1
    BY <1>5, <2>1, <2>2
  <2>4. i = j
    BY <1>2, <2>3
  <2> QED
    BY <2>1, <2>2, <2>4
<1>6. IsFiniteSet(infos)
  <2>1. IsFiniteSet(1 .. Len(line))
    BY FS_Interval
  <2>2. IsFiniteSet(S)
    BY <2>1, FS_Subset
  <2>3. f \in Surjection(S, infos)
    BY <1>1 DEF Surjection
  <2> QED
    BY <2>2, <2>3, FS_Surjection
<1> QED
  BY <1>3, <1>4, <1>5, <1>6

\* The words that a command of the line gets are words.
LEMMA PickArgType ==
  ASSUME NEW line \in Seq(STRING), NEW c \in Range(line) \intersect Commands
  PROVE  PickArg(line, c) \in Seq(STRING)
<1> DEFINE named == {a \in catchArg(line) : a.name = c}
           last == CHOOSE a \in named : \A b \in named : b.start <= a.start
<1>1. named # {}
  BY CatchTypes
<1>2. \A a \in named : a.start \in 0 .. Len(line) + 1
  BY CatchTypes
<1>3. Len(line) + 1 \in Nat
  OBVIOUS
<1>4. \E a \in named : \A b \in named : b.start <= a.start
  <2> HIDE DEF named
  <2> QED
    BY <1>1, <1>2, <1>3, LastStartExists
<1>5. last \in named
  BY <1>4
<1>6. /\ last.start \in 2 .. Len(line) + 1 /\ last.length \in Nat
      /\ last.start + last.length - 1 <= Len(line)
  BY <1>5, CatchTypes
<1>7. PickArg(line, c) = SubSeq(line, last.start, last.start + last.length - 1)
  BY DEF PickArg
<1> HIDE DEF last
<1>8. SubSeq(line, last.start, last.start + last.length - 1) \in Seq(STRING)
  BY <1>6
<1> QED
  BY <1>7, <1>8

\* Start compares each command with the one before it: that is enough for all
\* commands of a line to be of one group.
LEMMA OneGroup ==
  ASSUME NEW line \in Seq(STRING), Compatible(catchArg(line)),
         NEW c \in Range(line) \intersect Commands,
         NEW d \in Range(line) \intersect Commands
  PROVE  groupSet(c) = groupSet(d)
<1> DEFINE infos == catchArg(line)
           Bad(a, b) == a.start < b.start /\ groupSet(a.name) # groupSet(b.name)
<1>1. \A a \in infos : a.start \in Nat
  BY CatchTypes
<1>2. \A a, b \in infos : ~Bad(a, b)
  <2> SUFFICES ASSUME \E a, b \in infos : Bad(a, b) PROVE FALSE
    OBVIOUS
  <2> DEFINE D == {n \in Nat : \E a, b \in infos : Bad(a, b) /\ n = b.start - a.start}
  <2>1. D # {} /\ D \in SUBSET Nat
    <3>1. PICK a \in infos, b \in infos : Bad(a, b)
      OBVIOUS
    <3>2. b.start - a.start \in Nat
      BY <1>1, <3>1
    <3> QED
      BY <3>1, <3>2
  <2>2. Min(D) \in D /\ \A y \in D : Min(D) <= y
    <3> HIDE DEF D
    <3> QED
      BY <2>1, MinIsLeast
  <2>3. PICK a \in infos, b \in infos : Bad(a, b) /\ Min(D) = b.start - a.start
    BY <2>2
  <2>4. PICK e \in infos : a.start < e.start /\ e.start < b.start
    <3> SUFFICES ASSUME ~ \E e \in infos : a.start < e.start /\ e.start < b.start
                 PROVE  FALSE
      OBVIOUS
    <3>1. a.start < b.start /\ groupSet(a.name) # groupSet(b.name)
      BY <2>3
    <3> HIDE DEF infos
    <3>2. Follows(infos, a, b)
      BY <1>1, <3>1 DEF Follows
    <3> QED
      BY <3>1, <3>2 DEF Compatible, infos
  <2>5. Bad(a, e) \/ Bad(e, b)
    BY <2>3, <2>4
  <2>6. CASE Bad(a, e)
    <3>1. e.start - a.start \in D
      BY <1>1, <2>4, <2>6
    <3>2. a.start \in Nat /\ b.start \in Nat /\ e.start \in Nat
      BY <1>1
    <3> HIDE DEF D
    <3>3. Min(D) <= e.start - a.start
      BY <2>2, <3>1
    <3> QED
      BY <2>3, <2>4, <3>2, <3>3
  <2>7. CASE Bad(e, b)
    <3>1. b.start - e.start \in D
      BY <1>1, <2>4, <2>7
    <3>2. a.start \in Nat /\ b.start \in Nat /\ e.start \in Nat
      BY <1>1
    <3> HIDE DEF D
    <3>3. Min(D) <= b.start - e.start
      BY <2>2, <3>1
    <3> QED
      BY <2>3, <2>4, <3>2, <3>3
  <2> QED
    BY <2>5, <2>6, <2>7
<1>3. PICK a \in infos : a.name = c
  BY CatchTypes
<1>4. PICK b \in infos : b.name = d
  BY CatchTypes
<1>5. a.start = b.start => a.name = b.name
  BY CatchTypes
<1> QED
  BY <1>1, <1>2, <1>3, <1>4, <1>5

\* The place of a command: its keyword is right before the words it starts at.
LEMMA CatchPlaces ==
  ASSUME NEW line \in Seq(STRING)
  PROVE  LET infos == catchArg(line) IN
         /\ \A a \in infos :
              a.start - 1 \in DOMAIN line /\ line[a.start - 1] = a.name
         /\ \A j \in DOMAIN line :
              line[j] \in Commands => \E a \in infos : a.start = j + 1 /\ a.name = line[j]
         /\ \A a, b \in infos : a.start = b.start => a = b
<1> DEFINE infos == catchArg(line)
           S == {i \in DOMAIN line : line[i] \in Commands}
           Info(i) == [name |-> line[i], start |-> i + 1, length |-> NextKey(line, i) - i - 1]
<1>1. infos = {Info(i) : i \in S}
  BY DEF catchArg
<1>2. \A i \in S : i \in Nat /\ i + 1 - 1 = i
  OBVIOUS
<1>3. \A i \in S : Info(i).name = line[i] /\ Info(i).start = i + 1
  OBVIOUS
<1>4. ASSUME NEW a \in infos PROVE a.start - 1 \in DOMAIN line /\ line[a.start - 1] = a.name
  <2>1. PICK i \in S : a = Info(i)
    BY <1>1
  <2>2. a.start - 1 = i /\ a.name = line[i]
    BY <1>2, <1>3, <2>1
  <2> QED
    BY <2>2
<1>5. ASSUME NEW j \in DOMAIN line, line[j] \in Commands
      PROVE  \E a \in infos : a.start = j + 1 /\ a.name = line[j]
  <2>1. j \in S
    BY <1>5
  <2>2. Info(j) \in infos
    BY <1>1, <2>1
  <2> QED
    BY <1>3, <2>1, <2>2
<1>6. ASSUME NEW a \in infos, NEW b \in infos, a.start = b.start PROVE a = b
  <2>1. PICK i \in S : a = Info(i)
    BY <1>1
  <2>2. PICK j \in S : b = Info(j)
    BY <1>1
  <2>3. i = j
    BY <1>2, <1>3, <1>6, <2>1, <2>2
  <2> QED
    BY <2>1, <2>2, <2>3
<1> HIDE DEF infos
<1> QED
  BY <1>4, <1>5, <1>6 DEF infos

\* The words of a command go up to the next command or the end of the line.
LEMMA WordsOfCommand ==
  ASSUME NEW line \in Seq(STRING), NEW a \in catchArg(line)
  PROVE  /\ \A j \in a.start .. a.start + a.length - 1 : line[j] \notin Commands
         /\ a.start + a.length \in DOMAIN line => line[a.start + a.length] \in Commands
<1>1. PICK i \in DOMAIN line : a = [name |-> line[i], start |-> i + 1,
                                  length |-> NextKey(line, i) - i - 1]
  BY DEF catchArg
<1> DEFINE n == NextKey(line, i)
           K == {j \in i + 1 .. Len(line) : line[j] \in Commands} \union {Len(line) + 1}
<1>2. K \in SUBSET Nat /\ K # {}
  OBVIOUS
<1>3. n \in K /\ \A j \in K : n <= j
  BY <1>2, MinIsLeast DEF NextKey
<1>4. n \in i + 1 .. Len(line) + 1
  BY NextKeyRange
<1>5. ASSUME NEW j \in i + 1 .. n - 1 PROVE line[j] \notin Commands
  BY <1>3, <1>4
<1>6. n \in DOMAIN line => line[n] \in Commands
  BY <1>3
<1> HIDE DEF n, K
<1>7. a.start = i + 1 /\ a.length = n - i - 1
  BY <1>1 DEF n
<1>8. a.start + a.length = n /\ a.start + a.length - 1 = n - 1
  BY <1>4, <1>7
<1>9. a.start .. a.start + a.length - 1 = i + 1 .. n - 1
  BY <1>7, <1>8
<1> QED
  BY <1>5, <1>6, <1>8, <1>9

\* The places of c, and that a has the words behind the last of them.
Places(line, c) == {j \in DOMAIN line : line[j] = c}

WordsBehind(line, c, a) ==
  LET last == Max(Places(line, c))
      next == last + Len(a) + 1
  IN /\ a = SubSeq(line, last + 1, next - 1)
     /\ Range(a) \intersect Commands = {}
     /\ next \in DOMAIN line => line[next] \in Commands

\* What a command gets are the words right behind its last occurrence, up to
\* the next command or the end of the line.
LEMMA PickArgIsLast ==
  ASSUME NEW line \in Seq(STRING), NEW c \in Range(line) \intersect Commands
  PROVE  WordsBehind(line, c, PickArg(line, c))
<1> DEFINE infos == catchArg(line)
           named == {x \in infos : x.name = c}
           L == CHOOSE x \in named : \A b \in named : b.start <= x.start
           J == Places(line, c)
           a == PickArg(line, c)
<1>1. named # {}
  BY CatchTypes
<1>2. \A x \in named : x.start \in 0 .. Len(line) + 1
  BY CatchTypes
<1>3. Len(line) + 1 \in Nat
  OBVIOUS
<1>4. \E x \in named : \A b \in named : b.start <= x.start
  <2> HIDE DEF named
  <2> QED
    BY <1>1, <1>2, <1>3, LastStartExists
<1>5. L \in named /\ \A b \in named : b.start <= L.start
  BY <1>4
<1>6. /\ L.start \in 2 .. Len(line) + 1 /\ L.length \in Nat
      /\ L.start + L.length - 1 <= Len(line)
  BY <1>5, CatchTypes
<1>7. a = SubSeq(line, L.start, L.start + L.length - 1)
  BY DEF PickArg
<1>8. L.start - 1 \in J
  BY <1>5, CatchPlaces DEF Places
<1> HIDE DEF L
<1>9. \A j \in J : j <= L.start - 1
  <2> SUFFICES ASSUME NEW j \in J PROVE j <= L.start - 1
    OBVIOUS
  <2>1. PICK x \in infos : x.start = j + 1 /\ x.name = line[j]
    BY CatchPlaces DEF Places
  <2>2. x \in named
    BY <2>1 DEF Places
  <2>3. j + 1 <= L.start
    BY <1>5, <2>1, <2>2
  <2>4. j \in Nat /\ L.start \in Nat
    BY <1>6 DEF Places
  <2> QED
    BY <2>3, <2>4
<1>10. Max(J) = L.start - 1
  <2>1. \A j \in J : L.start - 1 >= j
    BY <1>6, <1>9
  <2> DEFINE m == L.start - 1
  <2>2. m \in J /\ \A j \in J : m >= j
    BY <1>8, <2>1
  <2>3. \A j \in J : j \in Nat
    BY DEF Places
  <2> HIDE DEF m, J
  <2>4. Max(J) \in J /\ \A j \in J : Max(J) >= j
    BY <2>2 DEF Max
  <2>5. m \in Nat /\ Max(J) \in Nat
    BY <2>2, <2>3, <2>4
  <2>6. m <= Max(J) /\ Max(J) <= m
    BY <2>2, <2>4
  <2>7. Max(J) = m
    BY <2>5, <2>6
  <2> QED
    BY <2>7 DEF m
<1> HIDE DEF J, a
<1>11. /\ Len(a) = L.length
       /\ \A i \in 1 .. L.length : a[i] = line[L.start + i - 1]
       /\ DOMAIN a = 1 .. L.length
  <2> DEFINE s == L.start
             e == L.start + L.length - 1
  <2>1. s \in Int /\ e \in Int /\ (IF s <= e THEN e - s + 1 ELSE 0) = L.length
    BY <1>6
  <2>2. \A i \in s .. e : line[i] \in STRING
    BY <1>6
  <2> HIDE DEF s, e
  <2>3. /\ SubSeq(line, s, e) \in Seq(STRING)
        /\ Len(SubSeq(line, s, e)) = IF s <= e THEN e - s + 1 ELSE 0
        /\ \A i \in 1 .. Len(SubSeq(line, s, e)) : SubSeq(line, s, e)[i] = line[s + i - 1]
    BY <2>1, <2>2, SubSeqProperties
  <2>4. a = SubSeq(line, s, e)
    BY <1>7 DEF s, e
  <2>5. Len(a) = L.length /\ \A i \in 1 .. L.length : a[i] = line[s + i - 1]
    BY <2>1, <2>3, <2>4
  <2>6. DOMAIN a = 1 .. L.length
    BY <2>3, <2>4, <2>5
  <2> QED
    BY <2>5, <2>6 DEF s
<1>12. /\ \A j \in L.start .. L.start + L.length - 1 : line[j] \notin Commands
       /\ L.start + L.length \in DOMAIN line => line[L.start + L.length] \in Commands
  <2>1. L \in infos
    BY <1>5
  <2> HIDE DEF L
  <2> QED
    BY <2>1, WordsOfCommand
<1>13. Range(a) \intersect Commands = {}
  <2>1. ASSUME NEW i \in 1 .. L.length PROVE a[i] \notin Commands
    <3>1. L.start + i - 1 \in L.start .. L.start + L.length - 1
      BY <1>6
    <3> QED
      BY <1>11, <1>12, <3>1
  <2> QED
    BY <1>11, <2>1 DEF Range
<1>14. /\ Max(J) + 1 = L.start
       /\ (Max(J) + Len(a) + 1) - 1 = L.start + L.length - 1
       /\ Max(J) + Len(a) + 1 = L.start + L.length
  <2>1. L.start \in Int /\ L.length \in Int
    BY <1>6
  <2>2. Max(J) = L.start - 1 /\ Len(a) = L.length
    BY <1>10, <1>11
  <2> QED
    BY <2>1, <2>2
<1>15. a = SubSeq(line, Max(J) + 1, (Max(J) + Len(a) + 1) - 1)
  BY <1>7, <1>14
<1>16. Max(J) + Len(a) + 1 \in DOMAIN line => line[Max(J) + Len(a) + 1] \in Commands
  BY <1>12, <1>14
<1> QED
  BY <1>13, <1>15, <1>16 DEF WordsBehind, J, a

-----------------------------------------------------------------------------
(* The processes *)

\* The words of the lines, and what a read leaves of the one with a blank.
Paths == STRING \union {Squeeze("b c")}
Rec == [id : Ids, path : Paths]
RecLists == [undone : Seq(Rec), done : Seq(Rec)]
Call == [cmd : Commands, args : Seq(STRING)]
NickNames == SUBSET (STRING \X STRING)
FileStates == {"absent", "empty", "cut", "whole"}

\* The types of the variables; batch and the ports need none.
Types ==
  /\ DOMAIN files = {"config", "records"}
  /\ files["config"] \in [state : FileStates, content : NickNames]
  /\ files["records"] \in [state : FileStates, content : RecLists]
  /\ argv \in [Procs -> Seq(STRING)]
  /\ pc \in [Procs -> States]
  /\ todo \in [Procs -> Seq(Call)]
  /\ ran \in [Procs -> Seq(Call)]
  /\ nicks \in [Procs -> NickNames]
  /\ undone \in [Procs -> Seq(Rec)]
  /\ done \in [Procs -> Seq(Rec)]
  /\ needRem \in [Procs -> BOOLEAN]
  /\ DOMAIN port = Procs
  /\ DOMAIN batch = Procs
  /\ saving \in [Procs -> {"config", "records"}]
  /\ asked \in [Procs -> {0, 1}]
  /\ pushed \in [Procs -> Seq(Ids)]
  /\ loaded \in [Procs -> RecLists]

\* The shutdown is asked for last, and only run_port changes the port.
Ends(p) ==
  /\ asked[p] = 1 => pc[p] = "over"
  /\ port[p] = "1997" \/ "run_port" \in Names(p)
  /\ pc[p] = "send" => batch[p] # <<>>

\* Nothing is on the lists before records.txt is read, and nothing is lost after.
Counted(p) ==
  /\ pc[p] \in {"new", "config", "records"} =>
       undone[p] = <<>> /\ done[p] = <<>> /\ pushed[p] = <<>>
  /\ Len(undone[p]) + Len(done[p])
       = Len(loaded[p].undone) + Len(loaded[p].done) + Len(pushed[p])

\* The commands to run are of the line, in the order of their priorities, and
\* there are none unless the line's commands are compatible.
Planned(p) ==
  /\ \A i \in DOMAIN todo[p] : todo[p][i].cmd \in Names(p)
  /\ \A i, j \in DOMAIN todo[p] :
       i < j => prioritySet(todo[p][i].cmd) <= prioritySet(todo[p][j].cmd)
  /\ todo[p] # <<>> \/ ran[p] # <<>> \/ needRem[p] => Compatible(catchArg(argv[p]))

\* -mem has run or is still to run, and has run before anything is sent.
MemFirst(p) ==
  /\ needRem[p] => "-mem" \in Names(p)
  /\ pc[p] \in {"run", "send", "open", "write"} /\ "-mem" \in Names(p) =>
       needRem[p] \/ \E i \in DOMAIN todo[p] : todo[p][i].cmd = "-mem"
  /\ batch[p] # <<>> /\ "-mem" \in Names(p) => needRem[p]
  /\ pc[p] \in {"open", "write"} /\ saving[p] = "records" => needRem[p]

\* What holds of each process.
PInv(p) == Ends(p) /\ Counted(p) /\ Planned(p) /\ MemFirst(p)

\* The inductive invariant.
IInv == Types /\ \A p \in Procs : PInv(p)

-----------------------------------------------------------------------------

\* All that a step of p leaves alone.
Frame(p) ==
  /\ argv' = argv
  /\ \A q \in Procs \ {p} :
       /\ pc'[q] = pc[q] /\ todo'[q] = todo[q] /\ ran'[q] = ran[q]
       /\ undone'[q] = undone[q] /\ done'[q] = done[q] /\ needRem'[q] = needRem[q]
       /\ port'[q] = port[q] /\ batch'[q] = batch[q] /\ saving'[q] = saving[q]
       /\ asked'[q] = asked[q] /\ pushed'[q] = pushed[q] /\ loaded'[q] = loaded[q]

\* The invariant of the others is not disturbed by a step of p.
LEMMA OthersKeep ==
  ASSUME NEW p \in Procs, Frame(p), NEW q \in Procs \ {p}, PInv(q)
  PROVE  PInv(q)'
<1>1. Ends(q)'
  BY DEF Frame, PInv, Ends, Names
<1>2. Counted(q)'
  BY DEF Frame, PInv, Counted
<1>3. Planned(q)'
  BY DEF Frame, PInv, Planned, Names
<1>4. MemFirst(q)'
  BY DEF Frame, PInv, MemFirst, Names
<1> QED
  BY <1>1, <1>2, <1>3, <1>4 DEF PInv

\* A step of p keeps the invariant when it keeps the types and p's own part.
LEMMA StepKeeps ==
  ASSUME IInv, NEW p \in Procs, Frame(p), Types', PInv(p)'
  PROVE  IInv' /\ Frame(p)
BY OthersKeep DEF IInv

\* The invariant holds before any process starts.
THEOREM InitIInv == Init => IInv
<1> SUFFICES ASSUME Init PROVE IInv
  OBVIOUS
<1>1. argv \in [Procs -> Seq(STRING)]
  BY LinesAssumption DEF Init
<1>2. NoLists \in RecLists /\ NoNicks \in NickNames
  BY DEF NoLists, NoNicks, RecLists, NickNames
<1>3. Types
  <2>1. files = [f \in {"config", "records"} |->
                  [state |-> "absent", content |-> IF f = "config" THEN NoNicks ELSE NoLists]]
    BY DEF Init, File, Nothing
  <2>2. /\ DOMAIN files = {"config", "records"}
        /\ files["config"] \in [state : FileStates, content : NickNames]
        /\ files["records"] \in [state : FileStates, content : RecLists]
    BY <1>2, <2>1 DEF FileStates
  <2>6. pc \in [Procs -> States] /\ needRem \in [Procs -> BOOLEAN]
    BY DEF Init, States
  <2>3. DOMAIN port = Procs /\ DOMAIN batch = Procs
    BY DEF Init
  <2>7. saving \in [Procs -> {"config", "records"}]
    BY DEF Init
  <2>8. asked \in [Procs -> {0, 1}]
    BY DEF Init
  <2>5. nicks \in [Procs -> NickNames] /\ loaded \in [Procs -> RecLists]
    BY <1>2 DEF Init
  <2>4. /\ todo \in [Procs -> Seq(Call)]
        /\ ran \in [Procs -> Seq(Call)]
        /\ undone \in [Procs -> Seq(Rec)]
        /\ done \in [Procs -> Seq(Rec)]
        /\ pushed \in [Procs -> Seq(Ids)]
    BY DEF Init
  <2> QED
    BY <1>1, <2>2, <2>3, <2>4, <2>5, <2>6, <2>7, <2>8 DEF Types
<1>4. ASSUME NEW p \in Procs PROVE PInv(p)
  BY DEF Init, PInv, Ends, Counted, Planned, MemFirst, NoLists
<1> QED
  BY <1>3, <1>4 DEF IInv

-----------------------------------------------------------------------------
(* What the helpers yield *)

\* A read keeps the number of the records.
LEMMA RereadLists ==
  ASSUME NEW s \in Seq(Rec)
  PROVE  Reread(s) \in Seq(Rec) /\ Len(Reread(s)) = Len(s)
<1> DEFINE r(i) == [s[i] EXCEPT !.path = Squeeze(@)]
<1>1. \A i \in 1 .. Len(s) : r(i) \in Rec
  <2> SUFFICES ASSUME NEW i \in 1 .. Len(s) PROVE r(i) \in Rec
    OBVIOUS
  <2>1. s[i] \in Rec
    OBVIOUS
  <2>2. Squeeze(s[i].path) \in Paths
    BY <2>1 DEF Squeeze, Paths, Rec
  <2> QED
    BY <2>1, <2>2 DEF Rec
<1>2. Reread(s) = [i \in 1 .. Len(s) |-> r(i)]
  BY DEF Reread
<1> HIDE DEF r
<1> QED
  BY <1>1, <1>2

\* What a process can find in the files.
LEMMA ContentTypes ==
  ASSUME Types
  PROVE  Content("config") \subseteq NickNames /\ Content("records") \subseteq RecLists
<1>1. Nothing("config") \in NickNames
  BY DEF Nothing, NoNicks, NickNames
<1>2. Nothing("records") \in RecLists
  BY DEF Nothing, NoLists, RecLists
<1>3. files["config"].content \in NickNames /\ files["records"].content \in RecLists
  BY DEF Types
<1> QED
  BY <1>1, <1>2, <1>3 DEF Content

\* turnDone moves one record or none.
LEMMA TurnDoneLists ==
  ASSUME Types, NEW p \in Procs, NEW id, TurnDone(p, id)
  PROVE  /\ undone' \in [Procs -> Seq(Rec)] /\ done' \in [Procs -> Seq(Rec)]
         /\ \A q \in Procs \ {p} : undone'[q] = undone[q] /\ done'[q] = done[q]
         /\ Len(undone'[p]) + Len(done'[p]) = Len(undone[p]) + Len(done[p])
<1> DEFINE u == undone[p]
           at == {i \in DOMAIN u : u[i].id = id}
<1>0. u \in Seq(Rec) /\ done[p] \in Seq(Rec)
      /\ undone \in [Procs -> Seq(Rec)] /\ done \in [Procs -> Seq(Rec)]
  BY DEF Types
<1>1. CASE at = {}
  BY <1>0, <1>1 DEF TurnDone
<1>2. CASE at # {}
  <2>1. Min(at) \in 1 .. Len(u)
    <3>1. at \in SUBSET Nat /\ at \subseteq 1 .. Len(u)
      BY <1>0
    <3> HIDE DEF at
    <3> QED
      BY <1>2, <3>1, MinIsLeast
  <2> DEFINE m == Min(at)
  <2>2. /\ done' = [done EXCEPT ![p] = Append(@, u[m])]
        /\ undone' = [undone EXCEPT ![p] = RemoveAt(@, m)]
    BY <1>2 DEF TurnDone
  <2> HIDE DEF m, at
  <2>3. /\ Append(done[p], u[m]) \in Seq(Rec)
        /\ Len(Append(done[p], u[m])) = Len(done[p]) + 1
    BY <1>0, <2>1 DEF m
  <2>4. /\ RemoveAt(u, m) \in Seq(Rec)
        /\ Len(RemoveAt(u, m)) = Len(u) - 1
    <3>1. m \in 1 .. Len(u) /\ Len(u) \in Nat
      BY <1>0, <2>1 DEF m
    <3> DEFINE a == SubSeq(u, 1, m - 1)
               b == SubSeq(u, m + 1, Len(u))
    <3>2. a \in Seq(Rec) /\ Len(a) = m - 1
      BY <1>0, <3>1
    <3>3. b \in Seq(Rec) /\ Len(b) = Len(u) - m
      BY <1>0, <3>1
    <3>4. RemoveAt(u, m) = a \o b
      BY DEF RemoveAt
    <3> HIDE DEF a, b, u
    <3>5. a \o b \in Seq(Rec) /\ Len(a \o b) = Len(a) + Len(b)
      BY <3>2, <3>3
    <3> QED
      BY <3>1, <3>2, <3>3, <3>4, <3>5
  <2>5. Len(u) \in Nat /\ Len(done[p]) \in Nat
    BY <1>0
  <2>6. /\ done'[p] = Append(done[p], u[m]) /\ undone'[p] = RemoveAt(u, m)
        /\ \A q \in Procs \ {p} : undone'[q] = undone[q] /\ done'[q] = done[q]
    BY <1>0, <2>2
  <2>7. undone' \in [Procs -> Seq(Rec)] /\ done' \in [Procs -> Seq(Rec)]
    BY <1>0, <2>2, <2>3, <2>4
  <2>8. Len(undone'[p]) = Len(u) - 1 /\ Len(done'[p]) = Len(done[p]) + 1
    BY <2>3, <2>4, <2>6
  <2> HIDE DEF u
  <2>9. Len(undone'[p]) + Len(done'[p]) = Len(u) + Len(done[p])
    BY <2>5, <2>8
  <2> QED
    BY <2>6, <2>7, <2>9 DEF u
<1> QED
  BY <1>1, <1>2

\* multiRun pushes as many records as ids, and goes to a save or to its loop.
LEMMA MultiRunPushes ==
  ASSUME Types, NEW p \in Procs, NEW paths \in Seq(Paths), NEW to, MultiRun(p, paths, to)
  PROVE  /\ undone' \in [Procs -> Seq(Rec)] /\ pushed' \in [Procs -> Seq(Ids)]
         /\ DOMAIN batch' = Procs
         /\ pc' \in [Procs -> States] /\ saving' \in [Procs -> {"config", "records"}]
         /\ UNCHANGED <<done, loaded, asked>>
         /\ \A q \in Procs \ {p} :
              /\ undone'[q] = undone[q] /\ pushed'[q] = pushed[q] /\ batch'[q] = batch[q]
              /\ pc'[q] = pc[q] /\ saving'[q] = saving[q]
         /\ Len(undone'[p]) + Len(pushed[p]) = Len(undone[p]) + Len(pushed'[p])
         /\ pc'[p] \in {"open", "send", "run"}
         /\ pc'[p] = "open" => needRem[p]
         /\ pc'[p] = "send" => batch'[p] # <<>>
<1>1. PICK ids \in [DOMAIN paths -> Ids] :
        LET new == [i \in DOMAIN paths |-> [id |-> ids[i], path |-> paths[i]]] IN
         /\ undone' = [undone EXCEPT ![p] = @ \o new]
         /\ pushed' = [pushed EXCEPT ![p] = @ \o ids]
         /\ batch' = [batch EXCEPT ![p] =
              [i \in DOMAIN paths |-> [id |-> ids[i], path |-> paths[i], port |-> to]]]
  BY DEF MultiRun
<1> DEFINE n == Len(paths)
           new == [i \in 1 .. n |-> [id |-> ids[i], path |-> paths[i]]]
           sends == [i \in 1 .. n |-> [id |-> ids[i], path |-> paths[i], port |-> to]]
<1>2. n \in Nat /\ DOMAIN paths = 1 .. n
  OBVIOUS
<1>3. ids \in Seq(Ids) /\ Len(ids) = n
  BY <1>2
<1>4. new \in Seq(Rec) /\ Len(new) = n
  <2> DEFINE r(i) == [id |-> ids[i], path |-> paths[i]]
  <2>1. \A i \in 1 .. n : r(i) \in Rec
    BY <1>2 DEF Rec
  <2> HIDE DEF r
  <2>2. [i \in 1 .. n |-> r(i)] \in Seq(Rec) /\ Len([i \in 1 .. n |-> r(i)]) = n
    BY <1>2, <2>1
  <2> QED
    BY <2>2 DEF r
<1>5. /\ undone' = [undone EXCEPT ![p] = @ \o new]
      /\ pushed' = [pushed EXCEPT ![p] = @ \o ids]
      /\ batch' = [batch EXCEPT ![p] = sends]
  BY <1>1, <1>2
<1>6. n # 0 => sends # <<>>
  BY <1>2
<1>7. paths = <<>> <=> n = 0
  OBVIOUS
<1>8. /\ undone \in [Procs -> Seq(Rec)] /\ pushed \in [Procs -> Seq(Ids)] /\ DOMAIN batch = Procs
      /\ pc \in [Procs -> States] /\ saving \in [Procs -> {"config", "records"}]
  BY DEF Types
<1> HIDE DEF n, new, sends
<1>9. /\ undone[p] \o new \in Seq(Rec) /\ Len(undone[p] \o new) = Len(undone[p]) + n
      /\ pushed[p] \o ids \in Seq(Ids) /\ Len(pushed[p] \o ids) = Len(pushed[p]) + n
      /\ Len(undone[p]) \in Nat /\ Len(pushed[p]) \in Nat
  <2>1. undone[p] \in Seq(Rec) /\ pushed[p] \in Seq(Ids)
    BY <1>8
  <2>2. /\ undone[p] \o new \in Seq(Rec)
        /\ Len(undone[p] \o new) = Len(undone[p]) + Len(new)
    BY <1>4, <2>1, ConcatProperties
  <2>3. /\ pushed[p] \o ids \in Seq(Ids)
        /\ Len(pushed[p] \o ids) = Len(pushed[p]) + Len(ids)
    BY <1>3, <2>1, ConcatProperties
  <2> QED
    BY <1>3, <1>4, <2>1, <2>2, <2>3
<1>10. /\ undone'[p] = undone[p] \o new /\ pushed'[p] = pushed[p] \o ids /\ batch'[p] = sends
       /\ \A q \in Procs \ {p} :
            undone'[q] = undone[q] /\ pushed'[q] = pushed[q] /\ batch'[q] = batch[q]
       /\ DOMAIN batch' = Procs
  BY <1>5, <1>8
<1>11. undone' \in [Procs -> Seq(Rec)] /\ pushed' \in [Procs -> Seq(Ids)]
  BY <1>5, <1>8, <1>9
<1>12. /\ pc' \in [Procs -> States] /\ saving' \in [Procs -> {"config", "records"}]
       /\ \A q \in Procs \ {p} : pc'[q] = pc[q] /\ saving'[q] = saving[q]
       /\ pc'[p] = IF needRem[p] THEN "open" ELSE IF paths = <<>> THEN "run" ELSE "send"
  BY <1>8 DEF MultiRun, OutputRecord, Goto, States
<1>13. UNCHANGED <<done, loaded, asked>>
  BY DEF MultiRun
<1>14. Len(undone'[p]) + Len(pushed[p]) = Len(undone[p]) + Len(pushed'[p])
  <2>1. Len(undone'[p]) = Len(undone[p]) + n /\ Len(pushed'[p]) = Len(pushed[p]) + n
    BY <1>9, <1>10
  <2>2. n \in Nat
    BY <1>2 DEF n
  <2>3. Len(undone[p]) \in Nat /\ Len(pushed[p]) \in Nat
    BY <1>9
  <2>4. \A a, b, m \in Nat : (a + m) + b = a + (b + m)
    OBVIOUS
  <2>5. (Len(undone[p]) + n) + Len(pushed[p]) = Len(undone[p]) + (Len(pushed[p]) + n)
    BY <2>2, <2>3, <2>4
  <2> QED
    BY <2>1, <2>5, Zenon
<1> QED
  BY <1>6, <1>7, <1>10, <1>11, <1>12, <1>13, <1>14

\* An order of the commands of a line has all of them, by their priorities.
LEMMA OrdersTypes ==
  ASSUME NEW infos, IsFiniteSet(infos), NEW o \in Orders(infos)
  PROVE  /\ \E n \in Nat : o \in [1 .. n -> infos]
         /\ \A a \in infos : \E i \in DOMAIN o : o[i] = a
         /\ \A i, j \in DOMAIN o : i < j => prioritySet(o[i].name) <= prioritySet(o[j].name)
<1>1. Cardinality(infos) \in Nat
  BY FS_CardinalityType
<1>2. o \in Bijection(1 .. Cardinality(infos), infos)
  BY DEF Orders
<1>3. o \in [1 .. Cardinality(infos) -> infos]
  BY <1>2 DEF Bijection, Injection
<1>4. \A a \in infos : \E i \in 1 .. Cardinality(infos) : o[i] = a
  BY <1>2 DEF Bijection, Surjection
<1> QED
  BY <1>1, <1>3, <1>4 DEF Orders

\* What Start has planned is taken from the front: the command that runs is of
\* the line, the rest stays in order, and -mem is not behind a send.
LEMMA CommandRuns ==
  ASSUME Types, NEW p \in Procs, NEW c \in Commands, Planned(p), MemFirst(p), Command(p, c)
  PROVE  /\ todo' \in [Procs -> Seq(Call)] /\ ran' \in [Procs -> Seq(Call)]
         /\ \A q \in Procs \ {p} : todo'[q] = todo[q] /\ ran'[q] = ran[q]
         /\ c \in Names(p) /\ Args(p) \in Seq(STRING)
         /\ Compatible(catchArg(argv[p]))
         /\ \A i \in DOMAIN todo'[p] : todo'[p][i].cmd \in Names(p)
         /\ \A i, j \in DOMAIN todo'[p] :
              i < j => prioritySet(todo'[p][i].cmd) <= prioritySet(todo'[p][j].cmd)
         /\ "-mem" \in Names(p) /\ c # "-mem" =>
              needRem[p] \/ \E i \in DOMAIN todo'[p] : todo'[p][i].cmd = "-mem"
         /\ "-mem" \in Names(p) /\ c \in {"run", "run_port"} => needRem[p]
<1> DEFINE t == todo[p]
<1>1. /\ t \in Seq(Call) /\ t # <<>> /\ Head(t).cmd = c /\ pc[p] = "run"
      /\ todo \in [Procs -> Seq(Call)] /\ ran \in [Procs -> Seq(Call)]
      /\ todo' = [todo EXCEPT ![p] = Tail(@)]
      /\ ran' = [ran EXCEPT ![p] = Append(@, Head(t))]
  BY DEF Types, Command
<1>2. Len(t) \in Nat \ {0} /\ DOMAIN t = 1 .. Len(t) /\ Head(t) = t[1] /\ t[1] \in Call
  BY <1>1
<1>3. /\ Tail(t) \in Seq(Call) /\ DOMAIN Tail(t) = 1 .. Len(t) - 1
      /\ \A i \in 1 .. Len(t) - 1 : Tail(t)[i] = t[i + 1]
  BY <1>1
<1>4. todo'[p] = Tail(t) /\ \A q \in Procs \ {p} : todo'[q] = todo[q] /\ ran'[q] = ran[q]
  BY <1>1
<1>5. todo' \in [Procs -> Seq(Call)]
  BY <1>1, <1>3
<1>6. ran' \in [Procs -> Seq(Call)]
  <2>1. Append(ran[p], Head(t)) \in Seq(Call)
    BY <1>1, <1>2
  <2> QED
    BY <1>1, <2>1
<1>7. t[1].cmd = c /\ Args(p) = t[1].args
  BY <1>1, <1>2 DEF Args
<1>8. c \in Names(p) /\ Args(p) \in Seq(STRING) /\ Compatible(catchArg(argv[p]))
  <2>1. Compatible(catchArg(argv[p]))
    BY <1>1 DEF Planned
  <2>2. c \in Names(p)
    BY <1>2, <1>7 DEF Planned
  <2>3. t[1].args \in Seq(STRING)
    BY <1>2 DEF Call
  <2> QED
    BY <1>7, <2>1, <2>2, <2>3
<1>9. \A i \in 1 .. Len(t) : t[i].cmd \in Names(p)
  BY <1>2 DEF Planned
<1>10. \A i, j \in 1 .. Len(t) : i < j => prioritySet(t[i].cmd) <= prioritySet(t[j].cmd)
  BY <1>2 DEF Planned
<1>11. "-mem" \in Names(p) => needRem[p] \/ \E i \in 1 .. Len(t) : t[i].cmd = "-mem"
  BY <1>1, <1>2 DEF MemFirst
<1> HIDE DEF t
<1>12. \A i \in DOMAIN Tail(t) : Tail(t)[i].cmd \in Names(p)
  BY <1>2, <1>3, <1>9
<1>13. \A i, j \in DOMAIN Tail(t) :
         i < j => prioritySet(Tail(t)[i].cmd) <= prioritySet(Tail(t)[j].cmd)
  BY <1>2, <1>3, <1>10
<1>14. ASSUME "-mem" \in Names(p), c # "-mem", ~needRem[p]
       PROVE  \E i \in DOMAIN Tail(t) : Tail(t)[i].cmd = "-mem"
  <2>1. PICK i \in 1 .. Len(t) : t[i].cmd = "-mem"
    BY <1>11, <1>14
  <2>2. i # 1
    BY <1>7, <1>14, <2>1
  <2>3. i - 1 \in DOMAIN Tail(t) /\ Tail(t)[i - 1] = t[i]
    BY <1>2, <1>3, <2>1, <2>2
  <2> QED
    BY <2>1, <2>3
<1>15. ASSUME "-mem" \in Names(p), c \in {"run", "run_port"}
       PROVE  needRem[p]
  <2> SUFFICES ASSUME ~needRem[p] PROVE FALSE
    OBVIOUS
  <2>1. PICK i \in 1 .. Len(t) : t[i].cmd = "-mem"
    BY <1>11, <1>15
  <2>2. 1 < i
    BY <1>7, <1>15, <2>1
  <2>3. prioritySet(c) <= prioritySet("-mem")
    BY <1>2, <1>7, <1>10, <2>1, <2>2
  <2>4. prioritySet(c) = 3 /\ prioritySet("-mem") = 2
    BY <1>15 DEF prioritySet
  <2> QED
    BY <2>3, <2>4
<1> QED
  BY <1>4, <1>5, <1>6, <1>8, <1>12, <1>13, <1>14, <1>15

-----------------------------------------------------------------------------
(* One lemma for each action *)

\* A save that is written, or cut, leaves a file of its kind.
LEMMA SavedTypes ==
  ASSUME Types, NEW p \in Procs, NEW st \in FileStates, NEW new,
         new = [files EXCEPT ![saving[p]] = File(st, Output(p))]
  PROVE  /\ DOMAIN new = {"config", "records"}
         /\ new["config"] \in [state : FileStates, content : NickNames]
         /\ new["records"] \in [state : FileStates, content : RecLists]
<1>1. saving[p] \in {"config", "records"}
  BY DEF Types
<1>2. saving[p] = "config" => Output(p) \in NickNames
  BY DEF Types, Output
<1>3. saving[p] = "records" => Output(p) \in RecLists
  BY DEF Types, Output, RecLists
<1>4. /\ DOMAIN files = {"config", "records"}
      /\ files["config"] \in [state : FileStates, content : NickNames]
      /\ files["records"] \in [state : FileStates, content : RecLists]
  BY DEF Types
<1>5. CASE saving[p] = "config"
  BY <1>2, <1>4, <1>5 DEF File
<1>6. CASE saving[p] = "records"
  BY <1>3, <1>4, <1>6 DEF File
<1> QED
  BY <1>1, <1>5, <1>6

\* The process starts: only its own control moves.
LEMMA LaunchKeeps ==
  ASSUME IInv, NEW p \in Procs, Launch(p), argv' = argv
  PROVE  IInv' /\ Frame(p)
<1>1. Types /\ PInv(p)
  BY DEF IInv
<1>2. Frame(p)
  BY <1>1 DEF Types, Frame, Launch, Goto, lists
<1>3. Types'
  BY <1>1 DEF Types, States, FileStates, Launch, Goto, lists
<1>4. Ends(p)'
  BY <1>1 DEF Types, PInv, Ends, Names, Launch, Goto, lists
<1>5. Counted(p)'
  BY <1>1 DEF Types, PInv, Counted, Launch, Goto, lists
<1>6. Planned(p)'
  BY <1>1 DEF Types, PInv, Planned, Names, Launch, Goto, lists
<1>7. MemFirst(p)'
  BY <1>1 DEF Types, PInv, MemFirst, Names, Launch, Goto, lists
<1> QED
  BY <1>2, <1>3, <1>4, <1>5, <1>6, <1>7, StepKeeps DEF PInv

\* readConfig: the nick names are of their kind whatever is found.
LEMMA ReadConfigKeeps ==
  ASSUME IInv, NEW p \in Procs, ReadConfig(p), argv' = argv
  PROVE  IInv' /\ Frame(p)
<1>1. Types /\ PInv(p)
  BY DEF IInv
<1>2. Frame(p)
  BY <1>1 DEF Types, Frame, ReadConfig, Goto, lists
<1>3. Types'
  <2>1. PICK c \in NickNames : nicks' = [nicks EXCEPT ![p] = c]
    BY <1>1, ContentTypes DEF ReadConfig
  <2>2. nicks' \in [Procs -> NickNames]
    BY <1>1, <2>1 DEF Types
  <2> QED
    BY <1>1, <2>2 DEF Types, States, ReadConfig, Goto, lists
<1>4. Ends(p)'
  BY <1>1 DEF Types, PInv, Ends, Names, ReadConfig, Goto, lists
<1>5. Counted(p)'
  BY <1>1 DEF Types, PInv, Counted, ReadConfig, Goto, lists
<1>6. Planned(p)'
  BY <1>1 DEF Types, PInv, Planned, Names, ReadConfig, Goto, lists
<1>7. MemFirst(p)'
  BY <1>1 DEF Types, PInv, MemFirst, Names, ReadConfig, Goto, lists
<1> QED
  BY <1>2, <1>3, <1>4, <1>5, <1>6, <1>7, StepKeeps DEF PInv

\* A read of the uninitialised buffer ends the process.
LEMMA ReadFaultsKeeps ==
  ASSUME IInv, NEW p \in Procs, ReadFaults(p), argv' = argv
  PROVE  IInv' /\ Frame(p)
<1>1. Types /\ PInv(p)
  BY DEF IInv
<1>2. Frame(p)
  BY <1>1 DEF Types, Frame, ReadFaults, Goto, lists
<1>3. Types'
  BY <1>1 DEF Types, States, FileStates, ReadFaults, Goto, lists
<1>4. Ends(p)'
  BY <1>1 DEF Types, PInv, Ends, Names, ReadFaults, Goto, lists
<1>5. Counted(p)'
  BY <1>1 DEF Types, PInv, Counted, ReadFaults, Goto, lists
<1>6. Planned(p)'
  BY <1>1 DEF Types, PInv, Planned, Names, ReadFaults, Goto, lists
<1>7. MemFirst(p)'
  BY <1>1 DEF Types, PInv, MemFirst, Names, ReadFaults, Goto, lists
<1> QED
  BY <1>2, <1>3, <1>4, <1>5, <1>6, <1>7, StepKeeps DEF PInv

\* A save truncates one of the two files.
LEMMA OpenForWriteKeeps ==
  ASSUME IInv, NEW p \in Procs, OpenForWrite(p), argv' = argv
  PROVE  IInv' /\ Frame(p)
<1>1. Types /\ PInv(p)
  BY DEF IInv
<1>2. Frame(p)
  BY <1>1 DEF Types, Frame, OpenForWrite, Goto, lists
<1>3. Types'
  BY <1>1 DEF Types, States, FileStates, OpenForWrite, Goto, lists
<1>4. Ends(p)'
  BY <1>1 DEF Types, PInv, Ends, Names, OpenForWrite, Goto, lists
<1>5. Counted(p)'
  BY <1>1 DEF Types, PInv, Counted, OpenForWrite, Goto, lists
<1>6. Planned(p)'
  BY <1>1 DEF Types, PInv, Planned, Names, OpenForWrite, Goto, lists
<1>7. MemFirst(p)'
  BY <1>1 DEF Types, PInv, MemFirst, Names, OpenForWrite, Goto, lists
<1> QED
  BY <1>2, <1>3, <1>4, <1>5, <1>6, <1>7, StepKeeps DEF PInv

\* A save ends where it was called from: in the loop when files are left to send.
LEMMA WriteFileKeeps ==
  ASSUME IInv, NEW p \in Procs, WriteFile(p), argv' = argv
  PROVE  IInv' /\ Frame(p)
<1>1. Types /\ PInv(p)
  BY DEF IInv
<1>2. Frame(p)
  BY <1>1 DEF Types, Frame, WriteFile, Goto, lists, Output, File
<1>3. Types'
  <2>1. /\ DOMAIN files' = {"config", "records"}
        /\ files'["config"] \in [state : FileStates, content : NickNames]
        /\ files'["records"] \in [state : FileStates, content : RecLists]
    BY <1>1, SavedTypes DEF WriteFile, FileStates
  <2>2. pc' \in [Procs -> States]
    BY <1>1 DEF Types, States, WriteFile, Goto
  <2> QED
    BY <1>1, <2>1, <2>2 DEF Types, WriteFile, lists
<1>4. Ends(p)'
  BY <1>1 DEF Types, PInv, Ends, Names, WriteFile, Goto, lists, Output, File
<1>5. Counted(p)'
  BY <1>1 DEF Types, PInv, Counted, WriteFile, Goto, lists, Output, File
<1>6. Planned(p)'
  BY <1>1 DEF Types, PInv, Planned, Names, WriteFile, Goto, lists, Output, File
<1>7. MemFirst(p)'
  BY <1>1 DEF Types, PInv, MemFirst, Names, WriteFile, Goto, lists, Output, File
<1> QED
  BY <1>2, <1>3, <1>4, <1>5, <1>6, <1>7, StepKeeps DEF PInv

\* A crash ends the process, and may cut the file that is being saved.
LEMMA CrashKeeps ==
  ASSUME IInv, NEW p \in Procs, Crash(p), argv' = argv
  PROVE  IInv' /\ Frame(p)
<1>1. Types /\ PInv(p)
  BY DEF IInv
<1>2. Frame(p)
  BY <1>1 DEF Types, Frame, Crash, Goto, lists, File, Output
<1>3. Types'
  <2>1. /\ DOMAIN files' = {"config", "records"}
        /\ files'["config"] \in [state : FileStates, content : NickNames]
        /\ files'["records"] \in [state : FileStates, content : RecLists]
    <3>1. CASE files' = files
      BY <1>1, <3>1 DEF Types
    <3>2. CASE files' = [files EXCEPT ![saving[p]] = File("cut", Output(p))]
      BY <1>1, <3>2, SavedTypes DEF FileStates
    <3> QED
      BY <3>1, <3>2 DEF Crash
  <2>2. pc' \in [Procs -> States]
    BY <1>1 DEF Types, States, Crash, Goto
  <2> QED
    BY <1>1, <2>1, <2>2 DEF Types, Crash, lists
<1>4. Ends(p)'
  BY <1>1 DEF Types, PInv, Ends, Names, Crash, Goto, lists, File, Output
<1>5. Counted(p)'
  BY <1>1 DEF Types, PInv, Counted, Crash, Goto, lists, File, Output
<1>6. Planned(p)'
  BY <1>1 DEF Types, PInv, Planned, Names, Crash, Goto, lists, File, Output
<1>7. MemFirst(p)'
  BY <1>1 DEF Types, PInv, MemFirst, Names, Crash, Goto, lists, File, Output
<1> QED
  BY <1>2, <1>3, <1>4, <1>5, <1>6, <1>7, StepKeeps DEF PInv

\* cleanup asks for the shutdown, which no process has asked for before its end.
LEMMA CleanupKeeps ==
  ASSUME IInv, NEW p \in Procs, Cleanup(p), argv' = argv
  PROVE  IInv' /\ Frame(p)
<1>1. Types /\ PInv(p)
  BY DEF IInv
<1>2. Frame(p)
  BY <1>1 DEF Types, Frame, Cleanup, Goto, lists
<1>3. Types'
  <2>1. asked' \in [Procs -> {0, 1}]
    <3>1. asked \in [Procs -> {0, 1}] /\ asked[p] # 1
      BY <1>1 DEF Types, PInv, Ends, Cleanup
    <3>2. asked[p] + 1 = 1
      BY <3>1
    <3> QED
      BY <3>1, <3>2 DEF Cleanup
  <2> QED
    BY <1>1, <2>1 DEF Types, States, Cleanup, Goto, lists
<1>4. Ends(p)'
  BY <1>1 DEF Types, PInv, Ends, Names, Cleanup, Goto, lists
<1>5. Counted(p)'
  BY <1>1 DEF Types, PInv, Counted, Cleanup, Goto, lists
<1>6. Planned(p)'
  BY <1>1 DEF Types, PInv, Planned, Names, Cleanup, Goto, lists
<1>7. MemFirst(p)'
  BY <1>1 DEF Types, PInv, MemFirst, Names, Cleanup, Goto, lists
<1> QED
  BY <1>2, <1>3, <1>4, <1>5, <1>6, <1>7, StepKeeps DEF PInv

\* ReadRecord: the lists are empty until the records are read.
LEMMA ReadRecordKeeps ==
  ASSUME IInv, NEW p \in Procs, ReadRecord(p), argv' = argv
  PROVE  IInv' /\ Frame(p)
<1>1. Types /\ PInv(p)
  BY DEF IInv
<1>8. PICK c \in RecLists :
        /\ undone' = [undone EXCEPT ![p] = @ \o Reread(c.undone)]
        /\ done' = [done EXCEPT ![p] = @ \o Reread(c.done)]
        /\ loaded' = [loaded EXCEPT ![p] =
                        [undone |-> Reread(c.undone), done |-> Reread(c.done)]]
  BY <1>1, ContentTypes DEF ReadRecord
<1>9. undone[p] = <<>> /\ done[p] = <<>> /\ pushed[p] = <<>>
  BY <1>1 DEF PInv, Counted, ReadRecord
<1>10. Reread(c.undone) \in Seq(Rec) /\ Reread(c.done) \in Seq(Rec)
  BY RereadLists DEF RecLists
<1>11. undone' = [undone EXCEPT ![p] = Reread(c.undone)]
  BY <1>8, <1>9, <1>10
<1>12. done' = [done EXCEPT ![p] = Reread(c.done)]
  BY <1>8, <1>9, <1>10
<1>2. Frame(p)
  BY <1>1, <1>8 DEF Types, Frame, ReadRecord, Goto
<1>3. Types'
  <2>1. undone' \in [Procs -> Seq(Rec)] /\ done' \in [Procs -> Seq(Rec)]
    BY <1>1, <1>10, <1>11, <1>12 DEF Types
  <2>2. loaded' \in [Procs -> RecLists]
    BY <1>1, <1>8, <1>10 DEF Types, RecLists
  <2> QED
    BY <1>1, <2>1, <2>2 DEF Types, States, ReadRecord, Goto
<1>4. Ends(p)'
  BY <1>1 DEF Types, PInv, Ends, Names, ReadRecord, Goto
<1>5. Counted(p)'
  <2>1. undone'[p] = Reread(c.undone) /\ done'[p] = Reread(c.done)
    BY <1>1, <1>11, <1>12 DEF Types
  <2>2. loaded'[p].undone = Reread(c.undone) /\ loaded'[p].done = Reread(c.done)
    BY <1>1, <1>8 DEF Types
  <2>3. pushed'[p] = <<>> /\ pc'[p] = "start"
    BY <1>1, <1>9 DEF Types, ReadRecord, Goto
  <2>4. Len(Reread(c.undone)) \in Nat /\ Len(Reread(c.done)) \in Nat
    BY <1>10
  <2> QED
    BY <2>1, <2>2, <2>3, <2>4 DEF Counted
<1>6. Planned(p)'
  BY <1>1 DEF Types, PInv, Planned, Names, ReadRecord, Goto
<1>7. MemFirst(p)'
  BY <1>1 DEF Types, PInv, MemFirst, Names, ReadRecord, Goto
<1> QED
  BY <1>2, <1>3, <1>4, <1>5, <1>6, <1>7, StepKeeps DEF PInv

\* Start: either it throws, or it plans all commands of the line.
LEMMA StartKeeps ==
  ASSUME IInv, NEW p \in Procs, Start(p), argv' = argv
  PROVE  IInv' /\ Frame(p)
<1>1. Types /\ PInv(p)
  BY DEF IInv
<1> DEFINE line == argv[p]
           infos == catchArg(line)
<1>8. line \in Seq(STRING) /\ asked[p] = 0 /\ pc[p] = "start"
  BY <1>1 DEF Types, PInv, Ends, Start
<1>9. CASE ~Compatible(infos)
  <2>1. /\ pc' = [pc EXCEPT ![p] = "over"] /\ asked' = [asked EXCEPT ![p] = @ + 1]
        /\ UNCHANGED <<files, todo, nicks, undone, done, pushed, loaded, needRem, port,
                       batch, saving, ran>>
    BY <1>9 DEF Start, Throw, Goto, lists
  <2>2. asked' \in [Procs -> {0, 1}]
    BY <1>1, <1>8, <2>1 DEF Types
  <2>3. Frame(p)
    BY <1>1, <2>1 DEF Types, Frame
  <2>4. Types'
    BY <1>1, <2>1, <2>2 DEF Types, States
  <2>5. Ends(p)'
    BY <1>1, <2>1 DEF Types, PInv, Ends, Names
  <2>6. Counted(p)'
    BY <1>1, <2>1 DEF Types, PInv, Counted
  <2>7. Planned(p)'
    BY <1>1, <2>1 DEF Types, PInv, Planned, Names
  <2>8. MemFirst(p)'
    BY <1>1, <2>1 DEF Types, PInv, MemFirst, Names
  <2> QED
    BY <2>3, <2>4, <2>5, <2>6, <2>7, <2>8, StepKeeps DEF PInv
<1>10. CASE Compatible(infos)
  <2> DEFINE Plan(o) ==
        [i \in DOMAIN o |-> [cmd |-> o[i].name, args |-> PickArg(line, o[i].name)]]
  <2>1. PICK o \in Orders(infos) : todo' = [todo EXCEPT ![p] = Plan(o)]
    BY <1>10 DEF Start
  <2>2. /\ pc' = [pc EXCEPT ![p] = "run"] /\ asked' = asked
        /\ UNCHANGED <<files, nicks, undone, done, pushed, loaded, needRem, port,
                       batch, saving, ran>>
    BY <1>10 DEF Start, Goto, lists
  <2>3. /\ IsFiniteSet(infos)
        /\ \A a \in infos : a.name \in Names(p)
        /\ \A c \in Names(p) : \E a \in infos : a.name = c
    BY <1>8, CatchTypes DEF Names
  <2>4. /\ \E n \in Nat : o \in [1 .. n -> infos]
        /\ \A a \in infos : \E i \in DOMAIN o : o[i] = a
        /\ \A i, j \in DOMAIN o : i < j => prioritySet(o[i].name) <= prioritySet(o[j].name)
    BY <2>3, OrdersTypes
  <2> HIDE DEF infos
  <2>5. \A i \in DOMAIN o : o[i].name \in Names(p)
    BY <2>3, <2>4
  <2>6. \A i \in DOMAIN o : PickArg(line, o[i].name) \in Seq(STRING)
    BY <1>8, <2>5, PickArgType DEF Names
  <2>7. /\ DOMAIN Plan(o) = DOMAIN o
        /\ \A i \in DOMAIN o : Plan(o)[i].cmd = o[i].name /\ Plan(o)[i] \in Call
    BY <2>5, <2>6 DEF Call, Names
  <2>8. Plan(o) \in Seq(Call)
    <3>1. PICK n \in Nat : o \in [1 .. n -> infos]
      BY <2>4
    <3>2. Plan(o) = [i \in 1 .. n |-> Plan(o)[i]]
      BY <3>1
    <3>3. DOMAIN o = 1 .. n
      BY <3>1
    <3> HIDE DEF Plan
    <3>4. \A i \in 1 .. n : Plan(o)[i] \in Call
      BY <2>7, <3>3
    <3>5. [i \in 1 .. n |-> Plan(o)[i]] \in Seq(Call)
      BY <3>4
    <3> QED
      BY <3>2, <3>5
  <2> HIDE DEF Plan
  <2>9. todo' \in [Procs -> Seq(Call)] /\ todo'[p] = Plan(o)
        /\ \A q \in Procs \ {p} : todo'[q] = todo[q]
    BY <1>1, <2>1, <2>8 DEF Types
  <2>10. "-mem" \in Names(p) => \E i \in DOMAIN Plan(o) : Plan(o)[i].cmd = "-mem"
    BY <2>3, <2>4, <2>7
  <2>11. Frame(p)
    BY <1>1, <2>2, <2>9 DEF Types, Frame
  <2>12. Types'
    BY <1>1, <2>2, <2>9 DEF Types, States
  <2>13. Ends(p)'
    BY <1>1, <1>8, <2>2 DEF Types, PInv, Ends, Names
  <2>14. Counted(p)'
    BY <1>1, <2>2 DEF Types, PInv, Counted
  <2>15. Planned(p)'
    <3>1. \A i \in DOMAIN todo'[p] : todo'[p][i].cmd \in Names(p)
      BY <2>5, <2>7, <2>9
    <3>2. \A i, j \in DOMAIN todo'[p] :
            i < j => prioritySet(todo'[p][i].cmd) <= prioritySet(todo'[p][j].cmd)
      BY <2>4, <2>7, <2>9
    <3> QED
      BY <1>10, <3>1, <3>2 DEF Planned, Names, infos
  <2>16. MemFirst(p)'
    BY <1>1, <2>2, <2>9, <2>10 DEF Types, PInv, MemFirst, Names
  <2> QED
    BY <2>11, <2>12, <2>13, <2>14, <2>15, <2>16, StepKeeps DEF PInv
<1> QED
  BY <1>9, <1>10

\* The commands of a line with a command of another group than -mem are without -mem.
LEMMA OtherGroup ==
  ASSUME Types, NEW p \in Procs, Compatible(catchArg(argv[p])),
         NEW c \in Names(p), groupSet(c) # groupSet("-mem")
  PROVE  "-mem" \notin Names(p)
<1>1. argv[p] \in Seq(STRING)
  BY DEF Types
<1> SUFFICES ASSUME "-mem" \in Names(p) PROVE FALSE
  OBVIOUS
<1> QED
  BY <1>1, OneGroup DEF Names

\* A command that pushes records and sends them keeps the invariant when -mem,
\* if it is on the line, has run.
LEMMA PushKeeps ==
  ASSUME IInv, NEW p \in Procs, argv' = argv, NEW c \in Commands, Command(p, c),
         NEW paths \in Seq(Paths), NEW to, MultiRun(p, paths, to),
         UNCHANGED <<files, nicks, needRem>>,
         DOMAIN port' = Procs, \A q \in Procs \ {p} : port'[q] = port[q],
         port'[p] = "1997" \/ "run_port" \in Names(p),
         "-mem" \in Names(p) => needRem[p]
  PROVE  IInv' /\ Frame(p)
<1>1. Types /\ PInv(p) /\ pc[p] = "run"
  BY DEF IInv, Command
<1>2. /\ todo' \in [Procs -> Seq(Call)] /\ ran' \in [Procs -> Seq(Call)]
      /\ \A q \in Procs \ {p} : todo'[q] = todo[q] /\ ran'[q] = ran[q]
      /\ Compatible(catchArg(argv[p]))
      /\ \A i \in DOMAIN todo'[p] : todo'[p][i].cmd \in Names(p)
      /\ \A i, j \in DOMAIN todo'[p] :
           i < j => prioritySet(todo'[p][i].cmd) <= prioritySet(todo'[p][j].cmd)
  BY <1>1, CommandRuns DEF PInv
<1>3. /\ undone' \in [Procs -> Seq(Rec)] /\ pushed' \in [Procs -> Seq(Ids)]
      /\ DOMAIN batch' = Procs
      /\ pc' \in [Procs -> States] /\ saving' \in [Procs -> {"config", "records"}]
      /\ UNCHANGED <<done, loaded, asked>>
      /\ \A q \in Procs \ {p} :
           /\ undone'[q] = undone[q] /\ pushed'[q] = pushed[q] /\ batch'[q] = batch[q]
           /\ pc'[q] = pc[q] /\ saving'[q] = saving[q]
      /\ Len(undone'[p]) + Len(pushed[p]) = Len(undone[p]) + Len(pushed'[p])
      /\ pc'[p] \in {"open", "send", "run"}
      /\ pc'[p] = "open" => needRem[p]
      /\ pc'[p] = "send" => batch'[p] # <<>>
  BY <1>1, MultiRunPushes
<1>4. Frame(p)
  BY <1>2, <1>3 DEF Frame
<1>5. Types'
  BY <1>1, <1>2, <1>3 DEF Types
<1>6. Ends(p)'
  BY <1>1, <1>3 DEF PInv, Ends, Names
<1>7. Counted(p)'
  <2>1. Len(undone[p]) \in Nat /\ Len(done[p]) \in Nat /\ Len(pushed[p]) \in Nat
    BY <1>1 DEF Types
  <2>2. Len(undone'[p]) \in Nat /\ Len(pushed'[p]) \in Nat
    BY <1>3
  <2>3. Len(loaded[p].undone) \in Nat /\ Len(loaded[p].done) \in Nat
    BY <1>1 DEF Types, RecLists
  <2>4. Len(undone[p]) + Len(done[p])
          = Len(loaded[p].undone) + Len(loaded[p].done) + Len(pushed[p])
    BY <1>1 DEF PInv, Counted
  <2>5. Len(undone'[p]) + Len(pushed[p]) = Len(undone[p]) + Len(pushed'[p])
    BY <1>3
  <2>6. Len(undone'[p]) + Len(done[p])
          = Len(loaded[p].undone) + Len(loaded[p].done) + Len(pushed'[p])
    <3> DEFINE u == Len(undone[p])
               v == Len(undone'[p])
               d == Len(done[p])
               a == Len(loaded[p].undone)
               b == Len(loaded[p].done)
               m == Len(pushed[p])
               n == Len(pushed'[p])
    <3>1. /\ u \in Nat /\ v \in Nat /\ d \in Nat /\ a \in Nat /\ b \in Nat /\ m \in Nat
          /\ n \in Nat /\ v + m = u + n /\ u + d = a + b + m
      BY <2>1, <2>2, <2>3, <2>4, <2>5
    <3> HIDE DEF u, v, d, a, b, m, n
    <3>2. v + d = a + b + n
      BY <3>1
    <3> QED
      BY <3>2 DEF u, v, d, a, b, n
  <2> QED
    BY <1>3, <2>6 DEF Counted
<1>8. Planned(p)'
  BY <1>2 DEF Planned, Names
<1>9. MemFirst(p)'
  BY <1>1, <1>3 DEF PInv, MemFirst, Names
<1> QED
  BY <1>4, <1>5, <1>6, <1>7, <1>8, <1>9, StepKeeps DEF PInv

\* So does a command that leaves the lists alone and goes on or throws; only
\* run_port may have set the port.
LEMMA OtherCommandKeeps ==
  ASSUME IInv, NEW p \in Procs, argv' = argv, NEW c \in Commands \ {"-mem"}, Command(p, c),
         UNCHANGED <<files, nicks, needRem, lists, batch, saving>>,
         UNCHANGED <<pc, asked>> \/ Throw(p),
         DOMAIN port' = Procs, \A q \in Procs \ {p} : port'[q] = port[q],
         port'[p] = "1997" \/ "run_port" \in Names(p)
  PROVE  IInv' /\ Frame(p)
<1>1. Types /\ PInv(p) /\ pc[p] = "run"
  BY DEF IInv, Command
<1>2. /\ todo' \in [Procs -> Seq(Call)] /\ ran' \in [Procs -> Seq(Call)]
      /\ \A q \in Procs \ {p} : todo'[q] = todo[q] /\ ran'[q] = ran[q]
      /\ Compatible(catchArg(argv[p]))
      /\ \A i \in DOMAIN todo'[p] : todo'[p][i].cmd \in Names(p)
      /\ \A i, j \in DOMAIN todo'[p] :
           i < j => prioritySet(todo'[p][i].cmd) <= prioritySet(todo'[p][j].cmd)
      /\ "-mem" \in Names(p) =>
           needRem[p] \/ \E i \in DOMAIN todo'[p] : todo'[p][i].cmd = "-mem"
  BY <1>1, CommandRuns DEF PInv
<1>3. /\ pc' \in [Procs -> States] /\ asked' \in [Procs -> {0, 1}]
      /\ pc'[p] \in {"run", "over"} /\ (asked'[p] = 1 => pc'[p] = "over")
      /\ \A q \in Procs \ {p} : pc'[q] = pc[q] /\ asked'[q] = asked[q]
  <2>1. pc \in [Procs -> States] /\ asked \in [Procs -> {0, 1}] /\ asked[p] = 0
    BY <1>1 DEF Types, PInv, Ends
  <2>2. CASE UNCHANGED <<pc, asked>>
    BY <1>1, <2>1, <2>2
  <2>3. CASE Throw(p)
    <3>1. pc' = [pc EXCEPT ![p] = "over"] /\ asked' = [asked EXCEPT ![p] = 1]
      BY <2>1, <2>3 DEF Throw, Goto
    <3> QED
      BY <2>1, <3>1 DEF States
  <2> QED
    BY <2>2, <2>3
<1>4. Frame(p)
  BY <1>2, <1>3 DEF Frame, lists
<1>5. Types'
  BY <1>1, <1>2, <1>3 DEF Types, lists
<1>6. Ends(p)'
  BY <1>1, <1>3 DEF PInv, Ends, Names
<1>7. Counted(p)'
  BY <1>1, <1>3 DEF PInv, Counted, lists
<1>8. Planned(p)'
  BY <1>2 DEF Planned, Names
<1>9. MemFirst(p)'
  BY <1>1, <1>2, <1>3 DEF PInv, MemFirst, Names
<1> QED
  BY <1>4, <1>5, <1>6, <1>7, <1>8, <1>9, StepKeeps DEF PInv

\* The commands that only print.
LEMMA ShowKeeps ==
  ASSUME IInv, NEW p \in Procs, Show(p), argv' = argv
  PROVE  IInv' /\ Frame(p)
<1>1. DOMAIN port = Procs /\ (port[p] = "1997" \/ "run_port" \in Names(p))
  BY DEF IInv, Types, PInv, Ends
<1>2. PICK c \in Commands \ {"-mem"} : Command(p, c)
  BY DEF Show
<1>3. UNCHANGED <<files, nicks, needRem, lists, batch, saving, pc, asked, port>>
  BY DEF Show
<1> QED
  BY <1>1, <1>2, <1>3, OtherCommandKeeps

\* -mem: from here on the line saves.
LEMMA forMemKeeps ==
  ASSUME IInv, NEW p \in Procs, forMem(p), argv' = argv
  PROVE  IInv' /\ Frame(p)
<1>1. Types /\ PInv(p) /\ Command(p, "-mem") /\ pc[p] = "run" /\ "-mem" \in Commands
  BY DEF IInv, forMem, Command, Commands
<1>2. /\ todo' \in [Procs -> Seq(Call)] /\ ran' \in [Procs -> Seq(Call)]
      /\ \A q \in Procs \ {p} : todo'[q] = todo[q] /\ ran'[q] = ran[q]
      /\ "-mem" \in Names(p)
      /\ Compatible(catchArg(argv[p]))
      /\ \A i \in DOMAIN todo'[p] : todo'[p][i].cmd \in Names(p)
      /\ \A i, j \in DOMAIN todo'[p] :
           i < j => prioritySet(todo'[p][i].cmd) <= prioritySet(todo'[p][j].cmd)
  BY <1>1, CommandRuns DEF PInv
<1>3. /\ needRem' \in [Procs -> BOOLEAN] /\ needRem'[p]
      /\ \A q \in Procs \ {p} : needRem'[q] = needRem[q]
  BY <1>1 DEF Types, forMem
<1>4. UNCHANGED <<files, pc, nicks, undone, done, pushed, loaded, port, batch, saving, asked>>
  BY DEF forMem, lists
<1>5. Frame(p)
  BY <1>2, <1>3, <1>4 DEF Frame
<1>6. Types'
  BY <1>1, <1>2, <1>3, <1>4 DEF Types
<1>7. Ends(p)'
  BY <1>1, <1>4 DEF PInv, Ends, Names
<1>8. Counted(p)'
  BY <1>1, <1>4 DEF PInv, Counted
<1>9. Planned(p)'
  BY <1>2 DEF Planned, Names
<1>10. MemFirst(p)'
  BY <1>2, <1>3 DEF MemFirst, Names
<1> QED
  BY <1>5, <1>6, <1>7, <1>8, <1>9, <1>10, StepKeeps DEF PInv

\* -config_nick: -mem is not on its line.
LEMMA forConfigNickKeeps ==
  ASSUME IInv, NEW p \in Procs, forConfigNick(p), argv' = argv
  PROVE  IInv' /\ Frame(p)
<1>1. /\ Types /\ PInv(p) /\ Command(p, "-config_nick") /\ pc[p] = "run"
      /\ "-config_nick" \in Commands
  BY DEF IInv, forConfigNick, Command, Commands
<1>2. /\ todo' \in [Procs -> Seq(Call)] /\ ran' \in [Procs -> Seq(Call)]
      /\ \A q \in Procs \ {p} : todo'[q] = todo[q] /\ ran'[q] = ran[q]
      /\ "-config_nick" \in Names(p) /\ Args(p) \in Seq(STRING)
      /\ Compatible(catchArg(argv[p]))
      /\ \A i \in DOMAIN todo'[p] : todo'[p][i].cmd \in Names(p)
      /\ \A i, j \in DOMAIN todo'[p] :
           i < j => prioritySet(todo'[p][i].cmd) <= prioritySet(todo'[p][j].cmd)
  BY <1>1, CommandRuns DEF PInv
<1>3. nicks' \in [Procs -> NickNames]
  <2> DEFINE a == Args(p)
  <2>1. a[1] \in STRING /\ a[2] \in STRING
    <3>1. a \in Seq(STRING) /\ Len(a) = 2
      BY <1>2 DEF forConfigNick
    <3> HIDE DEF a
    <3> QED
      BY <3>1
  <2>2. nicks' = [nicks EXCEPT ![p] = {e \in @ : e[1] # a[1]} \union {<<a[1], a[2]>>}]
    BY DEF forConfigNick
  <2> HIDE DEF a
  <2>3. nicks \in [Procs -> NickNames]
    BY <1>1 DEF Types
  <2>4. {e \in nicks[p] : e[1] # a[1]} \union {<<a[1], a[2]>>} \in NickNames
    BY <2>1, <2>3 DEF NickNames
  <2> QED
    BY <2>2, <2>3, <2>4
<1>4. /\ pc' = [pc EXCEPT ![p] = "open"] /\ saving' = [saving EXCEPT ![p] = "config"]
      /\ UNCHANGED <<files, undone, done, pushed, loaded, needRem, port, batch, asked>>
  BY DEF forConfigNick, lists, Goto
<1>5. "-mem" \notin Names(p)
  <2>1. groupSet("-config_nick") # groupSet("-mem")
    BY DEF groupSet
  <2> QED
    BY <1>1, <1>2, <2>1, OtherGroup
<1>6. Frame(p)
  BY <1>1, <1>2, <1>4 DEF Types, Frame
<1>7. Types'
  BY <1>1, <1>2, <1>3, <1>4 DEF Types, States
<1>8. Ends(p)'
  BY <1>1, <1>4 DEF Types, PInv, Ends, Names
<1>9. Counted(p)'
  BY <1>1, <1>4 DEF Types, PInv, Counted
<1>10. Planned(p)'
  BY <1>2 DEF Planned, Names
<1>11. MemFirst(p)'
  BY <1>1, <1>4, <1>5 DEF Types, PInv, MemFirst, Names
<1> QED
  BY <1>6, <1>7, <1>8, <1>9, <1>10, <1>11, StepKeeps DEF PInv

\* run: it is sorted behind -mem.
LEMMA forRunKeeps ==
  ASSUME IInv, NEW p \in Procs, forRun(p), argv' = argv
  PROVE  IInv' /\ Frame(p)
<1>1. /\ Types /\ PInv(p) /\ Command(p, "run") /\ "run" \in Commands \ {"-mem"}
      /\ UNCHANGED <<files, nicks, needRem, port>>
  BY DEF IInv, forRun, Commands
<1>2. Args(p) \in Seq(STRING) /\ ("-mem" \in Names(p) => needRem[p])
  BY <1>1, CommandRuns DEF PInv
<1>3. DOMAIN port = Procs /\ (port[p] = "1997" \/ "run_port" \in Names(p))
  BY <1>1 DEF Types, PInv, Ends
<1>4. CASE AllExist(Tail(Args(p)))
  <2>1. MultiRun(p, Tail(Args(p)), port[p])
    BY <1>4 DEF forRun
  <2>2. Tail(Args(p)) \in Seq(STRING)
    BY <1>2 DEF forRun
  <2>3. Tail(Args(p)) \in Seq(Paths)
    BY <2>2, SeqMonotonic DEF Paths
  <2> QED
    BY <1>1, <1>2, <1>3, <2>1, <2>3, PushKeeps
<1>5. CASE ~AllExist(Tail(Args(p)))
  <2>1. Throw(p) /\ UNCHANGED <<lists, batch, saving>>
    BY <1>5 DEF forRun
  <2> QED
    BY <1>1, <1>3, <2>1, OtherCommandKeeps
<1> QED
  BY <1>4, <1>5

\* run_port: as run, and the port is set whether the file exists or not.
LEMMA forRun_portKeeps ==
  ASSUME IInv, NEW p \in Procs, forRun_port(p), argv' = argv
  PROVE  IInv' /\ Frame(p)
<1>1. /\ Types /\ PInv(p) /\ Command(p, "run_port") /\ "run_port" \in Commands \ {"-mem"}
      /\ UNCHANGED <<files, nicks, needRem>>
  BY DEF IInv, forRun_port, Commands
<1>2. /\ Args(p) \in Seq(STRING) /\ "run_port" \in Names(p)
      /\ "-mem" \in Names(p) => needRem[p]
  BY <1>1, CommandRuns DEF PInv
<1>3. DOMAIN port' = Procs /\ \A q \in Procs \ {p} : port'[q] = port[q]
  BY <1>1 DEF Types, forRun_port
<1>4. CASE Args(p)[3] \in Existing
  <2>1. MultiRun(p, <<Args(p)[3]>>, Args(p)[2])
    BY <1>4 DEF forRun_port
  <2>2. Args(p)[3] \in STRING
    BY <1>2 DEF forRun_port
  <2>3. Args(p)[3] \in Paths
    BY <2>2 DEF Paths
  <2>4. \A x \in Paths : <<x>> \in Seq(Paths)
    OBVIOUS
  <2> QED
    BY <1>1, <1>2, <1>3, <2>1, <2>3, <2>4, PushKeeps
<1>5. CASE Args(p)[3] \notin Existing
  <2>1. UNCHANGED <<lists, batch, saving, pc, asked>>
    BY <1>5 DEF forRun_port
  <2> QED
    BY <1>1, <1>2, <1>3, <2>1, OtherCommandKeeps
<1> QED
  BY <1>4, <1>5

\* -retry: -mem is not on its line.
LEMMA forRetryKeeps ==
  ASSUME IInv, NEW p \in Procs, forRetry(p), argv' = argv
  PROVE  IInv' /\ Frame(p)
<1>1. /\ Types /\ PInv(p) /\ Command(p, "-retry") /\ "-retry" \in Commands \ {"-mem"}
      /\ UNCHANGED <<files, nicks, needRem, port>>
  BY DEF IInv, forRetry, Commands
<1>2. "-retry" \in Names(p) /\ Compatible(catchArg(argv[p]))
  BY <1>1, CommandRuns DEF PInv
<1>3. "-mem" \notin Names(p)
  <2>1. groupSet("-retry") # groupSet("-mem")
    BY DEF groupSet
  <2> QED
    BY <1>1, <1>2, <2>1, OtherGroup
<1>4. DOMAIN port = Procs /\ (port[p] = "1997" \/ "run_port" \in Names(p))
  BY <1>1 DEF Types, PInv, Ends
<1> DEFINE k == Number(Args(p)[1])
           n == IF k > 0 THEN k ELSE Len(undone[p])
           paths == [i \in 1 .. n |-> undone[p][i].path]
<1>5. CASE k <= Len(undone[p]) /\ AllExist(paths)
  <2>1. MultiRun(p, paths, "recorded")
    BY <1>5 DEF forRetry
  <2>2. undone[p] \in Seq(Rec)
    BY <1>1 DEF Types
  <2>3. k \in Nat
    BY DEF Number
  <2>4. n \in Nat /\ n <= Len(undone[p])
    <3> HIDE DEF k
    <3> QED
      BY <1>5, <2>2, <2>3
  <2> HIDE DEF n
  <2>5. \A i \in 1 .. n : undone[p][i].path \in Paths
    <3> SUFFICES ASSUME NEW i \in 1 .. n PROVE undone[p][i].path \in Paths
      OBVIOUS
    <3>1. undone[p][i] \in Rec
      BY <2>2, <2>4
    <3> QED
      BY <3>1 DEF Rec
  <2>6. paths \in Seq(Paths)
    BY <2>4, <2>5
  <2> HIDE DEF paths
  <2> QED
    BY <1>1, <1>3, <1>4, <2>1, <2>6, PushKeeps
<1>6. CASE ~(k <= Len(undone[p]) /\ AllExist(paths))
  <2>1. Throw(p) /\ UNCHANGED <<lists, batch, saving>>
    BY <1>6 DEF forRetry
  <2> QED
    BY <1>1, <1>4, <2>1, OtherCommandKeeps
<1> QED
  BY <1>5, <1>6

\* A turn of the loop moves one record or none.
LEMMA SendNextKeeps ==
  ASSUME IInv, NEW p \in Procs, SendNext(p), argv' = argv
  PROVE  IInv' /\ Frame(p)
<1>1. Types /\ PInv(p) /\ pc[p] = "send" /\ batch[p] # <<>>
  BY DEF IInv, SendNext, PInv, Ends
<1>2. /\ undone' \in [Procs -> Seq(Rec)] /\ done' \in [Procs -> Seq(Rec)]
      /\ \A q \in Procs \ {p} : undone'[q] = undone[q] /\ done'[q] = done[q]
      /\ Len(undone'[p]) + Len(done'[p]) = Len(undone[p]) + Len(done[p])
  <2>1. CASE TurnDone(p, Head(batch[p]).id)
    BY <1>1, <2>1, TurnDoneLists
  <2>2. CASE UNCHANGED <<undone, done>>
    BY <1>1, <2>2 DEF Types
  <2> QED
    BY <2>1, <2>2 DEF SendNext
<1>3. /\ DOMAIN batch' = Procs /\ batch'[p] = Tail(batch[p])
      /\ \A q \in Procs \ {p} : batch'[q] = batch[q]
  BY <1>1 DEF Types, SendNext
<1>4. /\ pc' \in [Procs -> States] /\ saving' \in [Procs -> {"config", "records"}]
      /\ \A q \in Procs \ {p} : pc'[q] = pc[q] /\ saving'[q] = saving[q]
      /\ pc'[p] \in {"run", "send", "open"}
      /\ pc'[p] = "open" => needRem[p]
      /\ pc'[p] = "send" => batch'[p] # <<>>
  <2> DEFINE back == IF Tail(batch[p]) = <<>> THEN "run" ELSE "send"
  <2>1. /\ pc \in [Procs -> States] /\ saving \in [Procs -> {"config", "records"}]
        /\ back \in {"run", "send"} /\ (back = "send" => batch'[p] # <<>>)
    BY <1>1, <1>3 DEF Types
  <2>2. CASE OutputRecord(p, back)
    <3>1. /\ pc' = [pc EXCEPT ![p] = IF needRem[p] THEN "open" ELSE back]
          /\ saving' = [saving EXCEPT ![p] = "records"]
      BY <2>2 DEF OutputRecord, Goto
    <3> HIDE DEF back
    <3> QED
      BY <2>1, <3>1 DEF States
  <2>3. CASE Goto(p, back) /\ UNCHANGED saving
    <3>1. pc' = [pc EXCEPT ![p] = back] /\ saving' = saving
      BY <2>3 DEF Goto
    <3> HIDE DEF back
    <3> QED
      BY <2>1, <3>1 DEF States
  <2> QED
    BY <2>2, <2>3 DEF SendNext
<1>5. UNCHANGED <<files, todo, nicks, pushed, loaded, needRem, port, asked, ran>>
  BY DEF SendNext
<1>6. Frame(p)
  BY <1>2, <1>3, <1>4, <1>5 DEF Frame
<1>7. Types'
  BY <1>1, <1>2, <1>3, <1>4, <1>5 DEF Types
<1>8. Ends(p)'
  BY <1>1, <1>4, <1>5 DEF PInv, Ends, Names
<1>9. Counted(p)'
  BY <1>1, <1>2, <1>4, <1>5 DEF PInv, Counted
<1>10. Planned(p)'
  BY <1>1, <1>5 DEF PInv, Planned, Names
<1>11. MemFirst(p)'
  BY <1>1, <1>4, <1>5 DEF PInv, MemFirst, Names
<1> QED
  BY <1>6, <1>7, <1>8, <1>9, <1>10, <1>11, StepKeeps DEF PInv

-----------------------------------------------------------------------------
(* The theorems *)

\* A step of p keeps the invariant and leaves the other processes alone.
LEMMA ProcessKeeps ==
  ASSUME IInv, NEW p \in Procs, Launch(p) \/ Step(p) \/ Crash(p)
  PROVE  IInv' /\ Frame(p)
<1>1. CASE Launch(p)
  <2>1. argv' = argv
    BY <1>1 DEF Launch
  <2> QED
    BY <1>1, <2>1, LaunchKeeps
<1>2. CASE Crash(p)
  <2>1. argv' = argv
    BY <1>2 DEF Crash
  <2> QED
    BY <1>2, <2>1, CrashKeeps
<1>3. CASE Step(p)
  <2>0. argv' = argv
    BY <1>3 DEF Step
  <2>1. CASE ReadConfig(p)
    BY <2>0, <2>1, ReadConfigKeeps
  <2>2. CASE ReadRecord(p)
    BY <2>0, <2>2, ReadRecordKeeps
  <2>3. CASE ReadFaults(p)
    BY <2>0, <2>3, ReadFaultsKeeps
  <2>4. CASE OpenForWrite(p)
    BY <2>0, <2>4, OpenForWriteKeeps
  <2>5. CASE WriteFile(p)
    BY <2>0, <2>5, WriteFileKeeps
  <2>6. CASE Start(p)
    BY <2>0, <2>6, StartKeeps
  <2>7. CASE Cleanup(p)
    BY <2>0, <2>7, CleanupKeeps
  <2>8. CASE Show(p)
    BY <2>0, <2>8, ShowKeeps
  <2>9. CASE forMem(p)
    BY <2>0, <2>9, forMemKeeps
  <2>10. CASE forConfigNick(p)
    BY <2>0, <2>10, forConfigNickKeeps
  <2>11. CASE forRun(p)
    BY <2>0, <2>11, forRunKeeps
  <2>12. CASE forRun_port(p)
    BY <2>0, <2>12, forRun_portKeeps
  <2>13. CASE forRetry(p)
    BY <2>0, <2>13, forRetryKeeps
  <2>14. CASE SendNext(p)
    BY <2>0, <2>14, SendNextKeeps
  <2> QED
    BY <1>3, <2>1, <2>2, <2>3, <2>4, <2>5, <2>6, <2>7,
       <2>8, <2>9, <2>10, <2>11, <2>12, <2>13, <2>14 DEF Step
<1> QED
  BY <1>1, <1>2, <1>3

\* Every step of every process keeps the invariant.
THEOREM StepIInv == IInv /\ [Next]_vars => IInv'
<1> SUFFICES ASSUME IInv, [Next]_vars PROVE IInv'
  OBVIOUS
<1>1. CASE Next
  BY <1>1, ProcessKeeps DEF Next
<1>2. CASE UNCHANGED vars
  BY <1>2 DEF IInv, Types, PInv, Ends, Counted, Planned, MemFirst, Names, vars
<1> QED
  BY <1>1, <1>2

\* The invariant holds in every reachable state.
THEOREM Invariant == Spec => []IInv
BY InitIInv, StepIInv, PTL DEF Spec

\* TypeOK: the control stays in its states, the shutdown is asked for at most
\* once, and only a line with run_port leaves the default port.
THEOREM TypeCorrect == Spec => []TypeOK
<1>1. IInv => TypeOK
  <2> SUFFICES ASSUME IInv PROVE TypeOK
    OBVIOUS
  <2>1. \A f \in {"config", "records"} : files[f].state \in {"absent", "empty", "cut", "whole"}
    BY DEF IInv, Types, FileStates
  <2>2. ASSUME NEW p \in Procs
        PROVE  /\ asked[p] \in {0, 1}
               /\ port[p] = "1997" \/ "run_port" \in Names(p)
               /\ pc[p] = "send" => batch[p] # <<>>
    BY DEF IInv, Types, PInv, Ends
  <2> QED
    BY <2>1, <2>2 DEF IInv, Types, TypeOK
<1> QED
  BY <1>1, Invariant, PTL

\* MixedRunsNothing: Start compares neighbours only, and yet a line with
\* commands of two groups runs none of them.
THEOREM MixedRunsNothingHolds == Spec => []MixedRunsNothing
<1>1. IInv => MixedRunsNothing
  <2> SUFFICES ASSUME IInv, NEW p \in Procs, ran[p] # <<>>
               PROVE  ~(Cardinality(Groups(p)) > 1)
    BY DEF MixedRunsNothing
  <2>1. argv[p] \in Seq(STRING) /\ Compatible(catchArg(argv[p]))
    BY DEF IInv, Types, PInv, Planned
  <2>2. \A c, d \in Names(p) : groupSet(c) = groupSet(d)
    BY <2>1, OneGroup DEF Names
  <2>3. CASE Names(p) = {}
    <3>1. Groups(p) = {}
      BY <2>3 DEF Groups
    <3>2. Cardinality(Groups(p)) = 0
      BY <3>1, FS_EmptySet
    <3> QED
      BY <3>2
  <2>4. CASE Names(p) # {}
    <3>1. PICK c \in Names(p) : TRUE
      BY <2>4
    <3>2. Groups(p) = {groupSet(c)}
      BY <2>2, <3>1 DEF Groups
    <3>3. Cardinality(Groups(p)) = 1
      BY <3>2, FS_Singleton
    <3> QED
      BY <3>3
  <2> QED
    BY <2>3, <2>4
<1> QED
  BY <1>1, Invariant, PTL

\* MemCoversLine: whatever the order of the words, -mem has run before its line
\* sends, and a process that saves records.txt has no -retry on its line.
THEOREM MemCoversLineHolds == Spec => []MemCoversLine
<1>1. IInv => MemCoversLine
  <2> SUFFICES ASSUME IInv, NEW p \in Procs
               PROVE  /\ pc[p] = "send" /\ "-mem" \in Names(p) => needRem[p]
                      /\ pc[p] \in {"open", "write"} /\ saving[p] = "records" =>
                           "-mem" \in Names(p) /\ "-retry" \notin Names(p)
    BY DEF MemCoversLine
  <2>1. Types /\ Ends(p) /\ Planned(p) /\ MemFirst(p)
    BY DEF IInv, PInv
  <2>2. pc[p] = "send" /\ "-mem" \in Names(p) => needRem[p]
    BY <2>1 DEF Ends, MemFirst
  <2>3. ASSUME pc[p] \in {"open", "write"}, saving[p] = "records"
        PROVE  "-mem" \in Names(p) /\ "-retry" \notin Names(p)
    <3>1. needRem[p] /\ "-mem" \in Names(p) /\ Compatible(catchArg(argv[p]))
      BY <2>1, <2>3 DEF MemFirst, Planned
    <3>2. groupSet("-retry") # groupSet("-mem")
      BY DEF groupSet
    <3> QED
      BY <2>1, <3>1, <3>2, OtherGroup
  <2> QED
    BY <2>2, <2>3
<1> QED
  BY <1>1, Invariant, PTL

\* EachRecordOnce: turnDone and the pushes drop no record and double none.
THEOREM EachRecordOnceHolds == Spec => []EachRecordOnce
<1>1. IInv => EachRecordOnce
  <2> SUFFICES ASSUME IInv, NEW p \in Procs
               PROVE  Total(InMemory(p)) = Total(loaded[p]) + Len(pushed[p])
    BY DEF EachRecordOnce
  <2> QED
    BY DEF IInv, PInv, Counted, Total, InMemory
<1> QED
  BY <1>1, Invariant, PTL

-----------------------------------------------------------------------------
(* What runs *)

\* The places of the commands.
Keys(line) == {j \in DOMAIN line : line[j] \in Commands}

\* at gives each call the place of its command.
Placed(line, calls, at) == \A k \in DOMAIN calls : line[at[k]] = calls[k].cmd

\* The calls are those of the line: each has the arguments of its command, and
\* a place of its own on the line.
OfLine(line, calls) ==
  /\ \A k \in DOMAIN calls : calls[k].args = PickArg(line, calls[k].cmd)
  /\ \E at \in Injection(DOMAIN calls, Keys(line)) : Placed(line, calls, at)

\* Every place of a command has its call.
WholeLine(line, calls) ==
  \E at \in Bijection(DOMAIN calls, Keys(line)) : Placed(line, calls, at)

\* The control before Start has planned, and while the plan is carried out.
Early == {"new", "config", "records", "start"}
Busy == {"run", "send", "open", "write"}

\* What has run and what will run is what Start planned.
CallsInv(p) ==
  /\ pc[p] \in Early => ran[p] = <<>> /\ todo[p] = <<>>
  /\ OfLine(argv[p], ran[p] \o todo[p])
  /\ pc[p] \in Busy => WholeLine(argv[p], ran[p] \o todo[p])

LEMMA InitCalls == ASSUME Init, NEW p \in Procs PROVE CallsInv(p)
<1>1. ran[p] = <<>> /\ todo[p] = <<>> /\ ran[p] \o todo[p] = <<>>
  BY DEF Init
<1>2. <<>> \in Injection(DOMAIN <<>>, Keys(argv[p]))
  BY DEF Injection, IsInjective
<1>3. OfLine(argv[p], <<>>)
  BY <1>2 DEF OfLine, Placed
<1>4. pc[p] \notin Busy
  BY DEF Init, Busy
<1> QED
  BY <1>1, <1>3, <1>4 DEF CallsInv

\* A step of a process starts its commands, runs one, or none.
LEMMA StepCalls ==
  ASSUME IInv, NEW p \in Procs, Launch(p) \/ Step(p) \/ Crash(p)
  PROVE  \/ Start(p)
         \/ \E c \in Commands : Command(p, c) /\ pc'[p] \notin Early /\ pc[p] \in Busy
         \/ /\ UNCHANGED <<ran, todo>>
            /\ pc'[p] \in Early => pc[p] \in Early
            /\ pc'[p] \in Busy => pc[p] \in Busy
<1>1. Types
  BY DEF IInv
<1>2. CASE Launch(p) \/ Crash(p)
  BY <1>1, <1>2 DEF Types, Launch, Crash, Goto, Early, Busy
<1>3. CASE ReadConfig(p) \/ ReadRecord(p) \/ ReadFaults(p) \/ OpenForWrite(p) \/ WriteFile(p)
            \/ Cleanup(p)
  BY <1>1, <1>3 DEF Types, ReadConfig, ReadRecord, ReadFaults, OpenForWrite, WriteFile,
     Cleanup, Goto, Early, Busy
<1>4. CASE SendNext(p)
  BY <1>1, <1>4 DEF Types, SendNext, OutputRecord, Goto, Early, Busy
<1>5. CASE Show(p) \/ forMem(p) \/ forConfigNick(p)
  <2>1. PICK c \in Commands : Command(p, c)
    BY <1>5 DEF Show, forMem, forConfigNick, Commands
  <2>2. pc[p] = "run"
    BY <2>1 DEF Command
  <2>3. pc'[p] \in {"run", "open"}
    BY <1>1, <1>5, <2>2 DEF Types, Show, forMem, forConfigNick, Goto
  <2> QED
    BY <2>1, <2>2, <2>3 DEF Early, Busy
<1>6. CASE forRun(p) \/ forRun_port(p) \/ forRetry(p)
  <2>1. PICK c \in Commands : Command(p, c)
    BY <1>6 DEF forRun, forRun_port, forRetry, Commands
  <2>2. pc[p] = "run"
    BY <2>1 DEF Command
  <2>3. \/ \E paths, to : MultiRun(p, paths, to)
        \/ Throw(p)
        \/ UNCHANGED pc
    BY <1>6 DEF forRun, forRun_port, forRetry
  <2>4. pc'[p] \in {"open", "send", "run", "over"}
    BY <1>1, <2>2, <2>3 DEF Types, MultiRun, OutputRecord, Throw, Goto
  <2> QED
    BY <2>1, <2>2, <2>4 DEF Early, Busy
<1> QED
  BY <1>2, <1>3, <1>4, <1>5, <1>6 DEF Step

\* To move the first of t behind s changes nothing of both together.
LEMMA MoveFirst ==
  ASSUME NEW S, NEW s \in Seq(S), NEW t \in Seq(S), t # <<>>
  PROVE  Append(s, Head(t)) \o Tail(t) = s \o t
<1> DEFINE a == Append(s, Head(t))
           b == Tail(t)
           m == Len(s)
           n == Len(t)
<1>1. m \in Nat /\ n \in Nat \ {0} /\ Head(t) = t[1] /\ Head(t) \in S
  OBVIOUS
<1>2. /\ a \in Seq(S) /\ Len(a) = m + 1
      /\ \A i \in 1 .. m + 1 : a[i] = IF i = m + 1 THEN t[1] ELSE s[i]
  BY <1>1, AppendProperties
<1>3. /\ b \in Seq(S) /\ Len(b) = n - 1
      /\ \A i \in 1 .. n - 1 : b[i] = t[i + 1]
  BY <1>1, HeadTailProperties
<1> HIDE DEF a, b
<1>4. /\ a \o b \in Seq(S) /\ Len(a \o b) = Len(a) + Len(b)
      /\ \A i \in 1 .. Len(a) + Len(b) :
           (a \o b)[i] = IF i <= Len(a) THEN a[i] ELSE b[i - Len(a)]
  BY <1>2, <1>3, ConcatProperties
<1>5. /\ s \o t \in Seq(S) /\ Len(s \o t) = m + n
      /\ \A i \in 1 .. m + n : (s \o t)[i] = IF i <= m THEN s[i] ELSE t[i - m]
  BY ConcatProperties
<1> HIDE DEF m, n
<1>6. Len(a \o b) = m + n
  BY <1>1, <1>2, <1>3, <1>4
<1>7. ASSUME NEW i \in 1 .. m + n PROVE (a \o b)[i] = (s \o t)[i]
  <2>0. (a \o b)[i] = IF i <= m + 1 THEN a[i] ELSE b[i - (m + 1)]
    BY <1>1, <1>2, <1>3, <1>4
  <2>1. CASE i <= m
    BY <1>1, <1>2, <1>5, <2>0, <2>1
  <2>2. CASE i = m + 1
    <3>1. (a \o b)[i] = t[1]
      BY <1>1, <1>2, <2>0, <2>2
    <3>2. (s \o t)[i] = t[i - m] /\ i - m = 1
      BY <1>1, <1>5, <2>2
    <3> QED
      BY <3>1, <3>2
  <2>3. CASE i > m + 1
    <3>1. i - (m + 1) \in 1 .. n - 1 /\ (i - (m + 1)) + 1 = i - m
      BY <1>1, <2>3
    <3>2. (a \o b)[i] = b[i - (m + 1)]
      BY <1>1, <2>0, <2>3
    <3>3. (s \o t)[i] = t[i - m]
      BY <1>1, <1>5, <2>3
    <3> QED
      BY <1>3, <3>1, <3>2, <3>3
  <2>4. i <= m \/ i = m + 1 \/ i > m + 1
    BY <1>1
  <2> QED
    BY <2>1, <2>2, <2>3, <2>4
<1>8. a \o b = s \o t
  BY <1>4, <1>5, <1>6, <1>7, SeqEqual
<1> QED
  BY <1>8 DEF a, b

\* Start gives each occurrence of a command one call.
LEMMA StartOfLine ==
  ASSUME NEW line \in Seq(STRING), NEW o \in Orders(catchArg(line))
  PROVE  LET calls == [i \in DOMAIN o |->
                         [cmd |-> o[i].name, args |-> PickArg(line, o[i].name)]]
         IN OfLine(line, calls) /\ WholeLine(line, calls)
<1> DEFINE infos == catchArg(line)
           calls == [i \in DOMAIN o |-> [cmd |-> o[i].name, args |-> PickArg(line, o[i].name)]]
           at == [i \in DOMAIN o |-> o[i].start - 1]
<1>1. o \in Bijection(1 .. Cardinality(infos), infos)
  BY DEF Orders
<1>2. /\ \A i \in DOMAIN o : o[i] \in infos
      /\ \A i, j \in DOMAIN o : o[i] = o[j] => i = j
      /\ \A a \in infos : \E i \in DOMAIN o : o[i] = a
  BY <1>1 DEF Bijection, Injection, Surjection, IsInjective
<1>3. /\ \A a \in infos : a.start - 1 \in DOMAIN line /\ line[a.start - 1] = a.name
      /\ \A j \in Keys(line) : \E a \in infos : a.start = j + 1
      /\ \A a, b \in infos : a.start = b.start => a = b
  BY CatchPlaces DEF Keys
<1>4. \A a \in infos : a.start \in Nat /\ a.name \in Commands
  BY CatchTypes
<1> HIDE DEF infos
<1>5. DOMAIN calls = DOMAIN o
  OBVIOUS
<1>6. at \in [DOMAIN o -> Keys(line)]
  BY <1>2, <1>3, <1>4 DEF Keys
<1>7. \A i, j \in DOMAIN o : at[i] = at[j] => i = j
  BY <1>2, <1>3, <1>4
<1>8. ASSUME NEW j \in Keys(line) PROVE \E i \in DOMAIN o : at[i] = j
  <2>1. PICK a \in infos : a.start = j + 1
    BY <1>3
  <2>2. PICK i \in DOMAIN o : o[i] = a
    BY <1>2
  <2>3. j \in Nat
    BY DEF Keys
  <2> QED
    BY <2>1, <2>2, <2>3
<1>9. \A k \in DOMAIN calls :
        /\ line[at[k]] = calls[k].cmd
        /\ calls[k].args = PickArg(line, calls[k].cmd)
  BY <1>2, <1>3
<1> HIDE DEF at, calls
<1>10. at \in Bijection(DOMAIN calls, Keys(line))
  BY <1>5, <1>6, <1>7, <1>8 DEF Bijection, Injection, Surjection, IsInjective
<1>11. at \in Injection(DOMAIN calls, Keys(line))
  BY <1>10 DEF Bijection
<1>12. OfLine(line, calls) /\ WholeLine(line, calls)
  BY <1>9, <1>10, <1>11 DEF OfLine, WholeLine, Placed
<1> QED
  BY <1>12 DEF calls

LEMMA CallsKept ==
  ASSUME IInv, \A q \in Procs : CallsInv(q),
         NEW p \in Procs, Launch(p) \/ Step(p) \/ Crash(p)
  PROVE  \A q \in Procs : CallsInv(q)'
<1>1. Frame(p) /\ argv' = argv /\ Types
  BY ProcessKeeps DEF Frame, IInv
<1>2. ASSUME NEW q \in Procs \ {p} PROVE CallsInv(q)'
  BY <1>1 DEF Frame, CallsInv
<1>3. CallsInv(p)'
  <2>1. CASE Start(p)
    <3>1. pc[p] = "start" /\ ran[p] = <<>> /\ todo[p] = <<>> /\ argv[p] \in Seq(STRING)
      BY <1>1, <2>1 DEF Start, CallsInv, Early, Types
    <3>2. ran' = ran /\ pc'[p] \notin Early
      BY <1>1, <2>1 DEF Start, Throw, Goto, Early, Types
    <3>3. CASE todo' = todo /\ Throw(p)
      <4>1. pc'[p] = "over"
        BY <1>1, <3>3 DEF Types, Throw, Goto
      <4> QED
        BY <1>1, <3>2, <3>3, <4>1 DEF CallsInv, Busy
    <3>4. ASSUME NEW o \in Orders(catchArg(argv[p])),
                 todo' = [todo EXCEPT ![p] =
                   [i \in DOMAIN o |->
                      [cmd |-> o[i].name, args |-> PickArg(argv[p], o[i].name)]]]
          PROVE  CallsInv(p)'
      <4> DEFINE plan == [i \in DOMAIN o |->
                            [cmd |-> o[i].name, args |-> PickArg(argv[p], o[i].name)]]
      <4>1. todo'[p] = plan
        BY <1>1, <3>4 DEF Types
      <4>2. OfLine(argv[p], plan) /\ WholeLine(argv[p], plan)
        BY <3>1, StartOfLine
      <4> HIDE DEF plan
      <4>3. todo'[p] \in Seq(Call)
        BY ProcessKeeps DEF IInv, Types
      <4>4. ran'[p] \o todo'[p] = plan
        BY <3>1, <3>2, <4>1, <4>3
      <4> QED
        BY <1>1, <3>2, <4>2, <4>4 DEF CallsInv
    <3> QED
      BY <2>1, <3>3, <3>4 DEF Start
  <2>2. ASSUME NEW c \in Commands, Command(p, c), pc'[p] \notin Early,
                 pc[p] \in Busy
        PROVE  CallsInv(p)'
    <3>1. /\ ran[p] \in Seq(Call) /\ todo[p] \in Seq(Call) /\ todo[p] # <<>>
          /\ ran'[p] = Append(ran[p], Head(todo[p])) /\ todo'[p] = Tail(todo[p])
      BY <1>1, <2>2 DEF Types, Command
    <3>2. ran'[p] \o todo'[p] = ran[p] \o todo[p]
      BY <3>1, MoveFirst
    <3> QED
      BY <1>1, <2>2, <3>2 DEF CallsInv
  <2>3. CASE /\ UNCHANGED <<ran, todo>>
             /\ pc'[p] \in Early => pc[p] \in Early
             /\ pc'[p] \in Busy => pc[p] \in Busy
    BY <1>1, <2>3 DEF CallsInv
  <2> QED
    BY <2>1, <2>2, <2>3, StepCalls
<1> QED
  BY <1>2, <1>3

\* What has run is a beginning of what was planned.
LEMMA PrefixCalls ==
  ASSUME NEW S, NEW r \in Seq(S), NEW u \in Seq(S), NEW k \in DOMAIN r
  PROVE  k \in DOMAIN (r \o u) /\ (r \o u)[k] = r[k]
<1>1. DOMAIN r = 1 .. Len(r) /\ Len(r) \in Nat /\ Len(u) \in Nat
  OBVIOUS
<1>2. /\ Len(r \o u) = Len(r) + Len(u) /\ r \o u \in Seq(S)
      /\ \A i \in 1 .. Len(r) + Len(u) :
           (r \o u)[i] = IF i <= Len(r) THEN r[i] ELSE u[i - Len(r)]
  BY ConcatProperties
<1>3. DOMAIN (r \o u) = 1 .. Len(r) + Len(u)
  BY <1>2
<1> QED
  BY <1>1, <1>2, <1>3

\* As many calls of c as places of it: at most, and exactly if every place of
\* a command has its call.
LEMMA CountRuns ==
  ASSUME NEW line \in Seq(STRING), NEW calls, NEW c \in Commands,
         NEW at \in Injection(DOMAIN calls, Keys(line)), Placed(line, calls, at),
         NEW R, R \subseteq {k \in DOMAIN calls : calls[k].cmd = c}
  PROVE  LET J == {j \in DOMAIN line : line[j] = c} IN
         /\ Cardinality(R) <= Cardinality(J)
         /\ /\ R = {k \in DOMAIN calls : calls[k].cmd = c}
            /\ at \in Surjection(DOMAIN calls, Keys(line))
            => Cardinality(R) = Cardinality(J)
<1> DEFINE J == {j \in DOMAIN line : line[j] = c}
           f == [k \in R |-> at[k]]
<1>1. /\ at \in [DOMAIN calls -> Keys(line)]
      /\ \A j, k \in DOMAIN calls : at[j] = at[k] => j = k
  BY DEF Injection, IsInjective
<1>2. f \in Injection(R, J)
  BY <1>1 DEF Injection, IsInjective, Placed, Keys
<1>3. IsFiniteSet(J)
  <2>1. DOMAIN line = 1 .. Len(line) /\ Len(line) \in Nat
    OBVIOUS
  <2>2. IsFiniteSet(1 .. Len(line))
    BY <2>1, FS_Interval
  <2> QED
    BY <2>1, <2>2, FS_Subset
<1>4. ASSUME R = {k \in DOMAIN calls : calls[k].cmd = c},
             at \in Surjection(DOMAIN calls, Keys(line))
      PROVE  f \in Surjection(R, J)
  <2>1. ASSUME NEW j \in J PROVE \E k \in R : at[k] = j
    <3>1. j \in Keys(line)
      BY DEF Keys
    <3>2. PICK k \in DOMAIN calls : at[k] = j
      BY <1>4, <3>1 DEF Surjection
    <3>3. calls[k].cmd = c
      BY <3>2 DEF Placed
    <3> QED
      BY <1>4, <3>2, <3>3
  <2>2. f \in [R -> J]
    BY <1>2 DEF Injection
  <2> QED
    BY <2>1, <2>2 DEF Surjection
<1> HIDE DEF f, J
<1>5. /\ Cardinality(R) <= Cardinality(J)
      /\ Cardinality(R) = Cardinality(J) <=> f \in Surjection(R, J)
  BY <1>2, <1>3, FS_Injection
<1> QED
  BY <1>4, <1>5 DEF J

\* LastOccurrenceDecides: whatever the order in which Start sorts, a command runs
\* with all the words behind its last occurrence up to the next command, never
\* more often than it occurs, and as often as it occurs once its line has run.
THEOREM LastOccurrenceDecidesHolds == Spec => []LastOccurrenceDecides
<1> DEFINE CInv == \A p \in Procs : CallsInv(p)
<1>1. Init => CInv
  BY InitCalls
<1>2. IInv /\ CInv /\ [Next]_vars => CInv'
  <2> SUFFICES ASSUME IInv, CInv, [Next]_vars PROVE CInv'
    OBVIOUS
  <2>1. CASE Next
    BY <2>1, CallsKept DEF Next
  <2>2. CASE UNCHANGED vars
    BY <2>2 DEF vars, CallsInv
  <2> QED
    BY <2>1, <2>2
<1>3. ASSUME IInv, CInv, NEW p \in Procs, NEW i \in DOMAIN ran[p]
      PROVE  LET a == ran[p][i].args
                 last == Max(Occurs(p, ran[p][i].cmd))
                 next == last + Len(a) + 1
             IN /\ a = SubSeq(argv[p], last + 1, next - 1)
                /\ Range(a) \intersect Commands = {}
                /\ next \in DOMAIN argv[p] => argv[p][next] \in Commands
  <2> DEFINE calls == ran[p] \o todo[p]
             c == ran[p][i].cmd
  <2>1. argv[p] \in Seq(STRING) /\ ran[p] \in Seq(Call) /\ todo[p] \in Seq(Call)
    BY <1>3 DEF IInv, Types
  <2>2. i \in DOMAIN calls /\ calls[i] = ran[p][i]
    BY <2>1, PrefixCalls
  <2>3. OfLine(argv[p], calls)
    BY <1>3 DEF CallsInv
  <2> HIDE DEF calls
  <2>4. PICK at \in Injection(DOMAIN calls, Keys(argv[p])) : Placed(argv[p], calls, at)
    BY <2>3 DEF OfLine
  <2>5. at[i] \in Keys(argv[p]) /\ argv[p][at[i]] = c
    BY <2>2, <2>4 DEF Placed, Injection
  <2>6. c \in Range(argv[p]) \intersect Commands
    BY <2>5 DEF Keys, Range
  <2>7. ran[p][i].args = PickArg(argv[p], c)
    BY <2>2, <2>3 DEF OfLine
  <2>8. WordsBehind(argv[p], c, ran[p][i].args)
    BY <2>1, <2>6, <2>7, PickArgIsLast
  <2>9. Places(argv[p], c) = Occurs(p, c)
    BY DEF Places, Occurs
  <2> QED
    BY <2>8, <2>9 DEF WordsBehind
<1>4. ASSUME IInv, CInv, NEW p \in Procs, NEW c \in Commands
      PROVE  /\ Cardinality(Runs(p, c)) <= Cardinality(Occurs(p, c))
             /\ pc[p] = "run" /\ todo[p] = <<>> =>
                  Cardinality(Runs(p, c)) = Cardinality(Occurs(p, c))
  <2> DEFINE calls == ran[p] \o todo[p]
  <2>1. argv[p] \in Seq(STRING) /\ ran[p] \in Seq(Call) /\ todo[p] \in Seq(Call)
    BY <1>4 DEF IInv, Types
  <2>2. \A k \in DOMAIN ran[p] : k \in DOMAIN calls /\ calls[k] = ran[p][k]
    BY <2>1, PrefixCalls
  <2>3. todo[p] = <<>> => calls = ran[p]
    BY <2>1
  <2>4. OfLine(argv[p], calls) /\ (pc[p] = "run" => WholeLine(argv[p], calls))
    BY <1>4 DEF CallsInv, Busy
  <2> HIDE DEF calls
  <2>5. Runs(p, c) \subseteq {k \in DOMAIN calls : calls[k].cmd = c}
    BY <2>2 DEF Runs
  <2>6. Cardinality(Runs(p, c)) <= Cardinality(Occurs(p, c))
    <3>1. PICK at \in Injection(DOMAIN calls, Keys(argv[p])) : Placed(argv[p], calls, at)
      BY <2>4 DEF OfLine
    <3> QED
      BY <2>1, <2>5, <3>1, CountRuns DEF Occurs
  <2>7. ASSUME pc[p] = "run", todo[p] = <<>>
        PROVE  Cardinality(Runs(p, c)) = Cardinality(Occurs(p, c))
    <3>1. PICK at \in Bijection(DOMAIN calls, Keys(argv[p])) : Placed(argv[p], calls, at)
      BY <2>4, <2>7 DEF WholeLine
    <3>2. at \in Injection(DOMAIN calls, Keys(argv[p])) /\ at \in Surjection(DOMAIN calls, Keys(argv[p]))
      BY <3>1 DEF Bijection
    <3>3. Runs(p, c) = {k \in DOMAIN calls : calls[k].cmd = c}
      BY <2>3, <2>7 DEF Runs
    <3> QED
      BY <2>1, <2>5, <3>1, <3>2, <3>3, CountRuns DEF Occurs
  <2> QED
    BY <2>6, <2>7
<1>5. IInv /\ CInv => LastOccurrenceDecides
  BY <1>3, <1>4 DEF LastOccurrenceDecides
<1> HIDE DEF CInv
<1> QED
  BY <1>1, <1>2, <1>5, Invariant, PTL DEF Spec

-----------------------------------------------------------------------------
(* What stays undone *)

\* The places in l of what has none of the ids.
OldIn(ids, l) == {i \in DOMAIN l : ~Contains(ids, l[i].id)}

\* What l has with none of the ids, u has in the same order.
Kept(ids, l, u) ==
  \E f \in Bijection(OldIn(ids, l), OldIn(ids, u)) :
    /\ \A i \in OldIn(ids, l) : u[f[i]] = l[i]
    /\ \A i, j \in OldIn(ids, l) : i < j => f[i] < f[j]

LEMMA KeptAll ==
  ASSUME NEW ids, NEW l
  PROVE  Kept(ids, l, l)
<1> DEFINE I == OldIn(ids, l)
           f == [i \in I |-> i]
<1>1. f \in Bijection(I, I)
  BY DEF Bijection, Injection, Surjection, IsInjective
<1>2. /\ \A i \in I : l[f[i]] = l[i]
      /\ \A i, j \in I : i < j => f[i] < f[j]
  OBVIOUS
<1> HIDE DEF f
<1> QED
  BY <1>1, <1>2 DEF Kept

\* More ids, and more at the end that has them: what is old is less.
LEMMA KeptPush ==
  ASSUME NEW ids, NEW more, NEW l, NEW u, NEW v, Kept(ids, l, u),
         \A id : Contains(ids, id) => Contains(more, id),
         DOMAIN u \subseteq DOMAIN v, \A i \in DOMAIN u : v[i] = u[i],
         \A i \in DOMAIN v \ DOMAIN u : Contains(more, v[i].id)
  PROVE  Kept(more, l, v)
<1> DEFINE I == OldIn(ids, l)
           J == OldIn(more, l)
           U == OldIn(ids, u)
           V == OldIn(more, v)
<1>1. PICK f \in Bijection(I, U) :
        /\ \A i \in I : u[f[i]] = l[i]
        /\ \A i, j \in I : i < j => f[i] < f[j]
  BY DEF Kept
<1>2. /\ f \in [I -> U] /\ \A i, j \in I : f[i] = f[j] => i = j
      /\ \A k \in U : \E i \in I : f[i] = k
  BY <1>1 DEF Bijection, Injection, Surjection, IsInjective
<1> DEFINE g == [i \in J |-> f[i]]
<1>3. J \subseteq I
  BY DEF OldIn
<1>4. \A i \in J : f[i] \in V /\ v[f[i]] = l[i]
  <2> SUFFICES ASSUME NEW i \in J PROVE f[i] \in V /\ v[f[i]] = l[i]
    OBVIOUS
  <2>1. f[i] \in DOMAIN u /\ u[f[i]] = l[i]
    BY <1>1, <1>2, <1>3 DEF OldIn
  <2>2. f[i] \in DOMAIN v /\ v[f[i]] = l[i]
    BY <2>1
  <2>3. ~Contains(more, l[i].id)
    BY DEF OldIn
  <2> QED
    BY <2>2, <2>3 DEF OldIn
<1>5. \A k \in V : \E i \in J : f[i] = k
  <2> SUFFICES ASSUME NEW k \in V PROVE \E i \in J : f[i] = k
    OBVIOUS
  <2>1. k \in DOMAIN u /\ v[k] = u[k] /\ ~Contains(more, u[k].id)
    BY DEF OldIn
  <2>2. k \in U
    BY <2>1 DEF OldIn
  <2>3. PICK i \in I : f[i] = k
    BY <1>2, <2>2
  <2>4. l[i] = u[k] /\ i \in DOMAIN l
    BY <1>1, <2>3 DEF OldIn
  <2>5. i \in J
    BY <2>1, <2>4 DEF OldIn
  <2> QED
    BY <2>3, <2>5
<1> HIDE DEF I, J, U, V
<1>6. g \in Bijection(J, V)
  BY <1>2, <1>3, <1>4, <1>5 DEF Bijection, Injection, Surjection, IsInjective
<1>7. /\ \A i \in J : v[g[i]] = l[i]
      /\ \A i, j \in J : i < j => g[i] < g[j]
  BY <1>1, <1>3, <1>4
<1> HIDE DEF g
<1> QED
  BY <1>6, <1>7 DEF Kept, J, V

\* One with an id is taken out: what has none moves up.
LEMMA KeptRemove ==
  ASSUME NEW ids, NEW l, NEW u, NEW v, NEW n \in Nat, NEW m \in 1 .. n,
         Kept(ids, l, u), Contains(ids, u[m].id),
         DOMAIN u = 1 .. n, DOMAIN v = 1 .. n - 1,
         \A i \in 1 .. n - 1 : v[i] = IF i < m THEN u[i] ELSE u[i + 1]
  PROVE  Kept(ids, l, v)
<1> DEFINE I == OldIn(ids, l)
           U == OldIn(ids, u)
           V == OldIn(ids, v)
           Up(k) == IF k < m THEN k ELSE k - 1
<1>1. PICK f \in Bijection(I, U) :
        /\ \A i \in I : u[f[i]] = l[i]
        /\ \A i, j \in I : i < j => f[i] < f[j]
  BY DEF Kept
<1>2. /\ f \in [I -> U] /\ \A i, j \in I : f[i] = f[j] => i = j
      /\ \A k \in U : \E i \in I : f[i] = k
  BY <1>1 DEF Bijection, Injection, Surjection, IsInjective
<1> DEFINE g == [i \in I |-> Up(f[i])]
<1>3. \A k \in U : k \in 1 .. n /\ k # m
  BY DEF OldIn
<1>4. ASSUME NEW k \in U PROVE Up(k) \in V /\ v[Up(k)] = u[k]
  <2>1. k \in 1 .. n /\ k # m /\ ~Contains(ids, u[k].id)
    BY <1>3 DEF OldIn
  <2>2. CASE k < m
    <3>1. Up(k) = k /\ k \in 1 .. n - 1 /\ v[k] = u[k]
      BY <2>1, <2>2
    <3> QED
      BY <2>1, <3>1 DEF OldIn
  <2>3. CASE k > m
    <3>1. Up(k) = k - 1 /\ k - 1 \in 1 .. n - 1 /\ ~(k - 1 < m) /\ (k - 1) + 1 = k
      BY <2>1, <2>3
    <3>2. v[k - 1] = u[k]
      BY <3>1
    <3> QED
      BY <2>1, <3>1, <3>2 DEF OldIn
  <2> QED
    BY <2>1, <2>2, <2>3
<1>5. \A j, k \in U : Up(j) = Up(k) => j = k
  BY <1>3
<1>6. \A j, k \in U : j < k => Up(j) < Up(k)
  BY <1>3
<1>7. ASSUME NEW k \in V PROVE \E j \in U : Up(j) = k
  <2>1. k \in 1 .. n - 1 /\ ~Contains(ids, v[k].id)
    BY DEF OldIn
  <2>2. CASE k < m
    <3>1. k \in U /\ Up(k) = k
      BY <2>1, <2>2 DEF OldIn
    <3> QED
      BY <3>1
  <2>3. CASE k >= m
    <3>1. k + 1 \in 1 .. n /\ v[k] = u[k + 1] /\ Up(k + 1) = k
      BY <2>1, <2>3
    <3>2. k + 1 \in U
      BY <2>1, <3>1 DEF OldIn
    <3> QED
      BY <3>1, <3>2
  <2> QED
    BY <2>1, <2>2, <2>3
<1> HIDE DEF I, U, V, Up
<1>8. g \in Bijection(I, V)
  <2>1. g \in [I -> V]
    BY <1>2, <1>4
  <2>2. \A i, j \in I : g[i] = g[j] => i = j
    BY <1>2, <1>5
  <2>3. \A k \in V : \E i \in I : g[i] = k
    BY <1>2, <1>7
  <2> HIDE DEF g
  <2> QED
    BY <2>1, <2>2, <2>3 DEF Bijection, Injection, Surjection, IsInjective
<1>9. /\ \A i \in I : v[g[i]] = l[i]
      /\ \A i, j \in I : i < j => g[i] < g[j]
  BY <1>1, <1>2, <1>4, <1>6
<1> HIDE DEF g
<1> QED
  BY <1>8, <1>9 DEF Kept, I, V

\* Where the translators are sent to: the static port, one of the line, or what
\* the record says.
Ports == STRING \union {"1997", "recorded"}
Sends == [id : Ids, path : Paths, port : Ports]

\* What is to be sent has been pushed, and the old records are undone.
OldInv(p) ==
  /\ port[p] \in Ports
  /\ batch[p] \in Seq(Sends)
  /\ \A i \in DOMAIN batch[p] : Contains(pushed[p], batch[p][i].id)
  /\ Kept(pushed[p], loaded[p].undone, undone[p])

LEMMA InitOld == ASSUME Init, NEW p \in Procs PROVE OldInv(p)
<1>1. /\ loaded[p].undone = undone[p] /\ batch[p] = <<>>
      /\ port[p] \in Ports /\ <<>> \in Seq(Sends)
  BY DEF Init, NoLists, Ports
<1>2. Kept(pushed[p], loaded[p].undone, undone[p])
  BY <1>1, KeptAll
<1> QED
  BY <1>1, <1>2 DEF OldInv

\* What Start, the lists and multiRun make of the ids stays found.
LEMMA ContainsConcat ==
  ASSUME NEW S, NEW s \in Seq(S), NEW t \in Seq(S)
  PROVE  \A e : Contains(s \o t, e) <=> Contains(s, e) \/ Contains(t, e)
<1>1. /\ Len(s) \in Nat /\ Len(t) \in Nat /\ Len(s \o t) = Len(s) + Len(t)
      /\ \A i \in 1 .. Len(s) + Len(t) :
           (s \o t)[i] = IF i <= Len(s) THEN s[i] ELSE t[i - Len(s)]
  BY ConcatProperties
<1> DEFINE m == Len(s)
           n == Len(t)
           c == s \o t
<1>2. m \in Nat /\ n \in Nat /\ Len(c) = m + n
  BY <1>1
<1>3. \A i \in 1 .. m : i \in 1 .. m + n /\ c[i] = s[i]
  BY <1>1
<1>4. \A i \in 1 .. n : m + i \in 1 .. m + n /\ c[m + i] = t[i]
  <2> SUFFICES ASSUME NEW i \in 1 .. n PROVE m + i \in 1 .. m + n /\ c[m + i] = t[i]
    OBVIOUS
  <2>1. m + i \in 1 .. m + n /\ ~(m + i <= m) /\ (m + i) - m = i
    BY <1>2
  <2> QED
    BY <1>1, <2>1
<1>5. \A i \in 1 .. m + n : i \in 1 .. m \/ \E j \in 1 .. n : i = m + j
  <2> SUFFICES ASSUME NEW i \in 1 .. m + n, i \notin 1 .. m PROVE \E j \in 1 .. n : i = m + j
    OBVIOUS
  <2>1. i - m \in 1 .. n /\ i = m + (i - m)
    BY <1>2
  <2> QED
    BY <2>1
<1> HIDE DEF m, n, c
<1>6. \A e : (\E i \in 1 .. Len(c) : c[i] = e)
               <=> (\E i \in 1 .. m : s[i] = e) \/ (\E i \in 1 .. n : t[i] = e)
  <2> SUFFICES ASSUME NEW e
               PROVE  (\E i \in 1 .. m + n : c[i] = e)
                        <=> (\E i \in 1 .. m : s[i] = e) \/ (\E i \in 1 .. n : t[i] = e)
    BY <1>2
  <2>1. ASSUME NEW i \in 1 .. m + n, c[i] = e
        PROVE  (\E j \in 1 .. m : s[j] = e) \/ (\E j \in 1 .. n : t[j] = e)
    BY <1>3, <1>4, <1>5, <2>1
  <2>2. ASSUME NEW i \in 1 .. m, s[i] = e PROVE \E j \in 1 .. m + n : c[j] = e
    BY <1>3, <2>2
  <2>3. ASSUME NEW i \in 1 .. n, t[i] = e PROVE \E j \in 1 .. m + n : c[j] = e
    BY <1>4, <2>3
  <2> QED
    BY <2>1, <2>2, <2>3
<1> QED
  BY <1>6 DEF Contains, m, n, c

\* The paths of the first undone records.
LEMMA RetryPaths ==
  ASSUME Types, NEW p \in Procs, NEW n \in Nat, n <= Len(undone[p])
  PROVE  [i \in 1 .. n |-> undone[p][i].path] \in Seq(Paths)
<1>1. undone[p] \in Seq(Rec)
  BY DEF Types
<1>2. \A i \in 1 .. n : undone[p][i].path \in Paths
  <2> SUFFICES ASSUME NEW i \in 1 .. n PROVE undone[p][i].path \in Paths
    OBVIOUS
  <2>1. undone[p][i] \in Rec
    BY <1>1
  <2> QED
    BY <2>1 DEF Rec
<1> QED
  BY <1>2

\* What multiRun is called with.
LEMMA RunsPush ==
  ASSUME IInv, NEW p \in Procs, port[p] \in Ports, forRun(p) \/ forRun_port(p) \/ forRetry(p)
  PROVE  /\ port'[p] \in Ports
         /\ \/ UNCHANGED <<undone, pushed, loaded, batch>>
            \/ \E paths \in Seq(Paths), to \in Ports : MultiRun(p, paths, to)
<1>1. Types /\ Planned(p) /\ MemFirst(p) /\ DOMAIN port = Procs
  BY DEF IInv, PInv, Types
<1>2. \A c \in Commands : Command(p, c) => Args(p) \in Seq(STRING)
  BY <1>1, CommandRuns
<1>3. Args(p) \in Seq(STRING)
  BY <1>2 DEF forRun, forRun_port, forRetry, Commands
<1>4. CASE forRun(p)
  <2>1. Tail(Args(p)) \in Seq(STRING)
    BY <1>3, <1>4 DEF forRun
  <2>2. Tail(Args(p)) \in Seq(Paths)
    BY <2>1, SeqMonotonic DEF Paths
  <2> QED
    BY <1>4, <2>2 DEF forRun, lists
<1>5. CASE forRun_port(p)
  <2>1. Args(p)[2] \in STRING /\ Args(p)[3] \in STRING
    <3> DEFINE a == Args(p)
    <3>1. a \in Seq(STRING) /\ Len(a) = 3
      BY <1>3, <1>5 DEF forRun_port
    <3> HIDE DEF a
    <3>2. \A i \in 1 .. Len(a) : a[i] \in STRING
      BY <3>1, ElementOfSeq
    <3>3. a[2] \in STRING /\ a[3] \in STRING
      BY <3>1, <3>2
    <3> QED
      BY <3>3 DEF a
  <2>2. Args(p)[2] \in Ports /\ Args(p)[3] \in Paths
    BY <2>1 DEF Ports, Paths
  <2>3. \A x \in Paths : <<x>> \in Seq(Paths)
    OBVIOUS
  <2>4. port'[p] = Args(p)[2]
    BY <1>1, <1>5 DEF forRun_port
  <2> QED
    BY <1>5, <2>2, <2>3, <2>4 DEF forRun_port, lists
<1>6. CASE forRetry(p)
  <2> DEFINE k == Number(Args(p)[1])
             n == IF k > 0 THEN k ELSE Len(undone[p])
             paths == [i \in 1 .. n |-> undone[p][i].path]
  <2>1. port' = port /\ "recorded" \in Ports
    BY <1>6 DEF forRetry, Ports
  <2>2. CASE k <= Len(undone[p]) /\ AllExist(paths)
    <3>1. MultiRun(p, paths, "recorded")
      BY <1>6, <2>2 DEF forRetry
    <3>2. k \in Nat /\ Len(undone[p]) \in Nat
      BY <1>1 DEF Number, Types
    <3>3. n \in Nat /\ n <= Len(undone[p])
      <4> HIDE DEF k
      <4> QED
        BY <2>2, <3>2
    <3> HIDE DEF n
    <3>4. paths \in Seq(Paths)
      BY <1>1, <3>3, RetryPaths
    <3> QED
      BY <2>1, <3>1, <3>4
  <2>3. CASE ~(k <= Len(undone[p]) /\ AllExist(paths))
    BY <1>6, <2>1, <2>3 DEF forRetry, lists
  <2> QED
    BY <2>2, <2>3
<1> QED
  BY <1>4, <1>5, <1>6

\* What a step of a process may do to the records.
LEMMA StepLists ==
  ASSUME IInv, NEW p \in Procs, port[p] \in Ports, Launch(p) \/ Step(p) \/ Crash(p)
  PROVE  /\ port'[p] \in Ports
         /\ \/ UNCHANGED <<undone, pushed, loaded, batch>>
            \/ ReadRecord(p)
            \/ \E paths \in Seq(Paths), to \in Ports : MultiRun(p, paths, to)
            \/ SendNext(p)
<1>1. CASE forRun(p) \/ forRun_port(p) \/ forRetry(p)
  BY <1>1, RunsPush
<1>2. CASE Launch(p) \/ Crash(p)
  BY <1>2 DEF Launch, Crash, lists
<1>3. CASE ReadConfig(p) \/ ReadFaults(p) \/ OpenForWrite(p) \/ WriteFile(p)
            \/ Start(p) \/ Cleanup(p)
  BY <1>3 DEF ReadConfig, ReadFaults, OpenForWrite, WriteFile, Start, Cleanup, lists
<1>4. CASE Show(p) \/ forMem(p) \/ forConfigNick(p)
  BY <1>4 DEF Show, forMem, forConfigNick, lists
<1>5. CASE ReadRecord(p) \/ SendNext(p)
  BY <1>5 DEF ReadRecord, SendNext
<1> QED
  BY <1>1, <1>2, <1>3, <1>4, <1>5 DEF Step

\* multiRun puts its records behind the others, and sends no others.
LEMMA MultiRunOld ==
  ASSUME Types, NEW p \in Procs, OldInv(p),
         NEW paths \in Seq(Paths), NEW to \in Ports, MultiRun(p, paths, to), port'[p] \in Ports
  PROVE  OldInv(p)'
<1>1. PICK ids \in [DOMAIN paths -> Ids] :
        LET new == [i \in DOMAIN paths |-> [id |-> ids[i], path |-> paths[i]]] IN
         /\ undone' = [undone EXCEPT ![p] = @ \o new]
         /\ pushed' = [pushed EXCEPT ![p] = @ \o ids]
         /\ batch' = [batch EXCEPT ![p] =
              [i \in DOMAIN paths |-> [id |-> ids[i], path |-> paths[i], port |-> to]]]
  BY DEF MultiRun
<1> DEFINE n == Len(paths)
           u == undone[p]
           ps == pushed[p]
           new == [i \in 1 .. n |-> [id |-> ids[i], path |-> paths[i]]]
           sends == [i \in 1 .. n |-> [id |-> ids[i], path |-> paths[i], port |-> to]]
<1>2. n \in Nat /\ DOMAIN paths = 1 .. n /\ \A i \in 1 .. n : paths[i] \in Paths
  OBVIOUS
<1>3. ids \in Seq(Ids) /\ Len(ids) = n /\ \A i \in 1 .. n : ids[i] \in Ids
  BY <1>2
<1>4. /\ undone \in [Procs -> Seq(Rec)] /\ pushed \in [Procs -> Seq(Ids)]
      /\ u \in Seq(Rec) /\ ps \in Seq(Ids) /\ DOMAIN batch = Procs
  BY DEF Types
<1>5. new \in Seq(Rec) /\ Len(new) = n /\ \A i \in 1 .. n : new[i].id = ids[i]
  <2> DEFINE r(i) == [id |-> ids[i], path |-> paths[i]]
  <2>1. \A i \in 1 .. n : r(i) \in Rec
    BY <1>2, <1>3 DEF Rec
  <2> HIDE DEF r
  <2>2. [i \in 1 .. n |-> r(i)] \in Seq(Rec) /\ Len([i \in 1 .. n |-> r(i)]) = n
    BY <1>2, <2>1
  <2> QED
    BY <2>2 DEF r
<1>6. sends \in Seq(Sends) /\ DOMAIN sends = 1 .. n /\ \A i \in 1 .. n : sends[i].id = ids[i]
  <2> DEFINE r(i) == [id |-> ids[i], path |-> paths[i], port |-> to]
  <2>1. \A i \in 1 .. n : r(i) \in Sends
    BY <1>2, <1>3 DEF Sends
  <2> HIDE DEF r
  <2>2. [i \in 1 .. n |-> r(i)] \in Seq(Sends)
    BY <1>2, <2>1
  <2> QED
    BY <2>2 DEF r
<1>7. undone'[p] = u \o new /\ pushed'[p] = ps \o ids /\ batch'[p] = sends /\ loaded' = loaded
  BY <1>1, <1>2, <1>4 DEF MultiRun
<1>8. /\ DOMAIN u = 1 .. Len(u) /\ DOMAIN (u \o new) = 1 .. Len(u) + n /\ Len(u) \in Nat
      /\ \A i \in 1 .. Len(u) + n : (u \o new)[i] = IF i <= Len(u) THEN u[i] ELSE new[i - Len(u)]
  BY <1>4, <1>5, ConcatProperties
<1> HIDE DEF new, sends, n, u, ps
<1>9. \A i \in 1 .. n : Contains(ids, ids[i])
  BY <1>3 DEF Contains
<1>10. \A e : Contains(ps \o ids, e) <=> Contains(ps, e) \/ Contains(ids, e)
  BY <1>3, <1>4, ContainsConcat
<1>11. DOMAIN u \subseteq DOMAIN (u \o new) /\ \A i \in DOMAIN u : (u \o new)[i] = u[i]
  BY <1>2, <1>8
<1>12. ASSUME NEW i \in DOMAIN (u \o new) \ DOMAIN u
       PROVE  Contains(ps \o ids, (u \o new)[i].id)
  <2>1. ~(i <= Len(u)) /\ i - Len(u) \in 1 .. n /\ i \in 1 .. Len(u) + n
    BY <1>2, <1>8
  <2>2. (u \o new)[i].id = ids[i - Len(u)]
    BY <1>5, <1>8, <2>1
  <2> QED
    BY <1>9, <1>10, <2>1, <2>2
<1>13. Kept(ps, loaded[p].undone, u)
  BY DEF OldInv, u, ps
<1>14. Kept(ps \o ids, loaded[p].undone, u \o new)
  <2>1. \A id : Contains(ps, id) => Contains(ps \o ids, id)
    BY <1>10
  <2> QED
    BY <1>11, <1>12, <1>13, <2>1, KeptPush
<1>15. \A i \in 1 .. n : Contains(ps \o ids, ids[i])
  BY <1>9, <1>10
<1> QED
  BY <1>6, <1>7, <1>14, <1>15 DEF OldInv

\* What is left behind the first k elements.
LEMMA TailOf ==
  ASSUME NEW S, NEW s \in Seq(S), NEW k \in Nat, k <= Len(s)
  PROVE  /\ SubSeq(s, k + 1, Len(s)) \in Seq(S)
         /\ Len(SubSeq(s, k + 1, Len(s))) = Len(s) - k
         /\ \A j \in 1 .. Len(s) - k : SubSeq(s, k + 1, Len(s))[j] = s[k + j]
<1>1. Len(s) \in Nat /\ k + 1 \in Int /\ Len(s) \in Int
  OBVIOUS
<1>2. \A i \in k + 1 .. Len(s) : s[i] \in S
  <2>1. \A i \in 1 .. Len(s) : s[i] \in S
    BY ElementOfSeq
  <2> QED
    BY <1>1, <2>1
<1>3. SubSeq(s, k + 1, Len(s)) \in Seq(S)
  BY <1>1, <1>2, SubSeqProperties
<1>4. Len(SubSeq(s, k + 1, Len(s))) = Len(s) - k
  <2>1. Len(SubSeq(s, k + 1, Len(s))) =
          IF k + 1 <= Len(s) THEN Len(s) - (k + 1) + 1 ELSE 0
    BY <1>1, <1>2, SubSeqProperties
  <2> QED
    BY <1>1, <2>1
<1>5. \A j \in 1 .. Len(s) - k : SubSeq(s, k + 1, Len(s))[j] = s[k + j]
  BY <1>1, <1>2, SubSeqProperties
<1> QED
  BY <1>3, <1>4, <1>5

\* turnDone takes out the first record with the id, which has been pushed.
LEMMA TurnDoneOld ==
  ASSUME Types, NEW p \in Procs, NEW id, TurnDone(p, id),
         NEW ids, NEW l, Kept(ids, l, undone[p]), Contains(ids, id)
  PROVE  Kept(ids, l, undone'[p])
<1> DEFINE u == undone[p]
           at == {i \in DOMAIN u : u[i].id = id}
           m == Min(at)
           n == Len(u)
<1>1. u \in Seq(Rec) /\ n \in Nat /\ DOMAIN u = 1 .. n /\ undone \in [Procs -> Seq(Rec)]
  BY DEF Types
<1>2. CASE at = {}
  BY <1>1, <1>2 DEF TurnDone
<1>3. CASE at # {}
  <2>1. m \in at
    <3>1. at \in SUBSET Nat
      BY <1>1
    <3> HIDE DEF at
    <3> QED
      BY <1>3, <3>1, MinIsLeast
  <2>2. m \in 1 .. n /\ u[m].id = id
    BY <1>1, <2>1
  <2>3. undone' = [undone EXCEPT ![p] = RemoveAt(@, m)]
    BY <1>3 DEF TurnDone
  <2> HIDE DEF m, at
  <2>4. undone'[p] = RemoveAt(u, m)
    BY <1>1, <2>3
  <2> HIDE DEF u, n
  <2> DEFINE a == SubSeq(u, 1, m - 1)
             b == SubSeq(u, m + 1, n)
  <2>5. a \in Seq(Rec) /\ Len(a) = m - 1 /\ \A i \in 1 .. m - 1 : a[i] = u[i]
    <3>1. 1 \in Int /\ m - 1 \in Int /\ (IF 1 <= m - 1 THEN (m - 1) - 1 + 1 ELSE 0) = m - 1
      BY <1>1, <2>2
    <3>2. \A i \in 1 .. m - 1 : u[i] \in Rec
      BY <1>1, <2>2 DEF n
    <3> QED
      BY <1>1, <2>2, <3>1, <3>2, SubSeqProperties
  <2>6. /\ b \in Seq(Rec) /\ Len(b) = n - m
        /\ \A i \in 1 .. n - m : b[i] = u[m + i]
    <3>1. m \in Nat /\ m <= Len(u)
      BY <1>1, <2>2 DEF n
    <3> QED
      BY <1>1, <3>1, TailOf DEF n
  <2>7. RemoveAt(u, m) = a \o b
    BY DEF RemoveAt, n
  <2> HIDE DEF a, b
  <2>8. /\ DOMAIN (a \o b) = 1 .. n - 1
        /\ \A i \in 1 .. n - 1 : (a \o b)[i] = IF i <= m - 1 THEN a[i] ELSE b[i - (m - 1)]
    <3>1. /\ a \o b \in Seq(Rec) /\ Len(a \o b) = Len(a) + Len(b)
          /\ \A i \in 1 .. Len(a) + Len(b) :
               (a \o b)[i] = IF i <= Len(a) THEN a[i] ELSE b[i - Len(a)]
      BY <2>5, <2>6, ConcatProperties
    <3>2. Len(a) = m - 1 /\ Len(a) + Len(b) = n - 1
      BY <1>1, <2>2, <2>5, <2>6
    <3> QED
      BY <3>1, <3>2
  <2>9. ASSUME NEW i \in 1 .. n - 1
        PROVE  (a \o b)[i] = IF i < m THEN u[i] ELSE u[i + 1]
    <3>1. CASE i < m
      <4>1. i \in 1 .. m - 1 /\ i <= m - 1
        BY <1>1, <2>2, <3>1
      <4> QED
        BY <2>5, <2>8, <3>1, <4>1
    <3>2. CASE ~(i < m)
      <4>1. ~(i <= m - 1) /\ i - (m - 1) \in 1 .. n - m /\ m + (i - (m - 1)) = i + 1
        BY <1>1, <2>2, <3>2
      <4>2. (a \o b)[i] = b[i - (m - 1)]
        BY <2>8, <4>1
      <4>3. b[i - (m - 1)] = u[m + (i - (m - 1))]
        BY <2>6, <4>1
      <4> QED
        BY <3>2, <4>1, <4>2, <4>3
    <3> QED
      BY <3>1, <3>2
  <2>10. Kept(ids, l, u)
    BY DEF u
  <2>11. Kept(ids, l, a \o b)
    BY <1>1, <2>2, <2>8, <2>9, <2>10, KeptRemove
  <2> QED
    BY <2>4, <2>7, <2>11
<1> QED
  BY <1>2, <1>3

\* A turn of the loop completes what the process has pushed.
LEMMA SendNextOld ==
  ASSUME IInv, NEW p \in Procs, OldInv(p), SendNext(p)
  PROVE  OldInv(p)'
<1>1. /\ Types /\ batch[p] # <<>> /\ batch[p] \in Seq(Sends)
      /\ UNCHANGED <<pushed, loaded, port>>
      /\ batch'[p] = Tail(batch[p])
  BY DEF IInv, PInv, Ends, OldInv, SendNext, Types
<1> DEFINE t == batch[p]
<1>2. /\ Len(t) \in Nat \ {0} /\ DOMAIN t = 1 .. Len(t) /\ Head(t) = t[1]
      /\ Tail(t) \in Seq(Sends) /\ DOMAIN Tail(t) = 1 .. Len(t) - 1
      /\ \A i \in 1 .. Len(t) - 1 : Tail(t)[i] = t[i + 1]
  BY <1>1
<1>3. \A i \in 1 .. Len(t) : Contains(pushed[p], t[i].id)
  BY <1>2 DEF OldInv
<1>4. Kept(pushed[p], loaded[p].undone, undone'[p])
  <2>1. CASE TurnDone(p, Head(t).id)
    <3>1. Contains(pushed[p], Head(t).id)
      BY <1>2, <1>3
    <3>2. Kept(pushed[p], loaded[p].undone, undone[p])
      BY DEF OldInv
    <3> QED
      BY <1>1, <2>1, <3>1, <3>2, TurnDoneOld
  <2>2. CASE undone' = undone
    BY <2>2 DEF OldInv
  <2> QED
    BY <2>1, <2>2 DEF SendNext
<1> HIDE DEF t
<1>5. \A i \in DOMAIN Tail(t) : Contains(pushed[p], Tail(t)[i].id)
  <2> SUFFICES ASSUME NEW i \in 1 .. Len(t) - 1 PROVE Contains(pushed[p], Tail(t)[i].id)
    BY <1>2
  <2>1. i + 1 \in 1 .. Len(t)
    BY <1>2
  <2> QED
    BY <1>2, <1>3, <2>1
<1> QED
  BY <1>1, <1>2, <1>4, <1>5 DEF OldInv, t

LEMMA OldKept ==
  ASSUME IInv, \A q \in Procs : OldInv(q),
         NEW p \in Procs, Launch(p) \/ Step(p) \/ Crash(p)
  PROVE  \A q \in Procs : OldInv(q)'
<1>1. Frame(p) /\ Types /\ PInv(p)
  BY ProcessKeeps DEF IInv
<1>2. ASSUME NEW q \in Procs \ {p} PROVE OldInv(q)'
  BY <1>1 DEF Frame, OldInv
<1>3. /\ port'[p] \in Ports
      /\ \/ UNCHANGED <<undone, pushed, loaded, batch>>
         \/ ReadRecord(p)
         \/ \E paths \in Seq(Paths), to \in Ports : MultiRun(p, paths, to)
         \/ SendNext(p)
  BY StepLists DEF OldInv
<1>4. OldInv(p)'
  <2>1. CASE UNCHANGED <<undone, pushed, loaded, batch>>
    BY <1>3, <2>1 DEF OldInv
  <2>2. CASE ReadRecord(p)
    <3>1. PICK c \in RecLists :
            /\ undone' = [undone EXCEPT ![p] = @ \o Reread(c.undone)]
            /\ loaded' = [loaded EXCEPT ![p] =
                            [undone |-> Reread(c.undone), done |-> Reread(c.done)]]
      BY <1>1, <2>2, ContentTypes DEF ReadRecord
    <3>2. undone[p] = <<>> /\ Reread(c.undone) \in Seq(Rec)
      BY <1>1, <2>2, RereadLists DEF ReadRecord, RecLists, PInv, Counted
    <3>3. undone'[p] = Reread(c.undone) /\ loaded'[p].undone = Reread(c.undone)
      BY <1>1, <3>1, <3>2 DEF Types
    <3>4. UNCHANGED <<batch, pushed>>
      BY <2>2 DEF ReadRecord
    <3>5. Kept(pushed'[p], loaded'[p].undone, undone'[p])
      BY <3>3, KeptAll
    <3> QED
      BY <1>3, <3>4, <3>5 DEF OldInv
  <2>3. CASE \E paths \in Seq(Paths), to \in Ports : MultiRun(p, paths, to)
    BY <1>1, <1>3, <2>3, MultiRunOld
  <2>4. CASE SendNext(p)
    BY <2>4, SendNextOld
  <2> QED
    BY <1>3, <2>1, <2>2, <2>3, <2>4
<1> QED
  BY <1>2, <1>4

\* OldRecordsStayUndone: what a process has read as undone is still undone, in
\* its order, unless the process has pushed the same id: a retry completes the
\* records it pushes, never those it retries.
THEOREM OldRecordsStayUndoneHolds == Spec => []OldRecordsStayUndone
<1> DEFINE OInv == \A p \in Procs : OldInv(p)
<1>1. Init => OInv
  BY InitOld
<1>2. IInv /\ OInv /\ [Next]_vars => OInv'
  <2> SUFFICES ASSUME IInv, OInv, [Next]_vars PROVE OInv'
    OBVIOUS
  <2>1. CASE Next
    BY <2>1, OldKept DEF Next
  <2>2. CASE UNCHANGED vars
    BY <2>2 DEF vars, lists, OldInv
  <2> QED
    BY <2>1, <2>2
<1>3. OInv => OldRecordsStayUndone
  BY DEF OldInv, Kept, OldIn, OldRecordsStayUndone, OldAt
<1> HIDE DEF OInv
<1> QED
  BY <1>1, <1>2, <1>3, Invariant, PTL DEF Spec

-----------------------------------------------------------------------------
(* The history *)

\* The control once the records are read.
Ready == {"start", "run", "send", "open", "write"}
Active(p) == pc[p] \notin {"new", "over", "dead"}
Saves(p) == pc[p] = "write" /\ saving[p] = "records"

\* No two processes have overlapped, and none has crashed.
Solo == ~overlap /\ \A p \in Procs : pc[p] # "dead"

\* Then one process runs at most, records.txt is empty only while that process
\* saves it, and what it has in memory is not less than what is in the file.
SoloInv ==
  Solo =>
    /\ \A p, q \in Procs : Active(p) /\ Active(q) => p = q
    /\ files["records"].state # "cut"
    /\ files["records"].state = "empty" => \E p \in Procs : Saves(p)
    /\ files["records"].state = "absent" => Total(files["records"].content) = 0
    /\ \A p \in Procs :
         pc[p] \in Ready => Total(InMemory(p)) >= Total(files["records"].content)

LEMMA InitSolo == Init => SoloInv
<1> SUFFICES ASSUME Init PROVE SoloInv
  OBVIOUS
<1>1. files["records"].state = "absent" /\ files["records"].content = NoLists
  BY DEF Init, File, Nothing
<1>2. Total(NoLists) = 0
  BY DEF Total, NoLists
<1> QED
  BY <1>1, <1>2 DEF Init, SoloInv, Active, Ready

\* The lengths of lists are numbers.
LEMMA TotalIsNat ==
  /\ \A l \in RecLists : Total(l) \in Nat
  /\ Types => Total(files["records"].content) \in Nat
  /\ Types => \A p \in Procs : Total(InMemory(p)) \in Nat
<1>1. \A l \in RecLists : Total(l) \in Nat
  <2> SUFFICES ASSUME NEW l \in RecLists PROVE Total(l) \in Nat
    OBVIOUS
  <2>1. l.undone \in Seq(Rec) /\ l.done \in Seq(Rec)
    BY DEF RecLists
  <2> DEFINE u == Len(l.undone)
             d == Len(l.done)
  <2>2. u \in Nat /\ d \in Nat /\ Total(l) = u + d
    BY <2>1 DEF Total
  <2> HIDE DEF u, d
  <2> QED
    BY <2>2
<1>2. Types => files["records"].content \in RecLists
  BY DEF Types
<1>3. Types => \A p \in Procs : InMemory(p) \in RecLists
  BY DEF Types, InMemory, RecLists
<1> QED
  BY <1>1, <1>2, <1>3

\* A step that neither reads nor writes the records loses none of them.
LEMMA StepGrows ==
  ASSUME IInv, NEW p \in Procs, OldInv(p), Launch(p) \/ Step(p), ~ReadRecord(p)
  PROVE  Total(InMemory(p)') >= Total(InMemory(p))
<1>1. Types /\ Types' /\ Counted(p) /\ Counted(p)'
  BY ProcessKeeps DEF IInv, PInv
<1>2. Len(pushed'[p]) >= Len(pushed[p]) /\ loaded' = loaded
  <2>1. pushed[p] \in Seq(Ids) /\ Len(pushed[p]) \in Nat
    BY <1>1 DEF Types
  <2>2. \/ UNCHANGED <<undone, pushed, loaded, batch>>
        \/ \E paths \in Seq(Paths), to \in Ports : MultiRun(p, paths, to)
        \/ SendNext(p)
    BY StepLists DEF OldInv
  <2>3. CASE UNCHANGED <<undone, pushed, loaded, batch>> \/ SendNext(p)
    BY <2>1, <2>3 DEF SendNext
  <2>4. ASSUME NEW paths \in Seq(Paths), NEW to \in Ports, MultiRun(p, paths, to)
        PROVE  Len(pushed'[p]) >= Len(pushed[p]) /\ loaded' = loaded
    <3>1. loaded' = loaded
      BY <2>4 DEF MultiRun
    <3>2. PICK ids \in [DOMAIN paths -> Ids] : pushed' = [pushed EXCEPT ![p] = @ \o ids]
      BY <2>4 DEF MultiRun
    <3>3. ids \in Seq(Ids) /\ Len(ids) \in Nat
      OBVIOUS
    <3>4. pushed'[p] = pushed[p] \o ids
      BY <1>1, <3>2 DEF Types
    <3>5. Len(pushed[p] \o ids) = Len(pushed[p]) + Len(ids)
      BY <2>1, <3>3, ConcatProperties
    <3>6. Len(pushed'[p]) = Len(pushed[p]) + Len(ids)
      BY <3>4, <3>5
    <3> QED
      BY <2>1, <3>1, <3>3, <3>6
  <2> QED
    BY <2>2, <2>3, <2>4
<1> DEFINE t == Len(undone[p]) + Len(done[p])
           l == Len(loaded[p].undone) + Len(loaded[p].done)
<1>3. t = l + Len(pushed[p]) /\ t' = l + Len(pushed'[p])
  BY <1>1, <1>2 DEF Counted
<1>4. l \in Nat /\ Len(pushed[p]) \in Nat /\ Len(pushed'[p]) \in Nat
  <2>1. loaded[p] \in RecLists /\ pushed[p] \in Seq(Ids) /\ pushed'[p] \in Seq(Ids)
    BY <1>1 DEF Types
  <2>2. l = Total(loaded[p])
    BY DEF Total
  <2>3. l \in Nat
    BY <2>1, <2>2, TotalIsNat
  <2> HIDE DEF l
  <2> QED
    BY <2>1, <2>3
<1>5. Total(InMemory(p)) = t /\ Total(InMemory(p)') = t'
  BY DEF Total, InMemory
<1> HIDE DEF t, l
<1> QED
  BY <1>2, <1>3, <1>4, <1>5

\* The other steps leave the files alone, and do not belong to a save.
LEMMA StepFiles ==
  ASSUME IInv, NEW p \in Procs, Launch(p) \/ Step(p)
  PROVE  \/ OpenForWrite(p) \/ WriteFile(p) \/ ReadRecord(p)
         \/ /\ files' = files /\ pc[p] # "write"
            /\ pc'[p] \in Ready => pc[p] \in Ready
<1>1. Types
  BY DEF IInv
<1>2. CASE Launch(p)
  BY <1>1, <1>2 DEF Types, Launch, Goto, Ready
<1>3. CASE ReadConfig(p) \/ ReadFaults(p) \/ Start(p) \/ Cleanup(p)
  BY <1>1, <1>3 DEF Types, ReadConfig, ReadFaults, Start, Cleanup, Goto, Throw, Ready
<1>4. CASE SendNext(p)
  BY <1>4 DEF SendNext, Ready
<1>5. CASE Show(p) \/ forMem(p) \/ forConfigNick(p)
  BY <1>5 DEF Show, forMem, forConfigNick, Command, Ready
<1>6. CASE forRun(p) \/ forRun_port(p) \/ forRetry(p)
  BY <1>6 DEF forRun, forRun_port, forRetry, Command, Ready
<1> QED
  BY <1>2, <1>3, <1>4, <1>5, <1>6 DEF Step

\* While no process overlaps another, the one that steps is the only one.
LEMMA SoloStep ==
  ASSUME IInv, SoloInv, NEW p \in Procs, Launch(p) \/ Step(p) \/ Crash(p), Solo'
  PROVE  /\ Solo /\ (Launch(p) \/ Step(p)) /\ Frame(p) /\ Types
         /\ \A q \in Procs \ {p} : ~Active(q) /\ ~Active(q)'
<1>1. Types /\ Frame(p)
  BY ProcessKeeps DEF IInv
<1>2. pc'[p] # "dead" /\ \A q \in Procs \ {p} : pc'[q] = pc[q] /\ pc[q] # "dead"
  BY <1>1 DEF Solo, Frame
<1>3. Launch(p) \/ Step(p)
  BY <1>1, <1>2 DEF Crash, Goto, Types
<1>4. pc[p] # "dead"
  BY <1>3 DEF Launch, Step, ReadConfig, ReadRecord, ReadFaults, OpenForWrite, WriteFile, Start,
     Cleanup, Show, forMem, forConfigNick, forRun, forRun_port, forRetry, SendNext, Command
<1>5. ~overlap /\ ~overlap'
  <2>1. ~overlap'
    BY DEF Solo
  <2>2. CASE Launch(p)
    <3>1. overlap' = (overlap \/ \E q \in Procs \ {p} : pc[q] \notin {"new", "over", "dead"})
      BY <2>2 DEF Launch
    <3> QED
      BY <2>1, <3>1, Zenon
  <2>3. CASE Step(p)
    <3>1. overlap' = overlap
      BY <2>3 DEF Step
    <3> QED
      BY <2>1, <3>1, Zenon
  <2> QED
    BY <1>3, <2>2, <2>3
<1>6. Solo
  BY <1>2, <1>4, <1>5 DEF Solo
<1>7. \A q \in Procs \ {p} : ~Active(q)
  <2>1. CASE Launch(p)
    BY <1>5, <2>1 DEF Launch, Active
  <2>2. CASE Step(p)
    <3>1. Active(p)
      BY <2>2 DEF Active, Step, ReadConfig, ReadRecord, ReadFaults, OpenForWrite, WriteFile,
         Start, Cleanup, Show, forMem, forConfigNick, forRun, forRun_port, forRetry, SendNext,
         Command
    <3> QED
      BY <1>6, <3>1 DEF SoloInv
  <2> QED
    BY <1>3, <2>1, <2>2
<1> QED
  BY <1>1, <1>2, <1>3, <1>6, <1>7 DEF Active

LEMMA SoloKept ==
  ASSUME IInv, \A q \in Procs : OldInv(q), SoloInv,
         NEW p \in Procs, Launch(p) \/ Step(p) \/ Crash(p)
  PROVE  SoloInv'
<1> SUFFICES ASSUME Solo' PROVE SoloInv'
  BY DEF SoloInv
<1>1. /\ Solo /\ (Launch(p) \/ Step(p)) /\ Frame(p) /\ Types
      /\ \A q \in Procs \ {p} : ~Active(q) /\ ~Active(q)'
  BY SoloStep
<1> DEFINE R == files["records"]
           T == Total(files["records"].content)
           M == Total(InMemory(p))
<1>2. /\ R.state # "cut"
      /\ R.state = "empty" => Saves(p)
      /\ R.state = "absent" => T = 0
      /\ pc[p] \in Ready => M >= T
  <2>1. \A q \in Procs : Saves(q) => Active(q)
    BY DEF Saves, Active
  <2> QED
    BY <1>1, <2>1 DEF SoloInv
<1>3. T \in Nat /\ M \in Nat /\ M' \in Nat /\ Types'
  <2>1. Types'
    BY ProcessKeeps DEF IInv
  <2>2. InMemory(p)' \in RecLists
    BY <2>1 DEF Types, InMemory, RecLists
  <2> QED
    BY <1>1, <2>1, <2>2, TotalIsNat
<1>4. ASSUME R'.state # "cut",
             R'.state = "empty" => Saves(p)',
             R'.state = "absent" => T' = 0,
             pc'[p] \in Ready => M' >= T'
      PROVE  SoloInv'
  <2>1. \A q, r \in Procs : Active(q)' /\ Active(r)' => q = r
    BY <1>1
  <2>2. \A q \in Procs \ {p} : pc'[q] \notin Ready
    BY <1>1 DEF Active, Ready
  <2> QED
    BY <1>4, <2>1, <2>2 DEF SoloInv
<1>5. CASE OpenForWrite(p)
  <2>1. pc[p] = "open" /\ pc'[p] = "write" /\ UNCHANGED <<saving, undone, done>>
    BY <1>1, <1>5 DEF OpenForWrite, Goto, Types, lists
  <2>2. M' = M
    BY <2>1 DEF InMemory
  <2>3. CASE saving[p] = "records"
    <3>1. R'.state = "empty" /\ R'.content = R.content
      BY <1>1, <1>5, <2>3 DEF OpenForWrite, Types
    <3>2. M' >= T'
      BY <1>2, <2>1, <2>2, <3>1 DEF Ready
    <3> QED
      BY <1>4, <2>1, <2>3, <3>1, <3>2 DEF Saves
  <2>4. CASE saving[p] # "records"
    <3>1. R' = R
      BY <1>1, <1>5, <2>4 DEF OpenForWrite, Types
    <3> QED
      BY <1>2, <1>4, <2>1, <2>2, <3>1 DEF Ready, Saves
  <2> QED
    BY <2>3, <2>4
<1>6. CASE WriteFile(p)
  <2>1. pc[p] = "write" /\ UNCHANGED <<saving, undone, done>>
    BY <1>6 DEF WriteFile, lists
  <2>2. M' = M
    BY <2>1 DEF InMemory
  <2>3. CASE saving[p] = "records"
    <3>1. R'.state = "whole" /\ R'.content = InMemory(p)
      BY <1>1, <1>6, <2>3 DEF WriteFile, Types, File, Output, InMemory
    <3>2. M' >= T'
      BY <1>3, <2>2, <3>1
    <3> QED
      BY <1>4, <3>1, <3>2
  <2>4. CASE saving[p] # "records"
    <3>1. R' = R
      BY <1>1, <1>6, <2>4 DEF WriteFile, Types
    <3> QED
      BY <1>2, <1>4, <2>1, <2>2, <2>4, <3>1 DEF Ready, Saves
  <2> QED
    BY <2>3, <2>4
<1>7. CASE ReadRecord(p)
  <2>1. R' = R /\ pc[p] = "records"
    BY <1>7 DEF ReadRecord
  <2>2. R.state \in {"absent", "whole"}
    BY <1>1, <1>2, <2>1 DEF Types, FileStates, Saves
  <2>3. PICK c \in Content("records") :
          /\ undone' = [undone EXCEPT ![p] = @ \o Reread(c.undone)]
          /\ done' = [done EXCEPT ![p] = @ \o Reread(c.done)]
    BY <1>7 DEF ReadRecord
  <2>4. Total(c) = T
    <3>1. CASE R.state = "absent"
      <4>1. c = NoLists
        BY <2>3, <3>1 DEF Content, Nothing
      <4>2. Total(NoLists) = 0
        BY DEF Total, NoLists
      <4> QED
        BY <1>2, <3>1, <4>1, <4>2
    <3>2. CASE R.state = "whole"
      BY <2>3, <3>2 DEF Content
    <3> QED
      BY <2>2, <3>1, <3>2
  <2>5. c.undone \in Seq(Rec) /\ c.done \in Seq(Rec)
    BY <1>1, <2>3, ContentTypes DEF RecLists
  <2>6. /\ Reread(c.undone) \in Seq(Rec) /\ Len(Reread(c.undone)) = Len(c.undone)
        /\ Reread(c.done) \in Seq(Rec) /\ Len(Reread(c.done)) = Len(c.done)
    BY <2>5, RereadLists
  <2>7. undone[p] = <<>> /\ done[p] = <<>>
    BY <2>1 DEF IInv, PInv, Counted
  <2>8. undone'[p] = Reread(c.undone) /\ done'[p] = Reread(c.done)
    BY <1>1, <2>3, <2>6, <2>7 DEF Types
  <2>9. M' = T'
    BY <2>1, <2>4, <2>6, <2>8 DEF Total, InMemory
  <2>10. M' >= T'
    BY <1>3, <2>9
  <2> QED
    BY <1>2, <1>4, <2>1, <2>2, <2>10
<1>8. CASE /\ files' = files /\ pc[p] # "write" /\ ~ReadRecord(p)
           /\ pc'[p] \in Ready => pc[p] \in Ready
  <2>1. M' >= M
    BY <1>1, <1>8, StepGrows
  <2>2. pc'[p] \in Ready => M' >= T'
    BY <1>2, <1>3, <1>8, <2>1
  <2> QED
    BY <1>2, <1>4, <1>8, <2>2 DEF Saves
<1> QED
  BY <1>1, <1>5, <1>6, <1>7, <1>8, StepFiles

\* HistoryKept: while processes run one after the other and none crashes, no save
\* of records.txt shortens it: it is read whole before it is written.
THEOREM HistoryKeptHolds == Spec => HistoryKept
<1> DEFINE HInv == (\A p \in Procs : OldInv(p)) /\ SoloInv
           Keeps == ~overlap /\ (\A p \in Procs : pc'[p] # "dead")
                      /\ files'["records"].state = "whole"
                    => Total(files'["records"].content) >= Total(files["records"].content)
<1>1. Init => HInv
  BY InitOld, InitSolo
<1>2. IInv /\ HInv /\ [Next]_vars => HInv'
  <2> SUFFICES ASSUME IInv, HInv, [Next]_vars PROVE HInv'
    OBVIOUS
  <2>1. CASE Next
    BY <2>1, OldKept, SoloKept DEF Next
  <2>2. CASE UNCHANGED vars
    BY <2>2 DEF vars, lists, OldInv, SoloInv, Solo, Active, Saves, InMemory
  <2> QED
    BY <2>1, <2>2
<1>3. IInv /\ HInv /\ [Next]_vars => [Keeps]_vars
  <2> SUFFICES ASSUME IInv, HInv, Next, ~overlap, \A q \in Procs : pc'[q] # "dead",
                      files'["records"].state = "whole"
               PROVE  Total(files'["records"].content) >= Total(files["records"].content)
    OBVIOUS
  <2> DEFINE T == Total(files["records"].content)
  <2>1. PICK p \in Procs : Launch(p) \/ Step(p) \/ Crash(p)
    BY DEF Next
  <2>2. Types /\ Frame(p)
    BY <2>1, ProcessKeeps DEF IInv
  <2>3. Launch(p) \/ Step(p)
    BY <2>1, <2>2 DEF Crash, Goto, Types
  <2>4. T \in Nat
    BY <2>2, TotalIsNat
  <2>5. CASE WriteFile(p) /\ saving[p] = "records"
    <3>1. files'["records"].content = InMemory(p) /\ pc[p] = "write"
      BY <2>2, <2>5 DEF WriteFile, Types, File, Output, InMemory
    <3>2. Solo
      BY <2>2, <3>1 DEF Solo, Frame
    <3> QED
      BY <3>1, <3>2 DEF SoloInv, Ready
  <2>6. CASE ~(WriteFile(p) /\ saving[p] = "records")
    <3>1. files'["records"].content = files["records"].content
      <4>1. CASE OpenForWrite(p)
        BY <2>2, <4>1 DEF OpenForWrite, Types
      <4>2. CASE WriteFile(p)
        BY <2>2, <2>6, <4>2 DEF WriteFile, Types
      <4>3. CASE ReadRecord(p)
        BY <4>3 DEF ReadRecord
      <4> QED
        BY <2>3, <4>1, <4>2, <4>3, StepFiles
    <3> QED
      BY <2>4, <3>1
  <2> QED
    BY <2>5, <2>6
<1> HIDE DEF HInv
<1> QED
  BY <1>1, <1>2, <1>3, Invariant, PTL DEF Spec, HistoryKept

=============================================================================
