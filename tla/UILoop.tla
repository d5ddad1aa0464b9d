------------------------------- MODULE UILoop -------------------------------
(***************************************************************************)
(* The user interface (source/UserInterface.cpp) and how main.cpp runs it: *)
(* the main thread prints what the other threads post to its loop, and the *)
(* process ends when that loop ends.  The worker, which runs the commands, *)
(* posts its texts and at the end asks for the shutdown; a progress thread *)
(* posts bars until it happens to stop.  A text of more than 1024 bytes    *)
(* makes the handler throw, and that ends the process as well.             *)
(***************************************************************************)
EXTENDS HandlerLoop

CONSTANTS
  Texts,     \* how many texts the commands print
  Bars,      \* how many bars the progress threads print
  TextKinds, \* "text", or "long": of more than 1024 bytes
  BarKinds,  \* "bar", or "endless": the bar of a file of zero bytes
  Delay,     \* shutdown_WhenEmpty's 100 ms, in ticks
  Horizon    \* the clock stops here: everything queued is then due

ASSUME UIAssumption ==
  /\ Texts \in Nat /\ Bars \in Nat
  /\ TextKinds \subseteq {"text", "long"}
  /\ BarKinds \subseteq {"bar", "endless"}
  /\ Delay \in Nat /\ Horizon \in Nat

Senders == {"worker", "progress"}

VARIABLES
  clock,     \* the system clock, in ticks
  lpc,       \* where the main thread is in Loop::loop
  handling,  \* the message it handles, if any
  sent,      \* how many messages each sender has posted or seen refused
  posting,   \* the message each sender has stamped and not yet queued, if any
  request,   \* what became of shutdown_WhenEmpty
  printed    \* what the terminal has shown

senderVars == <<sent, posting, request>>
vars == <<loopVars, clock, lpc, handling, senderVars, printed>>

Message ==
  [from : Senders, n : Nat, at : Nat,
   kind : {"text", "long", "shutdown", "bar", "endless"}]

Quota(s) == IF s = "worker" THEN Texts ELSE Bars
Kinds(s) == IF s = "worker" THEN TextKinds ELSE BarKinds

TypeOK ==
  /\ queue \subseteq Message /\ handling \subseteq Message /\ printed \subseteq Message
  /\ running \in BOOLEAN /\ draining \in BOOLEAN
  /\ clock \in 0 .. Horizon
  /\ lpc \in {"idle", "next", "handle", "ended", "threw"}
  /\ sent \in [Senders -> Nat] /\ \A s \in Senders : sent[s] <= Quota(s)
  /\ posting \in [Senders -> SUBSET Message]
  /\ request \in {"none", "sent", "lost"}

Init ==
  /\ LoopInit
  /\ clock = 0
  /\ lpc = "idle"
  /\ handling = {}
  /\ sent = [s \in Senders |-> 0]
  /\ posting = [s \in Senders |-> {}]
  /\ request = "none"
  /\ printed = {}

Tick ==
  /\ clock < Horizon
  /\ clock' = clock + 1
  /\ UNCHANGED <<loopVars, lpc, handling, senderVars, printed>>

-----------------------------------------------------------------------------
(* The senders *)

\* Mutated Post: a loop that is not running refuses messages.
PostWhenRunning(s) ==
  /\ sent[s] < Quota(s)
  /\ posting[s] = {}
  /\ sent' = [sent EXCEPT ![s] = @ + 1]
  /\ \E k \in Kinds(s) :
       LET m == [from |-> s, n |-> sent[s] + 1, kind |-> k, at |-> clock]
       IN posting' = IF draining \/ ~running THEN posting
                                             ELSE [posting EXCEPT ![s] = {m}]
  /\ UNCHANGED <<loopVars, clock, lpc, handling, request, printed>>

\* Mutated Post: what is posted before the loop runs is delayed.
PostDelayedWhenIdle(s) ==
  /\ sent[s] < Quota(s)
  /\ posting[s] = {}
  /\ sent' = [sent EXCEPT ![s] = @ + 1]
  /\ \E k \in Kinds(s) :
       LET m == [from |-> s, n |-> sent[s] + 1, kind |-> k,
                 at |-> IF running THEN clock ELSE clock + Delay]
       IN posting' = IF draining THEN posting ELSE [posting EXCEPT ![s] = {m}]
  /\ UNCHANGED <<loopVars, clock, lpc, handling, request, printed>>

\* printText or printProgress, then Loop::enqueue, which refuses the message
\* if the loop is draining and else stamps it with the current time.
Post(s) ==
  /\ sent[s] < Quota(s)
  /\ posting[s] = {}
  /\ sent' = [sent EXCEPT ![s] = @ + 1]
  /\ \E k \in Kinds(s) :
       LET m == [from |-> s, n |-> sent[s] + 1, kind |-> k, at |-> clock]
       IN posting' = IF draining THEN posting ELSE [posting EXCEPT ![s] = {m}]
  /\ UNCHANGED <<loopVars, clock, lpc, handling, request, printed>>

\* The stamped message enters the queue.
Push(s) ==
  /\ \E m \in posting[s] : Enqueue(m)
  /\ posting' = [posting EXCEPT ![s] = {}]
  /\ UNCHANGED <<clock, lpc, handling, sent, request, printed>>

\* TranslateLauncher::cleanup, or the catch clause of main's thread: the
\* commands are over.  shutdown_WhenEmpty does nothing unless the loop runs.
ShutdownWhenEmpty ==
  /\ request = "none"
  /\ sent["worker"] = Texts
  /\ posting["worker"] = {}
  /\ LET m == [from |-> "worker", n |-> Texts + 1, kind |-> "shutdown",
               at |-> clock + Delay]
     IN IF running
          THEN /\ request' = "sent"
               /\ posting' = [posting EXCEPT !["worker"] = {m}]
          ELSE /\ request' = "lost"
               /\ UNCHANGED posting
  /\ UNCHANGED <<loopVars, clock, lpc, handling, sent, printed>>

-----------------------------------------------------------------------------
(* The main thread *)

\* main calls UI::loop().
StartLoop ==
  /\ lpc = "idle"
  /\ Begin
  /\ lpc' = "next"
  /\ UNCHANGED <<clock, handling, senderVars, printed>>

\* The loop takes a message that is due.
NextMessage ==
  /\ lpc = "next"
  /\ \E m \in queue :
       /\ m.at <= clock \/ clock = Horizon
       /\ Take(m)
       /\ handling' = {m}
  /\ lpc' = "handle"
  /\ UNCHANGED <<clock, senderVars, printed>>

\* Mutated HandleMessage: the request to stop is not among the handler's cases.
HandleNoShutdown ==
  /\ lpc = "handle"
  /\ \E m \in handling :
       /\ m.kind \in {"text", "bar", "shutdown"}
       /\ printed' = IF m.kind = "shutdown" THEN printed ELSE printed \cup {m}
  /\ handling' = {}
  /\ lpc' = IF running THEN "next" ELSE "ended"
  /\ UNCHANGED <<loopVars, clock, senderVars>>

\* The handler of readyForThread, and the loop's test of running.  A bar for a
\* file of zero bytes has an infinite length: its loop of printf never ends.
HandleMessage ==
  /\ lpc = "handle"
  /\ \E m \in handling :
       \/ /\ m.kind \in {"text", "bar"}
          /\ printed' = printed \cup {m}
          /\ UNCHANGED loopVars
       \/ /\ m.kind = "shutdown"
          /\ StopUtilEmpty
          /\ UNCHANGED printed
  /\ handling' = {}
  /\ lpc' = IF running' THEN "next" ELSE "ended"
  /\ UNCHANGED <<clock, senderVars>>

\* The handler's buffer holds 1024 bytes.  What it throws for a longer text
\* leaves Loop::loop for the catch clause of main, which ends the process.
HandlerThrows ==
  /\ lpc = "handle"
  /\ \E m \in handling : m.kind = "long"
  /\ lpc' = "threw"
  /\ UNCHANGED <<loopVars, clock, handling, senderVars, printed>>

-----------------------------------------------------------------------------

Next ==
  \/ Tick
  \/ \E s \in Senders : Post(s) \/ Push(s)
  \/ ShutdownWhenEmpty
  \/ StartLoop \/ NextMessage \/ HandleMessage \/ HandlerThrows

Spec == Init /\ [][Next]_vars

\* Time passes, and every thread that can run does.
Fairness ==
  /\ WF_vars(Tick)
  /\ \A s \in Senders : WF_vars(Post(s)) /\ WF_vars(Push(s))
  /\ WF_vars(ShutdownWhenEmpty)
  /\ WF_vars(StartLoop) /\ WF_vars(NextMessage)
  /\ WF_vars(HandleMessage) /\ WF_vars(HandlerThrows)

FairSpec == Spec /\ Fairness

-----------------------------------------------------------------------------
(* Properties *)

\* The process ends on request, and then no text of a command is missing from
\* the terminal, however the loop and its senders interleave; or it ends by a
\* text that is too long, and then it loses that text and texts stamped no
\* earlier, whatever the senders have posted by then.
TextsDelivered ==
  /\ lpc = "ended" =>
       /\ request = "sent"
       /\ {m.n : m \in {p \in printed : p.from = "worker"}} = 1 .. Texts
  /\ lpc = "threw" =>
       \E m \in handling :
         /\ m.kind = "long"
         /\ \A n \in 1 .. m.n - 1 :
              \/ \E p \in printed : p.from = "worker" /\ p.n = n
              \/ \E q \in queue : q.from = "worker" /\ q.n = n /\ q.at = m.at

\* A message is shown before an earlier one of its sender only if the clock
\* gave both the same time: the queue is ordered by time and nothing else.
ShownInOrder ==
  \A m \in printed :
    \A q \in queue \cup handling \cup posting[m.from] :
      q.from = m.from /\ q.at # m.at => m.n < q.n

\* "Stop when there is no message left in the loop" (Loop.h, of
\* stopLoop_util_empty): a shutdown that was posted ends the loop, unless a
\* text that is too long has ended it before.
StopsWhenAsked == request = "sent" ~> lpc \in {"ended", "threw"}

=============================================================================
