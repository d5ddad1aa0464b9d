---------------------------- MODULE UILoopProofs ----------------------------
(***************************************************************************)
(* Proofs about UILoop for any number of texts and bars, any delay and any *)
(* horizon of the clock.  The two safety properties need to know where     *)
(* each message can be and which message a sender has in hand: those are   *)
(* the conjuncts of Inv.                                                   *)
(***************************************************************************)
EXTENDS UILoop, TLAPS

\* Every message in flight or shown.
Placed == queue \cup handling \cup printed

\* What a message says about its sender and its kind.
WellFormed(m) ==
  /\ m.from = "worker" => m.kind \in {"text", "long", "shutdown"}
  /\ m.from = "progress" => m.kind \in {"bar", "endless"}
  /\ m.kind \in {"text", "long"} => m.n \in 1 .. Texts
  /\ m.kind = "shutdown" => m.n = Texts + 1
  /\ m.kind # "shutdown" => m.n <= sent[m.from]
  /\ m.kind # "shutdown" => m.at <= clock

\* The messages are the ones their senders made, each sender has one in hand
\* at most, and the terminal shows what the handler prints.
MessageInv ==
  /\ \A m \in Placed : WellFormed(m)
  /\ \A s \in Senders : \A m \in posting[s] : m.from = s /\ WellFormed(m)
  /\ \A s \in Senders : \A m, q \in posting[s] : m = q
  /\ \A m \in printed : m.kind \in {"text", "bar"}

\* The request comes after the worker's last text, there is one, and while it
\* is on its way, as when it has been served, the worker posts nothing more.
RequestInv ==
  /\ request # "none" => sent["worker"] = Texts
  /\ \A m \in posting["worker"] :
       m.kind = "shutdown" => request = "sent"
  /\ request # "none" => \A m \in posting["worker"] : m.kind = "shutdown"
  /\ \A m \in queue \cup handling :
       m.kind = "shutdown" => request = "sent" /\ posting["worker"] = {}
  /\ draining => request = "sent" /\ posting["worker"] = {}

\* The main thread's counter, the loop's flag and the message in hand agree;
\* once the flag is down no message of the worker is left in the queue.
LoopInv ==
  /\ lpc = "idle" => ~running /\ ~draining
  /\ lpc = "next" => running
  /\ lpc = "ended" => ~running
  /\ lpc \notin {"handle", "threw"} => handling = {}
  /\ lpc = "threw" => \E m \in handling : m.kind = "long"
  /\ \A m, q \in handling : m = q
  /\ lpc # "idle" /\ ~running =>
       draining /\ \A m \in queue : m.from # "worker"

\* No text is lost on the way.
KeptInv ==
  \A n \in 1 .. sent["worker"] :
    \E m \in posting["worker"] \cup Placed :
      m.from = "worker" /\ m.kind \in {"text", "long"} /\ m.n = n

\* The message a sender has in hand is its latest, later messages have later
\* time stamps, and what is taken from the queue has the earliest.
OrderInv ==
  /\ \A s \in Senders : \A m \in posting[s], q \in Placed :
       q.from = s => q.at <= m.at /\ q.n < m.n
  /\ \A m, q \in Placed : m.from = q.from /\ m.at < q.at => m.n < q.n
  /\ \A m \in printed \cup handling, q \in queue : q.from = m.from => m.at <= q.at
  /\ \A m \in printed, q \in handling : q.from = m.from => m.at <= q.at

Inv == TypeOK /\ MessageInv /\ RequestInv /\ LoopInv /\ KeptInv /\ OrderInv

USE UIAssumption DEF Senders, Message, Quota, Kinds, Placed

LEMMA InitInv == Init => Inv
<1> SUFFICES ASSUME Init PROVE Inv
  OBVIOUS
<1> USE DEF Init, LoopInit
<1>1. TypeOK
  <2>1. /\ queue \subseteq Message /\ handling \subseteq Message /\ printed \subseteq Message
        /\ sent \in [Senders -> Nat] /\ \A s \in Senders : sent[s] <= Quota(s)
        /\ clock \in 0 .. Horizon
    OBVIOUS
  <2>2. posting \in [Senders -> SUBSET Message]
    BY Zenon
  <2> QED
    BY <2>1, <2>2 DEF TypeOK
<1>2. MessageInv /\ RequestInv /\ LoopInv /\ OrderInv
  BY DEF MessageInv, RequestInv, LoopInv, OrderInv
<1>3. KeptInv
  BY DEF KeptInv
<1> QED
  BY <1>1, <1>2, <1>3 DEF Inv

-----------------------------------------------------------------------------
(* Inv is inductive.  First the steps that only move a message.            *)

LEMMA TickInv == ASSUME Inv, Tick PROVE Inv'
<1> USE DEF Tick, loopVars, senderVars
<1>1. TypeOK'
  BY DEF Inv, TypeOK
<1>2. MessageInv'
  BY DEF Inv, TypeOK, MessageInv, WellFormed
<1>3. RequestInv' /\ LoopInv' /\ KeptInv' /\ OrderInv'
  BY DEF Inv, RequestInv, LoopInv, KeptInv, OrderInv
<1> QED
  BY <1>1, <1>2, <1>3 DEF Inv

LEMMA StartLoopInv == ASSUME Inv, StartLoop PROVE Inv'
<1> USE DEF StartLoop, Begin, senderVars
<1>1. TypeOK' /\ MessageInv' /\ KeptInv' /\ OrderInv'
  BY DEF Inv, TypeOK, MessageInv, WellFormed, KeptInv, OrderInv
<1>2. RequestInv' /\ LoopInv'
  BY DEF Inv, RequestInv, LoopInv
<1> QED
  BY <1>1, <1>2 DEF Inv

LEMMA PushInv ==
  ASSUME Inv, NEW s \in Senders, Push(s)
  PROVE  Inv'
<1> USE DEF Push, Enqueue
<1>1. PICK m \in posting[s] : Enqueue(m)
  OBVIOUS
<1>2. TypeOK'
  BY <1>1 DEF Inv, TypeOK
<1>3. MessageInv'
  BY <1>1 DEF Inv, TypeOK, MessageInv, WellFormed
<1>4. m.from = s
  BY DEF Inv, MessageInv
<1>5. RequestInv'
  BY <1>1, <1>4 DEF Inv, TypeOK, MessageInv, WellFormed, RequestInv
<1>6. LoopInv'
  BY <1>1, <1>4 DEF Inv, TypeOK, RequestInv, LoopInv
<1>7. KeptInv'
  <2>1. posting["worker"] \subseteq posting'["worker"] \cup {m}
    <3>1. \A q \in posting[s] : q = m
      BY DEF Inv, MessageInv
    <3> QED
      BY <3>1 DEF Inv, TypeOK
  <2>2. posting["worker"] \cup Placed \subseteq posting'["worker"] \cup Placed'
    BY <1>1, <2>1
  <2> QED
    BY <2>2 DEF Inv, KeptInv
<1>8. OrderInv'
  BY <1>1, <1>4 DEF Inv, TypeOK, OrderInv
<1> QED
  BY <1>2, <1>3, <1>5, <1>6, <1>7, <1>8 DEF Inv

LEMMA NextMessageInv == ASSUME Inv, NextMessage PROVE Inv'
<1> USE DEF NextMessage, Take, senderVars
<1>1. PICK m \in queue : Take(m) /\ handling' = {m}
  OBVIOUS
<1>2. handling = {}
  BY DEF Inv, LoopInv
<1>3. TypeOK'
  BY <1>1 DEF Inv, TypeOK
<1>4. MessageInv' /\ RequestInv'
  BY <1>1 DEF Inv, MessageInv, WellFormed, RequestInv
<1>5. LoopInv'
  BY <1>1 DEF Inv, LoopInv
<1>6. KeptInv'
  BY <1>1, <1>2 DEF Inv, KeptInv
<1>7. OrderInv'
  BY <1>1, <1>2 DEF Inv, OrderInv, Heads
<1> QED
  BY <1>3, <1>4, <1>5, <1>6, <1>7 DEF Inv

LEMMA HandleMessageInv == ASSUME Inv, HandleMessage PROVE Inv'
<1> USE DEF HandleMessage, StopUtilEmpty, loopVars, senderVars
<1>1. PICK m \in handling :
        \/ /\ m.kind \in {"text", "bar"}
           /\ printed' = printed \cup {m}
           /\ UNCHANGED loopVars
        \/ /\ m.kind = "shutdown"
           /\ StopUtilEmpty
           /\ UNCHANGED printed
  OBVIOUS
<1>2. \A q \in handling : q = m
  BY DEF Inv, LoopInv
<1>3. TypeOK'
  BY <1>1 DEF Inv, TypeOK
<1>4. MessageInv'
  <2>1. CASE m.kind \in {"text", "bar"} /\ printed' = printed \cup {m} /\ UNCHANGED loopVars
    <3>1. \A q \in Placed' : q \in Placed
      BY <2>1
    <3>2. \A q \in printed' : q.kind \in {"text", "bar"}
      BY <2>1 DEF Inv, MessageInv
    <3> QED
      BY <3>1, <3>2 DEF Inv, MessageInv, WellFormed
  <2>2. CASE StopUtilEmpty /\ UNCHANGED printed
    BY <2>2 DEF Inv, MessageInv, WellFormed
  <2> QED
    BY <1>1, <2>1, <2>2
<1>5. RequestInv'
  BY <1>1 DEF Inv, RequestInv
<1>6. LoopInv'
  <2>1. CASE UNCHANGED loopVars
    BY <2>1 DEF Inv, TypeOK, LoopInv
  <2>2. CASE StopUtilEmpty
    BY <2>2 DEF Inv, TypeOK, LoopInv
  <2> QED
    BY <1>1, <2>1, <2>2
<1>7. KeptInv'
  BY <1>1, <1>2 DEF Inv, KeptInv
<1>8. OrderInv'
  BY <1>1, <1>2 DEF Inv, OrderInv
<1> QED
  BY <1>3, <1>4, <1>5, <1>6, <1>7, <1>8 DEF Inv

LEMMA HandlerThrowsInv == ASSUME Inv, HandlerThrows PROVE Inv'
<1> USE DEF HandlerThrows, loopVars, senderVars
<1>1. TypeOK' /\ MessageInv' /\ RequestInv' /\ KeptInv' /\ OrderInv'
  BY DEF Inv, TypeOK, MessageInv, WellFormed, RequestInv, KeptInv, OrderInv
<1>2. LoopInv'
  BY DEF Inv, LoopInv
<1> QED
  BY <1>1, <1>2 DEF Inv

-----------------------------------------------------------------------------
(* The steps that make a message.                                          *)

\* A sender that still has something to print has not asked for a shutdown,
\* so that the clock has passed every message of its own.
LEMMA PostInv ==
  ASSUME Inv, NEW s \in Senders, Post(s)
  PROVE  Inv'
<1> USE DEF Post, loopVars
<1>1. PICK k \in Kinds(s) :
        LET m == [from |-> s, n |-> sent[s] + 1, kind |-> k, at |-> clock]
        IN posting' = IF draining THEN posting ELSE [posting EXCEPT ![s] = {m}]
  OBVIOUS
<1>a. /\ clock \in Nat /\ clock' = clock /\ sent \in [Senders -> Nat]
      /\ sent[s] < Quota(s) /\ sent' = [sent EXCEPT ![s] = @ + 1]
  BY DEF Inv, TypeOK, UIAssumption
<1>b. PICK m \in Message :
        m = [from |-> s, n |-> sent[s] + 1, kind |-> k, at |-> clock]
  <2>1. k \in {"text", "long", "shutdown", "bar", "endless"}
    BY UIAssumption
  <2>2. sent[s] + 1 \in Nat
    BY <1>a
  <2>3. [from |-> s, n |-> sent[s] + 1, kind |-> k, at |-> clock] \in Message
    BY <1>a, <2>1, <2>2
  <2> QED
    BY Zenon, <2>3
<1>2. WellFormed(m)' /\ m.kind # "shutdown"
  BY <1>1, <1>a, <1>b, UIAssumption DEF WellFormed
<1>3. s = "worker" => request = "none" /\ ~draining
  BY DEF Inv, TypeOK, RequestInv
<1>4. TypeOK'
  BY <1>1, <1>b, <1>2 DEF Inv, TypeOK
<1>5. MessageInv'
  BY <1>1, <1>b, <1>2 DEF Inv, TypeOK, MessageInv, WellFormed
<1>6. RequestInv'
  BY <1>1, <1>b, <1>2, <1>3 DEF Inv, TypeOK, RequestInv
<1>7. LoopInv'
  BY DEF Inv, LoopInv
<1>8. KeptInv'
  <2>1. CASE s = "worker"
    <3>1. posting' = [posting EXCEPT ![s] = {m}] /\ k \in {"text", "long"} /\ posting[s] = {}
      BY <1>1, <1>b, <1>3, <2>1
    <3>2. sent' = [sent EXCEPT ![s] = @ + 1] /\ sent[s] \in Nat
      BY <1>a
    <3> QED
      BY <1>b, <2>1, <3>1, <3>2 DEF Inv, TypeOK, KeptInv
  <2>2. CASE s # "worker"
    BY <1>1, <1>b, <2>2 DEF Inv, TypeOK, KeptInv
  <2> QED
    BY <2>1, <2>2
<1>9. \A q \in Placed : q.from = s => q.at <= clock /\ q.n <= sent[s]
  BY <1>3 DEF Inv, MessageInv, WellFormed, RequestInv
<1>10. OrderInv'
  BY <1>1, <1>a, <1>b, <1>9 DEF Inv, TypeOK, OrderInv
<1> QED
  BY <1>4, <1>5, <1>6, <1>7, <1>8, <1>10 DEF Inv

LEMMA ShutdownInv == ASSUME Inv, ShutdownWhenEmpty PROVE Inv'
<1> USE DEF ShutdownWhenEmpty, loopVars
<1> DEFINE m == [from |-> "worker", n |-> Texts + 1, kind |-> "shutdown",
                 at |-> clock + Delay]
<1>1. m \in Message /\ WellFormed(m)
  BY DEF Inv, TypeOK, WellFormed, UIAssumption
<1>2. TypeOK'
  BY <1>1 DEF Inv, TypeOK
<1>3. MessageInv'
  BY <1>1 DEF Inv, TypeOK, MessageInv, WellFormed
<1>4. \A q \in queue \cup handling : q.kind # "shutdown"
  BY DEF Inv, RequestInv
<1>5. RequestInv'
  BY <1>4 DEF Inv, TypeOK, RequestInv
<1>6. LoopInv'
  BY DEF Inv, LoopInv
<1>7. KeptInv'
  BY DEF Inv, TypeOK, KeptInv
<1>8. \A q \in Placed : q.from = "worker" => q.at <= clock + Delay /\ q.n < Texts + 1
  BY <1>4 DEF Inv, TypeOK, MessageInv, WellFormed, UIAssumption
<1>9. OrderInv'
  BY <1>8 DEF Inv, TypeOK, OrderInv
<1> QED
  BY <1>2, <1>3, <1>5, <1>6, <1>7, <1>9 DEF Inv

LEMMA NextInv == Inv /\ [Next]_vars => Inv'
<1> SUFFICES ASSUME Inv, [Next]_vars PROVE Inv'
  OBVIOUS
<1>1. CASE UNCHANGED vars
  BY <1>1 DEF vars, loopVars, senderVars, Inv, TypeOK, MessageInv, WellFormed,
              RequestInv, LoopInv, KeptInv, OrderInv
<1>2. CASE Tick
  BY <1>2, TickInv
<1>3. ASSUME NEW s \in Senders, Post(s) \/ Push(s) PROVE Inv'
  BY <1>3, PostInv, PushInv
<1>4. CASE ShutdownWhenEmpty
  BY <1>4, ShutdownInv
<1>5. CASE StartLoop \/ NextMessage \/ HandleMessage \/ HandlerThrows
  BY <1>5, StartLoopInv, NextMessageInv, HandleMessageInv, HandlerThrowsInv
<1> QED
  BY <1>1, <1>2, <1>3, <1>4, <1>5 DEF Next

\* Inv holds in every reachable state.
THEOREM InvHolds == Spec => []Inv
  BY InitInv, NextInv, PTL DEF Spec

-----------------------------------------------------------------------------

\* The variables of the user interface keep their types.
THEOREM TypeCorrect == Spec => []TypeOK
  BY InvHolds, PTL DEF Inv

\* When the loop ends it has printed every text of the commands, and it ends
\* only because they asked for it; the one other end is the throw of the
\* handler for a text of more than 1024 bytes, and by then what was stamped
\* before that text is printed (main.cpp, UserInterface.cpp).
THEOREM TextsDeliveredHolds == Spec => []TextsDelivered
<1>1. ASSUME Inv, lpc = "ended"
      PROVE  /\ request = "sent"
             /\ {m.n : m \in {p \in printed : p.from = "worker"}} = 1 .. Texts
  <2>1. draining /\ handling = {} /\ \A m \in queue : m.from # "worker"
    BY <1>1 DEF Inv, LoopInv
  <2>2. request = "sent" /\ posting["worker"] = {} /\ sent["worker"] = Texts
    BY <1>1, <2>1 DEF Inv, RequestInv
  <2>3. ASSUME NEW n \in 1 .. Texts
        PROVE  \E m \in printed : m.from = "worker" /\ m.n = n
    BY <1>1, <2>1, <2>2 DEF Inv, KeptInv
  <2>4. ASSUME NEW m \in printed, m.from = "worker"
        PROVE  m.n \in 1 .. Texts
    BY <1>1, <2>4 DEF Inv, MessageInv, WellFormed
  <2> QED
    BY <2>2, <2>3, <2>4
<1>2. ASSUME Inv, lpc = "threw"
      PROVE  \E m \in handling :
               /\ m.kind = "long"
               /\ \A n \in 1 .. m.n - 1 :
                    \/ \E p \in printed : p.from = "worker" /\ p.n = n
                    \/ \E q \in queue : q.from = "worker" /\ q.n = n /\ q.at = m.at
  <2>1. PICK m \in handling : m.kind = "long"
    BY <1>2 DEF Inv, LoopInv
  <2>2. m \in Message /\ m.from = "worker" /\ m.n <= sent["worker"]
    BY <1>2, <2>1 DEF Inv, TypeOK, MessageInv, WellFormed
  <2>3. ASSUME NEW n \in 1 .. m.n - 1
        PROVE  \/ \E p \in printed : p.from = "worker" /\ p.n = n
               \/ \E q \in queue : q.from = "worker" /\ q.n = n /\ q.at = m.at
    <3>1. n \in 1 .. sent["worker"]
      BY <1>2, <2>2 DEF Inv, TypeOK
    <3>2. PICK q \in posting["worker"] \cup Placed : q.from = "worker" /\ q.n = n
      BY <1>2, <3>1 DEF Inv, KeptInv
    <3>3. q \notin posting["worker"]
      BY <1>2, <2>2, <3>2 DEF Inv, OrderInv
    <3>4. q \notin handling
      BY <1>2, <2>2, <3>2 DEF Inv, LoopInv
    <3>5. q \in queue => q.at = m.at
      BY <1>2, <2>2, <3>2 DEF Inv, TypeOK, OrderInv
    <3> QED
      BY <3>2, <3>3, <3>4, <3>5
  <2> QED
    BY <2>1, <2>3
<1>3. Inv => TextsDelivered
  BY <1>1, <1>2 DEF TextsDelivered
<1> QED
  BY <1>3, InvHolds, PTL

\* What one sender prints is shown in the order it printed it, so far as the
\* clock tells the messages apart.
THEOREM ShownInOrderHolds == Spec => []ShownInOrder
<1>1. Inv => ShownInOrder
  BY DEF Inv, TypeOK, MessageInv, OrderInv, ShownInOrder
<1> QED
  BY <1>1, InvHolds, PTL

=============================================================================
