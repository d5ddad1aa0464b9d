---------------------------- MODULE HandlerLoop -----------------------------
(***************************************************************************)
(* Loop and MessageQueue of the Handler library, of which the repository   *)
(* has the headers (include/Handler) and a binary: a queue of messages     *)
(* ordered by the time at which each is due, a loop that takes them one at *)
(* a time, and a request to stop as soon as the queue is empty.            *)
(***************************************************************************)
EXTENDS Integers

VARIABLES
  queue,     \* messages waiting
  running,   \* Loop::isRunning
  draining   \* stopLoop_util_empty was called: nothing more is accepted

loopVars == <<queue, running, draining>>

LoopInit ==
  /\ queue = {}
  /\ running = FALSE
  /\ draining = FALSE

\* Loop::loop, up to its first message.
Begin ==
  /\ ~running
  /\ running' = TRUE
  /\ UNCHANGED <<queue, draining>>

\* MessageQueue::enqueueAt.  The loop has refused the message before this if
\* it is draining.
Enqueue(m) ==
  /\ queue' = queue \cup {m}
  /\ UNCHANGED <<running, draining>>

\* The messages next() may return: of those due at the same time, any.
Heads == {m \in queue : \A q \in queue : m.at <= q.at}

\* MessageQueue::next.  When it takes the last message it calls the on-empty
\* function, which stops a draining loop; that message is still handled.
Take(m) ==
  /\ m \in Heads
  /\ queue' = queue \ {m}
  /\ running' = IF draining /\ queue' = {} THEN FALSE ELSE running
  /\ UNCHANGED draining

\* Loop::stopLoop_util_empty.
StopUtilEmpty ==
  /\ draining' = TRUE
  /\ running' = IF queue = {} THEN FALSE ELSE running
  /\ UNCHANGED queue

=============================================================================
