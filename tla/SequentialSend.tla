--------------------------- MODULE SequentialSend ---------------------------
(***************************************************************************)
(* What multiRun (source/App.cpp) promises of N files: they are prepared   *)
(* in order ahead of the sender, they are sent one at a time and in order, *)
(* each only once it is prepared, each gets one verdict that never         *)
(* changes, and the call returns true exactly when every file was sent.    *)
(***************************************************************************)
EXTENDS Integers

CONSTANT N

Files == 0 .. N - 1

VARIABLES
  ready,    \* how many files are prepared
  active,   \* the files being sent: at most one
  verdict,  \* of each file
  result    \* of the call

vars == <<ready, active, verdict, result>>

TypeOK ==
  /\ ready \in 0 .. N
  /\ active \subseteq Files
  /\ verdict \in [Files -> {"pending", "sent", "failed"}]
  /\ result \in {"running", "true", "false"}

Init ==
  /\ ready = 0
  /\ active = {}
  /\ verdict = [i \in Files |-> "pending"]
  /\ result = "running"

\* The prepare thread finishes a file.
Prepare ==
  /\ ready < N
  /\ ready' = ready + 1
  /\ UNCHANGED <<active, verdict, result>>

\* The next file in order starts, and no other is under way.
Open(i) ==
  /\ result = "running"
  /\ active = {}
  /\ i < ready
  /\ verdict[i] = "pending"
  /\ \A j \in Files : j < i => verdict[j] # "pending"
  /\ active' = {i}
  /\ UNCHANGED <<ready, verdict, result>>

Decide(i, v) ==
  /\ result = "running"
  /\ active = {i}
  /\ verdict' = [verdict EXCEPT ![i] = v]
  /\ active' = {}
  /\ UNCHANGED <<ready, result>>

Return ==
  /\ result = "running"
  /\ \A i \in Files : verdict[i] # "pending"
  /\ result' = IF \A i \in Files : verdict[i] = "sent" THEN "true" ELSE "false"
  /\ UNCHANGED <<ready, active, verdict>>

Next ==
  \/ Prepare
  \/ \E i \in Files : Open(i) \/ \E v \in {"sent", "failed"} : Decide(i, v)
  \/ Return

Spec == Init /\ [][Next]_vars
=============================================================================
