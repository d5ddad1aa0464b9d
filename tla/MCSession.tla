----------------------------- MODULE MCSession ------------------------------
(* The command lines for model checking Session.  The first process sends or *)
(* sets a nick name; the second runs before it, during it or after it.       *)
EXTENDS Session

CONSTANTS p1, p2

\* A repeated command, a keyword as a file name, a missing file, a name with a
\* blank, two groups on one line, and every command.
First ==
  { <<"-mem", "run", "h", "b c">>,
    <<"run", "h", "a", "-mem">>,
    <<"-mem", "run", "h", "run">>,
    <<"run_port", "h", "21", "a", "run", "h", "a">>,
    <<"-mem", "run_port", "h", "21", "zz", "run", "h", "a", "a">>,
    <<"-config_nick", "n", "i", "-history">> }

Second ==
  { <<"-retry", "0">>,
    <<"-retry", "1", "-mem">>,
    <<"run", "h", "a", "run", "h", "zz", "-mem">>,
    <<"run", "h", "a", "-mem">> }

MCLines == {p1 :> a @@ p2 :> b : a \in First, b \in Second}

MCLinesPort == {p1 :> <<"run_port", "h", "21", "a", "run", "h", "a">>}
=============================================================================
