------------------------------ MODULE MCStartup ------------------------------
(* Two processes, started from two directories, with and without an argument, *)
(* with and without a home directory; a candidate beside the program, one in  *)
(* the working directory and a file that only arguments name.                 *)
EXTENDS Startup, TLC

MCExeDir == <<"opt">>

Relative(tail) == [kind |-> "relative", tail |-> tail]
Absolute(tail) == [kind |-> "absolute", tail |-> tail]
AtHome(tail) == [kind |-> "home", tail |-> tail]
Uri(scheme) == [kind |-> "uri", scheme |-> scheme]
Blank == Relative(<<>>)

Text(db, log, logs, port, sound) ==
  [db |-> db, log |-> log, logs |-> logs, port |-> port, sound |-> sound]

MCDefaultText == Text(Relative(<<"data">>), Blank, "file", 1, TRUE)

Texts == {
  Text(Relative(<<"data">>), Blank, "file", 1, TRUE),
  Text(Uri("s3"), Blank, "off", 1, TRUE),
  Text(Uri("s3+ddb"), Blank, "file", 2, TRUE),
  Text(AtHome(<<"db">>), Relative(<<"l">>), "file", 1, TRUE),
  Text(Absolute(<<"srv">>), AtHome(<<>>), "stderr", 2, TRUE),
  Text(Blank, Blank, "file", 1, TRUE),
  Text(Relative(<<"data">>), Blank, "file", 1, FALSE)}

Beside == <<"opt", "lancedb.json">>
Here == <<"w", "vldb-lancedb.json">>
Named == <<"w", "c.json">>

Start(cwd, arg, home) == [cwd |-> cwd, arg |-> arg, home |-> home]

MCStarts == {
  Start(<<"w">>, None, <<"h">>), Start(<<"v">>, None, None),
  Start(<<"w">>, Relative(<<"c.json">>), <<"h">>), Start(<<"v">>, Absolute(Named), <<"h">>),
  Start(<<"v">>, Absolute(Named), None), Start(<<"w">>, NoValue, None)}

Disk(beside, here, named) == Beside :> beside @@ Here :> here @@ Named :> named

MCDisks ==
  {Disk(None, None, text) : text \in Texts} \cup {Disk(None, text, None) : text \in Texts}
    \cup {Disk(text, MCDefaultText, None) : text \in Texts}
    \cup {Disk(None, None, None), Disk(Malformed, MCDefaultText, Malformed)}

MCEdits == {None, Malformed, MCDefaultText, Text(Uri("s3"), Blank, "stderr", 1, TRUE)}
=============================================================================
