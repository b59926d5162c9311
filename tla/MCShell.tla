------------------------------ MODULE MCShell ------------------------------
(***************************************************************************)
(* The TLC instance of Shell: quiet and noisy commands, output with and    *)
(* without a newline, output beyond the limit, commands of several lines,  *)
(* one that exits and one that reads what is meant for the shell.          *)
(***************************************************************************)
EXTENDS Shell

Line(prints, then) == [prints |-> prints, then |-> then]

MCCommands == {
  <<Line(<<>>, "next")>>,
  <<Line(<<"line", "part">>, "next")>>,
  <<Line(<<"line", "line", "line", "line", "line">>, "next")>>,
  <<Line(<<"part", "part">>, "next"), Line(<<"line", "line">>, "next"), Line(<<"line">>, "next")>>,
  <<Line(<<"line", "line", "line">>, "next"), Line(<<"line", "part">>, "exit")>>,
  <<Line(<<"line">>, "data")>>}
=============================================================================
