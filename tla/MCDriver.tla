------------------------------ MODULE MCDriver ------------------------------
(* The command lines and the disks of the runs of Driver. *)
EXTENDS Driver

CONSTANTS p1, p2

Strings == STRING

W == <<"w">>
File(dir, name) == [root |-> TRUE, dir |-> dir, name |-> name]
Arg(name) == [root |-> FALSE, dir |-> <<>>, name |-> name]
Sub(d, name) == [root |-> FALSE, dir |-> <<d>>, name |-> name]

AC == <<"a", "c">>
BC == <<"b", "c">>
BO == <<"b", "o">>

Cmd(args, flags, out) ==
  [cwd |-> W, args |-> args, flags |-> flags, out |-> out, folders |-> {}]

-----------------------------------------------------------------------------
\* Two invocations: p1 with every stage, every form of argument and every
\* refusal, p2 on a file of the same name in another directory.
Two == {p1, p2}
TwoAfter == [p \in Two |-> {}]

TwoDisk ==
  {File(W, AC), File(W, BC), File(W, BO), File(W, <<"notes", "txt">>),
   File(W, <<"a", "out">>), File(W, <<"libz", "a">>),
   File(<<"tmp">>, <<"a", "c", "o">>),
   File(<<"w", "x">>, AC), File(<<"w", "x">>, BC), File(<<"w", "y">>, AC)}
TwoWritable ==
  {W, <<"w", "x">>, <<"w", "y">>, <<"tmp">>, <<"tmp", "x">>, <<"tmp", "y">>}
TwoDirectories == TwoWritable \cup {<<"ro">>}

Both == {Arg(AC), Arg(BC)}
EveryCommand ==
  {Cmd({Arg(AC)}, {}, NoPath),
   Cmd({Sub(".", <<"*", "c">>)}, {"c"}, NoPath),
   Cmd(Both, {}, Arg(<<"prog">>)),
   Cmd({Sub("x", AC), Sub("x", BC)}, {}, Arg(<<"prog">>)),
   Cmd({Arg(AC), Arg(BO), Arg(<<"libz", "a">>)}, {}, NoPath),
   Cmd({Arg(<<"*", "c">>)}, {}, NoPath),
   Cmd({Arg(<<"*", "o">>), Arg(AC)}, {}, NoPath),
   Cmd({Sub("x", <<"*", "c">>)}, {"S"}, NoPath),
   Cmd({Sub("z", <<"*", "c">>)}, {}, NoPath),
   Cmd({Arg(AC)}, {}, File(<<"ro">>, <<"prog">>)),
   Cmd({Arg(AC)}, {"c", "S"}, Arg(<<"x", "s">>)),
   Cmd(Both, {"emit-llvm"}, NoPath),
   Cmd({Arg(AC)}, {"emit-llvm"}, File(<<"ro">>, <<"x", "ll">>)),
   Cmd({Arg(AC)}, {"emit-ast"}, NoPath),
   Cmd(Both, {"E", "c"}, NoPath),
   Cmd({Arg(AC)}, {"emit-token"}, Arg(<<"t">>)),
   Cmd(Both, {"c"}, Arg(<<"x", "o">>)),
   Cmd({Arg(BO)}, {"c"}, NoPath),
   Cmd({Arg(<<"libz", "a">>)}, {}, NoPath),
   Cmd({Arg(<<"notes", "txt">>)}, {}, NoPath),
   Cmd({Arg(<<"none", "c">>)}, {}, NoPath),
   [Cmd({Arg(AC)}, {}, NoPath) EXCEPT !.folders = {<<"inc">>}]}

TwoCommands == [p \in Two |->
  IF p = p1 THEN EveryCommand ELSE {Cmd({Sub("y", AC)}, {}, Arg(<<"other">>))}]

-----------------------------------------------------------------------------
\* The same command again, after it has failed.
RetryAfter == [p \in Two |-> IF p = p2 THEN {p1} ELSE {}]
RetryDisk == {File(W, AC), File(W, BC)}
RetryDirectories == {W, <<"tmp">>}
RetryCommands == [p \in Two |-> {Cmd(Both, {}, NoPath)}]
=============================================================================
