---------------------------- MODULE MCMiniShell ----------------------------
EXTENDS ShellLines

Lit(s) == [string |-> s, expand |-> FALSE]
Cmd(name) == [verb |-> <<Lit(name)>>, params |-> <<>>, reds |-> <<>>]
Red(kind, f) == [kind |-> kind, file |-> f]
To(name, kind) == [Cmd(name) EXCEPT !.reds = <<Red(kind, "f")>>]
Line(cmds, ops) == [cmds |-> cmds, ops |-> ops, spaced |-> FALSE]

AllOps == {"OP_SEQUENTIAL", "OP_PARALLEL", "OP_CONDITIONAL_ZERO", "OP_CONDITIONAL_NZERO", "OP_PIPE"}
LinesOf(n, Cmds, spaces) == [cmds : [1..n -> Cmds], ops : [1..(n - 1) -> AllOps], spaced : spaces]

(* Internal commands under all operators.                                  *)
Internal == LinesOf(3, {Cmd("false"), Cmd("true")}, {FALSE}) \cup LinesOf(4, {Cmd("true")}, {TRUE})

(* Programs and redirections, with all kinds of ends.                      *)
Programs ==
    {To("echo", "O"), To("echo", "AO"), To("both", "OE"), To("cat", "I"), Cmd("kill"), Cmd("none")}
Pairs == LinesOf(2, Programs, {FALSE})

(* Longer pipes, as in the repository's tests.                             *)
Pipes ==
    {Line(<<Cmd("echo"), Cmd("cat"), c>>, <<"OP_PIPE", o>>) :
        c \in {To("cat", "O"), Cmd("gcc")}, o \in {"OP_PIPE", "OP_CONDITIONAL_ZERO", "OP_PARALLEL"}}
      \cup {Line(<<Cmd("both"), Cmd("gcc"), To("echo", "AO")>>, <<"OP_PIPE", o>>) :
               o \in {"OP_CONDITIONAL_ZERO", "OP_CONDITIONAL_NZERO"}}

(* cd, a variable that is set and used, and redirections that the parser   *)
(* may take for others.                                                    *)
Assign == [Cmd("V") EXCEPT !.verb = <<Lit("V"), Lit("="), Lit("cat")>>]
Use == [To("V", "I") EXCEPT !.verb = <<[string |-> "V", expand |-> TRUE]>>]
Cd(dir) == [Cmd("cd") EXCEPT !.params = <<<<Lit(dir)>>>>]
Others ==
    {Line(<<Assign, Use>>, <<o>>) : o \in AllOps}
      \cup {Line(<<Cd(d), Cmd("true")>>, <<o>>) : d \in {"sub", "gone"}, o \in AllOps}
      \cup [cmds : {<<[Cmd("both") EXCEPT !.reds = <<Red(k, "f"), Red(m, g)>>]>> :
                        k, m \in {"O", "AO", "E", "AE", "OE"}, g \in {"f", "g"}},
            ops : {<<>>}, spaced : BOOLEAN]

MCFiles == {<<"f">>, <<"g">>, <<"f", "f">>, <<"f", "g">>}
MCLines == Internal \cup Pairs \cup Pipes \cup Others
MCParse == [l \in MCLines |-> ParsedLine(l)]
=============================================================================
