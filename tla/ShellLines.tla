----------------------------- MODULE ShellLines -----------------------------
(***************************************************************************)
(* The lines that are typed into the mini shell, what parse_line() makes   *)
(* of them, and the properties that compare the tree of a line with what   *)
(* is run.                                                                 *)
(***************************************************************************)
EXTENDS MiniShell, ShellParser

(* Lines: commands and the operators between them, with or without blanks. *)

Redirection == [OE |-> REDIRECT_OE, O |-> REDIRECT_O, E |-> REDIRECT_E, I |-> INDIRECT,
                AE |-> REDIRECT_APPEND_E, AO |-> REDIRECT_APPEND_O]
OpToken == [OP_SEQUENTIAL |-> SEQUENTIAL, OP_PARALLEL |-> PARALLEL, OP_CONDITIONAL_ZERO |-> CONDITIONAL_ZERO,
            OP_CONDITIONAL_NZERO |-> CONDITIONAL_NZERO, OP_PIPE |-> PIPE]

WordTokens(word) == [i \in DOMAIN word |-> IF word[i].expand THEN ENV_VAR(word[i].string) ELSE WORD(word[i].string)]
Spaced(l) == IF l.spaced THEN <<BLANK>> ELSE <<>>
CommandTokens(l, c) ==
    WordTokens(c.verb)
      \o FlattenSeq([i \in DOMAIN c.params |-> <<BLANK>> \o WordTokens(c.params[i])])
      \o Spaced(l)
      \o FlattenSeq([i \in DOMAIN c.reds |->
            <<Redirection[c.reds[i].kind]>> \o Spaced(l) \o <<WORD(c.reds[i].file)>> \o Spaced(l)])
Tokens(l) ==
    FlattenSeq([i \in DOMAIN l.cmds |->
        CommandTokens(l, l.cmds[i])
          \o IF i = Len(l.cmds) THEN <<>> ELSE <<OpToken[l.ops[i]]>> \o Spaced(l)])

ParsedLine(l) == parse_line(Tokens(l))

---------------------------------------------------------------------------
(* A reference for the parser: the last operator of the lowest priority    *)
(* divides the line, and a redirection belongs to the streams it names.    *)
Priority == [OP_SEQUENTIAL |-> 1, OP_PARALLEL |-> 2, OP_CONDITIONAL_ZERO |-> 3, OP_CONDITIONAL_NZERO |-> 3, OP_PIPE |-> 4]
NamesOf(c, kinds) ==
    [i \in DOMAIN SelectSeq(c.reds, LAMBDA r : r.kind \in kinds) |->
        <<[string |-> SelectSeq(c.reds, LAMBDA r : r.kind \in kinds)[i].file, expand |-> FALSE]>>]
Has(c, kind) == \E i \in DOMAIN c.reds : c.reds[i].kind = kind
LeafFor(c, id) ==
    new_command([verb |-> c.verb, params |-> c.params, id |-> id, in |-> NamesOf(c, {"I"}),
                 out |-> NamesOf(c, {"O", "AO", "OE"}), err |-> NamesOf(c, {"E", "AE", "OE"}),
                 io_flags |-> (IF Has(c, "AO") THEN {"IO_OUT_APPEND"} ELSE {})
                                \cup (IF Has(c, "AE") THEN {"IO_ERR_APPEND"} ELSE {})])
RECURSIVE TreeFor(_, _, _)
TreeFor(l, i, j) ==
    IF i = j THEN LeafFor(l.cmds[i], i)
    ELSE LET k == CHOOSE k \in i..(j - 1) : \A m \in i..(j - 1) :
                     Priority[l.ops[m]] > Priority[l.ops[k]] \/ (Priority[l.ops[m]] = Priority[l.ops[k]] /\ m <= k)
         IN bind_commands(TreeFor(l, i, k), TreeFor(l, k + 1, j), l.ops[k])

(* Two redirections that the parser gets wrong: 2>> with blanks on both    *)
(* sides of the file, and &> before another one of an output.              *)
Misread(l) ==
    \E i \in DOMAIN l.cmds : LET r == l.cmds[i].reds IN
        \/ l.spaced /\ Has(l.cmds[i], "AE")
        \/ \E j, k \in DOMAIN r : j < k /\ r[j].kind = "OE" /\ r[k].kind # "I"

(* The generated automaton and its actions build for every line the tree   *)
(* that the priorities of the operators prescribe, with all redirections   *)
(* of a command on the right stream.                                       *)
ParsedRight ==
    (parsed.result # "none" /\ ~Misread(line)) => parsed = Done("tree", TreeFor(line, 1, Len(line.cmds)))

(* How an operand of && or || ended, judged by the programs themselves and *)
(* by the comment on the pipe: its result is rezultat(c1) | rezultat(c2),  *)
(* so both of its commands have to succeed.                                *)
RECURSIVE Succeeded(_)
Succeeded(c) ==
    CASE c.op = "OP_NONE" -> fate[c.scmd.id] = "ok"
      [] c.op \in {"OP_CONDITIONAL_ZERO", "OP_PIPE"} -> Succeeded(c.cmd1) /\ Succeeded(c.cmd2)
      [] c.op = "OP_CONDITIONAL_NZERO" -> Succeeded(c.cmd1) \/ Succeeded(c.cmd2)

(* The code returns the result of the last command of a pipe: it hides     *)
(* that the first one has failed, or is still running.                     *)
RECURSIVE HidesFailure(_)
HidesFailure(c) ==
    /\ c.op # "OP_NONE"
    /\ \/ c.op = "OP_PIPE" /\ ~Succeeded(c.cmd1) /\ Succeeded(c.cmd2)
       \/ HidesFailure(c.cmd1) \/ HidesFailure(c.cmd2)

(* && and || decide on what really happened: whatever processes an operand *)
(* was run in, its wait statuses, exit codes and results, cut to 8 bits    *)
(* and shifted on their way, are zero exactly when the operand succeeded,  *)
(* but for a pipe that hides the failure of its left side.                 *)
ConditionsRight ==
    \A p \in Pids : (At(p, "decide") /\ Do(p).c.op # "OP_SEQUENTIAL" /\ ~HidesFailure(Do(p).c.cmd1)) =>
        (procs[p].res = 0) = Succeeded(Do(p).c.cmd1)
=============================================================================
