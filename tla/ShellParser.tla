---------------------------- MODULE ShellParser ----------------------------
(***************************************************************************)
(* The parser of MiniShellLinux (src/parser/parser.tab.c): the LALR        *)
(* automaton that bison has generated, with its tables, and the actions    *)
(* and helpers that build the command tree.  The lexer is not modelled: a  *)
(* line is the sequence of its tokens.                                     *)
(***************************************************************************)
EXTENDS Integers, Sequences

(* Tokens: the symbol number yytranslate gives them, and their string.     *)
Token(number, string) == [t |-> number, s |-> string]
YYEOF == Token(0, "")
END_OF_FILE == Token(7, "")
BLANK == Token(9, "")
REDIRECT_OE == Token(10, "")
REDIRECT_O == Token(11, "")
REDIRECT_E == Token(12, "")
INDIRECT == Token(13, "")
REDIRECT_APPEND_E == Token(14, "")
REDIRECT_APPEND_O == Token(15, "")
WORD(s) == Token(16, s)
ENV_VAR(s) == Token(17, s)
SEQUENTIAL == Token(18, "")
PARALLEL == Token(19, "")
CONDITIONAL_ZERO == Token(20, "")
CONDITIONAL_NZERO == Token(21, "")
PIPE == Token(22, "")

---------------------------------------------------------------------------
(* The tables; the entry of index i is at i + 1. *)

yyr1 ==
    <<0, 23, 24, 24, 24, 24, 24, 24, 25, 25, 25, 25, 25, 25, 26, 26, 26, 26, 27, 27,
      28, 28, 29, 29, 29, 29, 29, 29, 29, 29, 29, 29, 29, 29, 29, 29, 29, 29, 29, 29,
      29, 29, 29, 29, 29, 29, 29, 30, 30, 30, 30>>

yyr2 ==
    <<0, 2, 2, 2, 1, 1, 2, 2, 1, 3, 3, 3, 3, 3, 4, 5, 2, 3, 1, 2,
      3, 1, 0, 3, 3, 3, 3, 3, 3, 4, 4, 4, 4, 4, 4, 4, 4, 4, 4, 4,
      4, 5, 5, 5, 5, 5, 5, 2, 2, 1, 1>>

yydefact ==
    <<0, 5, 4, 0, 49, 50, 0, 0, 8, 22, 18, 7, 6, 19, 1, 3, 2, 0, 0, 0,
      0, 0, 22, 16, 47, 48, 0, 9, 10, 11, 12, 13, 22, 17, 21, 0, 0, 0, 0, 0,
      0, 22, 14, 0, 23, 0, 25, 0, 24, 0, 28, 0, 26, 0, 27, 15, 20, 35, 29, 37,
      31, 36, 30, 40, 34, 38, 32, 39, 33, 41, 43, 42, 46, 45, 44>>

yydefgoto ==
    <<-1, 6, 7, 8, 9, 32, 23, 10>>

yypact ==
    <<44, -22, -22, 14, -22, -22, 10, -5, -22, 3, 100, -22, -22, 100, -22, -22, -22, 9, 9, 9,
      9, 9, 113, -6, -22, -22, 113, 106, 7, 2, 2, -22, 30, -6, 100, 38, 40, 49, 53, 55,
      58, 113, -6, 113, 64, 113, 67, 113, 69, 113, 73, 113, 78, 113, 82, -6, 100, 84, -22, 87,
      -22, 93, -22, 96, -22, 98, -22, 102, -22, -22, -22, -22, -22, -22, -22>>

yypgoto ==
    <<-22, -22, 103, -22, -22, -22, -21, -3>>

yytable ==
    <<13, 33, 15, 16, 35, 36, 37, 38, 39, 40, 14, 42, 22, 17, 18, 19, 20, 21, 26, 34,
      55, 11, 12, 13, 21, 4, 5, 19, 20, 21, 4, 5, 44, 46, 48, 50, 52, 54, 56, 41,
      57, 0, 59, 0, 61, 0, 63, 43, 65, 45, 67, 1, 2, 3, 4, 5, 4, 5, 47, 0,
      4, 5, 49, 0, 51, 4, 5, 53, 0, 4, 5, 4, 5, 58, 4, 5, 60, 0, 62, 0,
      24, 25, 64, 24, 25, 24, 25, 66, 0, 24, 25, 68, 0, 69, 24, 25, 70, 0, 24, 25,
      24, 25, 71, 24, 25, 72, 0, 73, 0, 24, 25, 74, 24, 25, 24, 25, 24, 25, 24, 25,
      27, 28, 29, 30, 31, 18, 19, 20, 21, 4, 5>>

yycheck ==
    <<3, 22, 7, 8, 10, 11, 12, 13, 14, 15, 0, 32, 9, 18, 19, 20, 21, 22, 9, 22,
      41, 7, 8, 26, 22, 16, 17, 20, 21, 22, 16, 17, 35, 36, 37, 38, 39, 40, 41, 9,
      43, -1, 45, -1, 47, -1, 49, 9, 51, 9, 53, 7, 8, 9, 16, 17, 16, 17, 9, -1,
      16, 17, 9, -1, 9, 16, 17, 9, -1, 16, 17, 16, 17, 9, 16, 17, 9, -1, 9, -1,
      16, 17, 9, 16, 17, 16, 17, 9, -1, 16, 17, 9, -1, 9, 16, 17, 9, -1, 16, 17,
      16, 17, 9, 16, 17, 9, -1, 9, -1, 16, 17, 9, 16, 17, 16, 17, 16, 17, 16, 17,
      17, 18, 19, 20, 21, 19, 20, 21, 22, 16, 17>>
YYLAST == 130
YYNTOKENS == 23
YYPACT_NINF == -22

---------------------------------------------------------------------------
(* The helpers.  Words are linked by next_word and one word can be in two  *)
(* lists, so they live in a heap; a list is its first word, 0 for none.    *)

new_word(h, str, expand) == Append(h, [parts |-> <<[string |-> str, expand |-> expand]>>, next_word |-> 0])
add_part_to_word(h, w, str, expand) == [h EXCEPT ![w].parts = Append(@, [string |-> str, expand |-> expand])]

RECURSIVE LastWord(_, _)
LastWord(h, w) == IF h[w].next_word = 0 THEN w ELSE LastWord(h, h[w].next_word)

(* A word that is already the last of the list is linked to itself, and    *)
(* the assertion after that fails.                                         *)
add_word_to_list_in_front(h, w, lst) ==
    [heap |-> [h EXCEPT ![w].next_word = lst], lst |-> w, ok |-> w # lst]
add_word_to_list(h, w, lst) ==
    IF lst = 0 THEN [heap |-> h, lst |-> w, ok |-> TRUE]
    ELSE LET crt == LastWord(h, lst)
         IN [heap |-> [h EXCEPT ![crt].next_word = w], lst |-> lst, ok |-> crt # w]

RECURSIVE Words(_, _)
Words(h, w) == IF w = 0 THEN <<>> ELSE <<h[w].parts>> \o Words(h, h[w].next_word)

Empty == [red_o |-> 0, red_i |-> 0, red_e |-> 0, red_flags |-> {}]

(* The simple command, its lists followed to their ends.  id stands for    *)
(* the address of the tree's node.                                         *)
bind_parts(h, verb, params, red, id) ==
    [verb |-> h[verb].parts, params |-> Words(h, params), in |-> Words(h, red.red_i), out |-> Words(h, red.red_o),
     err |-> Words(h, red.red_e), io_flags |-> red.red_flags, id |-> id]
new_command(scmd) == [op |-> "OP_NONE", scmd |-> scmd]
bind_commands(c1, c2, op) == [op |-> op, cmd1 |-> c1, cmd2 |-> c2]

---------------------------------------------------------------------------
(* The actions.  A result: the value of the rule's left side, the heap,    *)
(* the number of commands, and whether all assertions held.                *)

Ops == <<"OP_SEQUENTIAL", "OP_PARALLEL", "OP_CONDITIONAL_ZERO", "OP_CONDITIONAL_NZERO", "OP_PIPE">>

(* Rules 23 to 46: six kinds of redirection, each with or without blanks   *)
(* before and after the file's name.  Those with both blanks are written   *)
(* apart; there a name after 2>> is added to red_o.                        *)
Kinds == <<"OE", "E", "O", "AE", "AO", "I">>
KindsWithBlanks == <<"OE", "E", "O", "AO", "AE_to_out", "I">>
Kind(rule) == IF rule < 41 THEN Kinds[((rule - 23) % 6) + 1] ELSE KindsWithBlanks[rule - 40]
Name(rule, v) == IF rule < 35 THEN v[3] ELSE v[4]

AddTo(m, w, field) ==
    LET a == add_word_to_list(m.heap, w, m.red[field])
    IN [heap |-> a.heap, red |-> [m.red EXCEPT ![field] = a.lst], ok |-> m.ok /\ a.ok]
Flagged(m, flag) == [m EXCEPT !.red.red_flags = @ \cup {flag}]

Redirect(kind, h, red, w) ==
    LET m == [heap |-> h, red |-> red, ok |-> TRUE]
    IN CASE kind = "OE" -> AddTo(AddTo(m, w, "red_o"), w, "red_e")
         [] kind = "E" -> AddTo(m, w, "red_e")
         [] kind = "O" -> AddTo(m, w, "red_o")
         [] kind = "I" -> AddTo(m, w, "red_i")
         [] kind = "AE" -> Flagged(AddTo(m, w, "red_e"), "IO_ERR_APPEND")
         [] kind = "AE_to_out" -> Flagged(AddTo(m, w, "red_o"), "IO_ERR_APPEND")
         [] kind = "AO" -> Flagged(AddTo(m, w, "red_o"), "IO_OUT_APPEND")

Value(v, h, n, ok) == [value |-> v, heap |-> h, n |-> n, ok |-> ok]

RedirectAction(rule, v, h, n) ==
    IF rule = 22 THEN Value(Empty, h, n, TRUE)
    ELSE LET r == Redirect(Kind(rule), h, v[1], Name(rule, v)) IN Value(r.red, r.heap, n, r.ok)

WordAction(rule, v, h, n) ==
    CASE rule \in {47, 48} -> Value(v[1], add_part_to_word(h, v[1], v[2], rule = 48), n, TRUE)
      [] rule \in {49, 50} -> Value(Len(h) + 1, new_word(h, v[1], rule = 50), n, TRUE)

CommandAction(rule, v, h, n) ==
    CASE rule = 8 -> Value(new_command(v[1]), h, n, TRUE)
      [] rule \in 9..13 -> Value(bind_commands(v[1], v[3], Ops[rule - 8]), h, n, TRUE)
      [] rule \in {14, 15} -> Value(bind_parts(h, v[1], v[3], v[rule - 10], n + 1), h, n + 1, TRUE)
      [] rule \in {16, 17} -> Value(bind_parts(h, v[1], 0, v[rule - 14], n + 1), h, n + 1, TRUE)
      [] rule = 18 -> Value(v[1], h, n, TRUE)
      [] rule = 19 -> Value(v[2], h, n, TRUE)
      [] rule = 20 -> LET a == add_word_to_list(h, v[3], v[1]) IN Value(a.lst, a.heap, n, a.ok)
      [] rule = 21 -> Value(v[1], h, n, TRUE)

Action(rule, v, h, n) ==
    CASE rule <= 21 -> CommandAction(rule, v, h, n)
      [] rule \in 22..46 -> RedirectAction(rule, v, h, n)
      [] OTHER -> WordAction(rule, v, h, n)

---------------------------------------------------------------------------
(* yyparse.  A result is "tree", "empty", "error" or "abort" (a failed     *)
(* assertion).  No rule mentions the error token, so an error ends the     *)
(* parse.                                                                  *)

NoTree == new_command(bind_parts(<<[parts |-> <<>>, next_word |-> 0]>>, 1, 0, Empty, 0))
Done(result, tree) == [result |-> result, tree |-> tree]

Goto(state, nonterminal) ==
    LET i == yypgoto[nonterminal - YYNTOKENS + 1] + state
    IN IF i \in 0..YYLAST /\ yycheck[i + 1] = state THEN yytable[i + 1]
       ELSE yydefgoto[nonterminal - YYNTOKENS + 1]

Top(ss) == ss[Len(ss)]

(* The rule to reduce with, 0 for an error; -1 when the token is shifted.  *)
Decide(state, token) ==
    LET i == yypact[state + 1] + token
    IN IF yypact[state + 1] # YYPACT_NINF /\ i \in 0..YYLAST /\ yycheck[i + 1] = token
       THEN -1 ELSE yydefact[state + 1]

RECURSIVE Run(_)
Reduce(m, rule) ==
    LET len == yyr2[rule + 1]
        v == SubSeq(m.vs, Len(m.vs) - len + 1, Len(m.vs))
        ss == SubSeq(m.ss, 1, Len(m.ss) - len)
        a == Action(rule, v, m.heap, m.n)
    IN IF rule \in {2, 3} THEN Done("tree", v[1])
       ELSE IF rule \in 4..7 THEN Done("empty", NoTree)
       ELSE IF ~a.ok THEN Done("abort", NoTree)
       ELSE Run([m EXCEPT !.ss = Append(ss, Goto(Top(ss), yyr1[rule + 1])),
                          !.vs = Append(SubSeq(m.vs, 1, Len(m.vs) - len), a.value),
                          !.heap = a.heap, !.n = a.n])
Shift(m, token) ==
    LET next == yytable[yypact[Top(m.ss) + 1] + token.t + 1]
    IN Run([m EXCEPT !.ss = Append(@, next), !.vs = Append(@, token.s),
                     !.rest = IF @ = <<>> THEN @ ELSE Tail(@)])
Run(m) ==
    LET token == IF m.rest = <<>> THEN YYEOF ELSE Head(m.rest)
        d == Decide(Top(m.ss), token.t)
    IN CASE d = -1 -> Shift(m, token)
         [] d = 0 -> Done("error", NoTree)
         [] OTHER -> Reduce(m, d)

parse_line(tokens) ==
    Run([ss |-> <<0>>, vs |-> <<>>, heap |-> <<>>, n |-> 0, rest |-> Append(tokens, END_OF_FILE)])
=============================================================================
