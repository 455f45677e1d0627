------------------------------- MODULE Parser -------------------------------
(***************************************************************************)
(* The parser of the shell's lines, src/cmd/shell/parser.c, which splits a *)
(* line in place.  Lines are made from words, quoted words, redirections   *)
(* and a comment, separated by spaces or, where that still splits them,    *)
(* by nothing.                                                             *)
(***************************************************************************)
EXTENDS Naturals, Sequences, SequencesExt

CONSTANTS
    Texts,          \* the words: sequences of characters, none special
    MaxTokens,      \* bound: words and redirections in a line
    ArgvLen         \* the length of argv

VARIABLES
    tokens,         \* what was typed: sequence of [kind, text, quoted, gap]
    line,           \* what is left to parse
    argv,           \* NULL is None
    redir,          \* stdout (None if there is none), append
    state           \* "parse", "done" or "error"

parser_vars == <<tokens, line, argv, redir, state>>

None == <<"NULL">>
TokenSet == [kind : {"word", "to", "append", "comment"}, text : Texts, quoted : BOOLEAN, gap : {0, 1}]

\* A line as it is typed; gap spaces come before a token.
Spelled(t) ==
    [i \in 1..t.gap |-> " "]
    \o (CASE t.kind = "word" -> <<>> [] t.kind = "to" -> <<">">> [] t.kind = "append" -> <<">", ">">> [] OTHER -> <<"#">>)
    \o (IF t.quoted THEN <<"\"">> \o t.text \o <<"\"">> ELSE t.text)

\* A redirection or a word behind an unquoted word needs a space: parg
\* overwrites the character that ends the word.  A comment ends the line, and
\* a quoted word directly behind another is one of its own.
Typeable(ts) ==
    \A i \in DOMAIN ts :
        /\ ts[i].kind = "comment" => i = Len(ts) /\ ~ts[i].quoted
        /\ i > 1 /\ ts[i].gap = 0 => ts[i].kind = "comment" \/ ts[i - 1].quoted

ParserTypeOK == state \in {"parse", "done", "error"} /\ Len(argv) <= ArgvLen /\ (state = "done" => Len(argv) < ArgvLen)

-----------------------------------------------------------------------------
\* s without its first n characters.
after(s, n) == SubSeq(s, n + 1, Len(s))
\* How many characters come before the first one that is in stop.
upto(s, stop) == LET i == SelectInSeq(s, LAMBDA c : c \in stop) IN IF i = 0 THEN Len(s) ELSE i - 1

skipspace(s) == LET i == SelectInSeq(s, LAMBDA c : c # " ") IN IF i = 0 THEN <<>> ELSE after(s, i - 1)
isspecial == {">", "#"}

\* Bug: a number sign in a word does not end the line.
parg_comment(s0) ==
    LET s == skipspace(s0)
        q == after(s, 1)
        n == IF s = <<>> THEN 0 ELSE IF s[1] = "\"" THEN upto(q, {"\""}) ELSE upto(s, {" "} \cup isspecial)
    IN IF s = <<>> THEN [arg |-> None, rest |-> <<>>]
       ELSE IF s[1] = "\"" THEN [arg |-> SubSeq(q, 1, n), rest |-> after(q, n + 1)]
       ELSE [arg |-> SubSeq(s, 1, n), rest |-> after(s, n + 1)]
\* The next word, and the line behind the character that ended it.
parg(s0) ==
    LET s == skipspace(s0)
        q == after(s, 1)
        n == IF s = <<>> THEN 0 ELSE IF s[1] = "\"" THEN upto(q, {"\""}) ELSE upto(s, {" "} \cup isspecial)
    IN IF s = <<>> THEN [arg |-> None, rest |-> <<>>]
       ELSE IF s[1] = "\"" THEN [arg |-> SubSeq(q, 1, n), rest |-> after(q, n + 1)]
       ELSE IF n < Len(s) /\ s[n + 1] = "#" THEN [arg |-> IF n = 0 THEN None ELSE SubSeq(s, 1, n), rest |-> <<>>]
       ELSE [arg |-> SubSeq(s, 1, n), rest |-> after(s, n + 1)]

ParseRedir ==
    LET s == skipspace(line)
        twice == Len(s) > 1 /\ s[2] = ">"
        next == parg(after(s, IF twice THEN 2 ELSE 1))
    IN /\ state = "parse" /\ s # <<>> /\ s[1] = ">"
       /\ redir' = [stdout |-> next.arg, append |-> redir.append \/ twice]
       /\ line' = next.rest
       /\ UNCHANGED <<tokens, argv, state>>

\* No place is left for the NULL at the end.
ParseFull(n) == n >= ArgvLen
ParseArg ==
    LET s == skipspace(line)
        next == parg(s)
    IN /\ state = "parse" /\ s # <<>> /\ s[1] # ">"
       /\ argv' = Append(argv, next.arg)
       /\ state' = IF ParseFull(Len(argv) + 1) THEN "error" ELSE "parse"
       /\ line' = next.rest
       /\ UNCHANGED <<tokens, redir>>

ParseEnd ==
    /\ state = "parse" /\ skipspace(line) = <<>>
    /\ state' = "done"
    /\ UNCHANGED <<tokens, line, argv, redir>>

ParserInit ==
    /\ tokens \in {ts \in UNION {[1..n -> TokenSet] : n \in 0..MaxTokens} : Typeable(ts)}
    /\ line = FlattenSeq([i \in DOMAIN tokens |-> Spelled(tokens[i])])
    /\ argv = <<>> /\ redir = [stdout |-> None, append |-> FALSE] /\ state = "parse"

ParserNext == ParseRedir \/ ParseArg \/ ParseEnd

-----------------------------------------------------------------------------
(* Properties. *)

Texts_of(kinds) == LET ts == SelectSeq(tokens, LAMBDA t : t.kind \in kinds) IN [i \in DOMAIN ts |-> ts[i].text]

\* The arguments are the words of the line in order; a comment leaves at most
\* a NULL at the end, which argc counts.
ParsesWords ==
    state = "done" =>
        /\ SelectSeq(argv, LAMBDA a : a # None) = Texts_of({"word"})
        /\ \A i \in DOMAIN argv : argv[i] = None => i = Len(argv) /\ tokens[Len(tokens)].kind = "comment"

\* Output goes to the file of the last redirection, and is appended if any of
\* them says so.
ParsesRedir ==
    state = "done" =>
        LET files == Texts_of({"to", "append"}) IN
        /\ redir.stdout = IF files = <<>> THEN None ELSE Last(files)
        /\ redir.append = (Texts_of({"append"}) # <<>>)

\* A line is split into its words and its redirection.
ParserSound == ParserTypeOK /\ ParsesWords /\ ParsesRedir
=============================================================================
