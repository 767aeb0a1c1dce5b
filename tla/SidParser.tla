------------------------------ MODULE SidParser -----------------------------
(***************************************************************************)
(* A parser: one call of FORM_INPUT (src/src/parser.act), with the lexer,  *)
(* the functions of the productions and the actions it calls, up to where  *)
(* the entry production returns.  What follows in FORM_INPUT, the linking  *)
(* of references, is in Kgt.                                               *)
(*                                                                         *)
(* The stack has a frame for each call of a production's function: what it *)
(* has still to do, its local variables, and the local of the caller that  *)
(* takes its result.  A local that has not been written is not in loc.     *)
(*                                                                         *)
(* act_state->lex_tok_save is left out.  RESTORE_LEXER is always followed  *)
(* by the SAVE_LEXER(ERROR) at ZL1, or by the end of the program.          *)
(***************************************************************************)
EXTENDS Ast, Lexers, FiniteSetsExt

CONSTANTS
  Texts,        \* what may be read: the dialect, the tokens it begins with (EOF is
                \* none of them), and how many there may be before it has to end
  Bufs,         \* by dialect, what may stand in lex_state->buf
  PatternSize,  \* the characters of lex_state->a, 512 in the code
  CountWidth    \* the bits of an unsigned int, 32 in the code

Token(tok, buf) == [tok |-> tok, buf |-> buf]

ASSUME SidParserAssumption ==
  /\ \A t \in Texts : t.dialect \in Dialects /\ t.free \in Nat
  /\ \A t \in Texts : Len(t.tokens) \in Nat /\ \A i \in 1..Len(t.tokens) : t.tokens[i].tok # "EOF"
  /\ PatternSize \in Nat \ {0}
  /\ CountWidth \in Nat

VARIABLES
  text,           \* what is read, one of Texts
  zone,           \* lx->z, "end" when lx->lgetc is NULL
  input,          \* the tokens read so far, the last one included
  lex_tok, buf,   \* the current terminal, and lex_state->buf
  stack,          \* the calls of the productions, the innermost first
  p,              \* the pattern buffer: what lies from lex_state->a to p
  invisible,      \* act_state->invisible
  errors,         \* the queue of errors, by the kind of their messages
  outcome,        \* "parsing", "returned", "exited", or "assert" where an assertion
                  \* fails, "overrun" where what follows is undefined
  g               \* the grammar that the entry production returns

vars == <<text, zone, input, lex_tok, buf, stack, p, invisible, errors, outcome, g>>

dialect == text.dialect

Wsn  == INSTANCE WsnParser
Bnf  == INSTANCE BnfParser
Rbnf == INSTANCE RbnfParser
Iso  == INSTANCE IsoEbnfParser
Abnf == INSTANCE AbnfParser

Production(f, tok) == CASE dialect = "wsn"      -> Wsn!Production(f, tok)
                        [] dialect = "bnf"      -> Bnf!Production(f, tok)
                        [] dialect = "rbnf"     -> Rbnf!Production(f, tok)
                        [] dialect = "iso-ebnf" -> Iso!Production(f, tok)
                        [] dialect = "abnf"     -> Abnf!Production(f, tok)

Result(f) == CASE dialect = "wsn"      -> Wsn!Result(f)
               [] dialect = "bnf"      -> Bnf!Result(f)
               [] dialect = "rbnf"     -> Rbnf!Result(f)
               [] dialect = "iso-ebnf" -> Iso!Result(f)
               [] dialect = "abnf"     -> Abnf!Result(f)

(***************************************************************************)
(* The lexer.                                                              *)
(***************************************************************************)
Buffers(tok) ==
  CASE tok = "CHAR"            -> {<<c>> : c \in Bufs[dialect].chars}
    [] tok = "ESC"             -> {<<34>>}   \* the first of its two characters
    [] tok = "CHARS"           -> {<<63, c>> : c \in Bufs[dialect].chars}
    [] tok = "IDENT"           -> Bufs[dialect].names
    [] tok = "COUNT"           -> {<<n>> : n \in Bufs[dialect].counts}
    [] tok \in Abnf!Strings    -> Bufs[dialect].strings
    [] tok \in Abnf!Ranges     -> Bufs[dialect].ranges
    [] OTHER                   -> {<<>>}

\* The tokens given come first.
Lexed ==
  IF Len(input) < Len(text.tokens)
  THEN {<<text.tokens[Len(input) + 1], zone>>}
  ELSE UNION {{<<Token(IF next[1] = "CHARS" THEN "CHAR" ELSE next[1], b), next[2]>> :
                 b \in Buffers(next[1])} :
                next \in {t \in lx_next(dialect, zone) :
                            Len(input) < Len(text.tokens) + text.free \/ t[1] = "EOF"}}

Take(l) ==
  /\ lex_tok' = l[1].tok
  /\ buf' = l[1].buf
  /\ zone' = l[2]
  /\ input' = Append(input, l[1])

ADVANCE_LEXER == \E l \in Lexed : Take(l)

(***************************************************************************)
(* Calls.                                                                  *)
(***************************************************************************)
\* A call of prod_f while the terminal is tok.
Frame(f, tok, loc, out) ==
  [prod |-> f, todo |-> IF tok = "ERROR" THEN <<>> ELSE Production(f, tok), loc |-> loc, out |-> out]

Init ==
  /\ text \in Texts
  /\ zone = lx_init(dialect)
  /\ input = <<>> /\ lex_tok = "EOF" /\ buf = <<>>
  /\ stack = <<>>
  /\ p = <<>> /\ invisible = FALSE
  /\ errors = <<>>
  /\ outcome = "parsing"
  /\ g = <<>>

frame  == Head(stack)
Local(x) == frame.loc[x]
IsSet(xs) == xs \subseteq DOMAIN frame.loc

\* The locals loc, with those in xs written.
Over(xs, loc) ==
  [x \in DOMAIN xs \union DOMAIN loc |-> IF x \in DOMAIN xs THEN xs[x] ELSE loc[x]]

\* The next thing the innermost call does is an item op.
At(op) ==
  /\ outcome = "parsing"
  /\ stack # <<>>
  /\ frame.todo # <<>>
  /\ Head(frame.todo).op = op

Argument == Head(frame.todo).arg

GoOnWith(f)     == stack' = <<f>> \o Tail(stack)
GoOn            == GoOnWith([frame EXCEPT !.todo = Tail(@)])
GoOnWriting(xs) == GoOnWith([frame EXCEPT !.todo = Tail(@), !.loc = Over(xs, @)])

\* Mutant: ZL1 without leaving the function.
ZL1Stays(es) ==
  /\ lex_tok' = "ERROR"
  /\ errors' = errors \o es
  /\ UNCHANGED <<stack, outcome>>

\* goto ZL1, after the errors es.
ZL1(es) ==
  IF frame.prod # "entry"
  THEN /\ lex_tok' = "ERROR"
       /\ stack' = Tail(stack)
       /\ errors' = errors \o es
       /\ UNCHANGED outcome
  ELSE /\ errors' = Append(errors \o es, "syntax")
       /\ outcome' = "exited"
       /\ UNCHANGED <<lex_tok, stack>>

Stop(o) == outcome' = o /\ UNCHANGED <<stack, lex_tok, errors, p, invisible>>

LexerUnchanged == UNCHANGED <<text, zone, input, buf>>

\* FORM_INPUT: ADVANCE_LEXER and the call of the entry production.
FormInput ==
  /\ outcome = "parsing"
  /\ stack = <<>>
  /\ \E l \in Lexed : Take(l) /\ stack' = <<Frame("entry", l[1].tok, <<>>, "")>>
  /\ UNCHANGED <<text, p, invisible, errors, outcome, g>>

DoAdvance ==
  /\ At("advance")
  /\ ADVANCE_LEXER
  /\ GoOn
  /\ UNCHANGED <<text, p, invisible, errors, outcome, g>>

DoExpect ==
  /\ At("expect")
  /\ IF lex_tok = Argument
     THEN GoOn /\ UNCHANGED <<lex_tok, errors, outcome>>
     ELSE ZL1(<<>>)
  /\ LexerUnchanged /\ UNCHANGED <<p, invisible, g>>

DoCheck ==
  /\ At("check")
  /\ IF lex_tok # "ERROR"
     THEN GoOn /\ UNCHANGED <<lex_tok, errors, outcome>>
     ELSE ZL1(<<>>)
  /\ LexerUnchanged /\ UNCHANGED <<p, invisible, g>>

DoFail ==
  /\ At("fail")
  /\ ZL1(<<>>)
  /\ LexerUnchanged /\ UNCHANGED <<p, invisible, g>>

DoCall ==
  /\ At("call")
  /\ LET f   == Argument[1]
         in  == [x \in Argument[2] \intersect DOMAIN frame.loc |-> Local(x)]
         out == Argument[3]
     IN  stack' = <<Frame(f, lex_tok, in, out), [frame EXCEPT !.todo = Tail(@)]>> \o Tail(stack)
  /\ LexerUnchanged /\ UNCHANGED <<lex_tok, p, invisible, errors, outcome, g>>

DoGoto ==
  /\ At("goto")
  /\ GoOnWith(Frame(Argument, lex_tok, frame.loc, frame.out))
  /\ LexerUnchanged /\ UNCHANGED <<lex_tok, p, invisible, errors, outcome, g>>

DoInline ==
  /\ At("inline")
  /\ GoOnWith([frame EXCEPT !.todo = Production(Argument, lex_tok) \o Tail(@)])
  /\ LexerUnchanged /\ UNCHANGED <<lex_tok, p, invisible, errors, outcome, g>>

\* The end of a function, where it writes its result.  A frame whose result is
\* unset has returned at the beginning.
Return ==
  /\ outcome = "parsing"
  /\ stack # <<>>
  /\ frame.todo = <<>>
  /\ LET x == Result(frame.prod)
     IN  IF Len(stack) = 1
         THEN /\ outcome' = "returned"
              /\ g' = IF IsSet({x}) THEN Local(x) ELSE <<>>
              /\ UNCHANGED stack
         ELSE /\ stack' = <<IF IsSet({x})
                            THEN [stack[2] EXCEPT !.loc = Over([y \in {frame.out} |-> Local(x)], @)]
                            ELSE stack[2]>> \o SubSeq(stack, 3, Len(stack))
              /\ UNCHANGED <<outcome, g>>
  /\ LexerUnchanged /\ UNCHANGED <<lex_tok, p, invisible, errors>>

(***************************************************************************)
(* Terminals: { ts; ## <err-expected-...>; } and the values extracted.     *)
(***************************************************************************)
TakeOneOf ==
  /\ At("else")
  /\ lex_tok \in Argument
  /\ ADVANCE_LEXER
  /\ GoOn
  /\ UNCHANGED <<text, p, invisible, errors, outcome, g>>

ErrExpected ==
  /\ At("else")
  /\ lex_tok \notin Argument
  /\ errors' = Append(errors, "expected")
  /\ GoOn
  /\ LexerUnchanged /\ UNCHANGED <<lex_tok, p, invisible, outcome, g>>

Extracting(toks) == At("extract") /\ Argument[1] \in toks
Extracted(value) == GoOnWriting([x \in {Argument[2]} |-> value])

\* A character 0 ends the string.
strlen(s) == IF 0 \in Range(s) THEN (CHOOSE i \in DOMAIN s : s[i] = 0 /\ 0 \notin Range(SubSeq(s, 1, i - 1))) - 1
             ELSE Len(s)

rtrim(s) == SubSeq(s, 1, Max({0} \union {i \in DOMAIN s : ~isspace(s[i])}))
ltrim(s) == SubSeq(s, Min({Len(s) + 1} \union {i \in DOMAIN s : ~isspace(s[i])}), Len(s))
trim(s)  == ltrim(rtrim(s))

ExtractChar ==
  /\ Extracting({"CHAR", "ESC"})
  /\ IF strlen(buf) = 1
     THEN Extracted(buf[1]) /\ UNCHANGED <<lex_tok, p, invisible, errors, outcome>>
     ELSE Stop("assert")
  /\ LexerUnchanged /\ UNCHANGED g

ExtractIdent ==
  /\ Extracting({"IDENT"})
  /\ Extracted(rtrim(buf))
  /\ LexerUnchanged /\ UNCHANGED <<lex_tok, p, invisible, errors, outcome, g>>

\* strtoul, cut down to an unsigned int.
ExtractCount ==
  /\ Extracting({"COUNT"})
  /\ Extracted(buf[1] % 2^CountWidth)
  /\ LexerUnchanged /\ UNCHANGED <<lex_tok, p, invisible, errors, outcome, g>>

\* Mutant: the buffer is not emptied.
ExtractPatternKeeps ==
  /\ Extracting({"NAME", "CI_LITERAL", "CS_LITERAL", "PROSE"})
  /\ IF Len(p) < PatternSize THEN Extracted(p) /\ UNCHANGED outcome
     ELSE outcome' = "overrun" /\ UNCHANGED stack
  /\ LexerUnchanged /\ UNCHANGED <<lex_tok, p, invisible, errors, g>>

\* pattern_buffer.  Past the end of lex_state->a anything may happen.
ExtractPattern ==
  /\ Extracting({"NAME", "CI_LITERAL", "CS_LITERAL", "PROSE"})
  /\ IF Len(p) < PatternSize
     THEN /\ Extracted(p)
          /\ p' = <<>>
          /\ UNCHANGED <<lex_tok, invisible, errors, outcome>>
     ELSE Stop("overrun")
  /\ LexerUnchanged /\ UNCHANGED g

\* string() and range(), for every base.
ExtractNumbers ==
  /\ Extracting(Abnf!Strings \union Abnf!Ranges)
  /\ IF \A i \in DOMAIN buf : buf[i] <= CharMax
     THEN Extracted(buf) /\ UNCHANGED <<lex_tok, errors, outcome>>
     ELSE ZL1(<<"out of range">>)
  /\ LexerUnchanged /\ UNCHANGED <<p, invisible, g>>

(***************************************************************************)
(* The actions of parser.act.                                              *)
(***************************************************************************)
Acting(as) == At("act") /\ Argument \in as

\* The locals an action reads.
Reads(a) ==
  CASE a = "pattern-char"                                       -> {"c"}
    [] a \in {"make-rule-term", "make-prose-term"}              -> {"s"}
    [] a \in {"make-ci-literal-term", "make-cs-literal-term"}   -> {"x"}
    [] a = "make-range-term"                                    -> {"r"}
    [] a = "make-group-term"                                    -> {"a"}
    [] a = "make-alt"                                           -> {"t"}
    [] a = "make-rule"                                          -> {"s", "a"}
    [] a = "add-term-to-list"                                   -> {"l", "t"}
    [] a = "add-alt-to-list"                                    -> {"l", "a"}
    [] a = "add-rule-to-list"                                   -> {"l", "r"}
    [] a = "set-repeat"                                         -> {"t", "min", "max"}
    [] a = "set-repeat-exactly"                                 -> {"t", "min"}
    [] a = "mul-repeat"                                         -> {"t", "n"}
    [] OTHER                                                    -> {}

\* One alternative for each character, the last one first; none if n < m.
make_range_term(m, n) ==
  ast_make_group_term(invisible,
    [i \in 1..(IF m <= n THEN n - m + 1 ELSE 0) |->
       ast_make_alt(invisible, <<ast_make_char_term(invisible, n - i + 1)>>)])

\* What an action that does nothing else writes to the locals.  The second
\* result of rep-zero-or-more is dropped at one place in ABNF.
Written(a) ==
  CASE a = "rep-zero-or-more"  -> [min |-> 0, max |-> 0]
    [] a = "rep-zero-min"      -> [min |-> 0]
    [] a = "rep-zero-or-one"   -> [min |-> 0, max |-> 1]
    [] a = "make-empty-term"   -> [t |-> <<ast_make_empty_term(invisible)>>]
    [] a = "make-rule-term"    -> [t |-> <<ast_make_rule_term(invisible, Local("s"))>>]
    [] a = "make-ci-literal-term" ->
         [t |-> <<ast_make_literal_term(invisible,
                    [i \in DOMAIN Local("x") |-> tolower(Local("x")[i])], TRUE)>>]
    [] a = "make-cs-literal-term" ->
         [t |-> <<ast_make_literal_term(invisible, Local("x"), FALSE)>>]
    [] a = "make-range-term"   -> [t |-> <<make_range_term(Local("r")[1], Local("r")[2])>>]
    [] a = "make-group-term"   -> [t |-> <<ast_make_group_term(invisible, Local("a"))>>]
    [] a = "make-alt"          -> [l |-> <<ast_make_alt(invisible, Local("t"))>>]
    [] a = "make-rule"         -> [r |-> <<ast_make_rule(Local("s"), Local("a"))>>]
    [] a = "add-term-to-list"  -> [l |-> Local("l") \o Local("t")]
    [] a = "add-alt-to-list"   -> [l |-> Local("l") \o Local("a")]

Writers == {"rep-zero-or-more", "rep-zero-min", "rep-zero-or-one", "make-empty-term", "make-rule-term",
            "make-ci-literal-term", "make-cs-literal-term", "make-range-term",
            "make-group-term", "make-alt", "make-rule", "add-term-to-list", "add-alt-to-list"}

DoWrite ==
  /\ Acting(Writers)
  /\ GoOnWriting(Written(Argument))
  /\ LexerUnchanged /\ UNCHANGED <<lex_tok, p, invisible, errors, outcome, g>>

\* Mutant: the end of the buffer is found one character too late.
PatternCharLate ==
  /\ Acting({"pattern-char"})
  /\ IF Len(p) <= PatternSize
     THEN p' = Append(p, Local("c")) /\ GoOn /\ UNCHANGED outcome
     ELSE outcome' = "overrun" /\ UNCHANGED <<stack, p>>
  /\ LexerUnchanged /\ UNCHANGED <<lex_tok, invisible, errors, g>>

PatternChar ==
  /\ Acting({"pattern-char"})
  /\ IF Len(p) < PatternSize
     THEN /\ p' = Append(p, Local("c"))
          /\ GoOn
          /\ UNCHANGED <<lex_tok, invisible, errors, outcome>>
     ELSE Stop("overrun")
  /\ LexerUnchanged /\ UNCHANGED g

\* Mutant: equal limits are not allowed.
SetRepeatStrict ==
  /\ Acting({"set-repeat", "set-repeat-exactly"})
  /\ LET min == Local("min")
         max == IF Argument = "set-repeat" THEN Local("max") ELSE min
     IN  IF max > min \/ max = 0
         THEN /\ GoOnWriting([t |-> <<Repeated(Local("t")[1], min, max)>>])
              /\ UNCHANGED <<lex_tok, p, invisible, errors, outcome>>
         ELSE Stop("assert")
  /\ LexerUnchanged /\ UNCHANGED g

SetRepeat ==
  /\ Acting({"set-repeat", "set-repeat-exactly"})
  /\ LET min == Local("min")
         max == IF Argument = "set-repeat" THEN Local("max") ELSE min
     IN  IF max >= min \/ max = 0
         THEN /\ GoOnWriting([t |-> <<Repeated(Local("t")[1], min, max)>>])
              /\ UNCHANGED <<lex_tok, p, invisible, errors, outcome>>
         ELSE Stop("assert")
  /\ LexerUnchanged /\ UNCHANGED g

MulRepeat ==
  /\ Acting({"mul-repeat"})
  /\ LET n == Local("n")
         t == Local("t")[1]
     IN  IF n > 0
         THEN /\ GoOnWriting([t |-> <<Repeated(t, (t.min * n) % 2^CountWidth,
                                                (t.max * n) % 2^CountWidth)>>])
              /\ UNCHANGED <<lex_tok, p, invisible, errors, outcome>>
         ELSE Stop("assert")
  /\ LexerUnchanged /\ UNCHANGED g

\* The pragmas kgt:invisible and kgt:visible, each one character here.
PragmaInvisible == 256
PragmaVisible   == 257

MakeProseTerm ==
  /\ Acting({"make-prose-term"})
  /\ LET s  == trim(Local("s"))
         on == IF s = <<PragmaInvisible>> THEN TRUE
               ELSE IF s = <<PragmaVisible>> THEN FALSE ELSE invisible
     IN  IF Local("s") # <<>>
         THEN /\ invisible' = on
              /\ GoOnWriting([t |-> <<IF s \in {<<PragmaInvisible>>, <<PragmaVisible>>}
                                    THEN ast_make_empty_term(on)
                                    ELSE ast_make_prose_term(on, s)>>])
              /\ UNCHANGED <<lex_tok, p, errors, outcome>>
         ELSE Stop("assert")
  /\ LexerUnchanged /\ UNCHANGED g

\* Mutant: the rules after the first are lost.
AddRuleToListAlone ==
  /\ Acting({"add-rule-to-list"})
  /\ GoOnWriting([l |-> Local("l")])
  /\ LexerUnchanged /\ UNCHANGED <<lex_tok, p, invisible, errors, outcome, g>>

\* A return in the middle of the function where the name exists already.
AddRuleToList ==
  /\ Acting({"add-rule-to-list"})
  /\ IF ast_find_rule(Local("r"), Local("l")[1].name)
     THEN /\ errors' = Append(errors, "exists")
          /\ GoOnWith([frame EXCEPT !.todo = <<>>])
     ELSE /\ GoOnWriting([l |-> Local("l") \o Local("r")])
          /\ UNCHANGED errors
  /\ LexerUnchanged /\ UNCHANGED <<lex_tok, p, invisible, outcome, g>>

CurrentRules ==
  /\ Acting({"current-rules"})
  /\ ZL1(<<"unimplemented">>)
  /\ LexerUnchanged /\ UNCHANGED <<p, invisible, g>>

ErrUnimplementedExcept ==
  /\ Acting({"err-unimplemented-except"})
  /\ errors' = Append(errors, "except")
  /\ GoOn
  /\ LexerUnchanged /\ UNCHANGED <<lex_tok, p, invisible, outcome, g>>

Done == outcome # "parsing" /\ UNCHANGED vars

Next ==
  \/ FormInput \/ DoAdvance \/ DoExpect \/ DoCheck \/ DoFail
  \/ DoCall \/ DoGoto \/ DoInline \/ Return
  \/ TakeOneOf \/ ErrExpected
  \/ ExtractChar \/ ExtractIdent \/ ExtractCount \/ ExtractPattern \/ ExtractNumbers
  \/ DoWrite \/ PatternChar \/ SetRepeat \/ MulRepeat \/ MakeProseTerm
  \/ AddRuleToList \/ CurrentRules \/ ErrUnimplementedExcept
  \/ Done

Spec     == Init /\ [][Next]_vars
FairSpec == Spec /\ WF_vars(Next)
-----------------------------------------------------------------------------
Running == outcome = "parsing" /\ stack # <<>>

\* The kinds of the variables; the pattern buffer is never written past its
\* end, and the program exits exactly after the message of <err-syntax>.
TypeOK ==
  /\ dialect \in Dialects
  /\ zone \in {"z0", "z1", "z2", "z3", "z4", "end"}
  /\ invisible \in BOOLEAN
  /\ outcome \in {"parsing", "returned", "exited", "assert", "overrun"}
  /\ Len(p) <= PatternSize
  /\ outcome = "exited" <=> (errors # <<>> /\ errors[Len(errors)] = "syntax")

\* No action uses a local variable before it has been written: wherever a
\* production comes back without a result, the terminal is ERROR, and the
\* caller looks at that first.
LocalsWritten == At("act") => Reads(Argument) \subseteq DOMAIN frame.loc

(***************************************************************************)
(* Once the terminal is ERROR it stays ERROR and nothing more is read:     *)
(* each function that is still running leaves, the entry production by     *)
(* exiting or, if what is ERROR came from the lexer, with what it has.     *)
(***************************************************************************)
ErrorUnwinds ==
  [][lex_tok = "ERROR" /\ Running => lex_tok' = "ERROR" /\ UNCHANGED input]_vars

TokAt(i) == IF i \in DOMAIN input THEN input[i].tok ELSE "none"

\* Nothing is left unread without an error, but after a separator in BNF and
\* RBNF, and where the lexer fails before any rule has begun.
AllReadOtherwise ==
  outcome = "returned" /\ errors = <<>> =>
    \/ lex_tok = "EOF"
    \/ g = <<>> /\ lex_tok = "ERROR"
    \/ dialect \in {"bnf", "rbnf"} /\ TokAt(Len(input) - 1) = "SEP"
=============================================================================
