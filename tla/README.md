# Verification of kgt

kgt (`src/`) reads a grammar in one dialect of BNF and writes it in another, or
as a railroad diagram. These modules specify the parts of it in which the
difficulty lies: the lexers and parsers of the five dialects it reads and the
tree they build, the run of the program from reading to output, what it writes
in each dialect, the rewriting of railroad diagrams, the collection of ranges
of characters when a diagram is laid out, the sizes of its tiles, and its
drawing as text and as SVG. TLC checks each on small instances; what the
`...Proofs` modules establish of the ranges, of a run, of the parsers and of both
drawings holds for all.

Everything below names C files relative to `src/src/`.

## The system

kgt is one sequential process without threads, signals or persistent state. It
reads standard input once and writes standard output once.

    input text
      | lexer + SID parser + parser.act ......... errors queued, or exit at once
      v
    AST (ast.h) -- linking of references (FORM_INPUT in parser.act)
      | main.c: print the queued errors, exit if there were any
      | main.c: rewrite_ci.c, ast_binary.c, rewrite_invisible.c, by feature bits
      | main.c: whitelist (-w)
      v
    output of the language chosen ............... may give up: exit, or an assertion
      |-- BNF dialects, json, dot, ...: walk the AST and print
      `-- railroad outputs, one production at a time:
            rrd/transform.c  AST -> railroad nodes
            rrd/pretty*.c    thirteen rewriting passes, unless -n
            rrd/rewrite_ci.c for rrparcon, rrll, rrta only
            rrd/tnode.c      railroad nodes -> tiles with sizes
            rrtext, svg      draw the tiles

What makes this hard to get right is not concurrency: it is trees rewritten in
place through shared pointers, flags and limits shared between visits, two
cursors that must agree, state the parser carries from one construct to the
next, and phases that each fail in their own way.

| component | state | operations | interacts by | what makes it correct |
|---|---|---|---|---|
| command line and pipeline (`main.c`) | grammar, error queue, feature bits left | read, report, rewrite, select, output | calls, in this order | refuses exactly the faulty grammars; outputs the rules asked for, or fails, and says so by its exit, where the output language cannot say them |
| lexers (`*/lexer.c`) | zone, buffer of the token | next token | called by the parsers | the tokens of what was written |
| parsers (`*/parser.c`) | the C stack, locals of each production, the terminal | enter and leave a production, read on, fail | call lexer and parser actions | reads a text as what its notation says, all of it, or reports an error; uses no local that was not written |
| parser actions (`parser.act`, `ast.c`) | `act_state->invisible`, error queue, pattern buffer, lists under construction | make a term, group, alternative or rule; set or multiply limits; queue an error; exit | called back by the parser | errors in order; the pragma covers exactly what is written under it; numbers and patterns fit; assertions hold |
| linking (`parser.act`, FORM_INPUT) | the grammar | substitute, report or turn into tokens | walks the finished list | undefined rules, all of them and no others, are reported |
| parsing errors (`parsing_error.c`) | a queue | push, pop | shared by parser and main | first in, first out |
| AST rewriting (`rewrite_ci.c`, `rewrite_invisible.c`, `ast_binary.c`) | the grammar | rewrite a literal, remove a term or alternative | called by main | nothing unsupported is left; nothing becomes empty |
| railroad nodes (`rrd/node.c`, `rrd/list.c`) | a tree | create, compare, flip, wrap | used by everything under `rrd/` | comparison tells apart what must not be merged |
| translation (`rrd/transform.c`) | none | one production | called by the outputs | the diagram has the language of the production |
| rewriting driver (`rrd/pretty.c`) | the tree, `changed`, `limit` | walk, walk again, next pass | calls the passes | terminates; no stale pointer; every pass to its fixpoint |
| rewriting passes (`rrd/pretty_*.c`) | the tree | one node | called back by the driver | cosmetic only; no crash; normal form in the end |
| alternatives of a choice (`rrd/tnode.c`, `bitmap.c`) | bitmap, two cursors, array | one turn of the loop | called by the layout | every alternative drawn, once; lines fit the array |
| tile layout (rest of `rrd/tnode.c`) | a tree of tiles | one node | called by rrtext, svg, rrtdump | sizes agree with what is drawn |
| text and SVG rendering (`rrtext/`, `svg/`) | canvas, list of path segments | draw a tile | called by main | stays within the canvas; no segment lost |
| dialect outputs (`bnf/`, `wsn/`, `rbnf/`, `iso-ebnf/`, `abnf/`) | none | print | called by main | what is written is read back as the same language; what cannot be said is refused |
| `sid/`, `blab/` | none | print | called by main | as above, but kgt does not read them |
| railroad CI rewriting (`rrd/rewrite_ci.c`) | the tree | a literal to its spellings | called by rrparcon, rrll, rrta | all spellings, no literal left |
| dumps (`dot/`, `json/`, `ebnfhtml5/`, `html5/`, `rrdump/`, `rrtdump/`, `rrdot/`, `rrparcon/`, `rrll/`, `rrta/`) | none | print | called by main | |

`PROJECT.json` lists the same components with their sources and, under
"hazards", the places in the code where each difficulty bites.

## Modules

| module | models | extends |
|---|---|---|
| `RrdNode` | railroad nodes, their comparison, their language | |
| `RrdTransform` | the AST of a production, its language, `ast_to_rrd` | `RrdNode` |
| `RrdPasses` | the eight passes as functions of a node | `RrdNode` |
| `RrdRewriteCi` | the spellings of a literal of either case | `RrdNode` |
| `RrdPretty` | `ast_to_rrd`, `rrd_pretty` and `rewrite_rrd_ci_literals`, one visit a step | `RrdTransform`, `RrdPasses`, `RrdRewriteCi` |
| `MCRrdPretty` | productions for TLC | `RrdPretty` |
| `AltRanges` | `tnode_create_alt_list`, one turn of the loop a step | |
| `MCAltRanges` | lists for TLC | `AltRanges` |
| `AltRangesProofs` | theorems about `AltRanges`: types, the size of the array, and the lines it collects | `AltRanges` |
| `Tnode` | the tiles of a diagram and their sizes, `tnode_create_node` | `RrdNode` |
| `RrText` | drawing the tiles of a production as text, `render_rule` | |
| `TextTiles` | the tiles that are drawn as text, with the widths of their texts | `RrdNode`, `RrText`, instance of `Tnode` |
| `MCRrText` | railroad nodes for TLC | `TextTiles` |
| `RrTextProofs` | theorems about `RrText`: where it draws, where it ends, what it draws over | `RrText` |
| `SvgPath` | segments of the track in a list, `svg/path.c` | |
| `SvgDraw` | drawing the tiles of a production as texts and segments | `RrdNode`, `SvgPath`, instance of `Tnode` |
| `SvgRule` | the segments of a production consolidated and written, `svg_render_rule` | `SvgPath` |
| `MCSvgRule` | railroad nodes for TLC | `SvgDraw`, `SvgRule` |
| `SvgRuleProofs` | theorems about `SvgRule`: nothing lost, paths tidy, less left to do | `SvgRule` |
| `Grammar` | a grammar as it is written | |
| `Conversion` | the promise: refuse, convert or break off | `Grammar` |
| `Kgt` | a run of kgt, shown to implement `Conversion` | `Grammar` |
| `MCKgt` | grammars and command lines for TLC | `Kgt` |
| `KgtRulesProofs` | a theorem about the errors of `Kgt`; lemmas about bodies, rules and lists of rules | `Kgt` |
| `KgtConversionProofs` | theorems about the grammar that `Kgt` outputs, and its steps as `Conversion` | `KgtRulesProofs` |
| `Ast` | the tree the parser actions build, `ast.c` | |
| `Lexers` | the zones of the five lexers and the tokens each may return | |
| `Productions` | what the function of a production is made of | |
| `WsnParser`, `BnfParser`, `RbnfParser`, `IsoEbnfParser`, `AbnfParser` | every function of a generated parser | `Productions` |
| `SidParser` | a call of FORM_INPUT: lexer, stack of productions, parser actions | `Ast`, `Lexers`, instances of the five |
| `MCSidParser` | texts for TLC, and what is to be read from them | `SidParser`, `Notation` |
| `SidLinesProofs` | lemmas: the line of every production of every dialect | `SidParser` |
| `SidParserProofs` | theorems about the stack of calls, the locals and ERROR | `SidLinesProofs` |
| `SidReadProofs` | a theorem about the end of a text | `SidParserProofs` |
| `Notation` | the reference: every spelling of a grammar in a dialect | `Ast` |
| `Meaning` | the reference: the words a grammar describes | `Ast` |
| `DialectOutput` | what the five dialect outputs print | `Ast` |
| `AstRewrite` | the spellings of a literal of either case, in the AST | `Ast` |
| `RoundTrip` | a grammar rewritten and written, by kgt or by hand, and read again | `DialectOutput`, `AstRewrite`, `Notation`, `Meaning`, `Lexers`, instance of `SidParser` |
| `MCRoundTrip` | grammars for TLC | `RoundTrip` |

### Reading: Lexers, Productions, the five parsers, SidParser

SID generates a C function for each production. It looks at the current
terminal, and from there goes through a straight line of calls, terminals and
actions: `prod_...(tok)` in the module of the dialect is that line, as a list of
items (`Productions`), and `Production` finds it by name. `SidParser`
interprets the items: `stack` has a frame for each call, with what is still to
do, and the local variables *that have been written*; a local of C that has not
been written yet is a name that is not in `loc`. The code relies on ERROR for
this: a production that fails saves ERROR as the terminal and returns without a
result, and each caller has to look at the terminal before it uses one.

Each kind of item is an action (`DoAdvance`, `DoExpect`, `DoCheck`, `DoCall`,
`DoGoto` for the tail calls that SID makes loops of, ...), and each of the more
intricate actions of `parser.act` is one of its own: the pattern buffer with
its size (`PatternChar`, `ExtractPattern`), counts of `CountWidth` bits
(`ExtractCount`, `SetRepeat`, `MulRepeat`), numeric literals and ranges, prose
with the pragmas, the rule that exists already. A failed assertion and a write
past the buffer are values of `outcome`. `ZL1` is what all failures have in
common; at the entry production it is `<err-syntax>`, which exits.

The lexer is given by what it may return: `lx_next` has for each zone the
tokens and the zone after each, and a text is a sequence of tokens that TLC
chooses as the parser asks for them. White space, comments and the characters
inside a token are left out, except the values the parser actions look at
(`Bufs`). After the end of the text, an unfinished token, or what is no token,
the lexer returns EOF for ever, and only ERROR or UNKNOWN once before it.

`TypeOK`, `LocalsWritten`, `ErrorUnwinds` and `AllReadOtherwise` are in
`SidParser`; the properties that compare with a reference are in `MCSidParser`.

Reading up to where the entry production returns is here; the linking that
follows in FORM_INPUT, and all the rest of a run, is in `Kgt`, which sees rules
and terms but no tokens.

### Writing and reading back: Notation, Meaning, DialectOutput, RoundTrip

`Notation` says what a dialect's notation allows, independently of the code that
reads or writes it: `Spellings(d, rules)` is the set of all the ways, as
lexemes, to write a grammar. It follows the grammars in `*/parser.sid` and the
descriptions of repetition in `ast.h`. `Meaning` is the language of a grammar,
its words up to `WordLength`. `DialectOutput` has the printing functions with
their tables, assertions and refusals; what they print is represented by the
tokens the dialect's own lexer makes of it, including where that is not what was
meant (two quotes, a doubled quote, two names with only a space between them).

`RoundTrip` composes them with an instance of `SidParser`: a grammar is written
by kgt (`KgtWrites`), after literals of either case have been replaced by their
spellings (`AstRewrite`) where the dialect has no such literals, or in any of
the ways of its notation (`HandWrites`), and what is written is the text of a
parser run (`Read`). `HandReadOtherwise` then
says that the parsers accept everything their notation has, which is the other
half of what `ReadsBackOtherwise` says in `SidParser`: that whatever they accept
is a spelling of what they return.

### Railroad rewriting: RrdNode, RrdTransform, RrdPasses, RrdPretty

A node is a record, a linked list of nodes a sequence, a NULL pointer the
record `NULL`. A pass gets a node and the current `*changed` and returns the
node left at the pointer, the new `*changed`, and whether the process died: a
failed assertion and a NULL dereference are outcomes (`crash`), not impossible.
Side effects that the code has without setting `*changed` are kept (a roll that
fails leaves the loop's halves wrapped into sequences; leaving a sequence early
because another node has set `*changed`).

In `RrdPretty` a step is one call of the pass by `node_walk` (`Visit`), the end
of a walk that is repeated (`WalkAgain`) or is not (`NextPass`). `agenda` holds
the pointers `node_walk` has still to follow, as paths in the tree. `limit` is
the one counter shared by all the passes; `while (changed && limit--)` goes on
decrementing after it has reached zero, and all negative values are one value.

The outputs rrparcon, rrll and rrta then walk the tree once more to replace
literals of either case (`BeginRewriting`, `RewriteVisit`, `EndRewriting`);
others lay it out as it is, which is why `done` may be the end or not.
`NormalForm` says what they are given. The last pass may leave a choice in a choice:
of `a | { b a }`, a loop around `b a` with a skip beside it (`Bypassed`). No pass
comes after it to take that apart; it is the one nesting that is allowed.

`Lang(n, k)` is the language of a node up to words of k symbols. It is the
reference against which translation and passes are compared: a loop stands for
`forward (backward forward)*` with its counts on the backward path.

### Ranges: AltRanges

The variables are those of `tnode_create_alt_list`: `p` a position in `list`,
`bm` the set of bits set, `hi`, and `out` for the array `new.a` filled up to
`i`. An action is one turn of the loop: a node that is no single character, a
character already output, the end of the bitmap, a character drawn alone, the
first character of a short run, a long run with an ellipsis, and the end of the
list. `lo` and the local use of `hi` are the operators `RangeStart`,
`RangeStop` and `ClippedStop`. The ctype functions see `hi` converted to
`unsigned char`, which wraps at the end of the byte (`Byte`).

### Layout and drawing: Tnode, RrText, TextTiles

`Tnode` gives each node its tile, as `tnode_create_node` does: a record with
width, rows above and rows from the entry downwards. It has the paddings of an
output, the widths of texts and the labels of loops as parameters (`dim`,
`LiteralTxt`, `RuleString`, `LoopLabel`), which the text and the SVG output give
their own values. The list of a choice is given as
`tnode_create_alt_list` leaves it, with ELLIPSIS nodes; `AltRanges` is about
how it gets there. Which way the arrows at a corner point is left out.

`RrText` draws. The canvas is allocated from the size of the outermost tile and
written to at unsigned positions without any check. `x`, `y` and `lines` are
those of the `struct render_context`; `todo` is the C stack: what the calls in
progress have still to do, in order. Each drawing function is an action that
pushes what it does (`RenderVlist`, `RenderHlist`, `RenderComment`,
`RenderLeaf`, `DoJustify`), each turn of a loop is one that pushes the rest of
the loop last (`DoRow` for the lines of a choice, `DoPart` for the parts of a
sequence, `DoBars`), and each `bprintf` and each assignment to the cursor is a
step (`Bprintf`, `Move`). `Return` marks the return from a tile's drawing, with
the place it began at: it says which tiles a position written to must lie in.

The tiles are parameters: `Tnodes` are those of productions, `Parts` has with
them all the tiles they are made of. `RrTextAssumption` says what drawing needs
of the layout (`Sized`): each tile has room for its parts where the code draws
them. It is stated of one tile and those directly in it, so that it needs no
recursion, and nothing in it follows from how the tiles are drawn. `TextTiles`
makes the tiles, with the `struct dim` of rrtext and `Tnode`; TLC evaluates
`RrTextAssumption` for every tile of `text_core`, and so finds there whether
`tnode.c` keeps it.

### SVG: SvgPath, SvgDraw, SvgRule

`svg_render_rule` draws the tiles with the same recursion as rrtext, but not
onto a canvas: texts are written at once, and the segments of the track are put
into a list (`ctx.paths`), newest first. Segments that continue each other are
then made one (`svg_path_consolidate`), and what is left is written, beginning a
path at a segment nothing in the rest of the list leads to and following it as
far as it goes. `SvgPath` has the list's operations. `SvgDraw` has the drawing,
as an operator on nodes (`Draw`): it gives the list and the places of the texts.
In `SvgRule` what has been drawn is a parameter, `Drawings`, and the initial
states begin with one of them (`drawing`); a step is one turn of a loop over the
list: a segment appended to another (`MergeStep`) or left (`NextSegment`), a
path begun, continued and ended. With `debug` (an option of main) each segment
is a path of its own.

The width of a text depends on its characters, whose widths the code adds up as
doubles. A character is represented by its width in hundredths. Texts whose
widths come to a whole number are left out: there the rounding up depends on
how the additions round.

### A run: Grammar, Conversion, Kgt

A body is the sequence of its terms in writing order with their depth, so that
groups need no recursion. The reading of rules follows the recursion of
`list-of-rules`: rules are made in the order they are written and added to the
list last one first (`ReadRule`, `AddRule`), which is where a duplicate loses
the rest of the list. `StateAt` is the value `act_state->invisible` has when a
construct has been read: a term when it has been read, a group at its end, an
alternative at the end of the whole list of alternatives. The spellings a
case-insensitive literal is rewritten to are one type of term, `CASES`; giving
up on too many letters, in a group or outside, is in `CiBody` and `RewriteCi`.
A faulty rule is one the parser reports as "expected ..." and goes on, or as a
syntax error, and exits.

The end of a run is `Filter`, the whitelist, and then `out->out(g)`. It comes to
its end (`Output`), or it gives up (`BreakOff`): it returns 0 and main returns
EXIT_FAILURE, or the process dies there, mostly of an assertion. What the
outputs of the dialects write is modelled in `DialectOutput`; here an output is
given by what it cannot say (`opts.cannot`, pairs of a type of term and a `form`:
how often it is repeated, or what characters are in it), by where it needs there
to be alternatives (`opts.needsAlts`), and by whether it draws diagrams, which
may fail of the causes that `RrdPretty` has. A term of a rule's own alternatives
that cannot be said is always come to. One inside a group may be or not, as wsn
and sid write a group's first alternative only: there `Output` and `BreakOff` are
both possible. What has been written when an output gives up is left open, and
that sid looks for its terminals before it writes any rule is left out.

A group may have no terms: an ABNF range that ends before it begins is read as
one (`make-range-term` of `parser.act`).

`Conversion` has three actions: refuse a faulty grammar, convert any other, break
off. A grammar may only be broken off where the rules asked for hold what the
output cannot say once it is rewritten, or may have lost alternatives that are
wanted (`MayBreakOff`), or where diagrams are drawn; and it must be where it holds
such a term outside groups and none is removed (`MustBreakOff`). `Kgt`
implements it under the mapping given there as `Converted`; the property
`ImplementsConversion` includes its fairness, that one of the three happens.
"Faulty" is what the code finds faulty, references in groups excepted (see
below).

## Runs

| run | checks | instance |
|---|---|---|
| `rrd_core` | `TypeOK`, `NormalForm`, `NoCrash`, `CosmeticWhereSound` | all productions of weight up to 4 over two literals with groups, options and repetitions, and all loops of two terms with a term on both sides; literals of either case with two letters and a digit, and with one letter too many; limit 20; words up to 5 |
| `rrd_counts` | `CosmeticWhereSound`, `TransformKeepsMeaning`, `PassReachesFixpoint`, `Termination` | all productions of weight up to 3 with counts {0,1} {1,} {2,} {0,2} {2,3}, case-insensitive literals and empty terms; turns of a loop spelled out beside it; more work than the limit, 2 here, has walks for; words up to 7 |
| `alt_core` | `TypeOK`, `Fits`, `LinesRight`, `EverythingShownOtherwise` | a byte of 11 values laid out like ASCII; all lists up to 4 alternatives, all sets of characters in order and in reverse with another node first, last or in the middle |
| `text_core` | `TypeOK`, `WithinTile`, `EndsLevel`, `TracksJoined`, `NoOverdraw` | all nodes of weight up to 4 over a literal, a name and a skip, up to 3 with all kinds of text and counts, up to 5 over one name with a labelled loop; deep loops with every small node on the way back; ellipses; invisible nodes |
| `svg_core` | `WithinRows`, `Apart`, `JoinedOtherwise`, `NothingLost`, `Termination` | all nodes of weight up to 4 over a name and a skip, up to 3 with a literal, prose and a labelled loop; deep loops with small nodes on the way back; ellipses and invisible nodes, alone, in a sequence and in a loop; with debug and without |
| `kgt_core` | `TypeOK`, `ErrorOrder`, `UndefinedIsTrueOtherwise`, `LinkedToGrammar`, `HasAlternativesOtherwise`, `OnlySupported`, `InvisibleIsGone`, `ImplementsConversion` | grammars of up to three rules with references, duplicates, faults, literals too long, pragmas in and out of groups, repeated terms, special characters, prose and empty groups; every combination of -u, a whitelist and six outputs, given as abnf, wsn, bnf, iso-ebnf, json and those of diagrams are |
| `parse_core` | `TypeOK`, `LocalsWritten`, `ReadsBackOtherwise`, `AssertsOtherwise`, `AllReadOtherwise`, `ErrorUnwinds`, `Termination` | for each dialect, every text that begins with one of several beginnings (nothing, a rule's name, half a rule, a whole rule, an open group, option or repetition, a count) and goes on with up to 3 (WSN), 4 (BNF, RBNF) or 2 (EBNF, ABNF) tokens of any kind; a pattern buffer of 2 characters, counts of 2 bits |
| `dialect_core` | `HandReadOtherwise`, `KeepsMeaningOtherwise`, `RefusesOtherwise` | for each dialect, every term with each of seven pairs of limits, groups, nested groups, literals of either case with up to one letter too many, pairs of terms and of alternatives, two rules, and choices of characters; written by kgt and in every way by hand; words up to 4 |
| `rrd_bad_cosmetic`, `rrd_bad_crash`, `kgt_bad_group`, `dialect_bad_star` | one property each, violated | one disagreement each, below |

Why the bounds are enough. A pass looks at a node, its children and its
grandchildren; weight 4 gives every shape of three levels, and a production of
weight 4 goes through all the passes one after the other, so that each is
applied to what the others leave. Counts are told apart by the code only as 0,
1 and more. The words compared are longer than one turn of any loop with its
counts. A limit of 2 runs out in the middle of the passes, as 20 does in a
production ten times as long. In `AltRanges`, the shortest run drawn with an
ellipsis has four characters: the digits 5..8 are such a run, with characters of
no class on both sides, a named one, and a letter adjacent to ":" at the top of
the byte, where `hi` wraps. In `RrText` a tile's size depends on the sizes of
its parts only, through maxima and sums; the cases are a part that is wider,
higher or deeper than its neighbours, first, last or in the middle, a skip above
the line, and a loop whose way back is lifted above it (from four rows down,
which `DeepLoops` reaches) or not; weight 4 combines each with each. `SvgRule`
draws the same tiles; its list has more than eighty segments, with several
beginning at one place, segments of no length, and runs of many that become one.
In `Kgt`, three rules are enough for a duplicate before or after the rule it
makes disappear. In `SidParser` the function of a production looks one terminal
ahead and a frame knows nothing of the others but through ERROR and the locals
passed; the beginnings put every production somewhere below the top of the
stack, with a group open, and the tokens that follow take it through every
terminal and through a failure at every depth. A pattern of two characters
fills the buffer, and a count of 5 does not fit into two bits. In `RoundTrip`
the outputs look at one term and its limits, at whether it is the first of its
alternative and at whether an alternative is one character: each combination is
there, with every pair of limits that a table of the code has a row for, and two
it has none for.

Fairness. The program is sequential: weak fairness of `Next` says that the
process is scheduled. Nothing else is assumed; no action is disabled by another.
The fairness of `RrdPretty` is that same formula with its ENABLED replaced by
what it comes to (a step that changes something is possible until `Stopped`),
which spares TLC evaluating the passes once more in every state.
That of `SidParser` is weak fairness of `Next` and makes no assumption about the
text, save that it ends: the tokens are bounded, after them comes EOF, and EOF
again as often as it is asked for.
`Terminated` (`Done`, `GaveUp`) is the process having exited, or the function
having returned, so that deadlock is checked everywhere.

Differences between what TLC computes and the program were looked for by
running the program: the tree after the passes, and the outcome, the errors and
the rules output of a run, agree with the compiled program for thousands of
instances of these models, and the finished canvas of `RrText` with what
`kgt -n -e rrutf8` prints for hundreds of productions, and the paths that
`SvgRule` writes, in their order, are those `kgt -n -e svg` prints for hundreds
of random ones. Of the parsers, the tree, the errors or the assertion at the end
of some fourteen thousand texts of `MCSidParser`, with characters filled in, are
what the program makes of them; of `RoundTrip`, so are over a thousand pairs of a
dialect and a grammar that is output.

### Disagreements

An `...Otherwise` property names the cases in which the code does something else
than what it says; a disagreement with a sentence of the documentation also has
a run that shows it (`rrd_bad_*`, `kgt_bad_*`, `dialect_bad_*`).

The manual says of the passes "These are cosmetic only, and do not change the
meaning of a grammar" (`man/kgt.1/kgt.1.xml:258`). `CosmeticWhereSound` checks
this for every visit outside the cases named in `ExpectedSound`; those are:

- `nested_alt` splices an optional choice into a plain one and loses the
  option: `a | [b]` becomes `a | b` (run `rrd_bad_cosmetic`).
- `redundant_alt` replaces a skippable choice of two by the one that is a loop
  (`OptionalOrLoop`).
- `redundant_loop` drops the counts of the outer of two loops
  (`CountedInCounted`).
- `loop_inc` leaves a count of 0 at 0, though a turn was deleted
  (`TurnAfterLoop`), and `node_compare` ignores counts, so that an affix or a
  prefix may be taken for equal that is not.
- `bottom_loop` turns a counted loop over with its counts unchanged
  (`AtLeastTwoPairs`).

The process dies when a turn spelled out after a loop ends the sequence (run
`rrd_bad_crash`), on a skip in a choice on the way back of a loop
(`LoopBehindSkip`), and on a loop whose body was nothing but skips
(`LoopOfSkips`). The names are operators of `MCRrdPretty`: with
`Productions <-` one of them, the cfg of `rrd_bad_cosmetic` or `rrd_bad_crash`
shows the case.

In `AltRanges` (`EverythingShownOtherwise`): a range may end on a named
character, although the comment says it is then not drawn as a range
(`src/src/rrd/tnode.c:282` tests the character after the end of the run, hence
`RangesReadable` is about the start only); a range cut off at the end of its
class makes the next character and everything after it disappear; and a
character drawn alone makes `p` pass over another one.

In `SvgRule` (`JoinedOtherwise`): a loop whose way back is lifted above it and
has a text of its own is drawn one row too high, apart from the track on both
sides. `svg_path_find_start` is to find a segment that no other leads to
(`src/src/svg/path.c:152`), but looks only at the segments after it in the list;
one path is then written as two, which looks the same.

In `Kgt`: a duplicate rule makes defined rules be reported as undefined, because
`add-rule-to-list` drops the list after it (the exception in
`UndefinedIsTrueOtherwise`); references in groups are not checked (run
`kgt_bad_group`); a pragma at the end removes all the alternatives of a rule,
and the output asserts; a literal in a group with too many letters is output as
an empty group; and so is an ABNF range written backwards (all three in
`HasAlternativesOtherwise`).

In `SidParser`:

- An assertion fails, and the program aborts, on limits in the wrong order
  (`3*2b` in ABNF), on no times of something (`0 * b` in EBNF), on empty prose,
  on a character 0 in a literal, and on a character after a question mark in
  ABNF prose; a pattern as long as the buffer is written past its end
  (`AssertsOtherwise`).
- Counts of 0 and counts wider than an unsigned int are read as another
  repetition, as 0 means no limit; a range that ends before it begins is read
  as a group of nothing (`ReadsBackOtherwise`).
- In BNF and RBNF, what follows a separator and begins no rule is ignored
  without an error; in all dialects a text whose first token is an error of the
  lexer is an empty grammar without an error (`AllReadOtherwise`).

In `RoundTrip` (`KeepsMeaningOtherwise`, `RefusesOtherwise` and
`HandReadOtherwise`, whose exceptions have names):

- The tables of brackets of WSN, EBNF and RBNF are searched by comparing the
  minimum twice and never the maximum: `{ b }` is written as `[ b ]`
  (run `dialect_bad_star`).
- WSN writes only the first alternative of a group, and so only the first
  spelling of a literal of either case; EBNF writes no commas
  between the terms in a group; ABNF drops the limits of an alternative that is
  a single character.
- EBNF doubles a double quote, which its lexer does not know; in WSN a literal
  that begins with a quote is read as an empty term, whether kgt has written it
  or not. An empty term of RBNF, and an empty group of EBNF or RBNF, cannot be
  read; an empty group is also what a literal of too many letters in a group
  becomes, where on its own it makes kgt exit.
- EBNF has a notation for counts, which the output refuses by an assertion, and
  ABNF one for special characters, which the output refuses in literals of more
  than one character.

## Proofs

### AltRangesProofs

It proves, for every width of a byte, every set of disjoint
interval classes, every set of named characters and lists of any length:

- `TypeCorrect`: `Spec => []TypeOK`. This includes that `hi` stays a character,
  or one past, or -1, and that the bitmap only ever loses characters of the list.
- `LinesFit`: `Spec => []Fits`, the assertion `i <= new.n` at the end of the
  function, and in every step before it: no write goes past the array.

`Fits` is not inductive: a range writes three lines and leaves `p` where it is.
The inductive invariant is `IInv == TypeOK /\ RoomLeft`. `RoomLeft` counts what
has been paid: lines written plus characters still in the bitmap are no more
than the nodes passed plus the characters of the list. A node is paid for when
`p` passes it, a character when it leaves the bitmap, and a range takes at least
four characters for its three lines. That the run taken is at least that long
and lies in the bitmap is `RunFacts` and `ClippedStopFacts`, which rest on
`NextOfFacts` (what `bm_next` returns) and on the classes being intervals
(`ClassesAssumption`: true of digits and letters in ASCII, as the comment
"assumes ASCII" in the code says). `ListPays` then gives `Fits`: nodes and
characters together are no more than the elements of the list.

`RoomLeft` is about the proof rather than the code, and no run checks it.

It then proves of the lines that are collected:

- `LinesAreRight`: `Spec => []LinesRight`: each character is shown once and in
  ascending order, and an ellipsis stands in a run of alternatives that cuts no
  class: it stays in the class it begins in, and holds all or nothing of any
  other. (One that begins outside every class may well go through one: "/" to
  ":" is drawn so.)
- `EverythingIsShownOtherwise`: `Spec => []EverythingShownOtherwise`.

`LinesRight` is inductive only with `LinesInv`, which adds that a character drawn
is never past `hi`, so that what is taken next (`StartFacts`: the first character
left after `hi`) is new, and that an ellipsis has a character on both sides.

What is left out at the end depends on the two cursors: `p` in the list and `hi`
in the bitmap. `CursorsAgree` says what they have in common: nothing in the
bitmap is before `hi`, what has left it is not after `hi`, and nothing `p` has
passed is still due. Each of the two exceptions of the property breaks it, and
the proof shows where: `OutputRange` keeps it only if the range is not cut off at
the end of its class (`CutAtClassEnd`), as `hi` is one past a range that is, and
`OutputAlone` only if the character drawn is the one `p` stands at, which holds if
there is none of the kind drawn alone or the list is in ascending order. So the
invariant is `Regular(list) => CursorsAgree`.

`ClassesAssumption` also says that the character 0 is in no class. It is true of
digits and letters, and needed: `bm_next` returns 256 at the end of the bitmap,
and a class with a 0 would take the end, as a byte, for one of its own.

The assumptions are the ASSUMEs of `AltRanges`; TLC evaluates them in
`alt_core`.

### KgtRulesProofs and KgtConversionProofs

`ErrorsInOrder`: `Spec => []ErrorOrder`, for every set of grammars and of
command lines: what the parser expected is reported before the rules that exist
already, and those before the references that are not defined. `ErrorOrder` is
about the errors printed and those queued together. It is not inductive: nothing
in it keeps the parser from reporting after a duplicate has been found. `PhaseInv`
adds what each phase has queued so far. While there are rules to read only the
parser's errors are in the queue, because a rule is added to the list only on
the way back from the recursion, when all have been read (`n < Len(src)`); until
the linking begins no others than those of the list; and before the report none
is printed, so that every error goes to the end. `OrderedConcat` says that what
is queued behind errors of no higher rank keeps the order, `PopKeepsOrder` that
printing the first error of the queue leaves the two together as they are. That
`UndefinedErrors` is a sequence rests on the bodies of rules being finite, which
is why `PhaseInv` has the types of `read` and `g` (`MakeRuleType`).

For every set of grammars and of command lines: `TypesAreRight`,
`UndefinedIsTrue`, `ReferencesAreLinked`, `AlternativesAreLeft`,
`NothingUnsupported` and `InvisibleGoes` state the six other invariants that
`kgt_core` checks, and `StepsOfConversion` that a run begins as `Conversion` does
and takes only its steps or stutters. That is the safety half of
`ImplementsConversion`; that a run refuses, converts or breaks off in the end is
fairness, and stays with TLC.

All of them follow from one invariant, `RulesInv`, since none is inductive: each
is about the grammar that is output, or about the errors printed, and these stem
from terms that several phases have changed. Its parts are

- `PlacesInv`: which rule of the list stems from which rule that was written, and
  that nothing of it but the types of its terms has changed (`MadeFrom`). While
  rules are read the nested calls hold the first ones and the list the ones that
  follow. From then on the k-th of the list is the k-th that was written; a
  duplicate cuts the list short, but then an error is queued, and nothing is
  output (`Clean`).
- `PragmaInv`: `act_state->invisible` is set if the last pragma read says so.
  `StateIsWritten` and `MakeRuleMadeFrom` turn this into what a term of a rule is
  made as: the state when a term is made covers that term, a group included.
- `ErrorsInv`: an error is queued for something that is wrong (`Deserved`), and
  what is wrong has an error queued once its phase has passed. Both directions
  are needed: the first for `UndefinedIsTrue` and for what may be refused, the
  second for what may be converted.
- `LinkInv` and `RewriteInv`: what a term may have become by now, from the type
  it was written with: `Linked` as soon as the walk has passed its rule, and for
  each of the two rewritings whether the bit of `v` is still set (`CiLeft`) or
  the walk has been there (`CiDone`, `InvisibleDone`).

Once the whitelist has been applied, `RulesInv` says of each rule only which one
that was written it stems from. `SelectedInv` adds that the rules are exactly
those asked for
(`FilterSelects`), with which `TermsBecome` relates what the output comes to with
what `Conversion` says of the rules written: whatever makes the output fail is in
`MayBreakOff` (`FailingMayBreakOff`), and where it has not failed there was no need
to (`OutputNeedNotBreakOff`). `NoneIsLost` is the same question for alternatives.

`WrittenBodyFacts`, `LastInsideFacts` and `ListEndFacts` say how groups nest in a
body; `NthFacts` and `FilteredFacts` what the whitelist selects.

The assumptions are `GrammarsAssumption` and `OptionsAssumption` of `Kgt`, which
say what a written rule and a command line are; TLC evaluates them in `kgt_core`.
They leave out only what no run can have: a written term has no type that only
linking or rewriting makes (`!<make-token-term>` is an ignored action of every
dialect's grammar), and only after a group is there a term one deeper. Nothing is
assumed of what an output can say.

### SidLinesProofs and SidParserProofs

For every text, buffer and width, and each of the five dialects:

- `StackIsRight`: `Spec => []StackRight`, the invariant below.
- `LocalsAreWritten`: `Spec => []LocalsWritten`, no action uses a local that has
  not been written.
- `ErrorsUnwind`: `Spec => ErrorUnwinds`, once the terminal is ERROR nothing is
  read any more.
- `ParserTypesAreRight`: `Spec => []TypeOK`, by an invariant of its own (`Kinds`),
  which has the zones of each dialect's lexer and the last message queued.

Neither of the second and third is inductive: both speak of the innermost call
only, and where it returns, what is innermost is a call that has been waiting.
`StackRight` says of every call on the stack what it has still to do. The
innermost one, while the terminal is not ERROR, has a `Line` before it: each item
finds the locals it reads among those written, by the call itself or by an item
before it (`Fed`), and after each call or terminal that may fail an item that
looks for ERROR comes before anything else that reads (`Spaced`). When the
terminal is ERROR it is `Unwinding`: up to the item that looks there is nothing
that reads a terminal or a local. A call beneath is `Waiting`: what it has left is
a line once the local it waits for has been written, and unwinds if it is not.

That all of the generated code has this form is what `SidLinesProofs` proves,
with a lemma for each production of each dialect (`WsnTerm`, `Abnf105`, ...) and
one for each form a line has in several of them (`ListLine`, `GroupLine`, ...).
The choices in the middle of a line, which SID has put in place of a call, are
`RbnfInlined` and `AbnfInlined`. `SidParserProofs` then has a lemma for each
action.

### SidReadProofs

`AllIsRead`: `Spec => []AllReadOtherwise`: where the entry production comes back
without an error, the text has been read to its end, with the two exceptions
that the property names.

WSN, EBNF and ABNF ask for EOF in their entry production. What follows it is read
as well, before the production returns, so that it takes the lexer to say that
after EOF there is only EOF: the invariant `Fetched` has that the zone is then
`"end"` (`EofZones`, by each zone of each lexer) and that no tokens given are left.
BNF and RBNF do not ask. There, that the text is at its end (or a separator has
been read, or an error queued: `Fin`) is known when a rule has ended, and must
hold until the entry production returns, through all the calls of the list of
rules and of its rest, which recur for each rule. `Chain` says which call may
stand on which and what each has left, and `Reached` at which of those places
`Fin` holds unless the terminal is ERROR. A line that goes elsewhere (`NoJump`) is
never one of those.

The assumption is `SidParserAssumption`, which TLC evaluates in `parse_core`: a
text has a dialect, and EOF is none of the tokens it is said to begin with, as
only the lexer makes one. `PatternSize` is at least 1. Nothing is assumed of the
values in `Bufs`.

### RrTextProofs

For tiles of any number of rows and parts, nested to any depth:

- `SizesAreNatural`: `Spec => []TypeOK`: no position, width or number of turns,
  all of them unsigned in the code and computed by subtraction, falls below zero,
  and what is put in the middle of a space fits there.
- `StaysWithinTile`: `Spec => []WithinTile`, memory safety of `bprintf`'s
  unchecked `memcpy`.
- `EndsWhereItBegan`: `Spec => []EndsLevel`.
- `NothingDrawnOver`: `Spec => NoOverdraw`.

None of them is inductive: they speak of what is done next, and what was pushed
long before is done next in the end. The invariant, `Inv`, is that there are
positions `X` and `Y`, where the cursor will be when each item of the stack is
done, with `Drawing(X, Y)`:

- each item fits where it is done and leads to where the next one is done
  (`Leads`);
- no two items cover the same position, and what is done before the return from
  a tile lies in that tile (`Before`). `Covers` is what doing an item may write
  to, the whole of a tile's area for a tile;
- what is covered is on the canvas and has not been written to (`OnCanvas`);
- the corners `EndsLevel` asks for are there, or an item of the stack will write
  them before the tile returns (`CornersSure`): of a choice with a row above its
  line only the second row has them.

So the four properties become questions about one item. An action replaces the
item on top by several. `Replacing` is what there is to show of these, that they
lead from where the item began to where it ends, cover no more than it does, and
one another not at all; `ReplacingStep` gives the invariant from it, whatever else
is on the stack; and `Does1` to `Does6` are the same for as many items, without
sequences, so that for each action arithmetic remains. `BprintfStep`, `VlistStep`,
`RowStep` and so on do that.

The assumption is `RrTextAssumption`, that each of the tiles has room for its
parts where they are drawn. That it holds of the tiles `tnode.c` makes is a
statement about a recursion over nodes, and is left to TLC, which evaluates it
for every tile of `text_core`. The theorems say that the drawing does nothing
wrong with tiles that are right; this is also why the mutants of these properties
are mutants of the drawing.

### SvgRuleProofs

For drawings of any number of segments:

- `InkStays`: `Spec => []NothingLost`: consolidating and writing lose no piece of
  the track, add none, and write each where it was drawn.
- `PathsAreTidy`: `Spec => []Tidy`: no path has two lines in a row that continue
  each other. No run checks this as a property.
- `StepsLeaveLess`: `Spec => LeavesLess`: each step but the last makes a natural
  number, `Left`, smaller. `Termination` needs besides that a step can be taken
  until then (ENABLED) and is (fairness), which TLC checks.

`NothingLost` is inductive with `TypesRight` and `PenRight`, which says that the
pen is where the last segment written ends: so `Connected` is about two segments
of different lists. `LongerIsBoth` is that a segment made longer has the pieces of
both, `RemoveAtFacts` and `MergeFacts` what becomes of the positions in the list
while it is being walked.

`Tidy` says that one pass is enough, which is not obvious: a segment that has been
left behind may be appended to a later one. The invariant `TidyInv` has that
nothing in the list continues what has been passed (`PassedAlone`; `AloneStays`
and `AloneWhenMerged`: merging others makes no segment begin anywhere it did not
before), then that nothing continues anything (`AllAlone`), and so nothing the
path that is being written (`PathAlone`).

The assumption is `SvgRuleAssumption`: the segments are lines to the right or down
of lengths that are multiples of five, of which all that is drawn is made, or
curves. TLC evaluates it in `svg_core`.

### The invariants and TLC

Before they were proved, the inductive invariants were checked with TLC as
invariants of the instances of `alt_core` (`RoomLeft`, `LinesInv`, `CursorInv`),
`kgt_core` (`PhaseInv`, `RulesInv`), `parse_core` (`StackRight`, `Kinds`,
`Reading`), `svg_core` (`InkInv`, `TidyInv`, `LeavesLess`) and of a part of
`text_core` (`Drawing`). No run repeats this: what they say beyond the properties is for the
proofs only.

### What stays with TLC

- Liveness, out of this prover's reach: `Termination` and `Converted!Spec`'s fairness.
- Everything in `RrdNode`, `RrdTransform`, `RrdPasses`, `RrdRewriteCi`, `RrdPretty`, `Tnode`,
  `SvgDraw`, `Notation`, `Meaning`, `AstRewrite`, `DialectOutput` and `RoundTrip`:
  their operators recur over trees, and what they compute for every tree would be
  proved by induction over data. That includes `WithinRows`, `Apart` and
  `JoinedOtherwise` of `svg_core`, which are about what `SvgDraw` draws.
- `TracksJoined` of `RrText`. It depends on which corners the layout has given to
  the lines of a choice, of which `RrTextAssumption` says nothing, and relates
  what is drawn at all positions once everything has been drawn.
- `ReadsBackOtherwise` and `AssertsOtherwise` of `MCSidParser`. The first
  compares with the spellings in `Notation`, which recur over trees; the second is
  evaluated in the same module, and a theorem about it would have to follow each
  value from the token it was extracted from to the action that asserts.

## Not modelled

- What an output has written before it gives up, and why a diagram may fail, in
  `Kgt`; `DialectOutput` and `RrdPretty` have the causes.
- The order and grouping of alternatives within a body in `Kgt`, and the text of
  literals there, which has one type of term for their spellings; `SidParser`
  and `AstRewrite` have them.
- The characters that make up a token: white space, comments, keywords, escapes,
  and digits in a base. The zones of the lexers, and what a text that breaks off
  gives, are modelled.
- `lex_tok_save`: RESTORE_LEXER is always followed by SAVE_LEXER(ERROR) or by
  the exit.
- A node's `invisible` flag in `RrdNode`: no pass branches on it but
  `node_compare`. `Tnode` has it.
- `rtrim` and `tile_puts` in `rrtext/output.c`, which print the finished canvas;
  `tnode_free` and the other functions that only free.
- The markup and escaping of `svg/output.c`, arrow heads, the dots of an
  ellipsis, stations, the boxes of the debug output, and the heights of the
  productions added up in `svg_output`.
- The outputs `sid` and `blab`, whose notations kgt does not read, so that there
  is nothing to hold them against; HTML; the dumps, which print a tree as it is.
- `txt.c`, `xalloc.c` (no behaviour of their own), and running out of memory.

## Plan

Modelled, in this order: the rewriting of diagrams, the ranges, a run of the
program, layout and both drawings, lexers and parsers, the dialect outputs and
their way back. Proved, for every instance: all the invariants of the ranges and
of a run, the steps of `Conversion`, of the parsers the types, locals, ERROR and
the end of the text, of the drawing as text all but that tracks are joined, and
of the drawing as SVG that nothing is lost. What is left to be proved is
`AssertsOtherwise` of `MCSidParser`, in `SidParser`: with `StackRight`, what a
local holds and which token it comes from.

To be modelled after that: an abstract specification of `AltRanges`, the set of
characters still to be shown.
