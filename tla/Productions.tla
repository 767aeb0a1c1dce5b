----------------------------- MODULE Productions ----------------------------
(***************************************************************************)
(* What the function of a production does, as a list of items.  SID        *)
(* generates a parser of one C function prod_... for each production of a  *)
(* grammar (<dialect>/parser.sid).  Such a function looks at the current   *)
(* terminal and goes on in one of a few straight lines: that line is the   *)
(* list of items which the modules of the dialects give, and SidParser     *)
(* interprets.                                                             *)
(*                                                                         *)
(*   Advance          ADVANCE_LEXER                                        *)
(*   Expect(t)        the current terminal must be t, or else goto ZL1     *)
(*   Extract(t, x)    take the value of the terminal into the local x      *)
(*   Call(f, in, x)   call prod_f with the locals in; its result goes to x *)
(*   Goto(f)          back to the beginning of prod_f, which is this one   *)
(*   Inline(f)        the line of prod_f, here                             *)
(*   Check            if the terminal is ERROR: RESTORE_LEXER, goto ZL1    *)
(*   Act(a)           the action <a> of parser.act                         *)
(*   Else(ts)         { ts; ## <err-expected-...>; }: take one of the      *)
(*                    terminals ts, or report it as missing and go on      *)
(*   Fail             goto ZL1                                             *)
(*                                                                         *)
(* Every function begins by returning when the terminal is ERROR already,  *)
(* and ends, at ZL1, with SAVE_LEXER(ERROR); ZL1 of the entry production   *)
(* is <err-syntax>, which exits.  SidParser has all three.                 *)
(***************************************************************************)
Item(op, arg) == [op |-> op, arg |-> arg]

Advance        == Item("advance", "")
Expect(t)      == Item("expect", t)
Extract(t, x)  == Item("extract", <<t, x>>)
Call(f, in, x) == Item("call", <<f, in, x>>)
Goto(f)        == Item("goto", f)
Inline(f)      == Item("inline", f)
Check          == Item("check", "")
Act(a)         == Item("act", a)
Else(ts)       == Item("else", ts)
Fail           == Item("fail", "")
=============================================================================
