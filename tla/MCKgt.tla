-------------------------------- MODULE MCKgt --------------------------------
(***************************************************************************)
(* Small grammars and command lines for Kgt.  A literal may have two       *)
(* letters here, so one of three is too long.                              *)
(***************************************************************************)
EXTENDS Kgt

T(type, name, letters, form, depth) ==
  [type |-> type, name |-> name, letters |-> letters, form |-> form, depth |-> depth]
Ref(r, d) == T("RULE", r, 0, "once", d)
Ci(l, d)  == T("CI", "", l, "once", d)
Cs(d)     == T("CS", "", 0, "once", d)
Group     == T("GROUP", "", 0, "once", 0)
On(d)     == T("ON", "", 0, "once", d)
Off(d)    == T("OFF", "", 0, "once", d)

Rule(name, body, fault) == [name |-> name, body |-> body, fault |-> fault]
Rules(names, bodies, faults) ==
  {Rule(x, b, f) : x \in names, b \in bodies, f \in faults}

Plain == {<<Cs(0)>>, <<Ref("b", 0)>>, <<Ref("c", 0), Group, Ref("a", 1)>>}

LiteralBodies ==
  {<<Ci(2, 0)>>, <<Ci(3, 0), Ci(1, 0)>>, <<Group, Ci(2, 1), Ci(2, 1)>>,
   <<Ci(1, 0), Group, Ci(3, 1), Ci(1, 1), Ci(2, 0)>>}

PragmaBodies ==
  {<<On(0), Cs(0), Off(0)>>, <<Cs(0), On(0)>>, <<Cs(0), Off(0), Ref("b", 0)>>,
   <<Cs(0), Group, Cs(1), On(1), Cs(1), Off(0), Cs(0)>>,
   <<On(0), Group, Cs(1), Off(1), Cs(0)>>}

\* What not every output can say: a repeated reference, special characters,
\* prose outside a group and in one, and groups without terms.
HardBodies ==
  {<<T("RULE", "b", 0, "counted", 0)>>, <<Cs(0), T("CS", "", 0, "escaped", 0)>>,
   <<T("CI", "", 1, "escaped", 0)>>, <<Group, T("PROSE", "", 0, "once", 1), Cs(0)>>,
   <<On(0), T("PROSE", "", 0, "once", 0)>>, <<Group, Group>>}

\* A rule with nothing wrong, before or after any other; and three rules with
\* names that may be the same and references to any of them.
CoreGrammars ==
  LET bodies == Plain \union LiteralBodies \union PragmaBodies \union HardBodies
      any   == Rules({"a"}, bodies, {"none"})
      other == Rules({"b"}, bodies, {"none"})
      three == Rules({"a", "b"}, Plain, {"none"})
      wrong == Rules({"a", "b"}, {<<Ref("c", 0)>>}, {"none", "expected", "syntax"})
  IN  {<<r>> : r \in any \union wrong}
        \union (any \X other) \union (wrong \X wrong) \union (three \X three \X three)
        \union (wrong \X three \X wrong)

Every(types)   == types \X {"once", "counted", "escaped"}
Counted(types) == types \X {"counted"}

\* Outputs: abnf, wsn, bnf, iso-ebnf, json, and one that draws diagrams.
Outputs ==
  {[unsupported |-> {}, cannot |-> {<<"CI", "escaped">>, <<"CS", "escaped">>},
    needsAlts |-> {"group"}, diagrams |-> FALSE],
   [unsupported |-> {CI_LITERAL, BINARY, INVISIBLE},
    cannot |-> Every({"CI", "PROSE"}) \union Counted(Types),
    needsAlts |-> {"rule", "group"}, diagrams |-> FALSE],
   [unsupported |-> {CI_LITERAL, BINARY, INVISIBLE},
    cannot |-> Every({"CI", "PROSE", "GROUP", "CASES"}) \union Counted(Types),
    needsAlts |-> {}, diagrams |-> FALSE],
   [unsupported |-> {CI_LITERAL, PROSE, BINARY},
    cannot |-> Every({"CI"}) \union Counted(Types), needsAlts |-> {}, diagrams |-> FALSE],
   [unsupported |-> {INVISIBLE}, cannot |-> {}, needsAlts |-> {}, diagrams |-> FALSE],
   [unsupported |-> {}, cannot |-> {}, needsAlts |-> {}, diagrams |-> TRUE]}

CommandLine(u, filter, out) ==
  [allowUndefined |-> u, filter |-> filter, unsupported |-> out.unsupported,
   cannot |-> out.cannot, needsAlts |-> out.needsAlts, diagrams |-> out.diagrams]

CoreOptions ==
  {CommandLine(u, filter, out) : u \in BOOLEAN, out \in Outputs,
     filter \in {NoFilter, <<"a">>, <<"c", "b", "a", "b">>}}

(***************************************************************************)
(* A reference in a group to a rule that is not there.                     *)
(***************************************************************************)
CheckUndefined   ==
  {CommandLine(FALSE, NoFilter, out) : out \in {o \in Outputs : o.cannot = {} /\ ~o.diagrams}}
UndefinedInGroup == {<<Rule("a", <<Group, Ref("b", 1)>>, "none")>>}
=============================================================================
