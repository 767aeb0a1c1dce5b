----------------------------- MODULE RrdPretty ------------------------------
(***************************************************************************)
(* From a production to the railroad diagram that is laid out:             *)
(* ast_to_rrd (src/src/rrd/transform.c), then rrd_pretty                   *)
(* (src/src/rrd/pretty.c), as rr_output calls them one after the other     *)
(* (src/src/rrtext/output.c).                                              *)
(*                                                                         *)
(* rrd_pretty runs a fixed list of passes.  For each it walks the whole    *)
(* tree, giving every node pointer to the pass before it goes on to the    *)
(* children of what is there now, and walks again while a walk changed     *)
(* something and the limit, one for all the passes, is not used up.        *)
(* A step of the specification is one visit, or the end of one walk.       *)
(*                                                                         *)
(* Some outputs walk the tree once more, to rewrite what they do not have. *)
(***************************************************************************)
EXTENDS RrdTransform, RrdPasses, RrdRewriteCi, Integers

CONSTANTS Productions,   \* the alternatives that rr_output may be given
          Limit,         \* the initial value of limit, 20 in the code
          MaxWord        \* the length up to which languages are compared

ASSUME LimitAssumption   == Limit \in Nat
ASSUME MaxWordAssumption == MaxWord \in Nat

VARIABLES
  pc,       \* "transform", "walk", "done" or "crash"; and where an output goes on,
            \* "rewrite", then "rewritten" or "failed"
  alts,     \* the production's alternatives
  rrd,      \* the tree
  pass,     \* i: the index of the pass in Passes
  agenda,   \* the paths of the nodes this walk has yet to visit, in order
  changed,  \* changed: set when a visit of this walk changed something
  limit     \* limit: the walks that may still be repeated; negative: any number

vars == <<pc, alts, rrd, pass, agenda, changed, limit>>

Passes == <<"collapse", "skippable", "redundant", "collapse", "roll",
            "collapse", "nested", "ci", "collapse", "affixes",
            "collapse", "bottom", "collapse">>

Apply(name, n, ch) ==
  CASE name = "collapse"  -> Collapse(n, ch)
    [] name = "skippable" -> SkippablePass(n, ch)
    [] name = "redundant" -> Redundant(n, ch)
    [] name = "roll"      -> Roll(n, ch)
    [] name = "nested"    -> Nested(n, ch)
    [] name = "ci"        -> CiPass(n, ch)
    [] name = "affixes"   -> Affixes(n, ch)
    [] name = "bottom"    -> Bottom(n, ch)

Init ==
  /\ pc = "transform"
  /\ alts \in Productions
  /\ rrd = NULL
  /\ pass = 1
  /\ agenda = <<>>
  /\ changed = FALSE
  /\ limit = Limit

\* ast_to_rrd, and the entry of rrd_pretty.
Transform ==
  /\ pc = "transform"
  /\ rrd' = AstToRrd(alts)
  /\ pc' = "walk"
  /\ agenda' = <<(<<>>)>>
  /\ UNCHANGED <<alts, pass, changed, limit>>

\* What the pass makes of a node; every pass returns at once on NULL.
Given(n) ==
  IF n = NULL THEN [node |-> NULL, changed |-> changed, crash |-> FALSE]
  ELSE Apply(Passes[pass], n, changed)

\* node_walk on the next pointer.
\* Mutant: it goes on to the children of the node the pass was given.
VisitOldChildren ==
  /\ pc = "walk"
  /\ agenda # <<>>
  /\ LET path == Head(agenda)
         old  == At(rrd, path)
         kids(n) == [i \in DOMAIN Children(n) |-> Append(path, i)]
     IN  \E new \in {Given(old)} :
           /\ rrd' = Put(rrd, path, new.node)
           /\ changed' = new.changed
           /\ pc' = IF new.crash THEN "crash" ELSE "walk"
           /\ agenda' = kids(old) \o Tail(agenda)
  /\ UNCHANGED <<alts, pass, limit>>

Visit ==
  /\ pc = "walk"
  /\ agenda # <<>>
  /\ LET path == Head(agenda)
         old  == At(rrd, path)
         kids(n) == [i \in DOMAIN Children(n) |-> Append(path, i)]
     IN  \E new \in {Given(old)} :
           /\ rrd' = Put(rrd, path, new.node)
           /\ changed' = new.changed
           /\ pc' = IF new.crash THEN "crash" ELSE "walk"
           /\ agenda' = kids(new.node) \o Tail(agenda)
  /\ UNCHANGED <<alts, pass, limit>>

\* while (changed && limit--): limit is only read, and decremented, after a
\* walk that changed something.  It goes on below zero, where it stops no
\* walk any more; all the negative values are one here.
Decremented(n) == IF n < 0 THEN n ELSE n - 1

\* Mutant: changed is not reset before the walk.
WalkAgainNoReset ==
  /\ pc = "walk"
  /\ agenda = <<>>
  /\ changed
  /\ limit # 0
  /\ limit' = Decremented(limit)
  /\ agenda' = <<(<<>>)>>
  /\ UNCHANGED <<pc, alts, rrd, pass, changed>>

WalkAgain ==
  /\ pc = "walk"
  /\ agenda = <<>>
  /\ changed
  /\ limit # 0
  /\ limit' = Decremented(limit)
  /\ changed' = FALSE
  /\ agenda' = <<(<<>>)>>
  /\ UNCHANGED <<pc, alts, rrd, pass>>

\* Mutant: the repetition dropped, each pass walks once.
NextPassAtOnce ==
  /\ pc = "walk"
  /\ agenda = <<>>
  /\ limit' = limit
  /\ changed' = FALSE
  /\ pass' = pass + 1
  /\ IF pass = Len(Passes) THEN pc' = "done" /\ agenda' = <<>>
                           ELSE pc' = "walk" /\ agenda' = <<(<<>>)>>
  /\ UNCHANGED <<alts, rrd>>

NextPass ==
  /\ pc = "walk"
  /\ agenda = <<>>
  /\ changed => limit = 0
  /\ limit' = IF changed THEN Decremented(limit) ELSE limit
  /\ changed' = FALSE
  /\ pass' = pass + 1
  /\ IF pass = Len(Passes) THEN pc' = "done" /\ agenda' = <<>>
                           ELSE pc' = "walk" /\ agenda' = <<(<<>>)>>
  /\ UNCHANGED <<alts, rrd>>

(***************************************************************************)
(* rewrite_rrd_ci_literals, which rrparcon, rrll and rrta call: one walk,  *)
(* which ends at once where a literal has too many letters.  It does not   *)
(* go into what it has put in the place of a literal.                      *)
(***************************************************************************)
BeginRewriting ==
  /\ pc = "done"
  /\ pc' = "rewrite"
  /\ agenda' = <<(<<>>)>>
  /\ UNCHANGED <<alts, rrd, pass, changed, limit>>

RewriteVisit ==
  /\ pc = "rewrite"
  /\ agenda # <<>>
  /\ LET path == Head(agenda)
         n    == At(rrd, path)
         kids == [i \in DOMAIN Children(n) |-> Append(path, i)]
     IN  IF n.type = "CI"
         THEN /\ rrd' = Put(rrd, path, RewriteCi(n))
              /\ pc' = IF ~Normalised(n.text) THEN "crash"
                       ELSE IF TooLong(n.text) THEN "failed" ELSE "rewrite"
              /\ agenda' = Tail(agenda)
         ELSE /\ agenda' = kids \o Tail(agenda)
              /\ UNCHANGED <<pc, rrd>>
  /\ UNCHANGED <<alts, pass, changed, limit>>

EndRewriting ==
  /\ pc = "rewrite"
  /\ agenda = <<>>
  /\ pc' = "rewritten"
  /\ UNCHANGED <<alts, rrd, pass, agenda, changed, limit>>

\* The diagram goes on to be laid out or printed, or the process is gone.
Stopped    == pc \in {"done", "crash", "rewritten", "failed"}
Terminated == Stopped /\ UNCHANGED vars

Next ==
  \/ Transform \/ Visit \/ WalkAgain \/ NextPass
  \/ BeginRewriting \/ RewriteVisit \/ EndRewriting
  \/ Terminated

Spec == Init /\ [][Next]_vars

\* Weak fairness of Next, spelled out: a step that changes something is enabled
\* until the diagram is laid out or the process is gone.
FairSpec == Spec /\ ([]<>Stopped \/ []<><<TRUE>>_vars)

(***************************************************************************)
(* Every tree the passes leave is one the later code can read, and every   *)
(* pointer node_walk still holds leads to a node of it: no visit pulls a   *)
(* list element away from under the walk.                                  *)
(***************************************************************************)
WellFormed(n) ==
  CASE IsText(n)         -> n.text # <<>>
    [] IsLoop(n)         -> n.min \in Nat /\ n.max \in Nat
                            /\ (n.max # 0 => n.min <= n.max)
    [] OTHER             -> n.type \in {"NULL", "RULE", "PROSE", "ALT", "SKIPPABLE", "SEQ"}

Resolves(n, path) ==
  LET below[d \in 0..Len(path)] ==
        \/ d = 0
        \/ /\ below[d - 1]
           /\ path[d] \in DOMAIN Children(At(n, SubSeq(path, 1, d - 1)))
  IN  below[Len(path)]

TypeOK ==
  /\ pc \in {"transform", "walk", "done", "crash", "rewrite", "rewritten", "failed"}
  /\ alts # <<>>
  /\ \A n \in Nodes(rrd) : WellFormed(n)
  /\ pass \in 1..Len(Passes) + 1
  /\ \A i \in DOMAIN agenda : Resolves(rrd, agenda[i])
  /\ changed \in BOOLEAN
  /\ limit \in -1..Limit

(***************************************************************************)
(* Visits that may be expected to keep the meaning of the node.  The       *)
(* others are the known disagreements between the passes and the manual    *)
(* (see README, and the productions at the end of MCRrdPretty).            *)
(***************************************************************************)
Uncounted(n) == IsLoop(n) => n.min = 0 /\ n.max = 0

\* node_compare cannot tell loops apart by their counts; here it need not.
CountsAgree(n) ==
  LET loops == {m \in Nodes(n) : IsLoop(m)}
  IN  \A x, y \in loops : NodeCompare(x, y) => x.min = y.min /\ x.max = y.max

ExpectedSound(name, n) ==
  CASE name = "redundant" -> /\ n.type # "SKIPPABLE"
                             /\ Uncounted(n)
                             /\ \A c \in Range(Children(n)) : Uncounted(c)
    [] name = "roll"      -> CountsAgree(n)
    [] name = "nested"    -> n.type = "ALT" =>
                               \A c \in Range(Splice(n.list, {"ALT"})) : c.type # "SKIPPABLE"
    [] name = "affixes"   -> /\ CountsAgree(n)
                             /\ \A c \in Range(Children(n)) : IsLoop(c) => c.min > 0
    [] name = "bottom"    -> Uncounted(n)
    [] OTHER              -> TRUE

\* The visit of this step, if it is one, leaves the language of the visited
\* node as it was.
SameMeaning ==
  LET path == Head(agenda)
      old  == At(rrd, path)
      new  == At(rrd', path)
  IN  old # new => Lang(old, MaxWord) = Lang(new, MaxWord)

IsVisit == pc = "walk" /\ agenda # <<>> /\ pc' = "walk"

IsRewriting == pc = "rewrite" /\ agenda # <<>> /\ pc' = "rewrite"

(***************************************************************************)
(* "These are cosmetic only, and do not change the meaning of a grammar"   *)
(* (man/kgt.1/kgt.1.xml, option -n).  No visit of any pass changes the     *)
(* language of the node it is given.                                       *)
(***************************************************************************)
CosmeticOnly == [][IsVisit => SameMeaning]_vars

(***************************************************************************)
(* The same, of the visits for which the code keeps that promise; and the  *)
(* spellings that a literal of either case is replaced by are all it has.  *)
(***************************************************************************)
CosmeticWhereSound ==
  [][\/ IsVisit /\ ExpectedSound(Passes[pass], At(rrd, Head(agenda)))
     \/ IsRewriting
     => SameMeaning]_vars

(***************************************************************************)
(* ast_to_rrd draws exactly the language of the production.                *)
(***************************************************************************)
TransformKeepsMeaning ==
  [][pc = "transform" => Lang(rrd', MaxWord) = AstLang(alts, MaxWord)]_vars

(***************************************************************************)
(* A pass that is left has nothing more to do anywhere in the tree, unless *)
(* the limit stopped it: *changed is set by every visit that matters, and  *)
(* a visit that leaves its seq early, because another one has set it,      *)
(* leaves no work behind.                                                  *)
(***************************************************************************)
AtFixpoint(name, n) ==
  \A m \in Nodes(n) : m # NULL => ~Apply(name, m, FALSE).changed

PassReachesFixpoint ==
  [][pass' # pass => limit = 0 \/ AtFixpoint(Passes[pass], rrd)]_vars

\* A skip beside a loop with nothing on the way back: what the last pass puts in
\* the place of a loop it has turned over.
Bypassed(n) ==
  /\ n.type = "ALT" /\ Len(n.list) = 2
  /\ n.list[1] = NULL /\ IsLoop(n.list[2]) /\ n.list[2].backward = NULL

(***************************************************************************)
(* The tree that is laid out: no alt or seq of one element, no skip in a   *)
(* seq, no empty list, no loop around nothing; no seq in a seq, and an alt *)
(* in an alt only where the last pass has put a loop and a skip, which is  *)
(* also the one alt that says by a skip that it may be left out.  Where    *)
(* the literals of either case have been rewritten none is left, and no    *)
(* list is empty.                                                          *)
(***************************************************************************)
NormalForm ==
  /\ pc = "done" =>
       \A n \in Nodes(rrd) :
         /\ n.type \in {"ALT", "SEQ"} => Len(n.list) > 1
         /\ n.type = "SEQ" => \A c \in Range(n.list) : c.type \notin {"SEQ", "NULL"}
         /\ n.type \in {"ALT", "SKIPPABLE"} /\ ~Bypassed(n) =>
              \A c \in Range(n.list) :
                c.type \in {"ALT", "SKIPPABLE", "NULL"} => Bypassed(c)
         /\ IsLoop(n) => ~(n.forward = NULL /\ n.backward = NULL)
         /\ IsList(n) => n.list # <<>>
  /\ pc = "rewritten" =>
       \A n \in Nodes(rrd) : n.type # "CI" /\ (IsList(n) => n.list # <<>>)

(***************************************************************************)
(* No assertion of the passes fails and none of them dereferences NULL.    *)
(***************************************************************************)
NoCrash == pc # "crash"

(***************************************************************************)
(* The passes come to an end, whatever the limit has become.               *)
(***************************************************************************)
Termination == <>Stopped
=============================================================================
