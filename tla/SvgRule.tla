------------------------------- MODULE SvgRule ------------------------------
(***************************************************************************)
(* svg_render_rule (src/src/svg/output.c) after the tiles of a production  *)
(* have been drawn: segments of its track that continue each other are     *)
(* made one, and what is left is written, as far as possible without       *)
(* lifting the pen.  A step is one turn of a loop over the segments.       *)
(***************************************************************************)
EXTENDS SvgPath

CONSTANT Drawings     \* what may have been drawn, with its segments as paths

ASSUME SvgRuleAssumption == \A d \in Drawings : d.paths \in Seq(Segments)

VARIABLES
  debug,     \* with it each segment is a path of its own
  drawing,   \* ctx after node_walk_render
  pc,        \* "consolidate", "write", "done"
  paths,     \* ctx.paths
  p,         \* the position of p in it, while consolidating
  pen,       \* nx and ny: where the path being written ends, or Up
  written    \* the paths written, each a sequence of segments

vars == <<debug, drawing, pc, paths, p, pen, written>>

Up == <<>>

Init ==
  /\ debug \in BOOLEAN
  /\ drawing \in Drawings
  /\ pc = "consolidate"
  /\ paths = drawing.paths
  /\ p = 1
  /\ pen = Up
  /\ written = <<>>

\* The segment that is appended is removed from the list, before or after p.
MergeStep ==
  /\ pc = "consolidate"
  /\ p <= Len(paths)
  /\ paths[p].type # "Q"
  /\ LET q == FindMergeable(paths, p)
     IN  /\ q # None
         /\ paths' = Merge(paths, p, q)
         /\ p' = IF q < p THEN p - 1 ELSE p
  /\ UNCHANGED <<debug, drawing, pc, pen, written>>

NextSegment ==
  /\ pc = "consolidate"
  /\ p <= Len(paths)
  /\ paths[p].type = "Q" \/ FindMergeable(paths, p) = None
  /\ p' = p + 1
  /\ UNCHANGED <<debug, drawing, pc, paths, pen, written>>

BeginWriting ==
  /\ pc = "consolidate"
  /\ p > Len(paths)
  /\ pc' = "write"
  /\ UNCHANGED <<debug, drawing, paths, p, pen, written>>

BeginPath ==
  /\ pc = "write"
  /\ pen = Up
  /\ paths # <<>>
  /\ LET i == FindStart(paths)
     IN  /\ written' = Append(written, <<paths[i]>>)
         /\ pen' = IF debug THEN Up ELSE Ends(paths[i])
         /\ paths' = RemoveAt(paths, i)
  /\ UNCHANGED <<debug, drawing, pc, p>>

Continue ==
  /\ pc = "write"
  /\ pen # Up
  /\ LET i == FindFollowing(paths, pen)
     IN  /\ i # None
         /\ written' = [written EXCEPT ![Len(written)] = Append(@, paths[i])]
         /\ pen' = Ends(paths[i])
         /\ paths' = RemoveAt(paths, i)
  /\ UNCHANGED <<debug, drawing, pc, p>>

EndPath ==
  /\ pc = "write"
  /\ pen # Up
  /\ FindFollowing(paths, pen) = None
  /\ pen' = Up
  /\ UNCHANGED <<debug, drawing, pc, paths, p, written>>

Finish ==
  /\ pc = "write"
  /\ pen = Up
  /\ paths = <<>>
  /\ pc' = "done"
  /\ UNCHANGED <<debug, drawing, paths, p, pen, written>>

Terminated == pc = "done" /\ UNCHANGED vars

Next ==
  \/ MergeStep \/ NextSegment \/ BeginWriting
  \/ BeginPath \/ Continue \/ EndPath \/ Finish
  \/ Terminated

Spec     == Init /\ [][Next]_vars
FairSpec == Spec /\ WF_vars(Next)
-----------------------------------------------------------------------------
(***************************************************************************)
(* Consolidating and writing change nothing that can be seen: what is in   *)
(* the list and what has been written are the drawing at any time.  What   *)
(* is written is where it has been drawn only if each segment of a path    *)
(* begins where the one before it ends, because all but where the path     *)
(* begins is written as a distance.                                        *)
(***************************************************************************)
Connected(path) == \A i \in 2..Len(path) : Begins(path[i]) = Ends(path[i - 1])

NothingLost ==
  /\ InkOf(paths) \union UNION {InkOf(written[i]) : i \in DOMAIN written} = InkOf(drawing.paths)
  /\ \A i \in DOMAIN written : Connected(written[i])

(***************************************************************************)
(* Consolidating is complete, though it goes through the list only once    *)
(* and a segment it has left behind may be appended to a later one: no     *)
(* path that is written has two lines in a row that might have been one.   *)
(***************************************************************************)
Tidy ==
  \A i \in DOMAIN written : \A k \in 2..Len(written[i]) :
    written[i][k].type = written[i][k - 1].type => written[i][k].type = "Q"

(***************************************************************************)
(* Everything is written in the end, segments of no length included, which *)
(* begin where they end.                                                   *)
(***************************************************************************)
Termination == <>(pc = "done")
=============================================================================
