------------------------------- MODULE MCAnswer -------------------------------
(***************************************************************************)
(* Instance of Answer: three calls of the builder over two paths and two   *)
(* methods, so that a path has two routes, a route and a stream, or a      *)
(* stream twice, with one or two global middlewares before, between or     *)
(* behind them.  A route has no, one or two handlers, a stream possibly    *)
(* none.  A file and a directory are empty or not.                         *)
(***************************************************************************)
EXTENDS Answer, TLC

CONSTANTS g1, g2, s1, p1, p2

MCPaths == {p1, p2}
MCGlobals == {g1, g2}
MCRouteShapes == {[mws |-> <<>>, handlers |-> 1], [mws |-> <<s1>>, handlers |-> 2],
                  [mws |-> <<>>, handlers |-> 0]}
MCStreamShapes == {[mws |-> <<s1>>, handler |-> TRUE], [mws |-> <<>>, handler |-> TRUE],
                   [mws |-> <<>>, handler |-> FALSE]}

Symmetry == Permutations(MCPaths) \cup Permutations(MCGlobals)
===============================================================================
