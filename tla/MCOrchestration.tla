--------------------------- MODULE MCOrchestration ---------------------------
(***************************************************************************)
(* Small instances of Orchestration for TLC.  The MDD has three arcs, of   *)
(* which either one or the other two make up an optimal path, so that it   *)
(* can lose arcs, lose an optimal path and keep another, or lose both.     *)
(***************************************************************************)
EXTENDS Orchestration

CONSTANTS a1, a2, a3

MCArcs == {a1, a2, a3}
MCOptPaths == {{a1}, {a2, a3}}

(* The two arcs of the longer path are interchangeable.                    *)
TwoArcs == {a1, a2}
TwoPaths == {{a1}, {a2}}
=============================================================================
