----------------------------- MODULE MCHeuristic -----------------------------
(***************************************************************************)
(* Heuristic on single pairs of strings over four characters.  In most     *)
(* pairs as short as these the first match that improves the lower bound   *)
(* leads to a longest solution; the first four pairs are ones where it     *)
(* does not, so that the graph is reduced in between.  In the fifth, the   *)
(* chains of a match in the two directions share a character.  The last    *)
(* pair has no solution: its rounds all fail, and clear is called.         *)
(***************************************************************************)
EXTENDS Heuristic

MCInputs == {<< <<0, 3, 2, 1, 3>>,          <<0, 3, 0, 2, 3, 3, 1>> >>,
             << <<3, 0, 3, 1, 0, 2>>,       <<3, 2, 0, 1, 2, 0>> >>,
             << <<2, 0, 1, 2, 0, 3>>,       <<2, 2, 0, 2, 1, 3, 0>> >>,
             << <<3, 2, 1, 3, 3, 0, 3, 2>>, <<3, 1, 2, 0, 2, 3>> >>,
             << <<0, 1, 0, 2>>,             <<0, 1, 0, 2>> >>,
             << <<0, 0, 1, 0>>,             <<2, 3, 2, 3>> >>}
=============================================================================
