------------------------------- MODULE MCSolving -------------------------------
(***************************************************************************)
(* Solving on single pairs of strings.  All relaxations of the graph leave *)
(* the gap open if the heuristic misses the optimum, which GraphReduction  *)
(* lets it do; the pairs were chosen by what happens then.                 *)
(***************************************************************************)
EXTENDS Solving

(* Here, and hardly for any other pair as short, the gap is still open     *)
(* before the MDD although the lower bound is optimal already.  The        *)
(* problem is solved backwards.                                            *)
OpenGap == << <<0, 1, 2, 3, 4, 3, 2, 0, 1>>, <<1, 0, 3, 2, 4, 0, 1, 3, 2>> >>

(* Here, while the lower bound is too small by two, nodes are deactivated  *)
(* that have three arcs left, of which one survives.                       *)
Skipping == << <<0, 1, 2, 1, 3, 4, 0, 2, 5, 4, 3, 1, 3>>,
               <<1, 0, 3, 5, 2, 4, 5, 3, 1>> >>

(* Of the pairs over four characters, two children long, the copies of     *)
(* split nodes survive all characters in the first, and a match is on two  *)
(* levels of the layout in the second; paths through the layout of the     *)
(* third repeat a character.  The others have MDDs of different widths, in *)
(* either direction.  The last pair has no solution.                       *)
MCFourCharacters ==
    {<< <<1, 2, 2, 3, 1, 2, 3, 1>>,    <<2, 1, 2, 2, 0, 1, 1, 3>> >>,
     << <<0, 0, 3, 1, 0, 0, 0, 1>>,    <<1, 3, 2, 1, 1, 0, 2, 2>> >>,
     << <<0, 0, 1, 3, 2, 1>>,          <<1, 0, 2, 1, 3, 1, 1, 2, 3>> >>,
     << <<0, 3, 2, 1, 3>>,             <<0, 3, 0, 2, 3, 3, 1>> >>,
     << <<3, 0, 3, 1, 0, 2>>,          <<3, 2, 0, 1, 2, 0>> >>,
     << <<2, 0, 1, 2, 0, 3>>,          <<2, 2, 0, 2, 1, 3, 0>> >>,
     << <<3, 2, 1, 3, 3, 0, 3, 2>>,    <<3, 1, 2, 0, 2, 3>> >>,
     << <<0, 0, 1, 0>>,                <<2, 3, 2, 3>> >>}

MCInputs == MCFourCharacters \cup {OpenGap}

(* The characters that the reduced graph gives a match are not nested      *)
(* along its arcs: a match is inactive whose successors are still reached. *)
NotNested == << <<0, 0, 5, 4, 2, 3, 2, 0, 5, 4, 2>>, <<5, 4, 5, 1, 0, 5, 3, 5, 2, 0, 4>> >>

MCSixCharacters == {OpenGap, Skipping, NotNested}

MCOpenGap == {OpenGap}

MCAll == [input \in Inputs |-> IF input = OpenGap THEN {0} ELSE 0..4]
MCTwo == [input \in Inputs |-> {0, 2}]
MCNone == [input \in Inputs |-> {0}]
=============================================================================
