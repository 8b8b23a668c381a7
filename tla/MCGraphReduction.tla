--------------------------- MODULE MCGraphReduction ---------------------------
(***************************************************************************)
(* GraphReduction for all pairs of short strings.  Nothing depends on what *)
(* a character is called: in string_1 they may come in order.              *)
(***************************************************************************)
EXTENDS GraphReduction

CONSTANTS Letters,  \* the characters the short strings are made of
          Length    \* of string_1; string_2 is at most as long

StringsUpTo(n) == UNION {[1..k -> Letters] : k \in 1..n}

InOrder(s) == \A i \in DOMAIN s : s[i] = 0 \/ \E j \in 1..(i - 1) : s[j] = s[i] - 1

(* Here the relaxation by two characters at once improves the bounds that  *)
(* the relaxation by single ones leaves.                                   *)
Selecting == << <<0, 1, 2, 3, 4, 3, 2, 0, 1>>, <<1, 0, 3, 2, 4, 0, 1, 3, 2>> >>

MCInputs == ({s \in [1..Length -> Letters] : InOrder(s)} \X StringsUpTo(Length))
                \cup {Selecting}
=============================================================================
