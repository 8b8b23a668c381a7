---------------------------- MODULE CheckSolution ----------------------------
(***************************************************************************)
(* check_solution (main.cpp:210-244), which goes through the solution of a *)
(* run once more and withdraws is_valid_solution if anything is wrong with *)
(* it, and the tables it looks positions up in (graph_creation.cpp:145).   *)
(* The candidates are whatever a solver may hand over, right or wrong: one *)
(* that has read a torn layout hands over anything.                        *)
(*                                                                         *)
(* Positions count from 0 as in the code; a string is a function on        *)
(* 0..(n - 1), so that n stands for "no occurrence".                       *)
(***************************************************************************)
EXTENDS Integers, Sequences, FiniteSets

CONSTANTS
    Sigma,        \* alphabet_size
    MaxLength,    \* of the two strings
    MaxSolution   \* length of a candidate

ASSUME CheckSolutionAssumption ==
    Sigma \in Nat \ {0} /\ MaxLength \in Nat \ {0} /\ MaxSolution \in Nat

Characters == 0..(Sigma - 1)
Strings == UNION {[0..(n - 1) -> Characters] : n \in 1..MaxLength}
Candidates == UNION {[1..n -> Characters] : n \in 0..MaxSolution}

VARIABLES
    string1, string2,       \* string_1, string_2
    solution,               \* solution
    lower,                  \* lower_bound
    valid,                  \* is_valid_solution
    next,                   \* how many characters have been looked at
    characters,             \* the ones among them
    position1, position2,   \* where the search for the next one begins
    verdict                 \* what check_solution came to

given == <<string1, string2, solution, lower>>
vars == <<given, valid, next, characters, position1, position2, verdict>>

Size(s) == Cardinality(DOMAIN s)

-----------------------------------------------------------------------------
(* create_next_occurrences fills the table from the end of the string.     *)
NextOccurrencesBehind(s) ==   \* mutant: an occurrence at the position itself is missed
    LET table[p \in 0..Size(s)] ==
          IF p = Size(s) THEN [c \in Characters |-> Size(s)]
          ELSE [c \in Characters |-> IF p + 1 < Size(s) /\ s[p + 1] = c
                                     THEN p + 1 ELSE table[p + 1][c]]
    IN  table

NextOccurrences(s) ==
    LET table[p \in 0..Size(s)] ==
          IF p = Size(s) THEN [c \in Characters |-> Size(s)]
          ELSE [c \in Characters |-> IF s[p] = c THEN p ELSE table[p + 1][c]]
    IN  table

Init ==
    /\ string1 \in Strings /\ string2 \in Strings
    /\ solution \in Candidates
    /\ lower \in 0..MaxSolution
    /\ valid \in BOOLEAN
    /\ next = 0
    /\ characters = {}
    /\ position1 = 0 /\ position2 = 0
    /\ verdict = "checking"

MoreToCheck == verdict = "checking" /\ next < Len(solution)
Current == solution[next + 1]

OutOfStrings == position1 >= Size(string1) \/ position2 >= Size(string2)

Reject ==
    /\ verdict' = "rejected"
    /\ valid' = FALSE
    /\ UNCHANGED <<given, next, characters, position1, position2>>

RejectOutOfStrings == MoreToCheck /\ OutOfStrings /\ Reject

RejectRepetition == MoreToCheck /\ ~OutOfStrings /\ Current \in characters /\ Reject

AdvancesUnlessRepeatedAtOnce ==   \* mutant: only a neighbour counts as a repetition
    MoreToCheck /\ ~OutOfStrings /\ \A i \in {next} \cap DOMAIN solution : Current # solution[i]

Advances == MoreToCheck /\ ~OutOfStrings /\ Current \notin characters

NextCharacter ==
    /\ Advances
    /\ characters' = characters \cup {Current}
    /\ position1' = NextOccurrences(string1)[position1][Current]
    /\ position2' = NextOccurrences(string2)[position2][Current]
    /\ next' = next + 1
    /\ UNCHANGED <<given, valid, verdict>>

AllChecked == verdict = "checking" /\ next = Len(solution)

RejectLength == AllChecked /\ Cardinality(characters) # lower /\ Reject

(* The final test comes to nothing: no position exceeds the size.          *)
FinalTestFails == position1 > Size(string1) \/ position2 > Size(string2)

Finish ==
    /\ AllChecked /\ Cardinality(characters) = lower
    /\ IF FinalTestFails THEN verdict' = "rejected" /\ valid' = FALSE
                         ELSE verdict' = "accepted" /\ UNCHANGED valid
    /\ UNCHANGED <<given, next, characters, position1, position2>>

Next == \/ RejectOutOfStrings \/ RejectRepetition \/ NextCharacter
        \/ RejectLength \/ Finish

Spec == Init /\ [][Next]_vars

-----------------------------------------------------------------------------
(* The reference: a common subsequence.                                    *)
IsSubsequence(w, s) ==
    \E at \in [DOMAIN w -> DOMAIN s] :
       /\ \A i \in DOMAIN w : s[at[i]] = w[i]
       /\ \A i, j \in DOMAIN w : i < j => at[i] < at[j]

IsCommon(w) == IsSubsequence(w, string1) /\ IsSubsequence(w, string2)

IsRepetitionFree(w) == \A i, j \in DOMAIN w : w[i] = w[j] => i = j

IsSolution == IsRepetitionFree(solution) /\ IsCommon(solution) /\ Len(solution) = lower

(* check_solution never rejects a solution that is one.                    *)
AcceptsSolutions == IsSolution => verdict # "rejected"

(* What passes the check is repetition-free and as long as claimed, and a  *)
(* common subsequence up to its last character.                            *)
AcceptedUpToLast ==
    verdict = "accepted" => /\ IsRepetitionFree(solution)
                            /\ Len(solution) = lower
                            /\ solution # <<>> => IsCommon(SubSeq(solution, 1, lower - 1))

(* main.cpp:239-243, "Strings are out of characters.": the final test is   *)
(* there for a last character that the strings no longer have.             *)
LastCharacterIsChecked == verdict = "accepted" => IsCommon(solution)
=============================================================================
