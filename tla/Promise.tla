------------------------------- MODULE Promise -------------------------------
(***************************************************************************)
(* What one run of the program promises its caller, without saying how it  *)
(* keeps the promise: two bounds that close in on the length of a longest  *)
(* repetition-free common subsequence, and a verdict that is "proved" only *)
(* when they have met.  The detailed specification of the program is       *)
(* Orchestration, which is checked and proved to implement this one.       *)
(***************************************************************************)
EXTENDS Integers

CONSTANTS Sigma,    \* the size of the alphabet
          Opt       \* the length of a longest repetition-free common subsequence,
                    \* in 0..Sigma

VARIABLES lo,       \* the length of the best solution found
          hi,       \* the best upper bound derived
          verdict   \* what the run has announced about the two

vars == <<lo, hi, verdict>>

Init == lo = 0 /\ hi = Sigma /\ verdict = "searching"

(* The search finds a longer solution, or derives a better bound, or both. *)
Progress ==
    /\ verdict = "searching"
    /\ lo' \in lo..Opt
    /\ hi' \in Opt..hi
    /\ UNCHANGED verdict

(* The run ends with a proof of optimality ... *)
Prove ==
    /\ verdict = "searching"
    /\ lo' = Opt /\ hi' = Opt
    /\ verdict' = "proved"

(* ... or with the bounds it has, when the exact solver ran out of time ... *)
LeaveOpen ==
    /\ verdict = "searching"
    /\ lo' \in lo..Opt
    /\ hi' \in Opt..hi
    /\ verdict' = "open"

(* ... or without any claim at all.                                        *)
Abandon ==
    /\ verdict = "searching"
    /\ lo' = 0 /\ hi' = Sigma
    /\ verdict' = "abandoned"

Next == Progress \/ Prove \/ LeaveOpen \/ Abandon

Spec == Init /\ [][Next]_vars
=============================================================================
