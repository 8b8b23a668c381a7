------------------------- MODULE CheckSolutionProofs -------------------------
(***************************************************************************)
(* Proofs about CheckSolution, for every alphabet and all lengths.         *)
(*                                                                         *)
(* The check is greedy: it goes to the next occurrence of each character.  *)
(* IInv says what it has found out so far.  Against a solution that is one *)
(* the greedy position is never behind the one in any embedding, so that   *)
(* nothing is rejected; and the positions passed embed all characters but  *)
(* perhaps the last, which is what an accepted candidate is known to have. *)
(***************************************************************************)
EXTENDS CheckSolution, RecursionLemmas

-----------------------------------------------------------------------------
(* The table of next occurrences.                                          *)

(* A string is a function on an initial segment of the numbers.            *)
LEMMA SizeOfString ==
    ASSUME NEW s \in Strings
    PROVE  /\ Size(s) \in Nat \ {0}
           /\ s \in [0..(Size(s) - 1) -> Characters]
           /\ DOMAIN s = 0..(Size(s) - 1)
<1>1. PICK n \in 1..MaxLength : s \in [0..(n - 1) -> Characters]
  BY DEF Strings
<1>2. n \in Nat /\ n > 0
  BY <1>1
<1>3. Cardinality(0..(n - 1)) = n
  BY <1>2, FS_Interval
<1>4. DOMAIN s = 0..(n - 1)
  BY <1>1
<1> QED BY <1>1, <1>2, <1>3, <1>4 DEF Size

(* The table satisfies the equations by which the code fills it.           *)
LEMMA NextOccurrencesUnfold ==
    ASSUME NEW s \in Strings
    PROVE  NextOccurrences(s) =
             [p \in 0..Size(s) |->
                IF p = Size(s) THEN [c \in Characters |-> Size(s)]
                ELSE [c \in Characters |-> IF s[p] = c THEN p ELSE NextOccurrences(s)[p + 1][c]]]
<1> DEFINE n == Size(s)
           D == 0..n
           V == [Characters -> D]
           rank == [p \in D |-> n - p]
           Body(g) == [p \in D |->
                         IF p = n THEN [c \in Characters |-> n]
                         ELSE [c \in Characters |-> IF s[p] = c THEN p ELSE g[p + 1][c]]]
           F == [g \in [D -> V] |-> Body(g)]
           table == CHOOSE g : g = Body(g)
<1>1. NextOccurrences(s) = table
  BY DEF NextOccurrences
<1>2. n \in Nat
  BY SizeOfString
<1> HIDE DEF n
<1>3. V # {}
  <2>1. [c \in Characters |-> n] \in V
    BY <1>2
  <2> QED BY <2>1
<1>4. Descends(F, D, V, rank, n)
  <2>1. rank \in [D -> 0..n]
    BY <1>2
  <2>2. \A g \in [D -> V] : Body(g) \in [D -> V]
    BY <1>2
  <2>3. F \in [[D -> V] -> [D -> V]]
    BY <2>2
  <2>4. \A g, h \in [D -> V] : \A x \in D :
           (\A t \in D : rank[t] < rank[x] => g[t] = h[t]) => F[g][x] = F[h][x]
    <3> SUFFICES ASSUME NEW g \in [D -> V], NEW h \in [D -> V], NEW x \in D,
                        \A t \in D : rank[t] < rank[x] => g[t] = h[t]
                 PROVE  F[g][x] = F[h][x]
      BY Zenon
    <3>1. x # n => g[x + 1] = h[x + 1]
      BY <1>2
    <3> QED BY <3>1, <1>2
  <2> HIDE DEF D, V, F, rank
  <2> QED BY <1>2, <2>1, <2>3, <2>4 DEF Descends
<1>5. PICK g \in [D -> V] : F[g] = g
  <2> HIDE DEF D, V, F, rank
  <2> QED BY <1>3, <1>4, RecursionHasSolution
<1>6. g = Body(g)
  BY <1>5
<1>7. table = Body(table)
  <2> HIDE DEF Body
  <2> QED BY <1>6
<1> HIDE DEF table
<1> QED BY <1>1, <1>7 DEF n

(* What it holds: the first position from p on at which c occurs, and the  *)
(* size of the string if there is none.                                    *)
LEMMA NextOccurrence ==
    ASSUME NEW s \in Strings, NEW p \in 0..Size(s), NEW c \in Characters
    PROVE  /\ NextOccurrences(s)[p][c] \in p..Size(s)
           /\ \A r \in DOMAIN s : p <= r /\ r < NextOccurrences(s)[p][c] => s[r] # c
           /\ NextOccurrences(s)[p][c] < Size(s) => s[NextOccurrences(s)[p][c]] = c
<1> DEFINE n == Size(s)
           first(q) == NextOccurrences(s)[q][c]
           Holds(q) == /\ first(q) \in q..n
                       /\ \A r \in DOMAIN s : q <= r /\ r < first(q) => s[r] # c
                       /\ first(q) < n => s[first(q)] = c
           T == {q \in 0..n : ~Holds(q)}
           rank == [q \in 0..n |-> n - q]
<1>1. n \in Nat /\ DOMAIN s = 0..(n - 1)
  BY SizeOfString
<1>2. \A q \in 0..n : first(q) = IF q = n THEN n ELSE IF s[q] = c THEN q ELSE first(q + 1)
  <2> SUFFICES ASSUME NEW q \in 0..n
               PROVE  first(q) = IF q = n THEN n ELSE IF s[q] = c THEN q ELSE first(q + 1)
    OBVIOUS
  <2>1. NextOccurrences(s)[q] =
           IF q = n THEN [e \in Characters |-> n]
           ELSE [e \in Characters |-> IF s[q] = e THEN q ELSE NextOccurrences(s)[q + 1][e]]
    BY NextOccurrencesUnfold
  <2> QED BY <2>1
<1> HIDE DEF n, first
<1>3. T = {}
  <2> SUFFICES ASSUME T # {} PROVE FALSE
    OBVIOUS
  <2>1. rank \in [0..n -> Nat] /\ T \subseteq 0..n
    BY <1>1
  <2> HIDE DEF T, rank
  <2>2. PICK q \in T : \A r \in T : rank[q] <= rank[r]
    BY <2>1, LeastRank
  <2>3. q \in 0..n
    BY <2>1
  <2> USE DEF T, rank
  <2>4. CASE q = n
    BY <1>1, <1>2, <2>4
  <2>5. CASE q # n /\ s[q] = c
    BY <1>1, <1>2, <2>5, <2>3
  <2>6. CASE q # n /\ s[q] # c
    <3>1. q + 1 \in 0..n /\ first(q) = first(q + 1)
      BY <1>1, <1>2, <2>6, <2>3
    <3>2. Holds(q + 1)
      <4>1. q + 1 \notin T
        BY <3>1, <2>2, <2>3, <1>1
      <4> HIDE DEF Holds
      <4> QED BY <4>1, <3>1
    <3>3. first(q) \in q..n /\ (first(q) < n => s[first(q)] = c)
      BY <3>1, <3>2, <1>1, <2>3
    <3>4. \A r \in DOMAIN s : q <= r /\ r < first(q) => s[r] # c
      <4> SUFFICES ASSUME NEW r \in DOMAIN s, q <= r, r < first(q) PROVE s[r] # c
        OBVIOUS
      <4>1. CASE r = q
        BY <4>1, <2>6
      <4>2. CASE r # q
        BY <4>2, <3>1, <3>2, <1>1, <2>3
      <4> QED BY <4>1, <4>2
    <3> QED BY <3>3, <3>4
  <2> QED BY <2>4, <2>5, <2>6
<1>4. Holds(p)
  <2> HIDE DEF Holds
  <2> QED BY <1>3 DEF n
<1> QED BY <1>4 DEF n, first

-----------------------------------------------------------------------------
(* The inductive invariant.                                                *)

CheckTypeOK ==
    /\ string1 \in Strings /\ string2 \in Strings
    /\ solution \in Candidates /\ Len(solution) \in Nat
    /\ solution \in [1..Len(solution) -> Characters]
    /\ next \in 0..Len(solution)
    /\ position1 \in 0..Size(string1) /\ position2 \in 0..Size(string2)
    /\ verdict \in {"checking", "accepted", "rejected"}

(* The characters looked at are different, and kept as a set.              *)
SeenDiffer ==
    /\ characters = {solution[i] : i \in 1..next}
    /\ \A i, j \in 1..next : solution[i] = solution[j] => i = j

(* at embeds w in s.                                                       *)
Embeds(at, w, s) ==
    /\ \A i \in DOMAIN w : s[at[i]] = w[i]
    /\ \A i, j \in DOMAIN w : i < j => at[i] < at[j]

(* After k characters of w the search in s, now at position p, is not      *)
(* behind any embedding of w.                                              *)
NotBehind(w, k, s, p) ==
    /\ k = 0 => p = 0
    /\ k > 0 => \A at \in [DOMAIN w -> DOMAIN s] : Embeds(at, w, s) => p <= at[k]

(* The positions passed increase, and each one that the string still has   *)
(* holds the character it was searched for.                                *)
Passed(at, w, k, s, p) ==
    /\ \A i \in 1..k : at[i] < Size(s) => s[at[i]] = w[i]
    /\ \A i, j \in 1..k : i < j => at[i] < at[j]
    /\ k > 0 => at[k] = p

IsGreedy(w, k, s, p) ==
    NotBehind(w, k, s, p) /\ \E at \in [1..k -> 0..Size(s)] : Passed(at, w, k, s, p)

GreedyInBoth ==
    IsGreedy(solution, next, string1, position1) /\ IsGreedy(solution, next, string2, position2)

IInv ==
    /\ CheckTypeOK
    /\ verdict # "rejected" => SeenDiffer /\ GreedyInBoth
    /\ verdict = "accepted" => next = Len(solution) /\ lower = Len(solution)
    /\ verdict = "rejected" => ~IsSolution

-----------------------------------------------------------------------------
(* The search in one string.                                               *)

(* A character that is not the last one seen is searched for: the search   *)
(* stays greedy.                                                           *)
LEMMA GreedyAdvances ==
    ASSUME NEW s \in Strings, NEW p \in 0..Size(s), p < Size(s),
           NEW n \in Nat, NEW w \in [1..n -> Characters], NEW k \in 0..n, k < n,
           \A i \in 1..k : w[i] # w[k + 1],
           IsGreedy(w, k, s, p)
    PROVE  IsGreedy(w, k + 1, s, NextOccurrences(s)[p][w[k + 1]])
<1> DEFINE c == w[k + 1]
           q == NextOccurrences(s)[p][c]
<1>1. /\ Size(s) \in Nat /\ DOMAIN s = 0..(Size(s) - 1)
      /\ k \in Nat /\ k + 1 \in 1..n /\ c \in Characters /\ DOMAIN w = 1..n
  BY SizeOfString
<1>2. /\ q \in p..Size(s)
      /\ \A r \in DOMAIN s : p <= r /\ r < q => s[r] # c
      /\ q < Size(s) => s[q] = c
  BY <1>1, NextOccurrence
<1> HIDE DEF q
<1>3. NotBehind(w, k + 1, s, q)
  <2> SUFFICES ASSUME NEW at \in [DOMAIN w -> DOMAIN s], Embeds(at, w, s)
               PROVE  q <= at[k + 1]
    BY <1>1 DEF NotBehind
  <2>1. at[k + 1] \in DOMAIN s /\ s[at[k + 1]] = c
    BY <1>1 DEF Embeds
  <2>2. p <= at[k + 1]
    <3>1. CASE k = 0
      BY <3>1, <2>1, <1>1 DEF IsGreedy, NotBehind
    <3>2. CASE k > 0
      <4>1. k \in DOMAIN w /\ at[k] < at[k + 1]
        BY <3>2, <1>1 DEF Embeds
      <4>2. p <= at[k] /\ at[k] \in 0..(Size(s) - 1)
        BY <3>2, <1>1, <4>1 DEF IsGreedy, NotBehind
      <4> QED BY <4>1, <4>2, <2>1, <1>1
    <3> QED BY <3>1, <3>2, <1>1
  <2> QED BY <2>1, <2>2, <1>1, <1>2
<1>4. PICK at \in [1..k -> 0..Size(s)] : Passed(at, w, k, s, p)
  BY DEF IsGreedy
<1> DEFINE more == [i \in 1..(k + 1) |-> IF i = k + 1 THEN q ELSE at[i]]
<1>5. /\ more \in [1..(k + 1) -> 0..Size(s)]
      /\ more[k + 1] = q
      /\ \A i \in 1..k : more[i] = at[i] /\ i \in 1..(k + 1)
      /\ \A i \in 1..(k + 1) : i = k + 1 \/ i \in 1..k
  BY <1>1, <1>2
<1> HIDE DEF more
<1>6. \A i \in 1..k : at[i] < q
  <2>1. CASE k = 0
    BY <2>1
  <2>2. CASE k > 0
    <3>1. k \in 1..k /\ at[k] = p /\ s[p] = w[k] /\ w[k] # c
      BY <2>2, <1>1, <1>4 DEF Passed
    <3>2. p < q
      BY <3>1, <1>1, <1>2
    <3> QED BY <3>1, <3>2, <1>1, <1>2, <1>4 DEF Passed
  <2> QED BY <2>1, <2>2, <1>1
<1>7. Passed(more, w, k + 1, s, q)
  <2>1. \A i \in 1..(k + 1) : more[i] < Size(s) => s[more[i]] = w[i]
    BY <1>2, <1>4, <1>5 DEF Passed
  <2>2. \A i, j \in 1..(k + 1) : i < j => more[i] < more[j]
    <3> SUFFICES ASSUME NEW i \in 1..(k + 1), NEW j \in 1..(k + 1), i < j
                 PROVE  more[i] < more[j]
      OBVIOUS
    <3>1. i \in 1..k
      BY <1>1
    <3> QED BY <3>1, <1>4, <1>5, <1>6 DEF Passed
  <2> QED BY <2>1, <2>2, <1>5 DEF Passed
<1> QED BY <1>3, <1>5, <1>7 DEF IsGreedy, q

(* A common subsequence is never out of characters before its end.         *)
LEMMA GreedyHasCharacters ==
    ASSUME NEW s \in Strings, NEW p \in 0..Size(s),
           NEW n \in Nat, NEW w \in [1..n -> Characters], NEW k \in 0..n,
           IsGreedy(w, k, s, p), IsSubsequence(w, s)
    PROVE  p < Size(s)
<1>1. Size(s) \in Nat \ {0} /\ DOMAIN s = 0..(Size(s) - 1) /\ DOMAIN w = 1..n
  BY SizeOfString
<1>2. PICK at \in [DOMAIN w -> DOMAIN s] : Embeds(at, w, s)
  BY DEF IsSubsequence, Embeds
<1>3. CASE k = 0
  BY <1>3, <1>1 DEF IsGreedy, NotBehind
<1>4. CASE k > 0
  <2>1. k \in DOMAIN w
    BY <1>1, <1>4
  <2>2. at[k] \in 0..(Size(s) - 1)
    BY <2>1, <1>1
  <2>3. p <= at[k]
    BY <1>2, <1>4 DEF IsGreedy, NotBehind
  <2> QED BY <2>2, <2>3, <1>1
<1> QED BY <1>3, <1>4

(* What has been passed is a subsequence, but for its last character.      *)
LEMMA GreedyEmbedsAllButLast ==
    ASSUME NEW s \in Strings, NEW p \in 0..Size(s),
           NEW n \in Nat \ {0}, NEW w \in [1..n -> Characters], IsGreedy(w, n, s, p)
    PROVE  IsSubsequence(SubSeq(w, 1, n - 1), s)
<1>1. Size(s) \in Nat \ {0} /\ DOMAIN s = 0..(Size(s) - 1) /\ w \in Seq(Characters) /\ Len(w) = n
  BY SizeOfString
<1>2. PICK at \in [1..n -> 0..Size(s)] : Passed(at, w, n, s, p)
  BY DEF IsGreedy
<1> DEFINE v == SubSeq(w, 1, n - 1)
           fewer == [i \in 1..(n - 1) |-> at[i]]
<1>3. DOMAIN v = 1..(n - 1) /\ \A i \in 1..(n - 1) : v[i] = w[i]
  BY <1>1
<1>4. \A i \in 1..(n - 1) : at[i] < Size(s)
  <2> SUFFICES ASSUME NEW i \in 1..(n - 1) PROVE at[i] < Size(s)
    OBVIOUS
  <2>1. at[i] < at[n] /\ at[n] \in 0..Size(s) /\ at[i] \in 0..Size(s)
    BY <1>2 DEF Passed
  <2> QED BY <2>1, <1>1
<1>5. fewer \in [DOMAIN v -> DOMAIN s]
  BY <1>1, <1>3, <1>4
<1>6. \A i \in DOMAIN v : s[fewer[i]] = v[i]
  BY <1>2, <1>3, <1>4 DEF Passed
<1>7. \A i, j \in DOMAIN v : i < j => fewer[i] < fewer[j]
  BY <1>2, <1>3 DEF Passed
<1> HIDE DEF fewer, v
<1>8. IsSubsequence(v, s)
  BY <1>5, <1>6, <1>7 DEF IsSubsequence
<1> QED BY <1>8 DEF v

-----------------------------------------------------------------------------
(* The invariant is inductive.                                             *)

(* It holds before the first character.                                    *)
LEMMA Initially == Init => IInv
<1> SUFFICES ASSUME Init PROVE IInv
  OBVIOUS
<1> USE DEF Init
<1>1. CheckTypeOK
  <2>1. PICK n \in 0..MaxSolution : solution \in [1..n -> Characters]
    BY DEF Candidates
  <2>2. n \in Nat /\ Len(solution) = n
    BY <2>1, CheckSolutionAssumption
  <2>3. Size(string1) \in Nat /\ Size(string2) \in Nat
    BY SizeOfString
  <2> QED BY <2>1, <2>2, <2>3 DEF CheckTypeOK
<1>2. SeenDiffer
  BY DEF SeenDiffer
<1>3. ASSUME NEW s \in Strings PROVE IsGreedy(solution, 0, s, 0)
  <2> DEFINE at == [i \in 1..0 |-> 0]
  <2>1. at \in [1..0 -> 0..Size(s)] /\ Passed(at, solution, 0, s, 0)
    BY DEF Passed
  <2>2. NotBehind(solution, 0, s, 0)
    BY DEF NotBehind
  <2> HIDE DEF at
  <2> QED BY <2>1, <2>2 DEF IsGreedy
<1>4. GreedyInBoth
  BY <1>3 DEF GreedyInBoth
<1> QED BY <1>1, <1>2, <1>4 DEF IInv

(* The characters seen, when all differ, are as many as have been seen.    *)
LEMMA CountSeen ==
    ASSUME CheckTypeOK, SeenDiffer
    PROVE  Cardinality(characters) = next
<1> DEFINE f == [i \in 1..next |-> solution[i]]
<1>1. next \in Nat
  BY DEF CheckTypeOK
<1>2. f \in Bijection(1..next, characters)
  BY DEF SeenDiffer, Bijection, Injection, IsInjective, Surjection
<1> QED BY <1>1, <1>2, FS_CountingElements DEF ExistsBijection

(* A rejection for lack of characters, or for a repetition, is right.      *)
LEMMA RejectionIsRight ==
    ASSUME IInv, verdict = "checking",
           \/ RejectOutOfStrings
           \/ RejectRepetition
           \/ RejectLength
    PROVE  ~IsSolution
<1> SUFFICES ASSUME IsSolution PROVE FALSE
  OBVIOUS
<1> DEFINE n == Len(solution)
<1>1. /\ CheckTypeOK /\ SeenDiffer
      /\ IsGreedy(solution, next, string1, position1)
      /\ IsGreedy(solution, next, string2, position2)
  BY DEF IInv, GreedyInBoth
<1>2. /\ IsSubsequence(solution, string1) /\ IsSubsequence(solution, string2)
      /\ IsRepetitionFree(solution) /\ n = lower
      /\ n \in Nat /\ solution \in [1..n -> Characters] /\ next \in 0..n
  BY <1>1 DEF IsSolution, IsCommon, CheckTypeOK
<1> HIDE DEF n
<1>3. CASE RejectOutOfStrings
  <2>1. position1 < Size(string1) /\ position2 < Size(string2)
    BY <1>1, <1>2, GreedyHasCharacters DEF CheckTypeOK
  <2>2. position1 \in Nat /\ position2 \in Nat /\ Size(string1) \in Nat /\ Size(string2) \in Nat
    BY <1>1, SizeOfString DEF CheckTypeOK
  <2> QED BY <1>3, <2>1, <2>2 DEF RejectOutOfStrings, OutOfStrings
<1>4. CASE RejectRepetition
  <2>1. next + 1 \in DOMAIN solution /\ 1..next \subseteq DOMAIN solution
    BY <1>2, <1>4 DEF RejectRepetition, MoreToCheck, n
  <2>2. PICK i \in 1..next : solution[i] = solution[next + 1]
    BY <1>1, <1>4 DEF RejectRepetition, SeenDiffer, Current
  <2>3. i = next + 1
    BY <2>1, <2>2, <1>2 DEF IsRepetitionFree
  <2> QED BY <2>3, <1>2
<1>5. CASE RejectLength
  <2>1. Cardinality(characters) = next
    BY <1>1, CountSeen
  <2> QED BY <2>1, <1>2, <1>5 DEF RejectLength, AllChecked, n
<1> QED BY <1>3, <1>4, <1>5

(* Whatever rejects only what is no solution preserves the invariant.      *)
LEMMA RejectPreserves ==
    ASSUME IInv, verdict = "checking", Reject, ~IsSolution
    PROVE  IInv'
<1>1. CheckTypeOK' /\ (~IsSolution)'
  BY DEF IInv, Reject, CheckTypeOK, given, IsSolution, IsCommon
<1> QED BY <1>1 DEF IInv, Reject

(* So does looking at one more character ...                               *)
LEMMA NextCharacterPreserves == IInv /\ NextCharacter => IInv'
<1> SUFFICES ASSUME IInv, NextCharacter PROVE IInv'
  OBVIOUS
<1> DEFINE n == Len(solution)
<1>1. /\ verdict = "checking" /\ verdict' = verdict /\ next < n /\ next' = next + 1
      /\ solution' = solution /\ string1' = string1 /\ string2' = string2
      /\ Current \notin characters /\ characters' = characters \cup {Current}
      /\ position1' = NextOccurrences(string1)[position1][Current]
      /\ position2' = NextOccurrences(string2)[position2][Current]
      /\ ~OutOfStrings
  BY DEF NextCharacter, Advances, MoreToCheck, given
<1>2. /\ CheckTypeOK /\ SeenDiffer
      /\ IsGreedy(solution, next, string1, position1)
      /\ IsGreedy(solution, next, string2, position2)
  BY <1>1 DEF IInv, GreedyInBoth
<1>3. /\ string1 \in Strings /\ string2 \in Strings /\ n \in Nat
      /\ solution \in [1..n -> Characters] /\ next \in 0..n /\ next + 1 \in 1..n
      /\ position1 \in 0..Size(string1) /\ position2 \in 0..Size(string2)
      /\ Size(string1) \in Nat /\ Size(string2) \in Nat
  BY <1>1, <1>2, SizeOfString DEF CheckTypeOK
<1>4. position1 < Size(string1) /\ position2 < Size(string2)
  BY <1>1, <1>3 DEF OutOfStrings
<1>5. Current = solution[next + 1] /\ Current \in Characters
  BY <1>3 DEF Current
<1>6. \A i \in 1..next : solution[i] # solution[next + 1]
  BY <1>1, <1>2, <1>5 DEF SeenDiffer
<1>7. CheckTypeOK'
  <2>1. position1' \in 0..Size(string1) /\ position2' \in 0..Size(string2)
    <3>1. position1' \in position1..Size(string1) /\ position2' \in position2..Size(string2)
      BY <1>1, <1>3, <1>5, NextOccurrence
    <3> QED BY <3>1, <1>3
  <2> QED BY <1>1, <1>2, <1>3, <2>1 DEF CheckTypeOK
<1> HIDE DEF n
<1>8. SeenDiffer'
  <2>1. 1..(next + 1) = 1..next \cup {next + 1}
    BY <1>3
  <2> QED BY <1>1, <1>2, <1>5, <1>6, <2>1 DEF SeenDiffer
<1>9. GreedyInBoth'
  <2>1. /\ IsGreedy(solution, next + 1, string1, NextOccurrences(string1)[position1][solution[next + 1]])
        /\ IsGreedy(solution, next + 1, string2, NextOccurrences(string2)[position2][solution[next + 1]])
    BY <1>1, <1>2, <1>3, <1>4, <1>6, GreedyAdvances DEF n
  <2> QED BY <1>1, <1>5, <2>1 DEF GreedyInBoth
<1> QED BY <1>1, <1>7, <1>8, <1>9 DEF IInv

(* ... and accepting, which the final test never prevents.                 *)
LEMMA FinishPreserves == IInv /\ Finish => IInv'
<1> SUFFICES ASSUME IInv, Finish PROVE IInv'
  OBVIOUS
<1>1. /\ verdict = "checking" /\ next = Len(solution) /\ Cardinality(characters) = lower
      /\ solution' = solution /\ string1' = string1 /\ string2' = string2 /\ lower' = lower
      /\ next' = next /\ characters' = characters
      /\ position1' = position1 /\ position2' = position2
  BY DEF Finish, AllChecked, given
<1>2. CheckTypeOK /\ SeenDiffer /\ GreedyInBoth
  BY <1>1 DEF IInv
<1>3. ~FinalTestFails
  <2>1. /\ position1 \in 0..Size(string1) /\ Size(string1) \in Nat
        /\ position2 \in 0..Size(string2) /\ Size(string2) \in Nat
    BY <1>2, SizeOfString DEF CheckTypeOK
  <2> QED BY <2>1 DEF FinalTestFails
<1>4. verdict' = "accepted"
  BY <1>3 DEF Finish
<1>5. CheckTypeOK' /\ SeenDiffer' /\ GreedyInBoth'
  BY <1>1, <1>2, <1>4 DEF CheckTypeOK, SeenDiffer, GreedyInBoth
<1>6. lower = Len(solution)
  BY <1>1, <1>2, CountSeen
<1> QED BY <1>1, <1>4, <1>5, <1>6 DEF IInv

(* Every step preserves it, so that it always holds.                       *)
LEMMA Preserved == IInv /\ [Next]_vars => IInv'
<1> SUFFICES ASSUME IInv, [Next]_vars PROVE IInv'
  OBVIOUS
<1>1. CASE RejectOutOfStrings
  <2>1. Reject /\ verdict = "checking"
    BY <1>1 DEF RejectOutOfStrings, MoreToCheck
  <2> QED BY <1>1, <2>1, RejectionIsRight, RejectPreserves
<1>2. CASE RejectRepetition
  <2>1. Reject /\ verdict = "checking"
    BY <1>2 DEF RejectRepetition, MoreToCheck
  <2> QED BY <1>2, <2>1, RejectionIsRight, RejectPreserves
<1>3. CASE NextCharacter
  BY <1>3, NextCharacterPreserves
<1>4. CASE RejectLength
  <2>1. Reject /\ verdict = "checking"
    BY <1>4 DEF RejectLength, AllChecked
  <2> QED BY <1>4, <2>1, RejectionIsRight, RejectPreserves
<1>5. CASE Finish
  BY <1>5, FinishPreserves
<1>6. CASE UNCHANGED vars
  <2> USE <1>6 DEF vars, given
  <2>1. CheckTypeOK' = CheckTypeOK /\ SeenDiffer' = SeenDiffer
    BY DEF CheckTypeOK, SeenDiffer
  <2>2. GreedyInBoth' = GreedyInBoth
    BY DEF GreedyInBoth
  <2>3. IsSolution' = IsSolution
    BY DEF IsSolution, IsCommon
  <2> QED BY <2>1, <2>2, <2>3 DEF IInv
<1> QED BY <1>1, <1>2, <1>3, <1>4, <1>5, <1>6 DEF Next

(* What the search has found out is always what IInv says.                 *)
THEOREM Invariance == Spec => []IInv
<1>1. QED
  BY Initially, Preserved, PTL DEF Spec

-----------------------------------------------------------------------------
(* check_solution never rejects a repetition-free common subsequence of    *)
(* the claimed length (main.cpp:210-244).                                  *)
THEOREM SolutionsAreAccepted == Spec => []AcceptsSolutions
<1>1. IInv => AcceptsSolutions
  BY DEF IInv, AcceptsSolutions
<1> QED BY <1>1, Invariance, PTL

(* What it accepts is repetition-free, as long as claimed, and a common    *)
(* subsequence but for its last character.                                 *)
THEOREM AcceptedIsCommonUpToLast == Spec => []AcceptedUpToLast
<1>1. IInv => AcceptedUpToLast
  <2> SUFFICES ASSUME IInv, verdict = "accepted"
               PROVE  /\ IsRepetitionFree(solution)
                      /\ Len(solution) = lower
                      /\ solution # <<>> => IsCommon(SubSeq(solution, 1, lower - 1))
    BY DEF AcceptedUpToLast
  <2>1. /\ next = Len(solution) /\ lower = Len(solution) /\ CheckTypeOK /\ SeenDiffer
        /\ IsGreedy(solution, next, string1, position1)
        /\ IsGreedy(solution, next, string2, position2)
    BY DEF IInv, GreedyInBoth
  <2>2. Len(solution) \in Nat /\ solution \in [1..Len(solution) -> Characters]
    BY <2>1 DEF CheckTypeOK
  <2>3. IsRepetitionFree(solution)
    BY <2>1, <2>2 DEF SeenDiffer, IsRepetitionFree
  <2>4. ASSUME solution # <<>> PROVE IsCommon(SubSeq(solution, 1, lower - 1))
    <3>1. Len(solution) # 0
      BY <2>2, <2>4
    <3>2. Len(solution) \in Nat \ {0}
      BY <3>1, <2>2
    <3> QED BY <2>1, <2>2, <3>2, GreedyEmbedsAllButLast DEF IsCommon, CheckTypeOK
  <2> QED BY <2>1, <2>3, <2>4
<1> QED BY <1>1, Invariance, PTL
=============================================================================
