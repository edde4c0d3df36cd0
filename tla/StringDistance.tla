---------------------------- MODULE StringDistance ----------------------------
(***************************************************************************)
(* The string metrics of internal/services/identity/scorer.go, on sequences  *)
(* of letters.  A similarity is in thousandths, rounded down: the code       *)
(* asks of all but one whether it is at least a multiple of 0.01.            *)
(***************************************************************************)
EXTENDS Integers, Sequences, FiniteSets, FiniteSetsExt

\* One row of the table, from the row above it: its entry for the first j
\* letters of b is at j + 1.
NextRow(above, i, x, b) ==
  LET row[j \in 0..Len(b)] ==
        IF j = 0 THEN <<i>>
        ELSE LET left == row[j - 1]
             IN  Append(left, Min({above[j + 1] + 1, left[j] + 1,
                                     above[j] + (IF x = b[j] THEN 0 ELSE 1)}))
  IN  row[Len(b)]

\* levenshtein: dynamic programming, row by row.
Levenshtein(a, b) ==
  LET table[i \in 0..Len(a)] ==
        IF i = 0 THEN [j \in 1..Len(b) + 1 |-> j - 1]
        ELSE NextRow(table[i - 1], i, a[i], b)
  IN  table[Len(a)][Len(b) + 1]

LevenshteinSim(a, b) ==
  LET longest == Max({Len(a), Len(b)})
  IN  IF longest = 0 THEN 1000 ELSE (1000 * (longest - Levenshtein(a, b))) \div longest

\* jaroSim pairs each letter of a with the first equal letter of b that is near
\* enough and free: the set of <<index in a, index in b>>.
JaroMatches(a, b) ==
  LET near == Max({Max({Len(a), Len(b)}) \div 2 - 1, 0})
      upto[i \in 0..Len(a)] ==
        IF i = 0 THEN {}
        ELSE LET found == upto[i - 1]
                 free  == {j \in DOMAIN b : /\ a[i] = b[j] /\ j - i \in -near..near
                                            /\ \A m \in found : m[2] # j}
             IN  IF free = {} THEN found ELSE found \cup {<<i, Min(free)>>}
  IN  upto[Len(a)]

\* Matched letters of a that differ from the matched letter of b with their rank.
Transpositions(a, b, matches) ==
  LET rank(S, x) == Cardinality({y \in S : y <= x})
      inA == {m[1] : m \in matches}
      inB == {m[2] : m \in matches}
  IN  Cardinality({i \in inA : \E j \in inB : rank(inA, i) = rank(inB, j) /\ a[i] # b[j]})

\* jaroWinkler, of m matched letters with t out of order: the similarity of
\* jaroSim, num / den, and a bonus for each of the first four letters that agree.
\* It is x / (10 * y) for the result <<x, y>>.
Winkler(a, b, m, t) ==
  LET num == 2 * m * m * (Len(a) + Len(b)) + (2 * m - t) * Len(a) * Len(b)
      den == 6 * m * Len(a) * Len(b)
      prefix == Max({k \in 0..4 : /\ k <= Len(a) /\ k <= Len(b)
                                  /\ \A i \in 1..k : a[i] = b[i]})
  IN  IF m = 0 THEN <<0, 1>> ELSE <<(10 - prefix) * num + prefix * den, den>>

JaroWinklerTenths(a, b) ==
  IF a = b THEN <<10, 1>>
  ELSE LET matches == JaroMatches(a, b)
       IN  Winkler(a, b, Cardinality(matches), Transpositions(a, b, matches))

JaroWinkler(a, b) ==
  LET tenths == JaroWinklerTenths(a, b) IN (100 * tenths[1]) \div tenths[2]

\* At most n tenths, not rounded.
JaroWinklerAtMost(a, b, n) ==
  LET tenths == JaroWinklerTenths(a, b) IN tenths[1] <= n * tenths[2]
=============================================================================
