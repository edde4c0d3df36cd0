--------------------------- MODULE DetectionProofs ---------------------------
(***************************************************************************)
(* Proofs about Detection, for any customers, settings and order of the pairs *)
(* and of the members of a group.                                            *)
(*                                                                         *)
(* The groups are the connected components of the accepted pairs.  The       *)
(* union-find, whatever is joined and compressed in whatever order, keeps a   *)
(* forest whose trees are what the joined pairs link (GroupInv), and the      *)
(* buckets, outside their blind spots, keep apart only customers that score   *)
(* nothing (BucketsSuffice).  The reports keep their word (ReportAgrees): what *)
(* they say does not change with the order of the members or with             *)
(* normalization.  And the trees stay flat (RootsAreHeavy).                   *)
(*                                                                         *)
(* The recursive functions of the model are unfolded by lemmas that speak of   *)
(* sets and functions: Climb is induction, Recursion and TypedRecursion say    *)
(* that a recursion up to a bound has a solution.                            *)
(***************************************************************************)
EXTENDS Detection, FiniteSetTheorems, WellFoundedInduction, TLAPS

-----------------------------------------------------------------------------
\* Induction and recursion over the naturals up to a bound.

\* A set of naturals has a least element.
LEMMA LeastElement ==
  ASSUME NEW T \in SUBSET Nat, T # {}
  PROVE  \E m \in T : \A k \in T : m <= k
<1>1. IsWellFoundedOn(OpToRel(<, Nat), Nat)
  BY NatLessThanWellFounded
<1>2. PICK m \in T : \A k \in T : <<k, m>> \notin OpToRel(<, Nat)
  BY <1>1, WFMin
<1>3. \A k \in T : ~ (k < m)
  BY <1>2 DEF OpToRel
<1> QED
  BY <1>3

\* What holds of 0, and of k when it holds of k - 1, holds up to the bound.
LEMMA Climb ==
  ASSUME NEW n \in Nat, NEW Good, 0 \in Good, \A k \in 1..n : k - 1 \in Good => k \in Good
  PROVE  \A k \in 0..n : k \in Good
<1> DEFINE Bad == {k \in 0..n : k \notin Good}
<1>1. ASSUME Bad # {} PROVE FALSE
  <2>1. PICK m \in Bad : \A k \in Bad : m <= k
    <3>1. Bad \in SUBSET Nat
      OBVIOUS
    <3> HIDE DEF Bad
    <3> QED
      BY <1>1, <3>1, LeastElement
  <2>2. m \in 1..n /\ m - 1 \in 0..n
    BY <2>1
  <2>3. m - 1 \notin Bad
    BY <2>1, <2>2
  <2> QED
    BY <2>1, <2>2, <2>3
<1> QED
  BY <1>1

\* There is a sequence of elements of S that begins at start and takes the steps.
Walks(n, S, start, step) ==
  \E g \in [0..n -> S] : g[0] = start /\ \A k \in 1..n : g[k] = step[k][g[k - 1]]

\* A recursion whose steps stay in S has a solution.
LEMMA Recursion ==
  ASSUME NEW n \in Nat, NEW S, NEW start \in S, NEW step \in [1..n -> [S -> S]]
  PROVE  Walks(n, S, start, step)
<1> DEFINE Solves(g, m) == g[0] = start /\ \A k \in 1..m : g[k] = step[k][g[k - 1]]
           Good == {m \in 0..n : \E g \in [0..m -> S] : Solves(g, m)}
<1>1. 0 \in Good
  <2> DEFINE g == [k \in 0..0 |-> start]
  <2>1. g \in [0..0 -> S] /\ Solves(g, 0)
    OBVIOUS
  <2> HIDE DEF g
  <2>2. \E h \in [0..0 -> S] : Solves(h, 0)
    BY <2>1
  <2> HIDE DEF Solves
  <2> QED
    BY <2>2
<1>2. ASSUME NEW m \in 1..n, m - 1 \in Good PROVE m \in Good
  <2>1. PICK g \in [0..m - 1 -> S] : Solves(g, m - 1)
    BY <1>2
  <2> DEFINE h == [k \in 0..m |-> IF k = m THEN step[m][g[m - 1]] ELSE g[k]]
  <2>2. m - 1 \in 0..m - 1 /\ step[m] \in [S -> S]
    OBVIOUS
  <2>3. h \in [0..m -> S]
    BY <2>2
  <2>4. ASSUME NEW k \in 1..m PROVE h[k] = step[k][h[k - 1]]
    <3>1. k - 1 \in 0..m /\ k - 1 # m /\ h[k - 1] = g[k - 1]
      OBVIOUS
    <3>2. CASE k = m
      BY <3>1, <3>2
    <3>3. CASE k # m
      <4>1. k \in 1..m - 1 /\ h[k] = g[k]
        BY <3>3
      <4> QED
        BY <2>1, <3>1, <4>1
    <3> QED
      BY <3>2, <3>3
  <2>5. h[0] = start
    BY <2>1
  <2> HIDE DEF h
  <2>6. Solves(h, m)
    BY <2>4, <2>5
  <2> HIDE DEF Solves
  <2> QED
    BY <2>3, <2>6
<1>3. \A m \in 1..n : m - 1 \in Good => m \in Good
  BY <1>2
<1> HIDE DEF Good
<1>4. \A k \in 0..n : k \in Good
  BY <1>1, <1>3, Climb
<1>5. n \in Good
  BY <1>4
<1> QED
  BY <1>5 DEF Good, Walks

-----------------------------------------------------------------------------
\* Phones.

\* NormalizePhone goes through the phone once.
LEMMA PhoneWalk ==
  ASSUME NEW A, NEW phone \in Seq(A)
  PROVE  \E f \in [0..Len(phone) -> Seq(A)] :
           /\ f[0] = <<>>
           /\ \A k \in 1..Len(phone) :
                f[k] = IF phone[k] = "+" THEN f[k - 1] ELSE Append(f[k - 1], phone[k])
           /\ NormalizePhone(phone) = f[Len(phone)]
<1> DEFINE Step(k, v) == IF phone[k] = "+" THEN v ELSE Append(v, phone[k])
           Solution(g) ==
             g = [k \in 0..Len(phone) |->
                    IF k = 0 THEN <<>>
                    ELSE IF phone[k] = "+" THEN g[k - 1] ELSE Append(g[k - 1], phone[k])]
           step == [k \in 1..Len(phone) |-> [v \in Seq(A) |-> Step(k, v)]]
<1>1. Len(phone) \in Nat /\ \A k \in 1..Len(phone) : phone[k] \in A
  OBVIOUS
<1>2. step \in [1..Len(phone) -> [Seq(A) -> Seq(A)]]
  BY <1>1
<1>3. PICK g \in [0..Len(phone) -> Seq(A)] :
        g[0] = <<>> /\ \A k \in 1..Len(phone) : g[k] = step[k][g[k - 1]]
  <2> HIDE DEF step
  <2>1. <<>> \in Seq(A)
    OBVIOUS
  <2>2. Walks(Len(phone), Seq(A), <<>>, step)
    BY <1>1, <1>2, <2>1, Recursion
  <2> QED
    BY <2>2 DEF Walks
<1>4. \A k \in 1..Len(phone) : g[k - 1] \in Seq(A) /\ g[k] = Step(k, g[k - 1])
  <2> TAKE k \in 1..Len(phone)
  <2>1. k - 1 \in 0..Len(phone)
    BY <1>1
  <2> QED
    BY <1>3, <2>1
<1>5. Solution(g)
  <2>1. ASSUME NEW k \in 0..Len(phone)
        PROVE  g[k] = IF k = 0 THEN <<>> ELSE Step(k, g[k - 1])
    <3>1. CASE k = 0
      BY <1>3, <3>1
    <3>2. CASE k # 0
      <4>1. k \in 1..Len(phone)
        BY <1>1, <3>2
      <4> QED
        BY <1>4, <3>2, <4>1
    <3> QED
      BY <3>1, <3>2
  <2> QED
    BY <2>1
<1>6. PICK f : f = CHOOSE h : Solution(h)
  OBVIOUS
<1>7. Solution(f)
  BY <1>5, <1>6
<1>8. \A k \in 0..Len(phone) : f[k] = g[k]
  <2> DEFINE Good == {k \in 0..Len(phone) : f[k] = g[k]}
  <2>1. 0 \in Good
    BY <1>1, <1>3, <1>7
  <2>2. ASSUME NEW k \in 1..Len(phone), k - 1 \in Good PROVE k \in Good
    <3>1. k \in 0..Len(phone) /\ k # 0
      BY <1>1
    <3>2. f[k] = Step(k, f[k - 1])
      BY <1>7, <3>1
    <3> QED
      BY <1>4, <2>2, <3>1, <3>2
  <2>3. \A k \in 1..Len(phone) : k - 1 \in Good => k \in Good
    BY <2>2
  <2> HIDE DEF Good
  <2>4. \A k \in 0..Len(phone) : k \in Good
    BY <1>1, <2>1, <2>3, Climb
  <2> QED
    BY <2>4 DEF Good
<1>9. NormalizePhone(phone) = f[Len(phone)]
  BY <1>6 DEF NormalizePhone
<1>10. NormalizePhone(phone) = g[Len(phone)]
  BY <1>1, <1>8, <1>9
<1> HIDE DEF Solution, step
<1> QED
  BY <1>3, <1>4, <1>10

\* No "+" is left.
LEMMA NoPlusLeft ==
  ASSUME NEW A, NEW phone \in Seq(A)
  PROVE  /\ NormalizePhone(phone) \in Seq(A)
         /\ \A k \in 1..Len(NormalizePhone(phone)) : NormalizePhone(phone)[k] # "+"
<1> DEFINE n == Len(phone)
           Clean(s) == \A k \in 1..Len(s) : s[k] # "+"
<1>1. PICK f \in [0..n -> Seq(A)] :
        /\ f[0] = <<>>
        /\ \A k \in 1..n : f[k] = IF phone[k] = "+" THEN f[k - 1] ELSE Append(f[k - 1], phone[k])
        /\ NormalizePhone(phone) = f[n]
  BY PhoneWalk
<1>2. n \in Nat
  OBVIOUS
<1> HIDE DEF n
<1> DEFINE Good == {k \in 0..n : Clean(f[k])}
<1>3. 0 \in Good
  BY <1>1, <1>2
<1>4. ASSUME NEW k \in 1..n, k - 1 \in Good PROVE k \in Good
  <2>1. k \in 0..n /\ k - 1 \in 0..n /\ f[k - 1] \in Seq(A) /\ Clean(f[k - 1])
    BY <1>2, <1>4
  <2>2. CASE phone[k] = "+"
    BY <1>1, <2>1, <2>2
  <2>3. CASE phone[k] # "+"
    <3>1. f[k] = Append(f[k - 1], phone[k])
      BY <1>1, <2>3
    <3>2. \A d \in 1..Len(f[k]) : d \in 1..Len(f[k - 1]) \/ f[k][d] = phone[k]
      BY <2>1, <3>1
    <3>3. \A d \in 1..Len(f[k - 1]) : f[k][d] = f[k - 1][d]
      BY <2>1, <3>1
    <3> QED
      BY <2>1, <2>3, <3>2, <3>3
  <2> QED
    BY <2>2, <2>3
<1>5. \A k \in 1..n : k - 1 \in Good => k \in Good
  BY <1>4
<1> HIDE DEF Good
<1>6. \A k \in 0..n : k \in Good
  BY <1>2, <1>3, <1>5, Climb
<1>7. n \in Good
  BY <1>2, <1>6
<1> QED
  BY <1>1, <1>2, <1>7 DEF Good

\* A phone without "+" stays as it is.
LEMMA DigitsStay ==
  ASSUME NEW A, NEW phone \in Seq(A), \A k \in 1..Len(phone) : phone[k] # "+"
  PROVE  NormalizePhone(phone) = phone
<1> DEFINE n == Len(phone)
<1>1. PICK f \in [0..n -> Seq(A)] :
        /\ f[0] = <<>>
        /\ \A k \in 1..n : f[k] = IF phone[k] = "+" THEN f[k - 1] ELSE Append(f[k - 1], phone[k])
        /\ NormalizePhone(phone) = f[n]
  BY PhoneWalk
<1>2. n \in Nat
  OBVIOUS
<1> DEFINE Good == {k \in 0..n : Len(f[k]) = k /\ \A d \in 1..k : f[k][d] = phone[d]}
<1>3. 0 \in Good
  BY <1>1
<1>4. ASSUME NEW k \in 1..n, k - 1 \in Good PROVE k \in Good
  <2>1. k \in 0..n /\ k - 1 \in 0..n /\ f[k - 1] \in Seq(A) /\ phone[k] \in A
    OBVIOUS
  <2>2. Len(f[k - 1]) = k - 1 /\ \A d \in 1..k - 1 : f[k - 1][d] = phone[d]
    BY <1>4
  <2>3. f[k] = Append(f[k - 1], phone[k])
    BY <1>1
  <2>4. Len(f[k]) = k /\ f[k][k] = phone[k] /\ \A d \in 1..k - 1 : f[k][d] = f[k - 1][d]
    BY <2>1, <2>2, <2>3
  <2>5. \A d \in 1..k : d = k \/ d \in 1..k - 1
    OBVIOUS
  <2> QED
    BY <2>1, <2>2, <2>4, <2>5
<1>5. \A k \in 1..n : k - 1 \in Good => k \in Good
  BY <1>4
<1>6. n \in Good
  <2> HIDE DEF Good, n
  <2>1. \A k \in 0..n : k \in Good
    BY <1>2, <1>3, <1>5, Climb
  <2> QED
    BY <1>2, <2>1
<1>7. f[n] \in Seq(A) /\ Len(f[n]) = n /\ \A d \in 1..n : f[n][d] = phone[d]
  BY <1>6
<1>8. f[n] = phone
  BY <1>7
<1> QED
  BY <1>1, <1>8

-----------------------------------------------------------------------------
\* Names.

\* A name whose words are sequences is spelled as a sequence.
LEMMA SpelledIsSequence ==
  ASSUME NEW L, Blank \in L, NEW name \in Seq(Seq(L))
  PROVE  Spelled(name) \in Seq(L)
<1> DEFINE n == Len(name)
           S == Seq(L)
           Step(k, v) == IF k = 1 THEN name[1] ELSE v \o <<Blank>> \o name[k]
           Solution(g) == g = [i \in 0..Len(name) |-> IF i = 0 THEN <<>> ELSE Step(i, g[i - 1])]
           step == [k \in 1..n |-> [v \in S |-> Step(k, v)]]
<1>1. n \in Nat /\ \A k \in 1..n : name[k] \in S
  OBVIOUS
<1>2. ASSUME NEW k \in 1..n, NEW v \in S PROVE Step(k, v) \in S
  <2>1. <<Blank>> \in S
    OBVIOUS
  <2>2. v \o <<Blank>> \in S /\ name[k] \in S
    BY <1>1, <2>1
  <2>3. v \o <<Blank>> \o name[k] \in S
    BY <2>2
  <2> QED
    BY <2>2, <2>3
<1>3. <<>> \in S
  OBVIOUS
<1> HIDE DEF Step, S
<1>4. step \in [1..n -> [S -> S]]
  BY <1>2
<1>5. PICK g \in [0..n -> S] : g[0] = <<>> /\ \A k \in 1..n : g[k] = step[k][g[k - 1]]
  <2> HIDE DEF step, n
  <2>1. Walks(n, S, <<>>, step)
    BY <1>1, <1>3, <1>4, Recursion
  <2> QED
    BY <2>1 DEF Walks
<1>6. \A k \in 1..n : g[k] = Step(k, g[k - 1])
  <2> TAKE k \in 1..n
  <2> HIDE DEF n
  <2>1. k - 1 \in 0..n
    BY <1>1
  <2>2. g[k - 1] \in S
    BY <2>1
  <2> QED
    BY <1>5, <2>2
<1>7. Solution(g)
  <2>1. ASSUME NEW k \in 0..n PROVE g[k] = IF k = 0 THEN <<>> ELSE Step(k, g[k - 1])
    <3>1. CASE k = 0
      BY <1>5, <3>1
    <3>2. CASE k # 0
      <4>1. k \in 1..n
        BY <1>1, <3>2
      <4> QED
        BY <1>6, <3>2, <4>1
    <3> QED
      BY <3>1, <3>2
  <2> QED
    BY <2>1
<1>8. PICK f : f = CHOOSE h : Solution(h)
  OBVIOUS
<1>9. Solution(f)
  BY <1>7, <1>8
<1> DEFINE Good == {k \in 0..n : f[k] \in S}
<1>10. 0 \in Good
  BY <1>1, <1>3, <1>9
<1>11. ASSUME NEW k \in 1..n, k - 1 \in Good PROVE k \in Good
  <2>1. k \in 0..n /\ k # 0
    BY <1>1
  <2>2. f[k] = Step(k, f[k - 1])
    BY <1>9, <2>1
  <2> QED
    BY <1>2, <1>11, <2>1, <2>2
<1>12. \A k \in 1..n : k - 1 \in Good => k \in Good
  BY <1>11
<1>13. \A k \in 0..n : k \in Good
  <2> HIDE DEF Good, n
  <2> QED
    BY <1>1, <1>10, <1>12, Climb
<1>14. Spelled(name) = f[n]
  BY <1>8 DEF Spelled, Step
<1> HIDE DEF Solution
<1>15. f[n] \in S
  BY <1>1, <1>13
<1> QED
  BY <1>14, <1>15 DEF S

\* The matches of jaroSim are pairs of places in the two words.
LEMMA MatchesArePlaces ==
  ASSUME NEW L, NEW a \in Seq(L), NEW b \in Seq(L)
  PROVE  JaroMatches(a, b) \in SUBSET ((1..Len(a)) \X (1..Len(b)))
<1> DEFINE n == Len(a)
           near == Max({Max({Len(a), Len(b)}) \div 2 - 1, 0})
           Free(i, found) == {j \in DOMAIN b : /\ a[i] = b[j] /\ j - i \in -near..near
                                              /\ \A m \in found : m[2] # j}
           Step(i, found) ==
             IF Free(i, found) = {} THEN found ELSE found \cup {<<i, Min(Free(i, found))>>}
           Solution(g) ==
             g = [i \in 0..Len(a) |-> IF i = 0 THEN {} ELSE Step(i, g[i - 1])]
           S == SUBSET ((1..n) \X (1..Len(b)))
           step == [k \in 1..n |-> [v \in S |-> Step(k, v)]]
<1>1. n \in Nat /\ DOMAIN b = 1..Len(b) /\ Len(b) \in Nat
  OBVIOUS
<1>2. ASSUME NEW k \in 1..n, NEW v \in S PROVE Step(k, v) \in S
  <2>1. ASSUME Free(k, v) # {} PROVE Min(Free(k, v)) \in 1..Len(b)
    <3>1. Free(k, v) \in SUBSET Nat /\ Free(k, v) \subseteq 1..Len(b)
      BY <1>1
    <3> HIDE DEF Free
    <3>2. \E m \in Free(k, v) : \A x \in Free(k, v) : m <= x
      BY <2>1, <3>1, LeastElement
    <3> QED
      BY <3>1, <3>2 DEF Min
  <2> HIDE DEF Free
  <2> QED
    BY <1>2, <2>1
<1> HIDE DEF Step
<1>3. step \in [1..n -> [S -> S]]
  BY <1>2
<1>4. PICK g \in [0..n -> S] : g[0] = {} /\ \A k \in 1..n : g[k] = step[k][g[k - 1]]
  <2>1. {} \in S
    OBVIOUS
  <2> HIDE DEF step, n, S
  <2>2. Walks(n, S, {}, step)
    BY <1>1, <1>3, <2>1, Recursion
  <2> QED
    BY <2>2 DEF Walks
<1>5. \A k \in 1..n : g[k] = Step(k, g[k - 1])
  <2> TAKE k \in 1..n
  <2>1. k - 1 \in 0..n /\ g[k - 1] \in S
    BY <1>1
  <2> HIDE DEF S
  <2> QED
    BY <1>4, <2>1
<1>6. Solution(g)
  <2>1. ASSUME NEW k \in 0..n PROVE g[k] = IF k = 0 THEN {} ELSE Step(k, g[k - 1])
    <3>1. CASE k = 0
      BY <1>4, <3>1
    <3>2. CASE k # 0
      <4>1. k \in 1..n
        BY <1>1, <3>2
      <4> QED
        BY <1>5, <3>2, <4>1
    <3> QED
      BY <3>1, <3>2
  <2> HIDE DEF S
  <2> QED
    BY <2>1
<1>7. PICK f : f = CHOOSE h : Solution(h)
  OBVIOUS
<1>8. Solution(f)
  BY <1>6, <1>7
<1> DEFINE Good == {k \in 0..n : f[k] \in S}
<1>9. 0 \in Good
  BY <1>1, <1>8
<1>10. ASSUME NEW k \in 1..n, k - 1 \in Good PROVE k \in Good
  <2>1. k \in 0..n /\ k # 0
    BY <1>1
  <2>2. f[k] = Step(k, f[k - 1])
    BY <1>8, <2>1
  <2> HIDE DEF S
  <2>3. f[k - 1] \in S
    BY <1>10
  <2> QED
    BY <1>2, <2>1, <2>2, <2>3
<1>11. \A k \in 1..n : k - 1 \in Good => k \in Good
  BY <1>10
<1>12. \A k \in 0..n : k \in Good
  <2> HIDE DEF Good, n
  <2> QED
    BY <1>1, <1>9, <1>11, Climb
<1>13. JaroMatches(a, b) = f[n]
  BY <1>7 DEF JaroMatches, Step
<1> HIDE DEF Good
<1>14. n \in Good
  BY <1>1, <1>12
<1> QED
  BY <1>13, <1>14 DEF Good

\* A bounded set of naturals has a greatest element.
LEMMA GreatestElement ==
  ASSUME NEW n \in Nat, NEW T \in SUBSET (0..n), T # {}
  PROVE  Max(T) \in T
<1> DEFINE U == {k \in 0..n : n - k \in T}
<1>1. ASSUME NEW k \in T PROVE k \in 0..n /\ n - k \in U
  <2>1. k \in 0..n
    OBVIOUS
  <2>2. n - k \in 0..n /\ n - (n - k) = k
    BY <2>1
  <2> QED
    BY <2>1, <2>2
<1>2. U \in SUBSET Nat /\ U # {}
  <2>1. PICK k \in T : TRUE
    OBVIOUS
  <2>2. n - k \in U
    BY <1>1
  <2>3. U \subseteq 0..n
    OBVIOUS
  <2> HIDE DEF U
  <2>4. U \subseteq Nat
    BY <2>3
  <2> QED
    BY <2>2, <2>4
<1>3. PICK m \in U : \A k \in U : m <= k
  <2> HIDE DEF U
  <2> QED
    BY <1>2, LeastElement
<1>4. n - m \in T
  BY <1>3
<1>5. \A k \in T : n - m >= k
  <2> TAKE k \in T
  <2>1. k \in 0..n /\ n - k \in U /\ m \in 0..n
    BY <1>1
  <2>2. m <= n - k
    BY <1>3, <2>1
  <2> QED
    BY <2>1, <2>2
<1> QED
  BY <1>4, <1>5 DEF Max

\* The similarity of two names is a number.
LEMMA JaroWinklerIsNumber ==
  ASSUME NEW L, NEW a \in Seq(L), NEW b \in Seq(L)
  PROVE  JaroWinkler(a, b) \in Int
<1>1. PICK matches : matches = JaroMatches(a, b)
  OBVIOUS
<1>2. PICK la, lb : la = Len(a) /\ lb = Len(b)
  OBVIOUS
<1>3. la \in Nat /\ lb \in Nat /\ matches \in SUBSET ((1..la) \X (1..lb))
  BY <1>1, <1>2, MatchesArePlaces
<1>4. IsFiniteSet(matches) /\ Cardinality(matches) \in Nat
  <2>1. IsFiniteSet((1..la) \X (1..lb))
    <3>1. IsFiniteSet(1..la) /\ IsFiniteSet(1..lb)
      BY <1>3, FS_Interval
    <3> QED
      BY <3>1, FS_Product
  <2> QED
    BY <1>3, <2>1, FS_Subset, FS_CardinalityType
<1>5. Transpositions(a, b, matches) \in Nat
  <2>1. \A T \in SUBSET (1..la) : Cardinality(T) \in Nat
    <3>1. IsFiniteSet(1..la)
      BY <1>3, FS_Interval
    <3> QED
      BY <3>1, FS_Subset, FS_CardinalityType
  <2>2. {m[1] : m \in matches} \subseteq 1..la
    BY <1>3
  <2>3. \E T \in SUBSET {m[1] : m \in matches} : Transpositions(a, b, matches) = Cardinality(T)
    BY DEF Transpositions
  <2> QED
    BY <2>1, <2>2, <2>3
<1>6. ASSUME NEW m \in Nat, NEW t \in Nat, m # 0 => la # 0 /\ lb # 0
      PROVE  (100 * Winkler(a, b, m, t)[1]) \div Winkler(a, b, m, t)[2] \in Int
  <2>1. PICK num, den, common :
          /\ num = 2 * m * m * (la + lb) + (2 * m - t) * la * lb
          /\ den = 6 * m * la * lb
          /\ common = Max({k \in 0..4 : /\ k <= la /\ k <= lb
                                        /\ \A i \in 1..k : a[i] = b[i]})
    OBVIOUS
  <2>2. num \in Int /\ den \in Int
    BY <1>3, <2>1
  <2>3. common \in Int
    <3> DEFINE T == {k \in 0..4 : k <= la /\ k <= lb /\ \A i \in 1..k : a[i] = b[i]}
    <3>1. T \in SUBSET (0..4) /\ 0 \in T
      BY <1>3
    <3>2. common = Max(T)
      BY <2>1
    <3> HIDE DEF T
    <3>3. Max(T) \in T
      BY <3>1, GreatestElement
    <3>4. common \in 0..4
      BY <3>1, <3>2, <3>3
    <3> QED
      BY <3>4
  <2>4. m # 0 => den > 0
    <3> HAVE m # 0
    <3>1. m >= 1 /\ la >= 1 /\ lb >= 1
      BY <1>3, <1>6
    <3>2. 6 * m \in Nat /\ 6 * m >= 1
      BY <3>1
    <3>3. \A x, y \in Nat : x >= 1 /\ y >= 1 => x * y \in Nat /\ x * y >= 1
      OBVIOUS
    <3>4. 6 * m * la \in Nat /\ 6 * m * la >= 1
      BY <1>3, <3>1, <3>2, <3>3
    <3>5. 6 * m * la * lb >= 1
      BY <1>3, <3>1, <3>3, <3>4
    <3> QED
      BY <2>1, <2>2, <3>5
  <2>5. ASSUME m # 0
        PROVE  (100 * ((10 - common) * num + common * den)) \div den \in Int
    <3>1. PICK x : x = 100 * ((10 - common) * num + common * den)
      OBVIOUS
    <3>2. x \in Int
      BY <2>2, <2>3, <3>1
    <3>3. x \div den \in Int
      BY <2>2, <2>4, <2>5, <3>2
    <3> QED
      BY <3>1, <3>3
  <2>6. Winkler(a, b, m, t) =
          IF m = 0 THEN <<0, 1>> ELSE <<(10 - common) * num + common * den, den>>
    BY <1>2, <2>1 DEF Winkler
  <2>7. CASE m = 0
    <3>1. Winkler(a, b, m, t)[1] = 0 /\ Winkler(a, b, m, t)[2] = 1
      BY <2>6, <2>7
    <3> QED
      BY <3>1
  <2>8. CASE m # 0
    <3>1. /\ Winkler(a, b, m, t)[1] = (10 - common) * num + common * den
          /\ Winkler(a, b, m, t)[2] = den
      BY <2>6, <2>8
    <3> QED
      BY <2>5, <2>8, <3>1
  <2> QED
    BY <2>7, <2>8
<1>7. Cardinality(matches) # 0 => la # 0 /\ lb # 0
  BY <1>3, <1>4, FS_EmptySet
<1>8. PICK tenths : tenths = JaroWinklerTenths(a, b)
  OBVIOUS
<1>9. (100 * tenths[1]) \div tenths[2] \in Int
  <2>1. CASE a = b
    <3>1. tenths = <<10, 1>>
      BY <1>8, <2>1 DEF JaroWinklerTenths
    <3>2. tenths[1] = 10 /\ tenths[2] = 1
      BY <3>1
    <3> QED
      BY <3>2
  <2>2. CASE a # b
    <3>1. tenths = Winkler(a, b, Cardinality(matches), Transpositions(a, b, matches))
      BY <1>1, <1>8, <2>2 DEF JaroWinklerTenths
    <3> QED
      BY <1>4, <1>5, <1>6, <1>7, <3>1
  <2> QED
    BY <2>1, <2>2
<1> QED
  BY <1>8, <1>9 DEF JaroWinkler

-----------------------------------------------------------------------------
\* Scores.

\* Switching a channel off clears its signals and sets none.
LEMMA MaskClears ==
  ASSUME NEW sig, NEW options, NEW f \in DOMAIN sig, f # "nameSim",
         Masked(sig, options)[f]
  PROVE  sig[f]
BY DEF Masked

\* No rule applies: what the first rule that does gives is the default.
LEMMA NoRule ==
  ASSUME NEW rules, NEW otherwise, \A i \in DOMAIN rules : ~rules[i][1]
  PROVE  FirstOf(rules, otherwise) = otherwise
BY DEF FirstOf

\* Without a common e-mail or phone and without alike names two rows score
\* nothing, but for equal local parts with a common order address.
LEMMA UnlikeScoresNothing ==
  ASSUME NEW s, NEW sim, NEW behavioral,
         ~s.emailExact, ~s.phoneExact, ~s.nameHigh, ~s.nameMedium,
         ~(s.orderAddressExact /\ s.emailLocalExact)
  PROVE  Confidence(s, sim, behavioral)[1] = 0
<1>1. FirstOf(BaseRules(s), 0) = 0
  <2>1. \A i \in DOMAIN BaseRules(s) : ~BaseRules(s)[i][1]
    <3>1. DOMAIN BaseRules(s) = 1..12
      BY DEF BaseRules
    <3>2. \A i \in 1..12 : i = 1 \/ i = 2 \/ i = 3 \/ i = 4 \/ i = 5 \/ i = 6 \/ i = 7
                             \/ i = 8 \/ i = 9 \/ i = 10 \/ i = 11 \/ i = 12
      OBVIOUS
    <3>3. /\ ~BaseRules(s)[1][1] /\ ~BaseRules(s)[2][1] /\ ~BaseRules(s)[3][1]
          /\ ~BaseRules(s)[4][1] /\ ~BaseRules(s)[5][1] /\ ~BaseRules(s)[6][1]
          /\ ~BaseRules(s)[7][1] /\ ~BaseRules(s)[8][1] /\ ~BaseRules(s)[9][1]
          /\ ~BaseRules(s)[10][1] /\ ~BaseRules(s)[11][1] /\ ~BaseRules(s)[12][1]
      BY DEF BaseRules
    <3> QED
      BY <3>1, <3>2, <3>3
  <2> QED
    BY <2>1, NoRule
<1>2. Profile(s, sim)[1] = 0
  BY <1>1 DEF Profile, Fallback
<1>3. FirstOf(BehavioralRules(s), Profile(s, sim)) = Profile(s, sim)
  <2>1. \A i \in DOMAIN BehavioralRules(s) : ~BehavioralRules(s)[i][1]
    <3>1. DOMAIN BehavioralRules(s) = 1..5
      BY DEF BehavioralRules
    <3>2. \A i \in 1..5 : i = 1 \/ i = 2 \/ i = 3 \/ i = 4 \/ i = 5
      OBVIOUS
    <3>3. /\ ~BehavioralRules(s)[1][1] /\ ~BehavioralRules(s)[2][1]
          /\ ~BehavioralRules(s)[3][1] /\ ~BehavioralRules(s)[4][1]
          /\ ~BehavioralRules(s)[5][1]
      BY DEF BehavioralRules
    <3> QED
      BY <3>1, <3>2, <3>3
  <2> QED
    BY <2>1, NoRule
<1> QED
  BY <1>2, <1>3 DEF Confidence

\* What the signals of two rows say of them.
LEMMA SignalsTell ==
  ASSUME NEW a, NEW b, NEW nameSim \in Int, NEW addressSim, NEW options, NEW s,
         s = Masked(Signals(a, b, nameSim, addressSim), options)
  PROVE  /\ s.emailExact => a.email # NoEmail /\ a.email = b.email
         /\ s.phoneExact => a.phone # <<>> /\ a.phone = b.phone
         /\ s.nameHigh => nameSim >= 820
         /\ s.nameMedium => nameSim >= 820
<1>1. PICK sig : sig = Signals(a, b, nameSim, addressSim)
  OBVIOUS
<1>2. {"emailExact", "phoneExact", "nameHigh", "nameMedium"} \subseteq DOMAIN sig
  BY <1>1 DEF Signals
<1>3. /\ s.emailExact => sig.emailExact
      /\ s.phoneExact => sig.phoneExact
      /\ s.nameHigh => sig.nameHigh
      /\ s.nameMedium => sig.nameMedium
  BY <1>1, <1>2, MaskClears
<1>4. /\ sig.emailExact => a.email # NoEmail /\ a.email = b.email
      /\ sig.phoneExact => a.phone # <<>> /\ a.phone = b.phone
  BY <1>1 DEF Signals
<1>5. /\ sig.nameHigh => nameSim >= 900
      /\ sig.nameMedium => nameSim >= 820
  BY <1>1 DEF Signals
<1> QED
  BY <1>3, <1>4, <1>5

-----------------------------------------------------------------------------
\* The union-find.

\* A forest over S: top gives the root of each node, and height grows upwards.
Forest(S, up, height, top) ==
  /\ up \in [S -> S] /\ height \in [S -> Nat] /\ top \in [S -> S]
  /\ \A i \in S : /\ up[top[i]] = top[i]
                  /\ top[up[i]] = top[i]
                  /\ up[i] = i => top[i] = i
                  /\ up[i] # i => height[i] < height[up[i]]
                  /\ top[i] # i => height[i] < height[top[i]]

\* Chain starts at its node and goes up one step at a time, as many as there are
\* nodes.
LEMMA ChainClimbs ==
  ASSUME NEW S, IsFiniteSet(S), NEW up \in [S -> S], NEW i \in S
  PROVE  \E above \in [0..Cardinality(S) -> S] :
           /\ above[0] = i
           /\ \A k \in 1..Cardinality(S) : above[k] = up[above[k - 1]]
           /\ Chain(up, i) = {above[k] : k \in 0..Cardinality(S)}
<1> DEFINE n == Cardinality(S)
           Solution(g) == g = [k \in 0..n |-> IF k = 0 THEN i ELSE up[g[k - 1]]]
           step == [k \in 1..n |-> up]
<1>1. n \in Nat
  BY FS_CardinalityType
<1>2. PICK g \in [0..n -> S] : g[0] = i /\ \A k \in 1..n : g[k] = step[k][g[k - 1]]
  <2>1. step \in [1..n -> [S -> S]]
    OBVIOUS
  <2> HIDE DEF step, n
  <2>2. Walks(n, S, i, step)
    BY <1>1, <2>1, Recursion
  <2> QED
    BY <2>2 DEF Walks
<1>3. \A k \in 1..n : g[k] = up[g[k - 1]]
  BY <1>2
<1>4. Solution(g)
  <2>1. \A k \in 0..n : g[k] = IF k = 0 THEN i ELSE up[g[k - 1]]
    BY <1>1, <1>2, <1>3
  <2> QED
    BY <1>2, <2>1
<1>5. PICK above : above = CHOOSE f : Solution(f)
  OBVIOUS
<1>6. Solution(above)
  BY <1>4, <1>5
<1>7. above[0] = i /\ \A k \in 1..n : above[k] = up[above[k - 1]]
  BY <1>1, <1>6
<1>8. \A k \in 0..n : above[k] = g[k]
  <2> DEFINE Good == {k \in 0..n : above[k] = g[k]}
  <2>1. 0 \in Good
    BY <1>1, <1>2, <1>7
  <2>2. \A k \in 1..n : k - 1 \in Good => k \in Good
    BY <1>3, <1>7
  <2> HIDE DEF Good, n
  <2>3. \A k \in 0..n : k \in Good
    BY <1>1, <2>1, <2>2, Climb
  <2> QED
    BY <2>3 DEF Good
<1>9. above \in [0..n -> S]
  <2>1. DOMAIN above = 0..n /\ above = [k \in 0..n |-> above[k]]
    BY <1>6
  <2> HIDE DEF Solution, n
  <2> QED
    BY <1>2, <1>8, <2>1
<1>10. Chain(up, i) = {above[k] : k \in 0..n}
  <2>1. DOMAIN up = S /\ DOMAIN above = 0..n
    BY <1>9
  <2> QED
    BY <1>5, <2>1 DEF Chain
<1> QED
  BY <1>7, <1>9, <1>10

\* Find: the chain of a node has the node's root in it and no other one.
LEMMA FindsTop ==
  ASSUME NEW S, IsFiniteSet(S), NEW up, NEW height, NEW top, Forest(S, up, height, top),
         NEW i \in S
  PROVE  /\ Root(up, i) = top[i]
         /\ i \in Chain(up, i) /\ top[i] \in Chain(up, i)
         /\ \A j \in Chain(up, i) : j \in S /\ top[j] = top[i]
<1> DEFINE n == Cardinality(S)
<1>0. n \in Nat /\ IsFiniteSet(0..n) /\ Cardinality(0..n) = n + 1
  BY FS_CardinalityType, FS_Interval
<1>1. PICK above \in [0..n -> S] :
        /\ above[0] = i
        /\ \A k \in 1..n : above[k] = up[above[k - 1]]
        /\ Chain(up, i) = {above[k] : k \in 0..n}
  <2>1. up \in [S -> S]
    BY DEF Forest
  <2> QED
    BY <2>1, ChainClimbs
<1> HIDE DEF n
<1>2. \A k \in 0..n : top[above[k]] = top[i]
  <2> DEFINE Good == {k \in 0..n : top[above[k]] = top[i]}
  <2>1. 0 \in Good
    BY <1>0, <1>1
  <2>2. ASSUME NEW k \in 1..n, k - 1 \in Good PROVE k \in Good
    <3>1. above[k - 1] \in S /\ top[above[k - 1]] = top[i] /\ above[k] = up[above[k - 1]]
      BY <1>1, <2>2
    <3> QED
      BY <3>1 DEF Forest
  <2>3. \A k \in 1..n : k - 1 \in Good => k \in Good
    BY <2>2
  <2> HIDE DEF Good
  <2>4. \A k \in 0..n : k \in Good
    BY <1>0, <2>1, <2>3, Climb
  <2> QED
    BY <2>4 DEF Good
<1>3. \E k \in 0..n : up[above[k]] = above[k]
  <2> SUFFICES ASSUME \A k \in 0..n : up[above[k]] # above[k] PROVE FALSE
    OBVIOUS
  <2>1. \A k \in 1..n : height[above[k - 1]] < height[above[k]]
    <3> TAKE k \in 1..n
    <3>1. k - 1 \in 0..n /\ above[k - 1] \in S /\ above[k] = up[above[k - 1]]
      BY <1>0, <1>1
    <3> QED
      BY <3>1 DEF Forest
  <2> DEFINE Good == {k \in 0..n : \A l \in 0..n : l < k => height[above[l]] < height[above[k]]}
  <2>2. 0 \in Good
    BY <1>0
  <2>3. ASSUME NEW k \in 1..n, k - 1 \in Good PROVE k \in Good
    <3>1. height[above[k - 1]] < height[above[k]]
      BY <2>1
    <3>2. ASSUME NEW l \in 0..n, l < k PROVE height[above[l]] < height[above[k]]
      <4>0. k \in 0..n /\ k - 1 \in 0..n
        BY <1>0
      <4>1. height[above[l]] \in Nat /\ height[above[k - 1]] \in Nat /\ height[above[k]] \in Nat
        BY <4>0 DEF Forest
      <4>2. l = k - 1 \/ l < k - 1
        BY <3>2
      <4>3. height[above[l]] <= height[above[k - 1]]
        BY <2>3, <4>1, <4>2
      <4> QED
        BY <3>1, <4>1, <4>3
    <3> QED
      BY <3>2
  <2>4. \A k \in 1..n : k - 1 \in Good => k \in Good
    BY <2>3
  <2> HIDE DEF Good
  <2>5. \A k \in 0..n : k \in Good
    BY <1>0, <2>2, <2>4, Climb
  <2>6. PICK k, l \in 0..n : k # l /\ above[k] = above[l]
    BY <1>0, FS_PigeonHole DEF n
  <2>7. height[above[k]] \in Nat
    BY DEF Forest
  <2>8. k < l \/ l < k
    BY <2>6
  <2> QED
    BY <2>5, <2>6, <2>7, <2>8 DEF Good
<1>4. PICK k \in 0..n : up[above[k]] = above[k]
  BY <1>3
<1>5. above[k] = top[i] /\ above[k] \in Chain(up, i)
  BY <1>1, <1>2, <1>4 DEF Forest
<1>6. \A j \in Chain(up, i) : j \in S /\ top[j] = top[i]
  BY <1>1, <1>2
<1>7. \A j \in Chain(up, i) : up[j] = j => j = top[i]
  BY <1>6 DEF Forest
<1>8. Root(up, i) \in Chain(up, i) /\ up[Root(up, i)] = Root(up, i)
  BY <1>4, <1>5 DEF Root
<1>9. i \in Chain(up, i)
  BY <1>0, <1>1
<1> QED
  BY <1>5, <1>6, <1>7, <1>8, <1>9

\* Find leaves the roots where they are.
LEMMA CompressKeepsForest ==
  ASSUME NEW S, IsFiniteSet(S), NEW up, NEW height, NEW top, Forest(S, up, height, top),
         NEW i \in S
  PROVE  /\ Forest(S, Compress(up, i), height, top)
         /\ Compress(up, i)[i] = top[i]
         /\ \A j \in S : up[j] = top[j] => Compress(up, i)[j] = top[j]
<1>1. /\ Root(up, i) = top[i] /\ i \in Chain(up, i)
      /\ \A j \in Chain(up, i) : j \in S /\ top[j] = top[i]
  BY FindsTop
<1>2. PICK down : down = Compress(up, i)
  OBVIOUS
<1>3. DOMAIN up = S /\ \A j \in S : up[j] \in S /\ top[j] \in S
  BY DEF Forest
<1>4. down \in [S -> S]
  BY <1>1, <1>2, <1>3 DEF Compress
<1>5. \A j \in S : down[j] = up[j] \/ down[j] = top[j]
  BY <1>1, <1>2, <1>3 DEF Compress
<1>6. \A j \in S : up[j] = top[j] => down[j] = top[j]
  BY <1>5
<1>7. down[i] = top[i]
  BY <1>1, <1>2, <1>3 DEF Compress
<1>8. ASSUME NEW j \in S
      PROVE  /\ down[top[j]] = top[j]
             /\ top[down[j]] = top[j]
             /\ down[j] = j => top[j] = j
             /\ down[j] # j => height[j] < height[down[j]]
             /\ top[j] # j => height[j] < height[top[j]]
  <2>1. up[top[j]] = top[j] /\ top[top[j]] = top[j]
    BY <1>3 DEF Forest
  <2>2. down[top[j]] = top[j]
    BY <1>3, <1>5, <2>1
  <2> QED
    BY <1>5, <2>1, <2>2 DEF Forest
<1> QED
  BY <1>2, <1>4, <1>6, <1>7, <1>8 DEF Forest

\* A root gets the tree under another one, and a higher rank when the two are equal.
RootGrows(S, top, peak) ==
  \E root, low \in S :
    /\ top[root] = root /\ top[low] = low
    /\ \A i \in S : /\ peak[i] = IF top[i] = low THEN root ELSE top[i]
                    /\ \/ rank'[i] = rank[i]
                       \/ /\ i = root /\ low # root /\ rank[low] = rank[root]
                          /\ rank'[root] = rank[root] + 1

\* The trees of a and b become one, the other ones stay as they are.
TreesMerge(S, top, a, b) ==
  \E peak : /\ Forest(S, parent', rank', peak)
            /\ \A i, j \in S :
                 peak[i] = peak[j] <=>
                   top[i] = top[j] \/ {top[i], top[j]} = {top[a], top[b]}
            /\ RootGrows(S, top, peak)

\* Union joins two trees and keeps the forest one.
LEMMA UnionMerges ==
  ASSUME NEW S, IsFiniteSet(S), NEW top, Forest(S, parent, rank, top),
         NEW a \in S, NEW b \in S, Union(a, b)
  PROVE  TreesMerge(S, top, a, b)
<1>1. PICK up : up = Compress(Compress(parent, a), b)
  OBVIOUS
<1>2. Forest(S, up, rank, top) /\ up[a] = top[a] /\ up[b] = top[b]
  <2>1. Forest(S, Compress(parent, a), rank, top) /\ Compress(parent, a)[a] = top[a]
    BY CompressKeepsForest
  <2> QED
    BY <1>1, <2>1, CompressKeepsForest
<1>3. PICK ra, rb : ra = top[a] /\ rb = top[b]
  OBVIOUS
<1>4. PICK peakRoot, low :
        /\ peakRoot = IF rank[ra] < rank[rb] THEN rb ELSE ra
        /\ low = IF peakRoot = ra THEN rb ELSE ra
  OBVIOUS
<1>5. /\ parent' = [up EXCEPT ![low] = peakRoot]
      /\ rank' = IF Grows(ra, rb) THEN [rank EXCEPT ![peakRoot] = @ + 1] ELSE rank
  BY <1>1, <1>2, <1>3, <1>4 DEF Union
<1>6. /\ up \in [S -> S] /\ rank \in [S -> Nat] /\ top \in [S -> S]
      /\ ra \in S /\ rb \in S /\ peakRoot \in S /\ low \in S
      /\ {peakRoot, low} = {ra, rb} /\ (peakRoot = low <=> ra = rb)
      /\ top[peakRoot] = peakRoot /\ top[low] = low
      /\ up[peakRoot] = peakRoot /\ up[low] = low
  BY <1>2, <1>3, <1>4 DEF Forest
<1>7. low # peakRoot =>
        rank[low] <= rank[peakRoot] /\ (Grows(ra, rb) <=> rank[low] = rank[peakRoot])
  <2>1. rank[ra] \in Nat /\ rank[rb] \in Nat
    BY <1>6
  <2> QED
    BY <1>4, <1>6, <2>1 DEF Grows
<1>8. low = peakRoot => ~Grows(ra, rb)
  BY <1>6 DEF Grows
<1>9. /\ \A i \in S : rank'[i] = IF Grows(ra, rb) /\ i = peakRoot THEN rank[i] + 1 ELSE rank[i]
      /\ rank' \in [S -> Nat]
  BY <1>5, <1>6
<1>10. low # peakRoot => rank'[low] < rank'[peakRoot]
  <2>1. rank[low] \in Nat /\ rank[peakRoot] \in Nat
    BY <1>6
  <2> QED
    BY <1>6, <1>7, <1>9, <2>1
<1>11. \A i \in S : rank[i] <= rank'[i] /\ (i # peakRoot => rank'[i] = rank[i])
  BY <1>6, <1>9
<1>12. PICK peak : peak = [i \in S |-> IF top[i] = low THEN peakRoot ELSE top[i]]
  OBVIOUS
<1>13. parent' \in [S -> S] /\ peak \in [S -> S]
  BY <1>5, <1>6, <1>12
<1>14. \A i \in S : parent'[i] = IF i = low THEN peakRoot ELSE up[i]
  BY <1>5, <1>6
<1>15. ASSUME NEW i \in S
       PROVE  /\ parent'[peak[i]] = peak[i]
              /\ peak[parent'[i]] = peak[i]
              /\ parent'[i] = i => peak[i] = i
              /\ parent'[i] # i => rank'[i] < rank'[parent'[i]]
              /\ peak[i] # i => rank'[i] < rank'[peak[i]]
  <2>1. /\ up[top[i]] = top[i] /\ top[up[i]] = top[i] /\ up[i] \in S /\ top[i] \in S
        /\ up[i] = i => top[i] = i
        /\ up[i] # i => rank[i] < rank[up[i]]
        /\ top[i] # i => rank[i] < rank[top[i]]
    BY <1>2 DEF Forest
  <2>2. peak[i] = IF top[i] = low THEN peakRoot ELSE top[i]
    BY <1>12
  <2>3. parent'[peak[i]] = peak[i]
    BY <1>6, <1>14, <2>1, <2>2
  <2>4. peak[parent'[i]] = peak[i]
    BY <1>6, <1>12, <1>14, <2>1, <2>2
  <2>5. parent'[i] = i => peak[i] = i
    BY <1>6, <1>14, <2>1, <2>2
  <2>6. /\ rank[i] \in Nat /\ rank[up[i]] \in Nat /\ rank[top[i]] \in Nat
        /\ rank'[i] \in Nat /\ rank'[up[i]] \in Nat /\ rank'[top[i]] \in Nat
        /\ rank[low] \in Nat /\ rank'[low] \in Nat /\ rank'[peakRoot] \in Nat
    BY <1>6, <1>9, <2>1
  <2>7. i = peakRoot => up[i] = i /\ top[i] = i
    BY <1>6
  <2>8. parent'[i] # i => rank'[i] < rank'[parent'[i]]
    <3>1. CASE i = low
      BY <1>10, <1>14, <3>1
    <3>2. CASE i # low /\ up[i] # i
      <4>1. rank'[i] = rank[i] /\ rank[up[i]] <= rank'[up[i]]
        BY <1>11, <2>1, <2>7, <3>2
      <4> QED
        BY <1>14, <2>1, <2>6, <3>2, <4>1
    <3> QED
      BY <1>14, <3>1, <3>2
  <2>9. peak[i] # i => rank'[i] < rank'[peak[i]]
    <3>1. CASE i = low
      BY <1>6, <1>10, <2>2, <3>1
    <3>2. CASE top[i] = i /\ i # low
      BY <2>2, <3>2
    <3>3. CASE top[i] # i
      <4>1. rank'[i] = rank[i] /\ rank[i] < rank[top[i]] /\ rank[top[i]] <= rank'[top[i]]
        BY <1>11, <2>1, <2>7, <3>3
      <4>2. rank'[i] < rank'[top[i]]
        BY <2>6, <4>1
      <4>3. CASE top[i] = low /\ low # peakRoot
        BY <1>10, <2>2, <2>6, <4>2, <4>3
      <4> QED
        BY <2>2, <4>2, <4>3
    <3> QED
      BY <3>1, <3>2, <3>3
  <2> QED
    BY <2>3, <2>4, <2>5, <2>8, <2>9
<1>16. Forest(S, parent', rank', peak)
  BY <1>9, <1>13, <1>15 DEF Forest
<1>17. \A i, j \in S : peak[i] = peak[j] <=> top[i] = top[j] \/ {top[i], top[j]} = {ra, rb}
  <2> TAKE i, j \in S
  <2>1. {top[i], top[j]} = {ra, rb} <=> {top[i], top[j]} = {peakRoot, low}
    BY <1>6
  <2>2. /\ peak[i] = IF top[i] = low THEN peakRoot ELSE top[i]
        /\ peak[j] = IF top[j] = low THEN peakRoot ELSE top[j]
    BY <1>12
  <2> QED
    BY <2>1, <2>2
<1>18. ASSUME NEW i \in S
       PROVE  /\ peak[i] = IF top[i] = low THEN peakRoot ELSE top[i]
              /\ \/ rank'[i] = rank[i]
                 \/ /\ i = peakRoot /\ low # peakRoot /\ rank[low] = rank[peakRoot]
                    /\ rank'[peakRoot] = rank[peakRoot] + 1
  BY <1>7, <1>8, <1>9, <1>12
<1>19. RootGrows(S, top, peak)
  BY <1>6, <1>18 DEF RootGrows
<1> QED
  BY <1>3, <1>16, <1>17, <1>19 DEF TreesMerge

-----------------------------------------------------------------------------
\* The groups.

\* The pairs that have been joined.
Joined == {p \in pairs \ todo : Accepted(p, pairs)}

\* The trees are the customers linked by the pairs joined so far.
TreesAreLinked ==
  \E top : /\ Forest(Ids, parent, rank, top)
           /\ \A p \in Joined : top[p.a] = top[p.b]
           /\ \A i, j \in Ids : top[i] = top[j] => Linked(i, j, Joined)

\* What is known of the run besides.
RunInv ==
  /\ phase \in {"load", "cluster", "done"}
  /\ customers \in Inputs
  /\ phase = "load" => pairs = {}
  /\ phase = "cluster" => pairs = ScorePairs(Normalized(customers), settings.signals)
  /\ todo \subseteq pairs
  /\ \A p \in pairs : p.a \in Ids /\ p.b \in Ids

GroupInv == RunInv /\ TreesAreLinked

\* Rows are numbered from one.
LEMMA RowNumbers ==
  ASSUME customers \in Inputs
  PROVE  /\ Ids = 1..Len(customers) /\ Len(customers) \in Nat /\ IsFiniteSet(Ids)
         /\ DOMAIN Normalized(customers) = Ids /\ Len(Normalized(customers)) = Len(customers)
<1>1. customers \in Seq(Range(customers))
  BY DetectionAssumption DEF DetectionAssumption, IsSequence
<1>2. DOMAIN customers = 1..Len(customers) /\ Len(customers) \in Nat
  BY <1>1
<1>3. DOMAIN Normalized(customers) = 1..Len(customers)
  BY <1>2 DEF Normalized
<1>4. Len(Normalized(customers)) = Len(customers)
  BY <1>2, <1>3 DEF Normalized
<1> QED
  BY <1>2, <1>3, <1>4, FS_Interval DEF Ids

\* A scored pair is a pair of customers.
LEMMA PairsAreOfRows ==
  ASSUME NEW rows, NEW options, NEW p \in ScorePairs(rows, options)
  PROVE  /\ p.a \in DOMAIN rows /\ p.b \in DOMAIN rows
         /\ p = ScoredPair(rows, p.a, p.b, options)
<1>1. PICK e \in (DOMAIN rows) \X (DOMAIN rows) : p = ScoredPair(rows, e[1], e[2], options)
  BY DEF ScorePairs
<1>2. p.a = e[1] /\ p.b = e[2]
  BY <1>1 DEF ScoredPair
<1> QED
  BY <1>1, <1>2

\* Links are links, and more links link more.
LEMMA LinksLink ==
  ASSUME NEW links, NEW more, links \subseteq more
  PROVE  /\ \A p \in links : Linked(p.a, p.b, links) /\ Linked(p.b, p.a, links)
         /\ \A i \in Ids : Linked(i, i, links)
         /\ \A i, j : Linked(i, j, links) => Linked(i, j, more)
         /\ \A i, j, k : Linked(i, j, links) /\ Linked(j, k, links) => Linked(i, k, links)
  BY DEF Linked

LEMMA InitGroups == ASSUME Init PROVE GroupInv
<1>1. RunInv
  BY DEF Init, RunInv
<1>2. PICK top : top = [i \in Ids |-> i]
  OBVIOUS
<1>3. Forest(Ids, parent, rank, top)
  BY <1>2 DEF Init, Forest
<1>4. Joined = {}
  BY DEF Init, Joined
<1>5. \A i, j \in Ids : top[i] = top[j] => Linked(i, j, Joined)
  BY <1>2, LinksLink
<1> QED
  BY <1>1, <1>3, <1>4, <1>5 DEF GroupInv, TreesAreLinked

LEMMA JoinLinks ==
  ASSUME GroupInv, NEW q \in todo, Join(q)
  PROVE  TreesAreLinked'
<1>1. PICK top : /\ Forest(Ids, parent, rank, top)
                 /\ \A p \in Joined : top[p.a] = top[p.b]
                 /\ \A i, j \in Ids : top[i] = top[j] => Linked(i, j, Joined)
  BY DEF GroupInv, TreesAreLinked
<1>2. q.a \in Ids /\ q.b \in Ids /\ q \in pairs /\ IsFiniteSet(Ids)
  BY RowNumbers DEF GroupInv, RunInv
<1>3. Ids' = Ids /\ pairs' = pairs /\ customers' = customers /\ todo' = todo \ {q}
  BY DEF Join, Ids
<1>4. \A p : Accepted(p, pairs)' <=> Accepted(p, pairs)
  BY <1>3 DEF Accepted, HasStrongSignal, Close, BestScore
<1>5. Joined' = IF Accepted(q, pairs) THEN Joined \cup {q} ELSE Joined
  BY <1>2, <1>3, <1>4 DEF Joined
<1>6. \A i, j, links : Linked(i, j, links)' <=> Linked(i, j, links)
  BY <1>3 DEF Linked
<1>7. CASE ~Accepted(q, pairs)
  <2>1. parent' = parent /\ rank' = rank /\ Joined' = Joined
    BY <1>5, <1>7 DEF Join
  <2> QED
    BY <1>1, <1>3, <2>1 DEF TreesAreLinked, Forest, Linked
<1>8. CASE Accepted(q, pairs)
  <2>1. Union(q.a, q.b)
    BY <1>8 DEF Join
  <2>2. PICK peak :
          /\ Forest(Ids, parent', rank', peak)
          /\ \A i, j \in Ids :
               peak[i] = peak[j] <=>
                 top[i] = top[j] \/ {top[i], top[j]} = {top[q.a], top[q.b]}
    <3>1. PICK S : S = Ids
      OBVIOUS
    <3>2. /\ IsFiniteSet(S) /\ q.a \in S /\ q.b \in S
          /\ Forest(S, parent, rank, top)
      BY <1>1, <1>2, <3>1
    <3>3. TreesMerge(S, top, q.a, q.b)
      BY <2>1, <3>2, UnionMerges
    <3> QED
      BY <3>1, <3>3 DEF TreesMerge
  <2>3. Joined' = Joined \cup {q}
    BY <1>5, <1>8
  <2>4. ASSUME NEW p \in Joined' PROVE peak[p.a] = peak[p.b]
    <3>1. CASE p = q
      BY <1>2, <2>2, <3>1
    <3>2. CASE p \in Joined
      <4>1. p.a \in Ids /\ p.b \in Ids /\ top[p.a] = top[p.b]
        BY <1>1, <3>2 DEF GroupInv, RunInv, Joined
      <4> QED
        BY <2>2, <4>1
    <3> QED
      BY <2>3, <2>4, <3>1, <3>2
  <2>5. ASSUME NEW i \in Ids, NEW j \in Ids, peak[i] = peak[j]
        PROVE  Linked(i, j, Joined')
    <3> DEFINE L(k, l) == Linked(k, l, Joined')
    <3>1. \A k, l \in Ids : top[k] = top[l] => L(k, l)
      BY <1>1, <2>3, LinksLink
    <3>2. L(q.a, q.b) /\ L(q.b, q.a)
      BY <2>3, LinksLink
    <3>3. \A k, l, m : L(k, l) /\ L(l, m) => L(k, m)
      BY LinksLink
    <3>4. CASE top[i] = top[j]
      BY <3>1, <3>4
    <3>5. CASE top[i] = top[q.a] /\ top[j] = top[q.b]
      <4>1. L(i, q.a) /\ L(q.b, j)
        BY <1>2, <3>1, <3>5
      <4> QED
        BY <3>2, <3>3, <4>1
    <3>6. CASE top[i] = top[q.b] /\ top[j] = top[q.a]
      <4>1. L(i, q.b) /\ L(q.a, j)
        BY <1>2, <3>1, <3>6
      <4> QED
        BY <3>2, <3>3, <4>1
    <3> QED
      BY <2>2, <2>5, <3>4, <3>5, <3>6
  <2> QED
    BY <1>3, <1>6, <2>2, <2>4, <2>5 DEF TreesAreLinked
<1> QED
  BY <1>7, <1>8

LEMMA GroupStep == ASSUME GroupInv, [Next]_vars PROVE GroupInv'
<1>1. CASE TooFew \/ Finish \/ UNCHANGED vars \/ \E group \in Clusters : Classify(group)
  <2>1. UNCHANGED <<customers, settings, pairs, todo, parent, rank>>
    BY <1>1 DEF TooFew, Finish, Classify, vars
  <2>2. phase' = phase \/ phase' = "done"
    BY <1>1 DEF TooFew, Finish, Classify, vars
  <2>3. RunInv'
    BY <2>1, <2>2 DEF GroupInv, RunInv, Ids, Normalized
  <2>4. Joined' = Joined /\ Ids' = Ids
    BY <2>1 DEF Joined, Ids, Accepted, HasStrongSignal, Close, BestScore
  <2>5. TreesAreLinked'
    BY <2>1, <2>4 DEF GroupInv, TreesAreLinked, Forest, Linked
  <2> QED
    BY <2>3, <2>5 DEF GroupInv
<1>2. CASE Score
  <2>1. /\ UNCHANGED <<customers, settings, parent, rank>> /\ todo' = pairs'
        /\ phase = "load" /\ phase' = "cluster"
        /\ pairs' = ScorePairs(Normalized(customers), settings.signals)
    BY <1>2 DEF Score
  <2>2. \A p \in pairs' : p.a \in Ids /\ p.b \in Ids
    BY <2>1, PairsAreOfRows, RowNumbers DEF GroupInv, RunInv
  <2>3. RunInv'
    BY <2>1, <2>2 DEF GroupInv, RunInv, Ids, Normalized
  <2>4. Joined' = {} /\ Joined = {} /\ Ids' = Ids
    BY <2>1 DEF Joined, Ids, GroupInv, RunInv
  <2>5. TreesAreLinked'
    BY <2>1, <2>4 DEF GroupInv, TreesAreLinked, Forest, Linked
  <2> QED
    BY <2>3, <2>5 DEF GroupInv
<1>3. ASSUME NEW q \in todo, Join(q) PROVE GroupInv'
  <2>1. RunInv'
    BY <1>3 DEF Join, GroupInv, RunInv, Ids, Normalized
  <2>2. TreesAreLinked'
    BY <1>3, JoinLinks
  <2> QED
    BY <2>1, <2>2 DEF GroupInv
<1> QED
  BY <1>1, <1>2, <1>3 DEF Next

LEMMA GroupsHold == Spec => []GroupInv
<1>1. Init => GroupInv
  BY InitGroups
<1>2. GroupInv /\ [Next]_vars => GroupInv'
  BY GroupStep
<1> QED
  BY <1>1, <1>2, PTL DEF Spec

\* Normalizing a row again leaves its phone, name and domain alone.
LEMMA NormalizedOnce ==
  ASSUME NEW row, IsRow(row), NEW r, r = NormalizeRow(row), NEW q, q = NormalizeRow(r)
  PROVE  /\ q.phone = r.phone /\ IsSequence(r.phone)
         /\ r.name = row.name
         /\ q.email # NoEmail => r.email # NoEmail /\ q.email.domain = r.email.domain
<1>1. /\ {"email", "name", "phone"} \subseteq DOMAIN row
      /\ row.phone \in Seq(Range(row.phone))
      /\ row.email = NoEmail \/ {"tag", "domain"} \subseteq DOMAIN row.email
  BY DEF IsRow, IsSequence
<1>2. /\ DOMAIN r = DOMAIN row /\ r.phone = NormalizePhone(row.phone) /\ r.name = row.name
      /\ r.email = NormalizeEmail(row.email)
  BY <1>1 DEF NormalizeRow
<1>3. q.phone = NormalizePhone(r.phone) /\ q.email = NormalizeEmail(r.email)
  BY <1>1, <1>2 DEF NormalizeRow
<1>4. /\ r.phone \in Seq(Range(row.phone))
      /\ \A k \in 1..Len(r.phone) : r.phone[k] # "+"
  BY <1>1, <1>2, NoPlusLeft
<1>5. q.phone = r.phone
  BY <1>3, <1>4, DigitsStay
<1>6. IsSequence(r.phone)
  <2>1. DOMAIN r.phone = 1..Len(r.phone) /\ Len(r.phone) \in Nat
    BY <1>4
  <2>2. \A k \in 1..Len(r.phone) : r.phone[k] \in Range(r.phone)
    BY <2>1 DEF Range
  <2>3. r.phone = [k \in 1..Len(r.phone) |-> r.phone[k]]
    BY <1>4
  <2> QED
    BY <2>1, <2>2, <2>3 DEF IsSequence
<1>7. q.email # NoEmail => r.email # NoEmail /\ q.email.domain = r.email.domain
  <2>1. HAVE q.email # NoEmail
  <2>2. r.email # NoEmail /\ row.email # NoEmail
    BY <1>2, <1>3, <2>1 DEF NormalizeEmail
  <2>3. r.email = [row.email EXCEPT !.tag = FALSE] /\ q.email = [r.email EXCEPT !.tag = FALSE]
    BY <1>2, <1>3, <2>2 DEF NormalizeEmail
  <2>4. "domain" \in DOMAIN r.email
    BY <1>1, <2>2, <2>3
  <2> QED
    BY <2>2, <2>3, <2>4
<1> QED
  BY <1>2, <1>5, <1>6, <1>7

\* Names can be compared.
LEMMA NameSimIsNumber ==
  ASSUME NEW row, NEW other, IsRow(row), IsRow(other)
  PROVE  NameSim(row, other) \in Int
<1> DEFINE Letters(name) == UNION {Range(name[k]) : k \in DOMAIN name}
           L == Letters(row.name) \cup Letters(other.name) \cup {Blank}
<1>1. ASSUME NEW name, IsSequence(name), \A k \in DOMAIN name : IsSequence(name[k]),
             Letters(name) \subseteq L
      PROVE  name \in Seq(Seq(L))
  <2>1. name \in Seq(Range(name))
    BY <1>1 DEF IsSequence
  <2>2. DOMAIN name = 1..Len(name) /\ Len(name) \in Nat
    BY <2>1
  <2>3. ASSUME NEW k \in 1..Len(name) PROVE name[k] \in Seq(L)
    <3>1. Range(name[k]) \subseteq L /\ name[k] \in Seq(Range(name[k]))
      BY <1>1, <2>2 DEF IsSequence
    <3>2. \A T, U, s : T \subseteq U /\ s \in Seq(T) => s \in Seq(U)
      OBVIOUS
    <3> HIDE DEF L
    <3> QED
      BY <3>1, <3>2
  <2>4. name = [k \in 1..Len(name) |-> name[k]]
    BY <2>1
  <2> HIDE DEF L
  <2> QED
    BY <2>2, <2>3, <2>4
<1>2. row.name \in Seq(Seq(L)) /\ other.name \in Seq(Seq(L)) /\ Blank \in L
  BY <1>1 DEF IsRow
<1> HIDE DEF L
<1>3. Spelled(row.name) \in Seq(L) /\ Spelled(other.name) \in Seq(L)
  BY <1>2, SpelledIsSequence
<1> QED
  BY <1>3, JaroWinklerIsNumber DEF NameSim

\* Phones that are equal and long enough have a bucket.
LEMMA EqualPhonesMeet ==
  ASSUME NEW r, NEW t, IsSequence(r.phone), r.phone = t.phone, Len(r.phone) >= 7
  PROVE  PhoneKey(r) = PhoneKey(t) /\ PhoneKey(r) # <<>>
<1>1. r.phone \in Seq(Range(r.phone)) /\ Len(r.phone) \in Nat
  BY DEF IsSequence
<1>2. PhoneKey(r) = SubSeq(r.phone, Len(r.phone) - 6, Len(r.phone))
  <2>1. ~(Len(r.phone) < 7)
    BY <1>1
  <2> QED
    BY <2>1, Zenon DEF PhoneKey
<1>3. Len(SubSeq(r.phone, Len(r.phone) - 6, Len(r.phone))) = 7
  BY <1>1
<1>4. PhoneKey(r) # <<>>
  BY <1>2, <1>3
<1> QED
  BY <1>4 DEF PhoneKey

\* A pair that meets in a bucket and scores enough is found.
LEMMA MetIsFound ==
  ASSUME NEW rows, NEW options, NEW i \in DOMAIN rows, NEW j \in DOMAIN rows, i < j,
         NEW p, p = ScoredPair(rows, i, j, options), p.score >= MinConfidence,
         \/ SameBucket(rows[i], rows[j])
         \/ Len(rows) <= CrossDomainLimit /\ NameSim(rows[i], rows[j]) >= 820
  PROVE  p \in ScorePairs(rows, options)
<1>1. PICK e : e = <<i, j>>
  OBVIOUS
<1>2. e \in (DOMAIN rows) \X (DOMAIN rows) /\ e[1] = i /\ e[2] = j
  BY <1>1
<1> QED
  BY <1>2 DEF ScorePairs

\* The buckets lose nothing outside their blind spots: what they did not bring
\* together scores nothing.
LEMMA BucketsSuffice ==
  ASSUME RunInv, phase = "cluster", Len(customers) <= CrossDomainLimit,
         NEW i \in Ids, NEW j \in Ids, i < j,
         NEW p, p = ScoredPair(Normalized(customers), i, j, settings.signals),
         p.score >= MinConfidence, ~BlindSpot(p)
  PROVE  p \in pairs
<1>1. PICK rows : rows = Normalized(customers)
  OBVIOUS
<1>2. PICK options : options = settings.signals
  OBVIOUS
<1>3. /\ pairs = ScorePairs(rows, options)
      /\ i \in DOMAIN rows /\ j \in DOMAIN rows /\ Len(rows) = Len(customers)
      /\ IsRow(customers[i]) /\ IsRow(customers[j])
      /\ rows[i] = NormalizeRow(customers[i]) /\ rows[j] = NormalizeRow(customers[j])
  <2>1. customers \in Inputs /\ i \in DOMAIN customers /\ j \in DOMAIN customers
    BY DEF RunInv, Ids
  <2>2. IsRow(customers[i]) /\ IsRow(customers[j])
    BY <2>1, DetectionAssumption DEF DetectionAssumption
  <2>3. rows[i] = NormalizeRow(customers[i]) /\ rows[j] = NormalizeRow(customers[j])
    BY <1>1, <2>1 DEF Normalized
  <2> QED
    BY <1>1, <1>2, <2>1, <2>2, <2>3, RowNumbers DEF RunInv
<1>4. PICK r, t : r = rows[i] /\ t = rows[j]
  OBVIOUS
<1>5. PICK a, b : a = NormalizeRow(r) /\ b = NormalizeRow(t)
  OBVIOUS
<1>6. /\ a.phone = r.phone /\ IsSequence(r.phone)
      /\ a.email # NoEmail => r.email # NoEmail /\ a.email.domain = r.email.domain
      /\ b.phone = t.phone /\ IsSequence(t.phone)
      /\ b.email # NoEmail => t.email # NoEmail /\ b.email.domain = t.email.domain
      /\ r.name = customers[i].name /\ t.name = customers[j].name
  BY <1>3, <1>4, <1>5, NormalizedOnce
<1>7. PICK nameSim : nameSim = NameSim(r, t)
  OBVIOUS
<1>8. nameSim \in Int
  <2>1. NameSim(customers[i], customers[j]) \in Int
    BY <1>3, NameSimIsNumber
  <2> QED
    BY <1>6, <1>7, <2>1 DEF NameSim
<1>9. PICK s : s = Masked(Signals(a, b, nameSim, AddressSimilarity(r.address, t.address)), options)
  OBVIOUS
<1>10. /\ p.a = i /\ p.b = j /\ p.sig = s
       /\ \E sim : p.score = Confidence(s, sim, options.behavioral)[1]
  BY <1>1, <1>2, <1>4, <1>5, <1>7, <1>9
     DEF ScoredPair, ScorePair, ScoreNormalized, Scored, NameSim
<1>11. \/ s.emailExact \/ s.phoneExact \/ s.nameHigh \/ s.nameMedium
       \/ s.orderAddressExact /\ s.emailLocalExact
  <2> SUFFICES ASSUME ~s.emailExact, ~s.phoneExact, ~s.nameHigh, ~s.nameMedium,
                      ~(s.orderAddressExact /\ s.emailLocalExact)
               PROVE  FALSE
    OBVIOUS
  <2>1. p.score = 0
    BY <1>10, UnlikeScoresNothing
  <2> QED
    BY <2>1 DEF MinConfidence
<1>12. /\ s.emailExact => a.email # NoEmail /\ a.email = b.email
       /\ s.phoneExact => a.phone # <<>> /\ a.phone = b.phone
       /\ s.nameHigh => nameSim >= 820
       /\ s.nameMedium => nameSim >= 820
  BY <1>8, <1>9, SignalsTell
<1>13. /\ ~(s.phoneExact /\ Len(r.phone) < 7)
       /\ ~(s.orderAddressExact /\ s.emailLocalExact /\ nameSim < 820)
  BY <1>1, <1>4, <1>7, <1>10 DEF BlindSpot
<1>14. SameBucket(r, t) \/ nameSim >= 820
  <2>1. CASE s.emailExact
    BY <1>6, <1>12, <2>1 DEF SameBucket, DomainKey, EmailDomain
  <2>2. CASE s.phoneExact
    <3>1. Len(r.phone) \in Nat
      BY <1>6 DEF IsSequence
    <3>2. r.phone = t.phone /\ Len(r.phone) >= 7
      BY <1>6, <1>12, <1>13, <2>2, <3>1
    <3> QED
      BY <1>6, <3>2, EqualPhonesMeet DEF SameBucket
  <2>3. CASE s.nameHigh \/ s.nameMedium
    BY <1>12, <2>3
  <2>4. CASE s.orderAddressExact /\ s.emailLocalExact
    BY <1>8, <1>13, <2>4
  <2> QED
    BY <1>11, <2>1, <2>2, <2>3, <2>4
<1>15. p = ScoredPair(rows, i, j, options)
  BY <1>1, <1>2
<1> QED
  BY <1>3, <1>4, <1>7, <1>14, <1>15, MetIsFound

\* So the pairs found are all those that matter.
LEMMA ReferenceIsPairs ==
  ASSUME RunInv, phase = "cluster"
  PROVE  Reference = pairs
<1>1. CASE Len(customers) <= CrossDomainLimit
  <2>1. ASSUME NEW p \in AllPairs PROVE p \in pairs
    <3>1. PICK e \in {f \in Ids \X Ids : f[1] < f[2]} :
            p = ScoredPair(Normalized(customers), e[1], e[2], settings.signals)
      BY <2>1 DEF AllPairs
    <3>2. p \in pairs \/ (p.score >= MinConfidence /\ ~BlindSpot(p))
      BY <2>1 DEF AllPairs
    <3> QED
      BY <1>1, <3>1, <3>2, BucketsSuffice
  <2>2. ASSUME NEW p \in pairs PROVE p \in AllPairs
    <3>1. PICK e \in Ids \X Ids :
            e[1] < e[2] /\ p = ScoredPair(Normalized(customers), e[1], e[2], settings.signals)
      BY <2>2, RowNumbers DEF RunInv, ScorePairs
    <3> QED
      BY <2>2, <3>1 DEF AllPairs
  <2> QED
    BY <1>1, <2>1, <2>2 DEF Reference
<1>2. CASE ~(Len(customers) <= CrossDomainLimit)
  BY <1>2 DEF Reference
<1> QED
  BY <1>1, <1>2

\* When all pairs are joined, the trees are the components.
LEMMA TreesAreComponents == GroupInv => GroupsAreComponents
<1> SUFFICES ASSUME GroupInv, phase = "cluster", todo = {}, NEW i \in Ids, NEW j \in Ids
             PROVE  LET all   == Reference
                        links == {p \in all : Accepted(p, all)}
                    IN  (Root(parent, i) = Root(parent, j)) <=> Linked(i, j, links)
  BY DEF GroupsAreComponents
<1>1. Reference = pairs /\ Joined = {p \in pairs : Accepted(p, pairs)}
  BY ReferenceIsPairs DEF GroupInv, Joined
<1>2. PICK top : /\ Forest(Ids, parent, rank, top)
                 /\ \A p \in Joined : top[p.a] = top[p.b]
                 /\ \A k, l \in Ids : top[k] = top[l] => Linked(k, l, Joined)
  BY DEF GroupInv, TreesAreLinked
<1>3. Root(parent, i) = top[i] /\ Root(parent, j) = top[j]
  <2>1. PICK S, up, height : S = Ids /\ up = parent /\ height = rank
    OBVIOUS
  <2>2. IsFiniteSet(S) /\ Forest(S, up, height, top) /\ i \in S /\ j \in S
    BY <1>2, <2>1, RowNumbers DEF GroupInv, RunInv
  <2>3. Root(up, i) = top[i] /\ Root(up, j) = top[j]
    BY <2>2, FindsTop
  <2> QED
    BY <2>1, <2>3
<1>4. ASSUME Linked(i, j, Joined) PROVE top[i] = top[j]
  <2>1. PICK S : S = {k \in Ids : top[k] = top[i]}
    OBVIOUS
  <2>2. \A p \in Joined : p.a \in Ids /\ p.b \in Ids
    BY DEF GroupInv, RunInv, Joined
  <2>3. S \in SUBSET Ids /\ i \in S /\ \A p \in Joined : (p.a \in S) = (p.b \in S)
    BY <1>2, <2>1, <2>2
  <2>4. j \in S
    BY <1>4, <2>3 DEF Linked
  <2> QED
    BY <2>1, <2>4
<1> QED
  BY <1>1, <1>2, <1>3, <1>4

\* The groups are the connected components of the accepted pairs of customers, for
\* any customers and settings and any order in which Go's maps bring the pairs
\* (detector.go, scorePairs; cluster.go, ClusterPairs).
THEOREM GroupsRight == Spec => []GroupsAreComponents
  BY GroupsHold, TreesAreComponents, PTL

-----------------------------------------------------------------------------
\* Reports.

\* The first rule that applies decides.
LEMMA RuleApplies ==
  ASSUME NEW rules, NEW otherwise, NEW n \in Nat, DOMAIN rules = 1..n,
         NEW i \in 1..n, rules[i][1], \A j \in 1..n : j < i => ~rules[j][1]
  PROVE  FirstOf(rules, otherwise) = rules[i][2]
<1> DEFINE hits == {j \in DOMAIN rules : rules[j][1]}
<1>1. i \in hits /\ \A j \in hits : i <= j
  OBVIOUS
<1>2. hits \subseteq Int
  OBVIOUS
<1> HIDE DEF hits
<1>3. Min(hits) = i
  <2>1. ASSUME NEW j \in hits, \A k \in hits : j <= k PROVE j = i
    <3>1. j \in Int /\ i \in Int /\ i <= j /\ j <= i
      BY <1>1, <1>2, <2>1
    <3> QED
      BY <3>1
  <2> QED
    BY <1>1, <2>1 DEF Min
<1> QED
  BY <1>1, <1>3 DEF FirstOf, hits

\* A group with a conflict of high severity is not safe.
LEMMA HighIsRisky ==
  ASSUME NEW in, in.severity = "high"
  PROVE  ClassifyRisk(in) = "risky"
<1> DEFINE reviewFrom(floor) == IF in.confidence >= floor THEN "review" ELSE "risky"
           rules == <<
             <<in.severity = "high", "risky">>,
             <<in.severity = "medium", reviewFrom(900)>>,
             <<in.business = "high", reviewFrom(900)>>,
             <<in.business = "medium" /\ in.confidence >= 900, "review">>,
             <<in.impact >= 1000 /\ in.confidence >= 900, "review">>,
             <<in.weakLinkProtection /\ in.weakest < 700, reviewFrom(750)>>,
             <<in.sparse, reviewFrom(750)>>,
             <<in.requireAnchor /\ ~in.anchored, reviewFrom(900)>>,
             <<in.confidence >= 900, "safe">> >>
<1>1. DOMAIN rules = 1..9
  OBVIOUS
<1>2. rules[1] = <<in.severity = "high", "risky">>
  OBVIOUS
<1>3. rules[1][1] /\ rules[1][2] = "risky"
  BY <1>2
<1>4. ClassifyRisk(in) = FirstOf(rules, reviewFrom(750))
  BY DEF ClassifyRisk
<1> HIDE DEF rules
<1>5. FirstOf(rules, reviewFrom(750)) = rules[1][2]
  <2>1. 9 \in Nat /\ 1 \in 1..9 /\ \A j \in 1..9 : ~(j < 1)
    OBVIOUS
  <2> QED
    BY <1>1, <1>3, <2>1, RuleApplies
<1> QED
  BY <1>3, <1>4, <1>5

\* The rows of a and b are the same but for their order and what normalization
\* changes.
SameRows(a, b) ==
  /\ Len(a) = Len(b)
  /\ \A i \in DOMAIN a : \E k \in DOMAIN b :
       a[i].address = b[k].address /\ a[i].state = b[k].state /\ a[i].tags = b[k].tags
  /\ \A k \in DOMAIN b : \E i \in DOMAIN a :
       a[i].address = b[k].address /\ a[i].state = b[k].state /\ a[i].tags = b[k].tags

\* The conflicts that block are seen whatever the order of the rows.
LEMMA BlockingIsSeen ==
  ASSUME NEW a, NEW b, SameRows(a, b), NEW c \in DetectConflicts(a), c.blocking
  PROVE  c \in DetectConflicts(b) /\ c.severity = "high"
<1> DEFINE countries(rows) ==
             Values([i \in DOMAIN rows |-> Country(rows[i].address)], "")
           disabled(rows) == \E i \in DOMAIN rows : rows[i].state = "disabled"
           risky(rows) == Tags(rows) \cap RiskTags # {}
<1>1. countries(a) = countries(b)
  <2>1. \A x : x \in countries(a) <=> x # "" /\ \E i \in DOMAIN a : x = Country(a[i].address)
    BY DEF Values, Range
  <2>2. \A x : x \in countries(b) <=> x # "" /\ \E i \in DOMAIN b : x = Country(b[i].address)
    BY DEF Values, Range
  <2> HIDE DEF countries
  <2>3. ASSUME NEW x, x \in countries(a) PROVE x \in countries(b)
    <3>1. PICK i \in DOMAIN a : x = Country(a[i].address)
      BY <2>1, <2>3
    <3>2. PICK k \in DOMAIN b : a[i].address = b[k].address
      BY DEF SameRows
    <3> QED
      BY <2>1, <2>2, <2>3, <3>1, <3>2
  <2>4. ASSUME NEW x, x \in countries(b) PROVE x \in countries(a)
    <3>1. PICK k \in DOMAIN b : x = Country(b[k].address)
      BY <2>2, <2>4
    <3>2. PICK i \in DOMAIN a : a[i].address = b[k].address
      BY DEF SameRows
    <3> QED
      BY <2>1, <2>2, <2>4, <3>1, <3>2
  <2> QED
    BY <2>3, <2>4, Zenon
<1>2. disabled(a) <=> disabled(b)
  BY DEF SameRows
<1>3. Tags(a) = Tags(b)
  <2>1. \A x : x \in Tags(a) <=> \E i \in DOMAIN a : x \in a[i].tags
    BY DEF Tags
  <2>2. \A x : x \in Tags(b) <=> \E i \in DOMAIN b : x \in b[i].tags
    BY DEF Tags
  <2>3. \A x : x \in Tags(a) <=> x \in Tags(b)
    BY <2>1, <2>2 DEF SameRows
  <2> QED
    BY <2>3, Zenon
<1>4. \A rows :
        /\ Len(rows) >= 2 /\ Differ(countries(rows)) =>
             Conflict("different_countries", "high", TRUE) \in DetectConflicts(rows)
        /\ Len(rows) >= 2 /\ disabled(rows) =>
             Conflict("disabled_account", "high", TRUE) \in DetectConflicts(rows)
        /\ Len(rows) >= 2 /\ risky(rows) =>
             Conflict("risk_tag", "high", TRUE) \in DetectConflicts(rows)
  BY DEF DetectConflicts
<1>5. \/ /\ Len(a) >= 2 /\ Differ(countries(a))
         /\ c = Conflict("different_countries", "high", TRUE)
      \/ /\ Len(a) >= 2 /\ disabled(a)
         /\ c = Conflict("disabled_account", "high", TRUE)
      \/ /\ Len(a) >= 2 /\ risky(a)
         /\ c = Conflict("risk_tag", "high", TRUE)
  <2>1. ~Conflict("different_last_names", "medium", FALSE).blocking
    BY DEF Conflict
  <2>2. ~Conflict("different_phone_country_codes", "medium", FALSE).blocking
    BY DEF Conflict
  <2>3. ~Conflict("order_country_mismatch", "high", FALSE).blocking
    BY DEF Conflict
  <2> QED
    BY <2>1, <2>2, <2>3 DEF DetectConflicts
<1>6. /\ Conflict("different_countries", "high", TRUE).severity = "high"
      /\ Conflict("disabled_account", "high", TRUE).severity = "high"
      /\ Conflict("risk_tag", "high", TRUE).severity = "high"
  BY DEF Conflict
<1>7. Len(a) = Len(b)
  BY DEF SameRows
<1> HIDE DEF countries, disabled
<1> QED
  BY <1>1, <1>2, <1>3, <1>4, <1>5, <1>6, <1>7

\* A safe group has no conflict that the profile validation blocks.
LEMMA SafeIsNotBlocked ==
  ASSUME NEW a, NEW b, SameRows(a, b), NEW in, NEW options,
         in.severity = AdjustedSeverity(DetectConflicts(b), options),
         ClassifyRisk(in) = "safe"
  PROVE  BlockingConflicts(a, options) = {}
<1> SUFFICES ASSUME NEW c \in BlockingConflicts(a, options) PROVE FALSE
  OBVIOUS
<1>1. c \in DetectConflicts(b) /\ c.severity = "high" /\ c.type \notin OptedOut(options)
  BY BlockingIsSeen DEF BlockingConflicts
<1>2. in.severity = "high"
  BY <1>1 DEF AdjustedSeverity, Severity
<1> QED
  BY <1>2, HighIsRisky

\* No worse as a primary: verified, then orders, then spend.
AtLeast(row, other) ==
  /\ other.verified => row.verified
  /\ other.verified = row.verified => other.orders <= row.orders
  /\ other.verified = row.verified /\ other.orders = row.orders => other.spent <= row.spent

Ranked(row) == row.verified \in BOOLEAN /\ row.orders \in Nat /\ row.spent \in Nat

\* Whoever wins a comparison is no worse than who loses it.
LEMMA WinnerIsAtLeast ==
  ASSUME NEW row, NEW best, Ranked(row), Ranked(best)
  PROVE  /\ BetterPrimary(row, best) => AtLeast(row, best)
         /\ ~BetterPrimary(row, best) => AtLeast(best, row)
<1> DEFINE rules == <<
             <<row.verified # best.verified, row.verified>>,
             <<row.orders # best.orders, row.orders > best.orders>>,
             <<row.spent # best.spent, row.spent > best.spent>>,
             <<Older(row, best), TRUE>>,
             <<row.age # None /\ row.age # best.age, FALSE>> >>
           last == row.updated > best.updated
<1>1. BetterPrimary(row, best) = FirstOf(rules, last)
  BY DEF BetterPrimary
<1>2. DOMAIN rules = 1..5
  OBVIOUS
<1>3. /\ rules[1] = <<row.verified # best.verified, row.verified>>
      /\ rules[2] = <<row.orders # best.orders, row.orders > best.orders>>
      /\ rules[3] = <<row.spent # best.spent, row.spent > best.spent>>
  OBVIOUS
<1> HIDE DEF rules, last
<1>4. /\ rules[1][1] <=> row.verified # best.verified
      /\ rules[2][1] <=> row.orders # best.orders
      /\ rules[3][1] <=> row.spent # best.spent
  <2>1. rules[1][1] = (row.verified # best.verified)
    BY <1>3
  <2>2. rules[2][1] = (row.orders # best.orders)
    BY <1>3
  <2>3. rules[3][1] = (row.spent # best.spent)
    BY <1>3
  <2> QED
    BY <2>1, <2>2, <2>3
<1>5. /\ rules[1][2] = row.verified
      /\ rules[2][2] = (row.orders > best.orders)
      /\ rules[3][2] = (row.spent > best.spent)
  BY <1>3
<1>6. 5 \in Nat /\ \A i \in 1..3 : i \in 1..5
  OBVIOUS
<1>7. CASE row.verified # best.verified
  <2>1. BetterPrimary(row, best) = row.verified
    <3>1. 1 \in 1..5 /\ \A j \in 1..5 : ~(j < 1)
      OBVIOUS
    <3>2. FirstOf(rules, last) = rules[1][2]
      BY <1>2, <1>4, <1>6, <1>7, <3>1, RuleApplies
    <3> QED
      BY <1>1, <1>5, <3>2
  <2> QED
    BY <1>7, <2>1 DEF AtLeast, Ranked
<1>8. CASE row.verified = best.verified /\ row.orders # best.orders
  <2>1. BetterPrimary(row, best) <=> row.orders > best.orders
    <3>1. 2 \in 1..5 /\ \A j \in 1..5 : j < 2 => j = 1
      OBVIOUS
    <3>2. FirstOf(rules, last) = rules[2][2]
      BY <1>2, <1>4, <1>6, <1>8, <3>1, RuleApplies
    <3> QED
      BY <1>1, <1>5, <3>2
  <2> QED
    BY <1>8, <2>1 DEF AtLeast, Ranked
<1>9. CASE row.verified = best.verified /\ row.orders = best.orders /\ row.spent # best.spent
  <2>1. BetterPrimary(row, best) <=> row.spent > best.spent
    <3>1. 3 \in 1..5 /\ \A j \in 1..5 : j < 3 => j = 1 \/ j = 2
      OBVIOUS
    <3>2. FirstOf(rules, last) = rules[3][2]
      BY <1>2, <1>4, <1>6, <1>9, <3>1, RuleApplies
    <3> QED
      BY <1>1, <1>5, <3>2
  <2> QED
    BY <1>9, <2>1 DEF AtLeast, Ranked
<1>10. CASE row.verified = best.verified /\ row.orders = best.orders /\ row.spent = best.spent
  BY <1>10 DEF AtLeast, Ranked
<1> QED
  BY <1>7, <1>8, <1>9, <1>10

LEMMA AtLeastIsOrder ==
  ASSUME NEW x, NEW y, NEW z, Ranked(x), Ranked(y), Ranked(z)
  PROVE  AtLeast(x, x) /\ (AtLeast(x, y) /\ AtLeast(y, z) => AtLeast(x, z))
<1>1. AtLeast(x, x)
  BY DEF AtLeast, Ranked
<1>2. ASSUME AtLeast(x, y), AtLeast(y, z) PROVE AtLeast(x, z)
  <2>1. z.verified => x.verified
    BY <1>2 DEF AtLeast
  <2>2. z.verified = x.verified => z.verified = y.verified /\ y.verified = x.verified
    BY <1>2 DEF AtLeast, Ranked
  <2>3. z.verified = x.verified => z.orders <= y.orders /\ y.orders <= x.orders
    BY <1>2, <2>2 DEF AtLeast
  <2>4. z.verified = x.verified => z.orders <= x.orders
    BY <2>3 DEF Ranked
  <2>5. z.verified = x.verified /\ z.orders = x.orders =>
          z.orders = y.orders /\ y.orders = x.orders
    BY <2>3 DEF Ranked
  <2>6. z.verified = x.verified /\ z.orders = x.orders =>
          z.spent <= y.spent /\ y.spent <= x.spent
    BY <1>2, <2>2, <2>5 DEF AtLeast
  <2>7. z.verified = x.verified /\ z.orders = x.orders => z.spent <= x.spent
    BY <2>6 DEF Ranked
  <2> QED
    BY <2>1, <2>4, <2>7 DEF AtLeast
<1> QED
  BY <1>1, <1>2

\* No member of a group is a better primary than the recommended one.
LEMMA PrimaryIsBest ==
  ASSUME NEW n \in Nat, n > 0, NEW rows, DOMAIN rows = 1..n, Len(rows) = n,
         \A i \in 1..n : Ranked(rows[i])
  PROVE  /\ RecommendPrimary(rows) \in 1..n
         /\ \A i \in 1..n : AtLeast(rows[RecommendPrimary(rows)], rows[i])
<1> DEFINE S == 1..n
           Step(k, v) == IF BetterPrimary(rows[k], rows[v]) THEN k ELSE v
           Solution(f) ==
             f = [i \in DOMAIN rows |->
                    IF i = 1 THEN 1
                    ELSE IF BetterPrimary(rows[i], rows[f[i - 1]]) THEN i ELSE f[i - 1]]
           step == [k \in 1..n |-> [v \in S |-> IF k = 1 THEN 1 ELSE Step(k, v)]]
<1>1. step \in [1..n -> [S -> S]] /\ 1 \in S
  OBVIOUS
<1>2. PICK g \in [0..n -> S] : g[0] = 1 /\ \A k \in 1..n : g[k] = step[k][g[k - 1]]
  <2> HIDE DEF step, S
  <2>1. Walks(n, S, 1, step)
    BY <1>1, Recursion
  <2> QED
    BY <2>1 DEF Walks
<1>3. Solution([i \in 1..n |-> g[i]])
  <2> DEFINE f == [i \in 1..n |-> g[i]]
  <2>1. ASSUME NEW i \in 1..n
        PROVE  f[i] = IF i = 1 THEN 1 ELSE Step(i, f[i - 1])
    <3>1. g[i] = IF i = 1 THEN 1 ELSE Step(i, g[i - 1])
      <4>1. i - 1 \in 0..n /\ g[i - 1] \in S
        OBVIOUS
      <4> HIDE DEF S
      <4> QED
        BY <1>2, <4>1
    <3>2. i # 1 => i - 1 \in 1..n
      OBVIOUS
    <3> QED
      BY <3>1, <3>2
  <2> QED
    BY <2>1
<1>4. PICK f : f = CHOOSE h : Solution(h)
  OBVIOUS
<1>5. Solution(f)
  BY <1>3, <1>4
<1>6. RecommendPrimary(rows) = f[n]
  BY <1>4 DEF RecommendPrimary
<1>7. \A i \in 1..n : f[i] = IF i = 1 THEN 1 ELSE Step(i, f[i - 1])
  BY <1>5
<1> HIDE DEF Solution, step
<1> DEFINE Best(i) == f[i] \in 1..n /\ \A k \in 1..i : AtLeast(rows[f[i]], rows[k])
           Good == {i \in 0..n : i = 0 \/ Best(i)}
<1>8. ASSUME NEW i \in 1..n, i - 1 \in Good PROVE i \in Good
  <2>1. CASE i = 1
    <3>1. f[1] = 1 /\ 1 \in 1..n
      BY <1>7, <2>1
    <3>2. AtLeast(rows[1], rows[1])
      BY <3>1, AtLeastIsOrder
    <3>3. Best(1)
      BY <3>1, <3>2
    <3> QED
      BY <2>1, <3>3
  <2>2. CASE i # 1
    <3>1. i - 1 \in 1..n /\ Best(i - 1)
      BY <1>8, <2>2
    <3>2. f[i] = Step(i, f[i - 1])
      BY <1>7, <2>2
    <3>3. f[i] \in 1..n
      BY <3>1, <3>2
    <3>4. AtLeast(rows[f[i]], rows[i]) /\ AtLeast(rows[f[i]], rows[f[i - 1]])
      BY <3>1, <3>2, WinnerIsAtLeast, AtLeastIsOrder
    <3>5. ASSUME NEW k \in 1..i PROVE AtLeast(rows[f[i]], rows[k])
      <4>1. CASE k = i
        BY <3>4, <4>1
      <4>2. CASE k # i
        <5>1. k \in 1..i - 1 /\ k \in 1..n
          BY <4>2
        <5>2. AtLeast(rows[f[i - 1]], rows[k])
          BY <3>1, <5>1
        <5> QED
          BY <3>1, <3>3, <3>4, <5>1, <5>2, AtLeastIsOrder
      <4> QED
        BY <4>1, <4>2
    <3> QED
      BY <3>3, <3>5
  <2> QED
    BY <2>1, <2>2
<1>9. 0 \in Good /\ \A i \in 1..n : i - 1 \in Good => i \in Good
  BY <1>8
<1>10. n \in Good
  <2> HIDE DEF Good
  <2>1. \A k \in 0..n : k \in Good
    BY <1>9, Climb
  <2> QED
    BY <2>1
<1> QED
  BY <1>6, <1>10

\* g gives the sums of f over the subsets of D, taken one element after the other.
Sums(g, f, D) ==
  g = [s \in SUBSET D |->
         IF s = {} THEN 0
         ELSE f[CHOOSE x \in s : TRUE] + g[s \ {CHOOSE x \in s : TRUE}]]

\* Taking the chosen element out of a finite set.
LEMMA TakeOut ==
  ASSUME NEW D, IsFiniteSet(D), NEW s \in SUBSET D, s # {}
  PROVE  /\ (CHOOSE x \in s : TRUE) \in s
         /\ s \ {CHOOSE x \in s : TRUE} \in SUBSET D
         /\ Cardinality(s) \in Nat \ {0} /\ Cardinality(s) <= Cardinality(D)
         /\ Cardinality(s \ {CHOOSE x \in s : TRUE}) = Cardinality(s) - 1
<1>1. PICK x : x = CHOOSE y \in s : TRUE
  OBVIOUS
<1>2. x \in s
  BY <1>1
<1>3. IsFiniteSet(s) /\ Cardinality(s) <= Cardinality(D)
  BY FS_Subset
<1>4. Cardinality(s \ {x}) = Cardinality(s) - 1
  BY <1>2, <1>3, FS_RemoveElement
<1>5. Cardinality(s) \in Nat /\ Cardinality(s) # 0
  BY <1>3, FS_CardinalityType, FS_EmptySet
<1> QED
  BY <1>1, <1>2, <1>3, <1>4, <1>5

\* There are such sums.
LEMMA SumsExist ==
  ASSUME NEW D, IsFiniteSet(D), NEW f \in [D -> Nat]
  PROVE  \E g : Sums(g, f, D)
<1> DEFINE pick(s) == CHOOSE x \in s : TRUE
           S == [SUBSET D -> Nat]
           Step(G) == [s \in SUBSET D |->
                         IF s = {} THEN 0 ELSE f[pick(s)] + G[s \ {pick(s)}]]
           n == Cardinality(D)
           step == [k \in 1..n + 1 |-> [G \in S |-> Step(G)]]
           zero == [s \in SUBSET D |-> 0]
<1>1. n \in Nat
  BY FS_CardinalityType
<1>2. \A s \in SUBSET D : s # {} => pick(s) \in s /\ s \ {pick(s)} \in SUBSET D
  OBVIOUS
<1>3. \A G \in S : Step(G) \in S
  <2> TAKE G \in S
  <2>1. ASSUME NEW s \in SUBSET D
        PROVE  (IF s = {} THEN 0 ELSE f[pick(s)] + G[s \ {pick(s)}]) \in Nat
    <3>1. CASE s = {}
      BY <3>1
    <3>2. CASE s # {}
      <4>1. pick(s) \in D /\ s \ {pick(s)} \in SUBSET D
        BY <1>2, <3>2
      <4> HIDE DEF pick
      <4>2. f[pick(s)] \in Nat /\ G[s \ {pick(s)}] \in Nat
        BY <4>1
      <4> QED
        BY <3>2, <4>2
    <3> QED
      BY <3>1, <3>2
  <2> QED
    BY <2>1
<1>4. PICK w \in [0..n + 1 -> S] : w[0] = zero /\ \A k \in 1..n + 1 : w[k] = step[k][w[k - 1]]
  <2>1. zero \in S
    OBVIOUS
  <2>2. step \in [1..n + 1 -> [S -> S]]
    <3> HIDE DEF S, Step
    <3> QED
      BY <1>3
  <2>3. n + 1 \in Nat
    BY <1>1
  <2> HIDE DEF step, S, zero, n
  <2>4. Walks(n + 1, S, zero, step)
    BY <2>1, <2>2, <2>3, Recursion
  <2> QED
    BY <2>4 DEF Walks
<1>5. \A k \in 1..n + 1 : w[k - 1] \in S /\ w[k] = Step(w[k - 1])
  <2> TAKE k \in 1..n + 1
  <2>1. k - 1 \in 0..n + 1
    BY <1>1
  <2>2. w[k - 1] \in S
    BY <2>1
  <2> HIDE DEF S, Step
  <2> QED
    BY <1>4, <2>2
<1> DEFINE Good == {k \in 0..n : \A s \in SUBSET D : Cardinality(s) <= k => w[k + 1][s] = w[k][s]}
<1>6. 0 \in Good
  <2>1. \A s \in SUBSET D : Cardinality(s) <= 0 => s = {}
    <3> TAKE s \in SUBSET D
    <3>1. IsFiniteSet(s) /\ Cardinality(s) \in Nat
      BY FS_Subset, FS_CardinalityType
    <3> QED
      BY <3>1, FS_EmptySet
  <2>2. w[1] = Step(w[0])
    <3>1. 1 \in 1..n + 1 /\ 1 - 1 = 0
      BY <1>1
    <3> HIDE DEF Step, n, S
    <3> QED
      BY <1>5, <3>1
  <2>3. w[1][{}] = 0 /\ w[0][{}] = 0
    BY <1>4, <2>2
  <2>4. ASSUME NEW s \in SUBSET D, Cardinality(s) <= 0 PROVE w[0 + 1][s] = w[0][s]
    <3>1. s = {}
      BY <2>1, <2>4
    <3>2. 0 + 1 = 1
      OBVIOUS
    <3> QED
      BY <2>3, <3>1, <3>2, Zenon
  <2> QED
    BY <1>1, <2>4
<1>7. ASSUME NEW k \in 1..n, k - 1 \in Good PROVE k \in Good
  <2>1. ASSUME NEW s \in SUBSET D, Cardinality(s) <= k PROVE w[k + 1][s] = w[k][s]
    <3>1. k + 1 \in 1..n + 1 /\ k \in 1..n + 1 /\ (k + 1) - 1 = k /\ (k - 1) + 1 = k
      BY <1>1
    <3>2. w[k + 1] = Step(w[k]) /\ w[k] = Step(w[k - 1])
      <4> HIDE DEF Step, n, S
      <4> QED
        BY <1>5, <3>1
    <3>3. CASE s = {}
      BY <3>2, <3>3
    <3>4. CASE s # {}
      <4>1. PICK x, t : x = pick(s) /\ t = s \ {pick(s)}
        OBVIOUS
      <4>2. t \in SUBSET D /\ Cardinality(t) = Cardinality(s) - 1 /\ Cardinality(s) \in Nat
        BY <3>4, <4>1, TakeOut
      <4>3. Cardinality(t) <= k - 1
        BY <1>1, <2>1, <4>2
      <4>4. w[k][t] = w[k - 1][t]
        BY <1>7, <3>1, <4>2, <4>3
      <4>5. w[k + 1][s] = f[x] + w[k][t] /\ w[k][s] = f[x] + w[k - 1][t]
        BY <3>2, <3>4, <4>1
      <4> QED
        BY <4>4, <4>5
    <3> QED
      BY <3>3, <3>4
  <2> QED
    BY <1>1, <2>1
<1>8. n \in Good
  <2>1. \A k \in 1..n : k - 1 \in Good => k \in Good
    BY <1>7
  <2> HIDE DEF Good, n
  <2>2. \A k \in 0..n : k \in Good
    BY <1>1, <1>6, <2>1, Climb
  <2> QED
    BY <1>1, <2>2
<1>9. w[n] = Step(w[n])
  <2>1. n + 1 \in 1..n + 1 /\ (n + 1) - 1 = n /\ n \in 0..n + 1
    BY <1>1
  <2>2. w[n + 1] = Step(w[n]) /\ w[n] \in S /\ w[n + 1] \in S
    <3>1. n + 1 \in 0..n + 1
      BY <1>1
    <3> HIDE DEF Step, n, S
    <3> QED
      BY <1>5, <2>1, <3>1
  <2>3. \A s \in SUBSET D : Cardinality(s) <= n
    BY FS_Subset
  <2>4. \A s \in SUBSET D : w[n + 1][s] = w[n][s]
    BY <1>8, <2>3
  <2>5. w[n + 1] = w[n]
    <3>1. PICK u, v : u = w[n] /\ v = w[n + 1]
      OBVIOUS
    <3>2. u \in S /\ v \in S /\ \A s \in SUBSET D : v[s] = u[s]
      BY <2>2, <2>4, <3>1
    <3>3. u = v
      BY <3>2
    <3> QED
      BY <3>1, <3>3
  <2> HIDE DEF Step
  <2> QED
    BY <2>2, <2>5
<1>10. PICK g : g = w[n]
  OBVIOUS
<1>11. g = Step(g)
  <2> HIDE DEF Step, n
  <2> QED
    BY <1>9, <1>10
<1>12. Sums(g, f, D)
  BY <1>11 DEF Sums
<1> QED
  BY <1>12

\* A sum is a natural number, and nothing when nothing is added only.
LEMMA SumIsNothing ==
  ASSUME NEW D, IsFiniteSet(D), NEW f \in [D -> Nat], NEW g, Sums(g, f, D)
  PROVE  g[D] \in Nat /\ (g[D] = 0 => \A i \in D : f[i] = 0)
<1> DEFINE n == Cardinality(D)
           Told(s) == g[s] \in Nat /\ (g[s] = 0 => \A i \in s : f[i] = 0)
           Good == {k \in 0..n : \A s \in SUBSET D : Cardinality(s) <= k => Told(s)}
<1>1. n \in Nat
  BY FS_CardinalityType
<1>2. Told({})
  BY DEF Sums
<1>3. 0 \in Good
  <2>1. \A s \in SUBSET D : Cardinality(s) <= 0 => s = {}
    <3> TAKE s \in SUBSET D
    <3>1. IsFiniteSet(s) /\ Cardinality(s) \in Nat
      BY FS_Subset, FS_CardinalityType
    <3> QED
      BY <3>1, FS_EmptySet
  <2> HIDE DEF Told
  <2> QED
    BY <1>1, <1>2, <2>1
<1>4. ASSUME NEW k \in 1..n, k - 1 \in Good PROVE k \in Good
  <2>1. ASSUME NEW s \in SUBSET D, Cardinality(s) <= k PROVE Told(s)
    <3>1. CASE s = {}
      BY <1>2, <3>1
    <3>2. CASE s # {}
      <4>1. PICK x, t : x = (CHOOSE y \in s : TRUE) /\ t = s \ {CHOOSE y \in s : TRUE}
        OBVIOUS
      <4>2. /\ x \in s /\ x \in D /\ t \in SUBSET D /\ t = s \ {x}
            /\ Cardinality(t) = Cardinality(s) - 1 /\ Cardinality(s) \in Nat
        BY <3>2, <4>1, TakeOut
      <4>3. Cardinality(t) <= k - 1
        BY <1>1, <2>1, <4>2
      <4>4. Told(t)
        BY <1>4, <4>2, <4>3
      <4>5. g[s] = f[x] + g[t]
        BY <3>2, <4>1 DEF Sums
      <4>6. f[x] \in Nat /\ g[t] \in Nat
        BY <4>2, <4>4
      <4>7. g[s] \in Nat
        BY <4>5, <4>6
      <4>8. g[s] = 0 => f[x] = 0 /\ g[t] = 0
        BY <4>5, <4>6
      <4> QED
        BY <4>2, <4>4, <4>7, <4>8
    <3> QED
      BY <3>1, <3>2
  <2> QED
    BY <1>1, <2>1
<1>5. n \in Good
  <2>1. \A k \in 1..n : k - 1 \in Good => k \in Good
    BY <1>4
  <2> HIDE DEF Good, n
  <2>2. \A k \in 0..n : k \in Good
    BY <1>1, <1>3, <2>1, Climb
  <2> QED
    BY <1>1, <2>2
<1> QED
  BY <1>1, <1>5

LEMMA SixAreFinite ==
  ASSUME NEW a, NEW b, NEW c, NEW d, NEW e, NEW f
  PROVE  IsFiniteSet({a, b, c, d, e, f})
<1>1. IsFiniteSet({a, b, c})
  <2>1. IsFiniteSet({a}) /\ IsFiniteSet({b}) /\ IsFiniteSet({c})
    BY FS_Singleton
  <2>2. IsFiniteSet({a} \cup {b})
    BY <2>1, FS_Union
  <2>3. IsFiniteSet(({a} \cup {b}) \cup {c})
    BY <2>1, <2>2, FS_Union
  <2>4. ({a} \cup {b}) \cup {c} = {a, b, c}
    OBVIOUS
  <2> QED
    BY <2>3, <2>4
<1>2. IsFiniteSet({d, e, f})
  <2>1. IsFiniteSet({d}) /\ IsFiniteSet({e}) /\ IsFiniteSet({f})
    BY FS_Singleton
  <2>2. IsFiniteSet({d} \cup {e})
    BY <2>1, FS_Union
  <2>3. IsFiniteSet(({d} \cup {e}) \cup {f})
    BY <2>1, <2>2, FS_Union
  <2>4. ({d} \cup {e}) \cup {f} = {d, e, f}
    OBVIOUS
  <2> QED
    BY <2>3, <2>4
<1>3. {a, b, c, d, e, f} = {a, b, c} \cup {d, e, f}
  OBVIOUS
<1> QED
  BY <1>1, <1>2, <1>3, FS_Union

\* Full readiness means that no tag stops the merge and no phone is lost.
LEMMA FullReadiness ==
  ASSUME NEW n \in Nat, NEW rows, DOMAIN rows = 1..n
  PROVE  /\ Readiness(rows) \in 0..100
         /\ Readiness(rows) = 100 =>
              /\ \A i \in 1..n : /\ rows[i].tags \cap SubscriptionTagKeywords = {}
                                 /\ rows[i].tags \cap RiskTagKeywords = {}
              /\ ~Differ(Values([i \in DOMAIN rows |-> NormalizePhone(rows[i].phone)], <<>>))
<1> DEFINE penalty(row) ==
             (IF row.email = NoEmail THEN 15 ELSE 0) + (IF row.phone = <<>> THEN 5 ELSE 0)
               + 30 * Cardinality(row.tags \cap SubscriptionTagKeywords)
               + 20 * Cardinality(row.tags \cap RiskTagKeywords)
           D == DOMAIN rows
           Solution(g) ==
             g = [s \in SUBSET D |->
                    IF s = {} THEN 0
                    ELSE penalty(rows[CHOOSE x \in s : TRUE])
                           + g[s \ {CHOOSE x \in s : TRUE}]]
           lost == IF Differ(Values([i \in DOMAIN rows |-> NormalizePhone(rows[i].phone)], <<>>))
                   THEN 10 ELSE 0
<1>1. IsFiniteSet(SubscriptionTagKeywords) /\ IsFiniteSet(RiskTagKeywords)
  BY SixAreFinite DEF SubscriptionTagKeywords, RiskTagKeywords
<1>2. ASSUME NEW row
      PROVE  /\ penalty(row) \in Nat
             /\ penalty(row) = 0 => /\ row.tags \cap SubscriptionTagKeywords = {}
                                    /\ row.tags \cap RiskTagKeywords = {}
  <2>1. PICK S, T : /\ S = row.tags \cap SubscriptionTagKeywords
                    /\ T = row.tags \cap RiskTagKeywords
    OBVIOUS
  <2>2. IsFiniteSet(S) /\ IsFiniteSet(T)
    BY <1>1, <2>1, FS_Subset
  <2>3. PICK s, t : s = Cardinality(S) /\ t = Cardinality(T)
    OBVIOUS
  <2>4. s \in Nat /\ t \in Nat /\ (s = 0 => S = {}) /\ (t = 0 => T = {})
    BY <2>2, <2>3, FS_CardinalityType, FS_EmptySet
  <2>5. PICK u, v : /\ u = IF row.email = NoEmail THEN 15 ELSE 0
                    /\ v = IF row.phone = <<>> THEN 5 ELSE 0
    OBVIOUS
  <2>6. u \in Nat /\ v \in Nat
    BY <2>5
  <2>7. penalty(row) = u + v + 30 * s + 20 * t
    BY <2>1, <2>3, <2>5
  <2> HIDE DEF penalty
  <2>8. penalty(row) \in Nat /\ (penalty(row) = 0 => s = 0 /\ t = 0)
    BY <2>4, <2>6, <2>7
  <2> QED
    BY <2>1, <2>4, <2>8
<1> HIDE DEF penalty
<1>3. PICK f : f = [i \in D |-> penalty(rows[i])]
  OBVIOUS
<1>4. f \in [D -> Nat] /\ IsFiniteSet(D)
  <2>1. \A i \in D : penalty(rows[i]) \in Nat
    BY <1>2
  <2>2. IsFiniteSet(1..n)
    BY FS_Interval
  <2>3. f \in [D -> Nat]
    <3> HIDE DEF D
    <3> QED
      BY <1>3, <2>1
  <2> QED
    BY <2>2, <2>3
<1>5. \A g : Solution(g) <=> Sums(g, f, D)
  <2> TAKE g
  <2>1. \A s \in SUBSET D : s # {} =>
          f[CHOOSE x \in s : TRUE] = penalty(rows[CHOOSE x \in s : TRUE])
    BY <1>3
  <2> DEFINE lossAt(s) == IF s = {} THEN 0
                          ELSE penalty(rows[CHOOSE x \in s : TRUE])
                                 + g[s \ {CHOOSE x \in s : TRUE}]
             sumAt(s) == IF s = {} THEN 0
                         ELSE f[CHOOSE x \in s : TRUE] + g[s \ {CHOOSE x \in s : TRUE}]
  <2>2. \A s \in SUBSET D : lossAt(s) = sumAt(s)
    BY <2>1
  <2>3. Solution(g) <=> g = [s \in SUBSET D |-> lossAt(s)]
    OBVIOUS
  <2>4. Sums(g, f, D) <=> g = [s \in SUBSET D |-> sumAt(s)]
    BY DEF Sums
  <2> HIDE DEF Solution, lossAt, sumAt
  <2> QED
    BY <2>2, <2>3, <2>4
<1>6. PICK h : h = CHOOSE g : Solution(g)
  OBVIOUS
<1>7. Sums(h, f, D)
  <2> HIDE DEF Solution, D
  <2>1. PICK g : Solution(g)
    BY <1>4, <1>5, SumsExist
  <2>2. Solution(h)
    BY <1>6, <2>1
  <2> QED
    BY <1>5, <2>2
<1>8. h[D] \in Nat /\ (h[D] = 0 => \A i \in D : f[i] = 0)
  BY <1>4, <1>7, SumIsNothing
<1>9. MapThenSumSet(LAMBDA i : penalty(rows[i]), DOMAIN rows) = h[D]
  BY <1>6 DEF MapThenSumSet, MapThenFoldSet
<1>10. Readiness(rows) = Max({0, 100 - (h[D] + lost)})
  BY <1>9 DEF Readiness, penalty
<1>11. lost \in {0, 10}
  OBVIOUS
<1>12. Readiness(rows) \in 0..100 /\ (Readiness(rows) = 100 => h[D] = 0 /\ lost = 0)
  <2>1. PICK k : k = 100 - (h[D] + lost)
    OBVIOUS
  <2> HIDE DEF lost
  <2>2. k \in Int /\ k <= 100 /\ (k = 100 => h[D] = 0 /\ lost = 0)
    BY <1>8, <1>11, <2>1
  <2>3. Max({0, k}) = IF k >= 0 THEN k ELSE 0
    <3>1. \A x \in {0, k} : (\A y \in {0, k} : x >= y) => x = IF k >= 0 THEN k ELSE 0
      BY <2>2
    <3>2. \E x \in {0, k} : \A y \in {0, k} : x >= y
      BY <2>2
    <3> QED
      BY <3>1, <3>2 DEF Max
  <2>4. Readiness(rows) = IF k >= 0 THEN k ELSE 0
    BY <1>10, <2>1, <2>3
  <2> QED
    BY <2>2, <2>4
<1>13. ASSUME Readiness(rows) = 100, NEW i \in 1..n
       PROVE  /\ rows[i].tags \cap SubscriptionTagKeywords = {}
              /\ rows[i].tags \cap RiskTagKeywords = {}
  <2>1. penalty(rows[i]) = 0
    BY <1>3, <1>8, <1>12, <1>13
  <2> QED
    BY <1>2, <2>1
<1> QED
  BY <1>12, <1>13

\* An injective sequence as long as a set is large goes through all of the set.
LEMMA OrderLists ==
  ASSUME NEW S, IsFiniteSet(S), NEW order \in [1..Cardinality(S) -> S],
         \A j, k \in 1..Cardinality(S) : order[j] = order[k] => j = k
  PROVE  \A x \in S : \E k \in 1..Cardinality(S) : order[k] = x
<1> DEFINE n == Cardinality(S)
<1>1. n \in Nat
  BY FS_CardinalityType
<1>2. Cardinality(1..n) = n
  BY <1>1, FS_Interval
<1>3. order \in Injection(1..n, S)
  BY DEF Injection, IsInjective
<1>4. order \in Surjection(1..n, S)
  BY <1>2, <1>3, FS_Injection
<1> QED
  BY <1>4 DEF Surjection

\* SetToSeq lists a finite set.
LEMMA SetIsListed ==
  ASSUME NEW S, IsFiniteSet(S)
  PROVE  /\ SetToSeq(S) \in [1..Cardinality(S) -> S]
         /\ \A x \in S : \E k \in 1..Cardinality(S) : SetToSeq(S)[k] = x
<1> DEFINE n == Cardinality(S)
<1>1. PICK f : f \in Bijection(1..n, S)
  BY FS_CardinalityType DEF ExistsBijection
<1>2. f \in [1..n -> S] /\ IsInjective(f)
  BY <1>1 DEF Bijection, Injection
<1>3. SetToSeq(S) \in [1..n -> S] /\ IsInjective(SetToSeq(S))
  BY <1>2 DEF SetToSeq
<1>4. PICK g : g = SetToSeq(S)
  OBVIOUS
<1>5. g \in [1..n -> S] /\ \A j, k \in 1..n : g[j] = g[k] => j = k
  BY <1>3, <1>4 DEF IsInjective
<1>6. \A x \in S : \E k \in 1..n : g[k] = x
  BY <1>5, OrderLists
<1> QED
  BY <1>4, <1>5, <1>6

\* Normalization changes the e-mail and the phone only.
LEMMA NormalizationKeeps ==
  ASSUME NEW row, IsRow(row), NEW r, r = NormalizeRow(row)
  PROVE  /\ r.address = row.address /\ r.state = row.state /\ r.tags = row.tags
         /\ r.verified = row.verified /\ r.orders = row.orders /\ r.spent = row.spent
  BY DEF IsRow, NormalizeRow

\* The conflict about tags is about tags.
LEMMA RiskTagIsSeen ==
  ASSUME NEW rows, NEW c \in DetectConflicts(rows), c.type = "risk_tag"
  PROVE  Tags(rows) \cap RiskTags # {}
<1>1. /\ Conflict("different_countries", "high", TRUE).type # "risk_tag"
      /\ Conflict("different_last_names", "medium", FALSE).type # "risk_tag"
      /\ Conflict("disabled_account", "high", TRUE).type # "risk_tag"
      /\ Conflict("different_phone_country_codes", "medium", FALSE).type # "risk_tag"
      /\ Conflict("order_country_mismatch", "high", FALSE).type # "risk_tag"
  BY DEF Conflict
<1> QED
  BY <1>1 DEF DetectConflicts

\* The report of a group agrees with the gates, whatever the order of the members.
LEMMA ReportAgrees ==
  ASSUME customers \in Inputs, NEW group \in SUBSET Ids, group # {},
         NEW order \in SetToSeqs(group)
  PROVE  /\ Report(order).members = group /\ Report(order).readiness \in 0..100
         /\ AgreesWithGates(Report(order))
<1> DEFINE n == Cardinality(group)
           rows == GatherMembers(order)
           raw == [k \in 1..n |-> customers[SetToSeq(group)[k]]]
           best == RecommendPrimary(rows)
<1>1. /\ IsFiniteSet(Ids) /\ DOMAIN Normalized(customers) = Ids
      /\ \A i \in Ids : IsRow(customers[i])
  BY RowNumbers, DetectionAssumption DEF DetectionAssumption, Ids
<1>2. IsFiniteSet(group) /\ n \in Nat /\ n > 0
  <2>1. IsFiniteSet(group)
    BY <1>1, FS_Subset
  <2>2. n \in Nat /\ n # 0
    BY <2>1, FS_CardinalityType, FS_EmptySet
  <2> QED
    BY <2>1, <2>2
<1>3. order \in [1..n -> group] /\ \A j, k \in 1..n : order[j] = order[k] => j = k
  BY DEF SetToSeqs
<1>4. \A i \in group : \E k \in 1..n : order[k] = i
  BY <1>2, <1>3, OrderLists
<1>5. DOMAIN order = 1..n /\ {order[k] : k \in DOMAIN order} = group
  BY <1>3, <1>4
<1>6. /\ DOMAIN rows = 1..n /\ Len(rows) = n
      /\ \A k \in 1..n : rows[k] = NormalizeRow(customers[order[k]])
  <2>1. rows = [k \in 1..n |-> Normalized(customers)[order[k]]]
    BY <1>5 DEF GatherMembers
  <2>2. Len(rows) = n
    BY <1>2, <2>1
  <2>3. \A i \in Ids : Normalized(customers)[i] = NormalizeRow(customers[i])
    BY DEF Normalized, Ids
  <2> QED
    BY <1>3, <2>1, <2>2, <2>3
<1>7. ASSUME NEW k \in 1..n
      PROVE  LET row == customers[order[k]] IN
             /\ rows[k].address = row.address /\ rows[k].state = row.state
             /\ rows[k].tags = row.tags /\ rows[k].verified = row.verified
             /\ rows[k].orders = row.orders /\ rows[k].spent = row.spent
             /\ IsRow(row)
  <2>1. IsRow(customers[order[k]])
    BY <1>1, <1>3
  <2> QED
    BY <1>6, <2>1, NormalizationKeeps
<1>8. /\ SetToSeq(group) \in [1..n -> group]
      /\ \A i \in group : \E k \in 1..n : SetToSeq(group)[k] = i
  BY <1>2, SetIsListed
<1>9. SameRows(raw, rows)
  <2>1. DOMAIN raw = 1..n /\ Len(raw) = n
    BY <1>2
  <2>2. ASSUME NEW i \in 1..n
        PROVE  \E k \in 1..n : raw[i] = customers[order[k]]
    BY <1>4, <1>8
  <2>3. ASSUME NEW k \in 1..n
        PROVE  \E i \in 1..n : raw[i] = customers[order[k]]
    BY <1>3, <1>8
  <2> HIDE DEF raw, rows, n
  <2>4. ASSUME NEW i \in DOMAIN raw
        PROVE  \E k \in DOMAIN rows : /\ raw[i].address = rows[k].address
                                      /\ raw[i].state = rows[k].state
                                      /\ raw[i].tags = rows[k].tags
    <3>1. PICK k \in 1..n : raw[i] = customers[order[k]]
      BY <2>1, <2>2
    <3> QED
      BY <1>6, <1>7, <3>1
  <2>5. ASSUME NEW k \in DOMAIN rows
        PROVE  \E i \in DOMAIN raw : /\ raw[i].address = rows[k].address
                                     /\ raw[i].state = rows[k].state
                                     /\ raw[i].tags = rows[k].tags
    <3>1. PICK i \in 1..n : raw[i] = customers[order[k]]
      BY <1>6, <2>3
    <3> QED
      BY <1>6, <1>7, <2>1, <3>1
  <2> QED
    BY <1>6, <2>1, <2>4, <2>5 DEF SameRows
<1>10. /\ Report(order).members = group
       /\ Report(order).risk = Risk(group, rows)
       /\ Report(order).primary = order[best]
       /\ Report(order).readiness = Readiness(rows)
       /\ Report(order).simulation = Simulation(rows)
  BY <1>5 DEF Report
<1>11. Risk(group, rows) = "safe" => BlockingConflicts(raw, settings) = {}
  <2> DEFINE in == [
        confidence |-> TopScore(group),
        severity   |-> AdjustedSeverity(DetectConflicts(rows), settings),
        business   |-> BusinessRisk(rows),
        impact     |-> ImpactScore(rows),
        weakest    |-> WeakestClusterEdge(group),
        sparse     |-> Sparse(group),
        anchored   |-> \E k \in DOMAIN rows : IsAnchor(rows[k]),
        weakLinkProtection |-> settings.weakLinkProtection,
        requireAnchor      |-> settings.requireAnchor]
  <2>1. in.severity = AdjustedSeverity(DetectConflicts(rows), settings)
    OBVIOUS
  <2>2. Risk(group, rows) = ClassifyRisk(in)
    BY DEF Risk
  <2> HIDE DEF in, raw, rows
  <2> QED
    BY <1>9, <2>1, <2>2, SafeIsNotBlocked
<1>12. Readiness(rows) \in 0..100
  <2> HIDE DEF rows, n
  <2> QED
    BY <1>2, <1>6, FullReadiness
<1>13. ASSUME Readiness(rows) = 100
       PROVE  /\ ValidatorAccepts(raw)
              /\ "risk_tag" \notin {c.type : c \in DetectConflicts(raw)}
              /\ ~Simulation(rows).phonesDiffer
  <2>1. /\ \A k \in 1..n : /\ rows[k].tags \cap SubscriptionTagKeywords = {}
                           /\ rows[k].tags \cap RiskTagKeywords = {}
        /\ ~Differ(Values([i \in DOMAIN rows |-> NormalizePhone(rows[i].phone)], <<>>))
    <3> HIDE DEF rows, n
    <3> QED
      BY <1>2, <1>6, <1>13, FullReadiness
  <2>2. Tags(raw) \cap SubscriptionTagKeywords = {} /\ Tags(raw) \cap RiskTagKeywords = {}
    <3>1. \A i \in DOMAIN raw : \E k \in 1..n : raw[i].tags = rows[k].tags
      <4> HIDE DEF raw, rows, n
      <4> TAKE i \in DOMAIN raw
      <4>1. PICK k \in DOMAIN rows : raw[i].tags = rows[k].tags
        BY <1>9 DEF SameRows
      <4> QED
        BY <1>6, <4>1
    <3> HIDE DEF raw, rows, n
    <3> QED
      BY <2>1, <3>1 DEF Tags
  <2>3. ValidatorAccepts(raw)
    BY <2>2 DEF ValidatorAccepts, SubscriptionTagKeywords
  <2>4. "risk_tag" \notin {c.type : c \in DetectConflicts(raw)}
    <3>1. Tags(raw) \cap RiskTags = {}
      BY <2>2 DEF RiskTags, RiskTagKeywords
    <3> HIDE DEF raw
    <3> QED
      BY <3>1, RiskTagIsSeen
  <2>5. ~Simulation(rows).phonesDiffer
    BY <2>1 DEF Simulation
  <2> QED
    BY <2>3, <2>4, <2>5
<1>14. ASSUME NEW i \in group PROVE AtLeast(customers[order[best]], customers[i])
  <2>1. \A k \in 1..n : Ranked(rows[k])
    BY <1>7 DEF Ranked, IsRow
  <2>2. best \in 1..n /\ \A k \in 1..n : AtLeast(rows[best], rows[k])
    <3> HIDE DEF rows, n
    <3> QED
      BY <1>2, <1>6, <2>1, PrimaryIsBest
  <2>3. PICK k \in 1..n : order[k] = i
    BY <1>4
  <2> HIDE DEF rows, n, best
  <2>4. AtLeast(rows[best], rows[k])
    BY <2>2
  <2> QED
    BY <1>7, <2>2, <2>3, <2>4 DEF AtLeast
<1> HIDE DEF rows, raw, best, n
<1>15. raw = [k \in 1..Cardinality(group) |-> customers[SetToSeq(group)[k]]]
  BY DEF raw, n
<1> QED
  BY <1>10, <1>11, <1>12, <1>13, <1>14, <1>15 DEF AgreesWithGates, AtLeast

\* What is written in the reports.
ReportInv ==
  /\ ReportsAgreeWithGates
  /\ \A r \in reports : r.readiness \in 0..100

LEMMA ReportStep == ASSUME GroupInv, ReportInv, [Next]_vars PROVE ReportInv'
<1>1. customers' = customers /\ settings' = settings
  BY DEF Next, TooFew, Score, Join, Classify, Finish, vars
<1>2. \A r : AgreesWithGates(r)' <=> AgreesWithGates(r)
  BY <1>1 DEF AgreesWithGates
<1>3. CASE reports' = reports
  BY <1>2, <1>3 DEF ReportInv, ReportsAgreeWithGates
<1>4. ASSUME NEW group \in Clusters, Classify(group) PROVE ReportInv'
  <2>1. PICK order \in SetToSeqs(group) : reports' = reports \cup {Report(order)}
    BY <1>4 DEF Classify
  <2>2. group \in SUBSET Ids /\ group # {}
    BY <1>4 DEF Clusters, Cluster
  <2>3. AgreesWithGates(Report(order)) /\ Report(order).readiness \in 0..100
    BY <2>2, ReportAgrees DEF GroupInv, RunInv
  <2> QED
    BY <1>2, <2>1, <2>3 DEF ReportInv, ReportsAgreeWithGates
<1> QED
  BY <1>3, <1>4 DEF Next, TooFew, Score, Join, Finish, vars

\* Of a safe group no conflict is blocked, no tag stops and no phone is lost by the
\* merge of a fully ready one, and no member is a better primary than the
\* recommended one, for any customers and settings and any order of the members
\* (detector.go, readiness.go, recommendation.go, profile_validator.go, validator.go).
THEOREM ReportsKeepTheirWord == Spec => []ReportsAgreeWithGates
<1>1. Init => ReportInv
  BY DEF Init, ReportInv, ReportsAgreeWithGates
<1>2. GroupInv /\ ReportInv /\ [Next]_vars => ReportInv'
  BY ReportStep
<1>3. ReportInv => ReportsAgreeWithGates
  BY DEF ReportInv
<1> QED
  BY <1>1, <1>2, <1>3, GroupsHold, PTL DEF Spec

-----------------------------------------------------------------------------
\* Scores.

\* The least element of a set of naturals is in it.
LEMMA LeastIsThere ==
  ASSUME NEW T \in SUBSET Nat, T # {}
  PROVE  Min(T) \in T
<1>1. PICK m \in T : \A k \in T : m <= k
  BY LeastElement
<1> QED
  BY <1>1 DEF Min

\* There is a function that begins at start, takes the steps and has its k-th value
\* of the k-th kind.
TypedWalks(n, kind, start, step) ==
  \E g : /\ g = [k \in 0..n |-> g[k]]
         /\ g[0] = start /\ \A k \in 1..n : g[k] = step[k][g[k - 1]]
         /\ \A k \in 0..n : g[k] \in kind[k]

LEMMA TypedRecursion ==
  ASSUME NEW n \in Nat, NEW kind, NEW start \in kind[0], NEW step,
         \A k \in 1..n : \A v \in kind[k - 1] : step[k][v] \in kind[k]
  PROVE  TypedWalks(n, kind, start, step)
<1>1. ASSUME NEW g, g[0] = start, \A k \in 1..n : g[k] = step[k][g[k - 1]]
      PROVE  \A k \in 0..n : g[k] \in kind[k]
  <2> DEFINE Good == {k \in 0..n : g[k] \in kind[k]}
  <2>1. 0 \in Good
    BY <1>1
  <2>2. ASSUME NEW k \in 1..n, k - 1 \in Good PROVE k \in Good
    BY <1>1, <2>2
  <2>3. \A k \in 1..n : k - 1 \in Good => k \in Good
    BY <2>2
  <2> HIDE DEF Good
  <2>4. \A k \in 0..n : k \in Good
    BY <2>1, <2>3, Climb
  <2> QED
    BY <2>4 DEF Good
<1>2. \E g : /\ DOMAIN g = 0..n /\ g = [k \in 0..n |-> g[k]]
             /\ g[0] = start /\ \A k \in 1..n : g[k] = step[k][g[k - 1]]
  <2> DEFINE Solves(g, m) == /\ DOMAIN g = 0..m /\ g = [k \in 0..m |-> g[k]]
                             /\ g[0] = start /\ \A k \in 1..m : g[k] = step[k][g[k - 1]]
             Good == {m \in 0..n : \E g : Solves(g, m)}
  <2>1. 0 \in Good
    <3> DEFINE g == [k \in 0..0 |-> start]
    <3>1. Solves(g, 0)
      OBVIOUS
    <3> HIDE DEF g, Solves
    <3> QED
      BY <3>1
  <2>2. ASSUME NEW m \in 1..n, m - 1 \in Good PROVE m \in Good
    <3>1. PICK g : Solves(g, m - 1)
      BY <2>2
    <3> DEFINE h == [k \in 0..m |-> IF k = m THEN step[m][g[m - 1]] ELSE g[k]]
    <3>2. ASSUME NEW k \in 1..m PROVE h[k] = step[k][h[k - 1]]
      <4>1. k - 1 \in 0..m /\ k - 1 # m /\ h[k - 1] = g[k - 1]
        OBVIOUS
      <4>2. CASE k = m
        BY <4>1, <4>2
      <4>3. CASE k # m
        <5>1. k \in 1..m - 1 /\ h[k] = g[k]
          BY <4>3
        <5> QED
          BY <3>1, <4>1, <5>1
      <4> QED
        BY <4>2, <4>3
    <3>3. h[0] = start /\ DOMAIN h = 0..m /\ h = [k \in 0..m |-> h[k]]
      BY <3>1
    <3> HIDE DEF h
    <3>4. Solves(h, m)
      BY <3>2, <3>3
    <3> HIDE DEF Solves
    <3> QED
      BY <3>4
  <2>3. \A m \in 1..n : m - 1 \in Good => m \in Good
    BY <2>2
  <2> HIDE DEF Good
  <2>4. \A k \in 0..n : k \in Good
    BY <2>1, <2>3, Climb
  <2>5. n \in Good
    BY <2>4
  <2> QED
    BY <2>5 DEF Good
<1> QED
  BY <1>1, <1>2 DEF TypedWalks

\* A row of the table of distances follows from the row above it.
LEMMA NextRowIsNumbers ==
  ASSUME NEW b, Len(b) \in Nat, NEW above \in [1..Len(b) + 1 -> Nat], NEW i \in Nat, NEW x
  PROVE  NextRow(above, i, x, b) \in [1..Len(b) + 1 -> Nat]
<1>0. PICK m \in Nat : m = Len(b) /\ above \in [1..m + 1 -> Nat]
  OBVIOUS
<1> USE <1>0
<1> DEFINE cost(j) == IF x = b[j] THEN 0 ELSE 1
           Wider(j, left) ==
             Append(left, Min({above[j + 1] + 1, left[j] + 1, above[j] + cost(j)}))
           kind == [j \in 0..m |-> [1..j + 1 -> Nat]]
           step == [j \in 1..m |-> [left \in kind[j - 1] |-> Wider(j, left)]]
           Solution(g) ==
             g = [j \in 0..Len(b) |->
                    IF j = 0 THEN <<i>>
                    ELSE LET left == g[j - 1]
                         IN  Append(left, Min({above[j + 1] + 1, left[j] + 1,
                                                 above[j] + (IF x = b[j] THEN 0 ELSE 1)}))]
<1>1. <<i>> \in kind[0]
  <2>1. kind[0] = [1..1 -> Nat]
    OBVIOUS
  <2> QED
    BY <2>1
<1>2. ASSUME NEW j \in 1..m, NEW left \in kind[j - 1]
      PROVE  Wider(j, left) \in kind[j] /\ step[j][left] = Wider(j, left)
  <2>1. j - 1 \in 0..m /\ (j - 1) + 1 = j /\ j \in 0..m /\ j \in Nat
    OBVIOUS
  <2>2. left \in [1..j -> Nat]
    BY <2>1
  <2>3. left \in Seq(Nat) /\ Len(left) = j
    BY <2>1, <2>2
  <2>4. PICK u, v, w : u = above[j + 1] + 1 /\ v = left[j] + 1 /\ w = above[j] + cost(j)
    OBVIOUS
  <2>5. u \in Nat /\ v \in Nat /\ w \in Nat
    <3>1. j \in 1..m + 1 /\ j + 1 \in 1..m + 1 /\ cost(j) \in Nat
      OBVIOUS
    <3>2. above[j] \in Nat /\ above[j + 1] \in Nat /\ left[j] \in Nat
      BY <2>1, <2>2, <3>1
    <3> HIDE DEF cost
    <3> QED
      BY <2>4, <3>1, <3>2
  <2>6. Min({u, v, w}) \in Nat
    <3>1. {u, v, w} \in SUBSET Nat /\ {u, v, w} # {}
      BY <2>5
    <3>2. Min({u, v, w}) \in {u, v, w}
      BY <3>1, LeastIsThere
    <3> QED
      BY <3>1, <3>2
  <2>7. Append(left, Min({u, v, w})) \in [1..j + 1 -> Nat]
    <3>1. PICK s : s = Append(left, Min({u, v, w}))
      OBVIOUS
    <3>2. s \in Seq(Nat) /\ Len(s) = j + 1
      BY <2>3, <2>6, <3>1
    <3>3. s = [k \in 1..Len(s) |-> s[k]] /\ \A k \in 1..Len(s) : s[k] \in Nat
      BY <3>2
    <3>4. s \in [1..Len(s) -> Nat]
      BY <3>3
    <3> QED
      BY <3>1, <3>2, <3>4
  <2>8. Wider(j, left) = Append(left, Min({u, v, w}))
    BY <2>4
  <2>9. kind[j] = [1..j + 1 -> Nat]
    BY <2>1
  <2> HIDE DEF kind, Wider
  <2> QED
    BY <2>7, <2>8, <2>9
<1>3. \A j \in 1..m : \A left \in kind[j - 1] : step[j][left] \in kind[j]
  <2> HIDE DEF kind, step, Wider
  <2> QED
    BY <1>2
<1>4. PICK g : /\ g = [j \in 0..m |-> g[j]]
               /\ g[0] = <<i>> /\ \A j \in 1..m : g[j] = step[j][g[j - 1]]
               /\ \A j \in 0..m : g[j] \in kind[j]
  <2> HIDE DEF kind, step
  <2>1. TypedWalks(m, kind, <<i>>, step)
    BY <1>1, <1>3, TypedRecursion
  <2> QED
    BY <2>1 DEF TypedWalks
<1>6. ASSUME NEW h, h[0] = <<i>>, \A j \in 1..m : h[j] = Wider(j, h[j - 1])
      PROVE  \A j \in 0..m : h[j] \in kind[j]
  <2> DEFINE Good == {j \in 0..m : h[j] \in kind[j]}
  <2>1. 0 \in Good
    BY <1>1, <1>6
  <2>2. \A j \in 1..m : j - 1 \in Good => j \in Good
    <3> HIDE DEF kind, step, Wider
    <3> QED
      BY <1>2, <1>6
  <2> HIDE DEF Good
  <2>3. \A j \in 0..m : j \in Good
    BY <2>1, <2>2, Climb
  <2> QED
    BY <2>3 DEF Good
<1>7. Solution(g)
  <2>1. ASSUME NEW j \in 0..m PROVE g[j] = IF j = 0 THEN <<i>> ELSE Wider(j, g[j - 1])
    <3>1. CASE j = 0
      BY <1>4, <3>1
    <3>2. CASE j # 0
      <4>1. j \in 1..m /\ j - 1 \in 0..m
        BY <3>2
      <4> HIDE DEF kind, step, Wider
      <4> QED
        BY <1>2, <1>4, <3>2, <4>1
    <3> QED
      BY <3>1, <3>2
  <2> DEFINE entry(j) == IF j = 0 THEN <<i>> ELSE Wider(j, g[j - 1])
  <2>2. g = [j \in 0..m |-> entry(j)]
    <3> HIDE DEF Wider
    <3> QED
      BY <1>4, <2>1
  <2> QED
    BY <2>2
<1>8. PICK f : f = CHOOSE h : Solution(h)
  OBVIOUS
<1>9. Solution(f)
  <2> HIDE DEF Solution
  <2> QED
    BY <1>7, <1>8
<1>10. NextRow(above, i, x, b) = f[m]
  BY <1>8 DEF NextRow
<1>11. f[0] = <<i>> /\ \A j \in 1..m : f[j] = Wider(j, f[j - 1])
  <2>1. f = [j \in 0..m |-> IF j = 0 THEN <<i>> ELSE Wider(j, f[j - 1])]
    BY <1>9
  <2> HIDE DEF Wider, Solution
  <2>2. \A j \in 0..m : f[j] = IF j = 0 THEN <<i>> ELSE Wider(j, f[j - 1])
    BY <2>1
  <2>3. 0 \in 0..m /\ \A j \in 1..m : j \in 0..m /\ j # 0
    OBVIOUS
  <2> QED
    BY <2>2, <2>3
<1> HIDE DEF Solution, Wider, step
<1>12. f[m] \in kind[m]
  <2> HIDE DEF kind
  <2> QED
    BY <1>6, <1>11
<1> QED
  BY <1>10, <1>12

\* The distance of two words is a natural number.
LEMMA LevenshteinIsNumber ==
  ASSUME NEW L, NEW a \in Seq(L), NEW M, NEW b \in Seq(M)
  PROVE  Levenshtein(a, b) \in Nat /\ LevenshteinSim(a, b) \in Int
<1> DEFINE n == Len(a)
           m == Len(b)
           S == [1..m + 1 -> Nat]
           first == [j \in 1..m + 1 |-> j - 1]
           step == [i \in 1..n |-> [above \in S |-> NextRow(above, i, a[i], b)]]
           Solution(g) ==
             g = [i \in 0..Len(a) |->
                    IF i = 0 THEN [j \in 1..Len(b) + 1 |-> j - 1]
                    ELSE NextRow(g[i - 1], i, a[i], b)]
<1>1. n \in Nat /\ m \in Nat
  OBVIOUS
<1>2. first \in S
  BY <1>1
<1>3. \A i \in 1..n : \A above \in S : NextRow(above, i, a[i], b) \in S
  <2> TAKE i \in 1..n
  <2> TAKE above \in S
  <2>1. i \in Nat
    BY <1>1
  <2> QED
    BY <1>1, <2>1, NextRowIsNumbers
<1>4. step \in [1..n -> [S -> S]]
  <2> HIDE DEF S, n
  <2> QED
    BY <1>3
<1>5. PICK g \in [0..n -> S] : g[0] = first /\ \A i \in 1..n : g[i] = step[i][g[i - 1]]
  <2> HIDE DEF step, S, first, n
  <2>1. Walks(n, S, first, step)
    BY <1>1, <1>2, <1>4, Recursion
  <2> QED
    BY <2>1 DEF Walks
<1>6. Solution(g)
  <2> DEFINE entry(i) == IF i = 0 THEN first ELSE NextRow(g[i - 1], i, a[i], b)
  <2>1. ASSUME NEW i \in 0..n PROVE g[i] = entry(i)
    <3>1. CASE i = 0
      BY <1>5, <3>1
    <3>2. CASE i # 0
      <4>1. i \in 1..n /\ i - 1 \in 0..n
        BY <1>1, <3>2
      <4>2. g[i - 1] \in S
        BY <4>1
      <4> HIDE DEF S, first
      <4> QED
        BY <1>5, <3>2, <4>1, <4>2
    <3> QED
      BY <3>1, <3>2
  <2>2. g = [i \in 0..n |-> entry(i)]
    <3> HIDE DEF entry, S
    <3> QED
      BY <2>1
  <2> QED
    BY <2>2
<1>7. PICK f : f = CHOOSE h : Solution(h)
  OBVIOUS
<1>8. Solution(f)
  <2> HIDE DEF Solution
  <2> QED
    BY <1>6, <1>7
<1>9. f[0] = first /\ \A i \in 1..n : f[i] = NextRow(f[i - 1], i, a[i], b)
  <2>1. f = [i \in 0..n |-> IF i = 0 THEN first ELSE NextRow(f[i - 1], i, a[i], b)]
    BY <1>8
  <2> HIDE DEF first, Solution
  <2>2. \A i \in 0..n : f[i] = IF i = 0 THEN first ELSE NextRow(f[i - 1], i, a[i], b)
    BY <2>1
  <2>3. 0 \in 0..n /\ \A i \in 1..n : i \in 0..n /\ i # 0
    BY <1>1
  <2> QED
    BY <2>2, <2>3
<1>10. Levenshtein(a, b) = f[n][m + 1]
  BY <1>7 DEF Levenshtein
<1> DEFINE Good == {i \in 0..n : f[i] \in S}
<1>11. 0 \in Good
  BY <1>1, <1>2, <1>9
<1>12. \A i \in 1..n : i - 1 \in Good => i \in Good
  <2> HIDE DEF S, n
  <2> QED
    BY <1>3, <1>9
<1>13. n \in Good
  <2> HIDE DEF Good, n
  <2>1. \A i \in 0..n : i \in Good
    BY <1>1, <1>11, <1>12, Climb
  <2> QED
    BY <1>1, <2>1
<1>14. Levenshtein(a, b) \in Nat
  <2>1. f[n] \in [1..m + 1 -> Nat] /\ m + 1 \in 1..m + 1
    BY <1>1, <1>13
  <2> QED
    BY <1>10, <2>1
<1>15. LevenshteinSim(a, b) \in Int
  <2>1. PICK longest : longest = Max({n, m})
    OBVIOUS
  <2>2. longest \in Nat
    <3>1. \A y \in {n, m} : (\A z \in {n, m} : y >= z) => y \in Nat
      BY <1>1
    <3>2. \E y \in {n, m} : \A z \in {n, m} : y >= z
      BY <1>1
    <3> QED
      BY <2>1, <3>1, <3>2 DEF Max
  <2>3. PICK d : d = Levenshtein(a, b)
    OBVIOUS
  <2>4. longest # 0 => (1000 * (longest - d)) \div longest \in Int
    BY <1>14, <2>2, <2>3
  <2>5. LevenshteinSim(a, b) =
          IF longest = 0 THEN 1000 ELSE (1000 * (longest - d)) \div longest
    BY <2>1, <2>3 DEF LevenshteinSim
  <2> QED
    BY <2>4, <2>5
<1> QED
  BY <1>14, <1>15

\* A rule gives one of the values of the rules.
LEMMA RuleGives ==
  ASSUME NEW n \in Nat, NEW rules, DOMAIN rules = 1..n, NEW V, NEW otherwise \in V,
         \A i \in 1..n : rules[i][2] \in V
  PROVE  FirstOf(rules, otherwise) \in V
<1> DEFINE hits == {i \in DOMAIN rules : rules[i][1]}
<1>1. CASE hits = {}
  BY <1>1 DEF FirstOf
<1>2. CASE hits # {}
  <2>1. hits \in SUBSET Nat
    OBVIOUS
  <2>2. Min(hits) \in hits
    <3> HIDE DEF hits
    <3> QED
      BY <1>2, <2>1, LeastIsThere
  <2>3. rules[Min(hits)][2] \in V
    BY <2>2
  <2> QED
    BY <1>2, <2>3 DEF FirstOf
<1> QED
  BY <1>1, <1>2

\* A confidence is between 0 and 980 thousandths.
LEMMA ConfidenceInRange ==
  ASSUME NEW s, NEW sim, NEW behavioral,
         sim.email \in Int, sim.phone \in Int, sim.name \in Int, sim.address \in Int
  PROVE  Confidence(s, sim, behavioral)[1] \in 0..980
<1> DEFINE Scale == 0..980
           Sources == {"", "profile", "mixed", "behavioral"}
           V == Scale \X Sources
<1>1. FirstOf(BaseRules(s), 0) \in Scale
  <2>1. DOMAIN BaseRules(s) = 1..12
    BY DEF BaseRules
  <2>2. /\ BaseRules(s)[1][2] = 980 /\ BaseRules(s)[2][2] = 980 /\ BaseRules(s)[3][2] = 920
        /\ BaseRules(s)[4][2] = 900 /\ BaseRules(s)[5][2] = 880 /\ BaseRules(s)[6][2] = 850
        /\ BaseRules(s)[7][2] = 820 /\ BaseRules(s)[8][2] = 800 /\ BaseRules(s)[9][2] = 800
        /\ BaseRules(s)[10][2] = 760 /\ BaseRules(s)[11][2] = 740 /\ BaseRules(s)[12][2] = 700
    BY DEF BaseRules
  <2>3. \A i \in 1..12 : i = 1 \/ i = 2 \/ i = 3 \/ i = 4 \/ i = 5 \/ i = 6 \/ i = 7
                           \/ i = 8 \/ i = 9 \/ i = 10 \/ i = 11 \/ i = 12
    OBVIOUS
  <2>4. \A i \in 1..12 : BaseRules(s)[i][2] \in Scale
    BY <2>2, <2>3
  <2>5. 0 \in Scale /\ 12 \in Nat
    OBVIOUS
  <2> HIDE DEF Scale
  <2> QED
    BY <2>1, <2>4, <2>5, RuleGives
<1>2. Fallback(s, sim) \in Int /\ Fallback(s, sim) <= 640
  <2>1. PICK x, y : /\ x = 4 * sim.name + 3 * sim.address + 2 * sim.email + sim.phone
                    /\ y = x \div 10 + (IF s.noteShared THEN 40 ELSE 0)
    OBVIOUS
  <2>2. x \in Int
    BY <2>1
  <2>3. y \in Int
    BY <2>1, <2>2
  <2>4. Min({640, y}) \in Int /\ Min({640, y}) <= 640
    <3>1. \A z \in {640, y} : (\A w \in {640, y} : z <= w) => z \in Int /\ z <= 640
      BY <2>3
    <3>2. \E z \in {640, y} : \A w \in {640, y} : z <= w
      BY <2>3
    <3> QED
      BY <3>1, <3>2 DEF Min
  <2> QED
    BY <2>1, <2>4 DEF Fallback
<1>3. Penalty(s) \in Nat
  <2> DEFINE part(holds, points) == IF holds THEN points ELSE 0
  <2>1. \A holds : \A points \in Nat : part(holds, points) \in Nat
    OBVIOUS
  <2>2. Penalty(s) = part(s.differentLastName, 150) + part(s.differentEmailDomain, 50)
                       + part(s.phoneAsymmetry, 50) + part(s.orderNameConflict, 100)
                       + part(s.orderAddressConflict, 120)
    BY DEF Penalty
  <2> HIDE DEF part
  <2> QED
    BY <2>1, <2>2
<1>4. Profile(s, sim) \in V
  <2>1. PICK rule : rule = FirstOf(BaseRules(s), 0)
    OBVIOUS
  <2>2. PICK base : base = IF rule = 0 THEN Fallback(s, sim) ELSE rule
    OBVIOUS
  <2>3. PICK penalty : penalty = Penalty(s)
    OBVIOUS
  <2>4. base \in Int /\ base <= 980
    BY <1>1, <1>2, <2>1, <2>2
  <2>5. penalty \in Nat
    BY <1>3, <2>3
  <2>6. Profile(s, sim) = IF base >= 970 THEN <<base, "profile">>
                          ELSE IF base = 0 \/ base < penalty THEN <<0, "">>
                          ELSE <<base - penalty, "profile">>
    BY <2>1, <2>2, <2>3 DEF Profile
  <2>7. base >= 970 => base \in Scale
    BY <2>4
  <2>8. ~(base < penalty) => base - penalty \in Scale
    BY <2>4, <2>5
  <2>9. 0 \in Scale
    OBVIOUS
  <2>10. "" \in Sources /\ "profile" \in Sources
    OBVIOUS
  <2> HIDE DEF Scale, Sources
  <2>11. \A z \in Scale : <<z, "profile">> \in V
    BY <2>10
  <2>12. <<0, "">> \in V
    BY <2>9, <2>10
  <2> HIDE DEF V
  <2>13. CASE base >= 970
    BY <2>6, <2>7, <2>11, <2>13
  <2>14. CASE ~(base >= 970) /\ (base = 0 \/ base < penalty)
    BY <2>6, <2>12, <2>14
  <2>15. CASE ~(base >= 970) /\ ~(base = 0 \/ base < penalty)
    <3>1. <<base - penalty, "profile">> \in V
      BY <2>8, <2>11, <2>15
    <3>2. Profile(s, sim) = <<base - penalty, "profile">>
      BY <2>6, <2>15, Zenon
    <3> QED
      BY <3>1, <3>2
  <2> QED
    BY <2>13, <2>14, <2>15
<1>5. FirstOf(BehavioralRules(s), Profile(s, sim)) \in V
  <2>1. DOMAIN BehavioralRules(s) = 1..5
    BY DEF BehavioralRules
  <2>2. /\ BehavioralRules(s)[1][2] = <<960, "behavioral">>
        /\ BehavioralRules(s)[2][2] = <<950, "mixed">>
        /\ BehavioralRules(s)[3][2] = <<940, "mixed">>
        /\ BehavioralRules(s)[4][2] = <<910, "behavioral">>
        /\ BehavioralRules(s)[5][2] = <<900, "mixed">>
    BY DEF BehavioralRules
  <2>3. \A i \in 1..5 : i = 1 \/ i = 2 \/ i = 3 \/ i = 4 \/ i = 5
    OBVIOUS
  <2>4. /\ <<960, "behavioral">> \in V /\ <<950, "mixed">> \in V /\ <<940, "mixed">> \in V
        /\ <<910, "behavioral">> \in V /\ <<900, "mixed">> \in V
    <3>1. {960, 950, 940, 910, 900} \subseteq Scale /\ {"mixed", "behavioral"} \subseteq Sources
      OBVIOUS
    <3> HIDE DEF Scale, Sources
    <3> QED
      BY <3>1
  <2>6. \A i \in 1..5 : BehavioralRules(s)[i][2] \in V
    <3> HIDE DEF V
    <3> QED
      BY <2>2, <2>3, <2>4
  <2>5. 5 \in Nat
    OBVIOUS
  <2> HIDE DEF V
  <2> QED
    BY <1>4, <2>1, <2>5, <2>6, RuleGives
<1>6. <<0, "">> \in V
  <2>1. 0 \in Scale /\ "" \in Sources
    OBVIOUS
  <2> HIDE DEF Scale, Sources
  <2> QED
    BY <2>1
<1>7. Confidence(s, sim, behavioral) \in V
  <2> HIDE DEF V
  <2> QED
    BY <1>4, <1>5, <1>6 DEF Confidence
<1> HIDE DEF Scale
<1>8. Confidence(s, sim, behavioral)[1] \in Scale
  BY <1>7
<1> QED
  BY <1>8 DEF Scale

\* Two e-mails can be compared.
LEMMA EmailSimilarityIsNumber ==
  ASSUME NEW a, NEW b, a = NoEmail \/ IsSequence(a.local), b = NoEmail \/ IsSequence(b.local)
  PROVE  EmailSimilarity(a, b) \in Int
<1>1. CASE a = NoEmail \/ b = NoEmail
  BY <1>1 DEF EmailSimilarity
<1>2. CASE a # NoEmail /\ b # NoEmail
  <2>1. PICK sim : sim = LevenshteinSim(a.local, b.local)
    OBVIOUS
  <2>2. sim \in Int
    BY <1>2, <2>1, LevenshteinIsNumber DEF IsSequence
  <2>3. (8 * sim) \div 10 \in Int
    BY <2>2
  <2>4. EmailSimilarity(a, b) \in {1000, (8 * sim) \div 10, 350, 250, 150, 0}
    BY <1>2, <2>1 DEF EmailSimilarity
  <2> QED
    BY <2>3, <2>4
<1> QED
  BY <1>1, <1>2

\* Two addresses can be compared.
LEMMA AddressSimilarityIsNumber ==
  ASSUME NEW row, NEW other, IsRow(row), IsRow(other)
  PROVE  AddressSimilarity(row.address, other.address) \in Int
<1>1. ASSUME NEW r, IsRow(r), Canonical(r.address) # <<>>
      PROVE  \E L : Canonical(r.address) \in Seq(L)
  <2>1. PICK place : place = r.address
    OBVIOUS
  <2>2. /\ IsSequence(place.street) /\ IsSequence(place.unit)
        /\ IsSequence(place.city) /\ IsSequence(place.zip)
    BY <1>1, <2>1 DEF IsRow, Canonical
  <2>3. PICK street, unit, city, zip :
          /\ street = place.street /\ unit = place.unit
          /\ city = place.city /\ zip = place.zip
    OBVIOUS
  <2>4. PICK L : L = Range(street) \cup Range(unit) \cup Range(city) \cup Range(zip)
                       \cup {"|", place.country}
    OBVIOUS
  <2>5. street \in Seq(L) /\ unit \in Seq(L) /\ city \in Seq(L) /\ zip \in Seq(L)
    <3>1. \A T, U, s : T \subseteq U /\ s \in Seq(T) => s \in Seq(U)
      OBVIOUS
    <3>2. /\ Range(street) \subseteq L /\ Range(unit) \subseteq L
          /\ Range(city) \subseteq L /\ Range(zip) \subseteq L
      BY <2>4
    <3> QED
      BY <2>2, <2>3, <3>1, <3>2 DEF IsSequence
  <2>6. <<"|">> \in Seq(L) /\ <<"|", place.country>> \in Seq(L)
    BY <2>4
  <2>7. Canonical(r.address) =
          street \o unit \o <<"|">> \o city \o <<"|">> \o zip \o <<"|", place.country>>
    BY <1>1, <2>1, <2>3 DEF Canonical
  <2>8. \A s, t \in Seq(L) : s \o t \in Seq(L)
    OBVIOUS
  <2>9. street \o unit \o <<"|">> \o city \o <<"|">> \o zip \o <<"|", place.country>> \in Seq(L)
    BY <2>5, <2>6, <2>8
  <2> QED
    BY <2>7, <2>9
<1>2. CASE Canonical(row.address) = <<>> \/ Canonical(other.address) = <<>>
  BY <1>2 DEF AddressSimilarity
<1>3. CASE Canonical(row.address) # <<>> /\ Canonical(other.address) # <<>>
  <2>1. PICK L, M : Canonical(row.address) \in Seq(L) /\ Canonical(other.address) \in Seq(M)
    BY <1>1, <1>3
  <2> QED
    BY <1>3, <2>1, LevenshteinIsNumber DEF AddressSimilarity
<1> QED
  BY <1>2, <1>3

\* The local part of an e-mail stays as it is, however often a row is normalized.
LEMMA LocalPartStays ==
  ASSUME NEW row, IsRow(row), NEW q, q = NormalizeRow(NormalizeRow(row))
  PROVE  q.email = NoEmail \/ IsSequence(q.email.local)
<1>1. PICK r : r = NormalizeRow(row)
  OBVIOUS
<1>2. /\ "email" \in DOMAIN row
      /\ row.email = NoEmail \/ /\ {"local", "tag", "domain"} \subseteq DOMAIN row.email
                                /\ IsSequence(row.email.local)
  BY DEF IsRow
<1>3. "email" \in DOMAIN r /\ r.email = NormalizeEmail(row.email)
  BY <1>1, <1>2 DEF NormalizeRow
<1>4. q.email = NormalizeEmail(r.email)
  BY <1>1, <1>3 DEF NormalizeRow
<1>5. CASE q.email = NoEmail
  BY <1>5
<1>6. CASE q.email # NoEmail
  <2>1. r.email # NoEmail /\ row.email # NoEmail
    BY <1>3, <1>4, <1>6 DEF NormalizeEmail
  <2>2. r.email = [row.email EXCEPT !.tag = FALSE] /\ q.email = [r.email EXCEPT !.tag = FALSE]
    BY <1>3, <1>4, <2>1 DEF NormalizeEmail
  <2>3. "local" \in DOMAIN row.email /\ "local" \in DOMAIN r.email
    BY <1>2, <2>1, <2>2
  <2>4. q.email.local = row.email.local
    BY <2>2, <2>3
  <2> QED
    BY <1>2, <2>1, <2>4
<1> QED
  BY <1>5, <1>6

\* A scored pair is in order and its score between the minimum and 980.
LEMMA PairsAreTyped ==
  ASSUME customers \in Inputs, NEW options,
         NEW p \in ScorePairs(Normalized(customers), options)
  PROVE  p.a < p.b /\ p.score \in MinConfidence..980
<1>1. PICK rows : rows = Normalized(customers)
  OBVIOUS
<1>2. PICK i \in DOMAIN rows, j \in DOMAIN rows : i < j /\ p = ScoredPair(rows, i, j, options)
  BY <1>1 DEF ScorePairs
<1>3. i \in Ids /\ j \in Ids /\ IsRow(customers[i]) /\ IsRow(customers[j])
  BY <1>1, <1>2, RowNumbers, DetectionAssumption DEF DetectionAssumption, Ids
<1>4. PICK r, s : r = rows[i] /\ s = rows[j]
  OBVIOUS
<1>5. r = NormalizeRow(customers[i]) /\ s = NormalizeRow(customers[j])
  BY <1>1, <1>3, <1>4 DEF Normalized, Ids
<1>6. PICK a, b : a = NormalizeRow(r) /\ b = NormalizeRow(s)
  OBVIOUS
<1>7. PICK nameSim, addressSim :
        /\ nameSim = JaroWinkler(Spelled(r.name), Spelled(s.name))
        /\ addressSim = AddressSimilarity(r.address, s.address)
  OBVIOUS
<1>8. PICK sim : sim = Similarities(a, b, nameSim, addressSim, options)
  OBVIOUS
<1>9. nameSim \in Int
  <2>1. r.name = customers[i].name /\ s.name = customers[j].name
    BY <1>3, <1>5, NormalizedOnce
  <2> QED
    BY <1>3, <1>7, <2>1, NameSimIsNumber DEF NameSim
<1>10. addressSim \in Int
  <2>1. r.address = customers[i].address /\ s.address = customers[j].address
    BY <1>3, <1>5, NormalizationKeeps
  <2> QED
    BY <1>3, <1>7, <2>1, AddressSimilarityIsNumber
<1>11. EmailSimilarity(a.email, b.email) \in Int
  <2>1. /\ a.email = NoEmail \/ IsSequence(a.email.local)
        /\ b.email = NoEmail \/ IsSequence(b.email.local)
    BY <1>3, <1>5, <1>6, LocalPartStays
  <2> QED
    BY <2>1, EmailSimilarityIsNumber
<1>12. PhoneSimilarity(a.phone, b.phone) \in Int
  BY DEF PhoneSimilarity
<1>13. sim.email \in Int /\ sim.phone \in Int /\ sim.name \in Int /\ sim.address \in Int
  BY <1>8, <1>9, <1>10, <1>11, <1>12 DEF Similarities
<1>14. PICK sig : sig = Masked(Signals(a, b, nameSim, addressSim), options)
  OBVIOUS
<1>15. Confidence(sig, sim, options.behavioral)[1] \in 0..980
  BY <1>13, ConfidenceInRange
<1>16. p.a = i /\ p.b = j /\ p.score = Confidence(sig, sim, options.behavioral)[1]
  BY <1>2, <1>4, <1>6, <1>7, <1>8, <1>14 DEF ScoredPair, ScorePair, ScoreNormalized, Scored
<1>17. p.score >= MinConfidence
  BY DEF ScorePairs
<1> QED
  BY <1>2, <1>15, <1>16, <1>17 DEF MinConfidence

-----------------------------------------------------------------------------
\* The size of the trees.

\* The powers of two begin at one and double.
LEMMA PowersDouble ==
  ASSUME NEW n \in Nat
  PROVE  /\ PowerOfTwo(0) = 1
         /\ PowerOfTwo(n) \in Nat
         /\ PowerOfTwo(n + 1) = 2 * PowerOfTwo(n)
         /\ n < PowerOfTwo(n)
<1> DEFINE Solution(g, k) == g = [j \in 0..k |-> IF j = 0 THEN 1 ELSE 2 * g[j - 1]]
           Unfolds(g, k) == g[0] = 1 /\ \A j \in 1..k : g[j] = 2 * g[j - 1]
           f(k) == CHOOSE g : Solution(g, k)
<1>1. ASSUME NEW k \in Nat PROVE Unfolds(f(k), k)
  <2> DEFINE double == [v \in Nat |-> 2 * v]
             step == [j \in 1..k |-> double]
  <2>1. step \in [1..k -> [Nat -> Nat]]
    OBVIOUS
  <2>2. PICK g \in [0..k -> Nat] : g[0] = 1 /\ \A j \in 1..k : g[j] = step[j][g[j - 1]]
    <3> HIDE DEF step
    <3>1. Walks(k, Nat, 1, step)
      BY <2>1, Recursion
    <3> QED
      BY <3>1 DEF Walks
  <2>3. \A j \in 1..k : g[j] = 2 * g[j - 1]
    <3> TAKE j \in 1..k
    <3>1. j - 1 \in 0..k /\ g[j - 1] \in Nat
      OBVIOUS
    <3> QED
      BY <2>2, <3>1
  <2>4. Solution(g, k)
    <3> DEFINE entry(j) == IF j = 0 THEN 1 ELSE 2 * g[j - 1]
    <3>1. \A j \in 0..k : g[j] = entry(j)
      BY <2>2, <2>3
    <3>2. g = [j \in 0..k |-> g[j]]
      OBVIOUS
    <3>3. g = [j \in 0..k |-> entry(j)]
      <4> HIDE DEF entry
      <4> QED
        BY <3>1, <3>2
    <3> QED
      BY <3>3
  <2>5. Solution(f(k), k)
    <3> HIDE DEF Solution
    <3> QED
      BY <2>4
  <2>6. PICK h : h = f(k)
    OBVIOUS
  <2>7. \A j \in 0..k : h[j] = IF j = 0 THEN 1 ELSE 2 * h[j - 1]
    BY <2>5, <2>6
  <2>8. 0 \in 0..k /\ \A j \in 1..k : j \in 0..k /\ j # 0
    OBVIOUS
  <2>9. h[0] = 1 /\ \A j \in 1..k : h[j] = 2 * h[j - 1]
    BY <2>7, <2>8
  <2> QED
    BY <2>6, <2>9
<1>2. \A k \in Nat : PowerOfTwo(k) = f(k)[k]
  BY DEF PowerOfTwo
<1> HIDE DEF f
<1>3. PICK g, h : g = f(n) /\ h = f(n + 1)
  OBVIOUS
<1>4. Unfolds(g, n) /\ Unfolds(h, n + 1)
  BY <1>1, <1>3
<1>5. \A j \in 0..n : g[j] = h[j] /\ g[j] \in Nat /\ j < g[j]
  <2> DEFINE Good == {j \in 0..n : g[j] = h[j] /\ g[j] \in Nat /\ j < g[j]}
  <2>1. 0 \in Good
    BY <1>4
  <2>2. ASSUME NEW j \in 1..n, j - 1 \in Good PROVE j \in Good
    <3>1. j \in 1..n + 1
      OBVIOUS
    <3>2. g[j] = 2 * g[j - 1] /\ h[j] = 2 * h[j - 1]
      BY <1>4, <3>1
    <3>3. g[j - 1] = h[j - 1] /\ g[j - 1] \in Nat /\ j - 1 < g[j - 1]
      BY <2>2
    <3> QED
      BY <3>2, <3>3
  <2>3. \A j \in 1..n : j - 1 \in Good => j \in Good
    BY <2>2
  <2> HIDE DEF Good
  <2>4. \A j \in 0..n : j \in Good
    BY <2>1, <2>3, Climb
  <2> QED
    BY <2>4 DEF Good
<1>6. h[n + 1] = 2 * h[n]
  <2>1. n + 1 \in 1..n + 1 /\ (n + 1) - 1 = n
    OBVIOUS
  <2> QED
    BY <1>4, <2>1
<1>7. PowerOfTwo(n) = g[n] /\ PowerOfTwo(n + 1) = h[n + 1]
  BY <1>2, <1>3
<1>8. PowerOfTwo(0) = 1
  BY <1>1, <1>2
<1> QED
  BY <1>5, <1>6, <1>7, <1>8

\* A root of rank k has at least 2^k customers under it.
RootsAreHeavy ==
  \A i \in Ids : parent[i] = i => PowerOfTwo(rank[i]) <= Cardinality(Cluster(i))

\* The weight of a root when it takes the tree under another one.
LEMMA GrowingRootIsHeavy ==
  ASSUME NEW S, IsFiniteSet(S), NEW top, NEW peak, NEW i \in S, peak[i] = i,
         RootGrows(S, top, peak), rank \in [S -> Nat],
         \A j \in S : top[j] = j =>
           PowerOfTwo(rank[j]) <= Cardinality({k \in S : top[k] = j})
  PROVE  PowerOfTwo(rank'[i]) <= Cardinality({k \in S : peak[k] = i})
<1> DEFINE under(j) == {k \in S : top[k] = j}
           after == {k \in S : peak[k] = i}
<1>1. PICK root \in S, low \in S :
        /\ top[root] = root /\ top[low] = low
        /\ \A j \in S : /\ peak[j] = IF top[j] = low THEN root ELSE top[j]
                        /\ \/ rank'[j] = rank[j]
                           \/ /\ j = root /\ low # root /\ rank[low] = rank[root]
                              /\ rank'[root] = rank[root] + 1
  BY DEF RootGrows
<1>2. ASSUME NEW j \in S, top[j] = j
      PROVE  /\ PowerOfTwo(rank[j]) \in Nat /\ Cardinality(under(j)) \in Nat
             /\ IsFiniteSet(under(j)) /\ PowerOfTwo(rank[j]) <= Cardinality(under(j))
  <2>1. under(j) \subseteq S
    OBVIOUS
  <2>2. IsFiniteSet(under(j))
    BY <2>1, FS_Subset
  <2>3. rank[j] \in Nat
    OBVIOUS
  <2> QED
    BY <1>2, <2>2, <2>3, PowersDouble, FS_CardinalityType
<1>3. IsFiniteSet(after) /\ Cardinality(after) \in Nat
  <2>1. after \subseteq S
    OBVIOUS
  <2> HIDE DEF after
  <2> QED
    BY <2>1, FS_Subset, FS_CardinalityType
<1>4. top[i] = i
  BY <1>1
<1>5. under(i) \subseteq after
  BY <1>1
<1>6. CASE rank'[i] = rank[i]
  <2>1. Cardinality(under(i)) <= Cardinality(after)
    <3> HIDE DEF under, after
    <3> QED
      BY <1>3, <1>5, FS_Subset
  <2> HIDE DEF under
  <2>2. PowerOfTwo(rank[i]) <= Cardinality(after)
    BY <1>2, <1>3, <1>4, <2>1
  <2> QED
    BY <1>6, <2>2
<1>7. CASE rank'[i] # rank[i]
  <2>1. i = root /\ low # i /\ rank[low] = rank[i] /\ rank'[i] = rank[i] + 1
    BY <1>1, <1>7
  <2>2. after = under(i) \cup under(low) /\ under(i) \cap under(low) = {}
    BY <1>1, <2>1
  <2>3. PICK T, U : T = under(i) /\ U = under(low)
    OBVIOUS
  <2>4. /\ IsFiniteSet(T) /\ IsFiniteSet(U) /\ Cardinality(T) \in Nat /\ Cardinality(U) \in Nat
        /\ PowerOfTwo(rank[i]) \in Nat
        /\ PowerOfTwo(rank[i]) <= Cardinality(T) /\ PowerOfTwo(rank[i]) <= Cardinality(U)
    <3> HIDE DEF under
    <3> QED
      BY <1>1, <1>2, <1>4, <2>1, <2>3
  <2>5. Cardinality(T \cup U) = Cardinality(T) + Cardinality(U)
    <3>1. T \cap U = {}
      BY <2>2, <2>3
    <3>2. Cardinality(T \cup U) = Cardinality(T) + Cardinality(U) - Cardinality({})
      BY <2>4, <3>1, FS_Union
    <3> QED
      BY <2>4, <3>2, FS_EmptySet
  <2>6. PowerOfTwo(rank'[i]) = 2 * PowerOfTwo(rank[i])
    BY <2>1, PowersDouble
  <2>7. after = T \cup U
    BY <2>2, <2>3
  <2>8. PowerOfTwo(rank'[i]) <= Cardinality(after)
    <3> HIDE DEF after
    <3> QED
      BY <2>4, <2>5, <2>6, <2>7
  <2> QED
    BY <2>8
<1> QED
  BY <1>6, <1>7

LEMMA JoinKeepsWeight ==
  ASSUME GroupInv, RootsAreHeavy, NEW q \in todo, Join(q)
  PROVE  RootsAreHeavy'
<1>1. PICK S : S = Ids
  OBVIOUS
<1>2. q.a \in S /\ q.b \in S /\ IsFiniteSet(S) /\ Ids' = S
  BY <1>1, RowNumbers DEF GroupInv, RunInv, Join, Ids
<1>3. PICK top : Forest(S, parent, rank, top)
  BY <1>1 DEF GroupInv, TreesAreLinked
<1>4. CASE ~Accepted(q, pairs)
  <2>1. parent' = parent /\ rank' = rank
    BY <1>4 DEF Join
  <2> QED
    BY <1>1, <1>2, <2>1 DEF RootsAreHeavy, Cluster
<1>5. CASE Accepted(q, pairs)
  <2>1. TreesMerge(S, top, q.a, q.b)
    BY <1>2, <1>3, <1>5, UnionMerges DEF Join
  <2>2. PICK peak : Forest(S, parent', rank', peak) /\ RootGrows(S, top, peak)
    BY <2>1 DEF TreesMerge
  <2>3. \A k \in S : Root(parent, k) = top[k]
    BY <1>2, <1>3, FindsTop
  <2>4. PICK up : up = parent'
    OBVIOUS
  <2>5. \A k \in S : Root(up, k) = peak[k]
    BY <1>2, <2>2, <2>4, FindsTop
  <2>6. ASSUME NEW j \in S
        PROVE  /\ Cluster(j) = {k \in S : top[k] = j}
               /\ Cluster(j)' = {k \in S : peak[k] = j}
    BY <1>1, <1>2, <2>3, <2>4, <2>5 DEF Cluster
  <2>7. \A j \in S : top[j] = j => PowerOfTwo(rank[j]) <= Cardinality({k \in S : top[k] = j})
    <3> TAKE j \in S
    <3>1. HAVE top[j] = j
    <3>2. parent[j] = j
      BY <1>3, <3>1 DEF Forest
    <3> QED
      BY <1>1, <2>6, <3>2 DEF RootsAreHeavy
  <2>8. rank \in [S -> Nat]
    BY <1>3 DEF Forest
  <2>9. ASSUME NEW i \in S, parent'[i] = i
        PROVE  PowerOfTwo(rank'[i]) <= Cardinality(Cluster(i)')
    <3>1. peak[i] = i
      BY <2>2, <2>9 DEF Forest
    <3>2. PowerOfTwo(rank'[i]) <= Cardinality({k \in S : peak[k] = i})
      BY <1>2, <2>2, <2>7, <2>8, <3>1, GrowingRootIsHeavy
    <3> QED
      BY <2>6, <3>2
  <2> QED
    BY <1>2, <2>9 DEF RootsAreHeavy
<1> QED
  BY <1>4, <1>5

\* What TypeOK needs besides the groups.
TypeInv ==
  /\ \A p \in pairs : p.a < p.b /\ p.score \in MinConfidence..1000
  /\ RootsAreHeavy
  /\ \A r \in reports : r.risk \in {"safe", "review", "risky"} /\ r.readiness \in 0..100

\* A risk level is one of three.
LEMMA RiskIsLevel ==
  ASSUME NEW in
  PROVE  ClassifyRisk(in) \in {"safe", "review", "risky"}
<1> DEFINE reviewFrom(floor) == IF in.confidence >= floor THEN "review" ELSE "risky"
           V == {"safe", "review", "risky"}
           rules == <<
             <<in.severity = "high", "risky">>,
             <<in.severity = "medium", reviewFrom(900)>>,
             <<in.business = "high", reviewFrom(900)>>,
             <<in.business = "medium" /\ in.confidence >= 900, "review">>,
             <<in.impact >= 1000 /\ in.confidence >= 900, "review">>,
             <<in.weakLinkProtection /\ in.weakest < 700, reviewFrom(750)>>,
             <<in.sparse, reviewFrom(750)>>,
             <<in.requireAnchor /\ ~in.anchored, reviewFrom(900)>>,
             <<in.confidence >= 900, "safe">> >>
<1>1. \A floor : reviewFrom(floor) \in V
  OBVIOUS
<1>2. ClassifyRisk(in) = FirstOf(rules, reviewFrom(750))
  BY DEF ClassifyRisk
<1>3. DOMAIN rules = 1..9
  OBVIOUS
<1>4. /\ rules[1][2] = "risky" /\ rules[2][2] = reviewFrom(900) /\ rules[3][2] = reviewFrom(900)
      /\ rules[4][2] = "review" /\ rules[5][2] = "review" /\ rules[6][2] = reviewFrom(750)
      /\ rules[7][2] = reviewFrom(750) /\ rules[8][2] = reviewFrom(900) /\ rules[9][2] = "safe"
  <2> HIDE DEF reviewFrom
  <2> QED
    OBVIOUS
<1>5. {"safe", "review", "risky"} \subseteq V
  OBVIOUS
<1> HIDE DEF rules, reviewFrom, V
<1>6. \A i \in 1..9 : rules[i][2] \in V
  <2>1. \A i \in 1..9 : i = 1 \/ i = 2 \/ i = 3 \/ i = 4 \/ i = 5 \/ i = 6 \/ i = 7
                          \/ i = 8 \/ i = 9
    OBVIOUS
  <2> QED
    BY <1>1, <1>4, <1>5, <2>1
<1>7. 9 \in Nat
  OBVIOUS
<1>8. PICK list, otherwise : list = rules /\ otherwise = reviewFrom(750)
  OBVIOUS
<1>9. DOMAIN list = 1..9 /\ otherwise \in V /\ \A i \in 1..9 : list[i][2] \in V
  BY <1>1, <1>3, <1>6, <1>8
<1>10. FirstOf(list, otherwise) \in V
  BY <1>7, <1>9, RuleGives
<1>11. ClassifyRisk(in) \in V
  BY <1>2, <1>8, <1>10
<1> QED
  BY <1>11 DEF V

LEMMA InitTypes == ASSUME Init PROVE TypeInv
<1>1. RootsAreHeavy
  <2>1. ASSUME NEW i \in Ids PROVE PowerOfTwo(rank[i]) <= Cardinality(Cluster(i))
    <3>1. PICK S : S = Ids
      OBVIOUS
    <3>2. PICK top : top = [j \in S |-> j]
      OBVIOUS
    <3>3. Forest(S, parent, rank, top)
      BY <3>1, <3>2 DEF Init, Forest
    <3>4. IsFiniteSet(S)
      BY <3>1, RowNumbers DEF Init
    <3>5. \A k \in S : Root(parent, k) = k
      BY <3>2, <3>3, <3>4, FindsTop
    <3>6. Cluster(i) = {i}
      BY <2>1, <3>1, <3>5 DEF Cluster
    <3>7. Cardinality({i}) = 1
      BY FS_Singleton
    <3>8. rank[i] = 0
      BY <2>1 DEF Init
    <3>9. PowerOfTwo(0) = 1
      BY PowersDouble
    <3> QED
      BY <3>6, <3>7, <3>8, <3>9
  <2> QED
    BY <2>1 DEF RootsAreHeavy
<1> QED
  BY <1>1 DEF Init, TypeInv

LEMMA TypeStep == ASSUME GroupInv, TypeInv, [Next]_vars PROVE TypeInv'
<1>1. customers' = customers /\ settings' = settings
  BY DEF Next, TooFew, Score, Join, Classify, Finish, vars
<1>2. CASE parent' = parent /\ rank' = rank
  <2>1. RootsAreHeavy'
    BY <1>1, <1>2 DEF TypeInv, RootsAreHeavy, Cluster, Ids
  <2>2. CASE pairs' = pairs /\ reports' = reports
    BY <2>1, <2>2 DEF TypeInv
  <2>3. CASE Score
    <3>1. pairs' = ScorePairs(Normalized(customers), settings.signals) /\ reports' = reports
      BY <2>3 DEF Score
    <3>2. \A p \in pairs' : p.a < p.b /\ p.score \in MinConfidence..980
      BY <3>1, PairsAreTyped DEF GroupInv, RunInv
    <3>3. \A p \in pairs' : p.a < p.b /\ p.score \in MinConfidence..1000
      BY <3>2 DEF MinConfidence
    <3> QED
      BY <2>1, <3>1, <3>3 DEF TypeInv
  <2>4. ASSUME NEW group \in Clusters, Classify(group) PROVE TypeInv'
    <3>1. PICK order \in SetToSeqs(group) :
            reports' = reports \cup {Report(order)} /\ pairs' = pairs
      BY <2>4 DEF Classify
    <3>2. group \in SUBSET Ids /\ group # {}
      BY <2>4 DEF Clusters, Cluster
    <3>3. Report(order).readiness \in 0..100
      BY <3>2, ReportAgrees DEF GroupInv, RunInv
    <3>4. Report(order).risk \in {"safe", "review", "risky"}
      BY RiskIsLevel DEF Report, Risk
    <3> QED
      BY <2>1, <3>1, <3>3, <3>4 DEF TypeInv
  <2> QED
    BY <2>2, <2>3, <2>4 DEF Next, TooFew, Join, Finish, vars
<1>3. ASSUME NEW q \in todo, Join(q) PROVE TypeInv'
  <2>1. RootsAreHeavy'
    BY <1>3, JoinKeepsWeight DEF TypeInv
  <2>2. pairs' = pairs /\ reports' = reports
    BY <1>3 DEF Join
  <2> QED
    BY <2>1, <2>2 DEF TypeInv
<1> QED
  BY <1>2, <1>3 DEF Next, TooFew, Score, Classify, Finish, vars

\* A tree is no higher than its weight allows, so its rank is at most the number of
\* customers.
LEMMA TypesHold == GroupInv /\ TypeInv => TypeOK
<1> SUFFICES ASSUME GroupInv, TypeInv PROVE TypeOK
  OBVIOUS
<1>1. PICK S : S = Ids
  OBVIOUS
<1>2. IsFiniteSet(S) /\ S = 1..Len(customers) /\ Len(customers) \in Nat
  BY <1>1, RowNumbers DEF GroupInv, RunInv
<1>3. PICK top : Forest(S, parent, rank, top)
  BY <1>1 DEF GroupInv, TreesAreLinked
<1>4. parent \in [S -> S] /\ rank \in [S -> Nat]
  BY <1>3 DEF Forest
<1>5. ASSUME NEW i \in S PROVE rank[i] \in 0..Len(customers)
  <2>1. PICK r \in S : r = top[i]
    BY <1>3 DEF Forest
  <2>2. parent[r] = r /\ rank[i] <= rank[r] /\ rank[i] \in Nat /\ rank[r] \in Nat
    BY <1>3, <2>1 DEF Forest
  <2>3. PowerOfTwo(rank[r]) <= Cardinality(Cluster(r))
    BY <1>1, <2>2 DEF TypeInv, RootsAreHeavy
  <2>4. PowerOfTwo(rank[r]) \in Nat /\ rank[r] < PowerOfTwo(rank[r])
    BY <2>2, PowersDouble
  <2>5. Cardinality(Cluster(r)) \in Nat /\ Cardinality(Cluster(r)) <= Len(customers)
    <3>1. Cluster(r) \subseteq S
      BY <1>1 DEF Cluster
    <3>2. Cardinality(S) = Len(customers)
      <4>1. PICK n \in Nat : n = Len(customers)
        BY <1>2
      <4>2. Cardinality(1..n) = IF 1 > n THEN 0 ELSE n - 1 + 1
        BY FS_Interval
      <4> QED
        BY <1>2, <4>1, <4>2
    <3>3. PICK T : T = Cluster(r)
      OBVIOUS
    <3>4. IsFiniteSet(T) /\ Cardinality(T) <= Cardinality(S)
      BY <1>2, <3>1, <3>3, FS_Subset
    <3>5. Cardinality(T) \in Nat
      BY <3>4, FS_CardinalityType
    <3> QED
      BY <3>2, <3>3, <3>4, <3>5
  <2> QED
    BY <1>2, <2>2, <2>3, <2>4, <2>5
<1>6. rank \in [S -> 0..Len(customers)]
  BY <1>4, <1>5
<1>7. ASSUME NEW i \in S PROVE \E r \in Chain(parent, i) : parent[r] = r
  <2>1. top[i] \in Chain(parent, i)
    BY <1>2, <1>3, FindsTop
  <2>2. parent[top[i]] = top[i]
    BY <1>3 DEF Forest
  <2> QED
    BY <2>1, <2>2
<1>8. \A p \in pairs : p.a \in Ids /\ p.b \in Ids /\ p.a < p.b /\ p.score \in MinConfidence..1000
  BY DEF GroupInv, RunInv, TypeInv
<1> QED
  BY <1>1, <1>4, <1>6, <1>7, <1>8 DEF TypeOK, GroupInv, RunInv, TypeInv, RootsAreHeavy

\* Every variable has its type, and the trees of the union-find stay flat: a root of
\* rank k has at least 2^k customers under it, and from every customer the walk up
\* ends in a root, whatever pairs are joined in whatever order (cluster.go, Find and
\* Union).
THEOREM TypeCorrect == Spec => []TypeOK
<1>1. Init => TypeInv
  BY InitTypes
<1>2. GroupInv /\ TypeInv /\ [Next]_vars => TypeInv'
  BY TypeStep
<1> QED
  BY <1>1, <1>2, GroupsHold, TypesHold, PTL DEF Spec
=============================================================================
