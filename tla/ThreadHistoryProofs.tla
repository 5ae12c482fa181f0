-------------------------- MODULE ThreadHistoryProofs --------------------------
(***************************************************************************)
(* Proofs about ThreadHistory for any number of runs and threads, any      *)
(* bound on the history, conversations of any length and any history that  *)
(* a caller may pass.                                                      *)
(*                                                                         *)
(* Cleaned is recursive, and what it computes is proved by looking at the  *)
(* least prefix for which a fact would fail (LeastNatural).                *)
(***************************************************************************)
EXTENDS ThreadHistory, SequenceTheorems, WellFoundedInduction, TLAPS

\* A turn that may reach a prompt.
Counts(turn) == turn.role \in Roles /\ ~turn.blank

-----------------------------------------------------------------------------
(* Cleaned.                                                                *)

\* A set of natural numbers that is not empty has a least member.
LEMMA LeastNatural ==
    ASSUME NEW S, S \subseteq Nat, S # {}
    PROVE  \E n \in S : \A m \in S : n <= m
<1>1. PICK n \in S : \A m \in S : ~(<<m, n>> \in OpToRel(<, Nat))
  BY NatLessThanWellFounded, WFMin
<1>2. \A m \in S : m < n => <<m, n>> \in OpToRel(<, Nat)
  BY DEF OpToRel
<1>3. \A m \in S : ~(m < n)
  BY <1>1, <1>2, Zenon
<1>4. \E k \in S : \A m \in S : ~(m < k)
  BY <1>3, Zenon
<1>5. QED
  BY <1>4, SMT

\* What is in a set of naturals with 0 and with the successor of each n < m is all of 0..m.
LEMMA UpTo ==
    ASSUME NEW m \in Nat, NEW P, 0 \in P, \A n \in 0..m : n < m /\ n \in P => n + 1 \in P
    PROVE  0..m \subseteq P
<1> SUFFICES ASSUME ~(0..m \subseteq P) PROVE FALSE
  OBVIOUS
<1> DEFINE bad == {n \in 0..m : n \notin P}
<1>1. PICK n \in bad : \A k \in bad : n <= k
  <2>1. bad \subseteq Nat /\ bad # {}
    OBVIOUS
  <2> HIDE DEF bad
  <2>2. QED
    BY <2>1, LeastNatural
<1>2. n \in 0..m /\ n \notin P /\ n # 0
  BY <1>1
<1>3. n - 1 \in 0..m /\ n - 1 < m /\ (n - 1) + 1 = n
  BY <1>2
<1>4. n - 1 \in P
  BY <1>1, <1>3
<1>5. QED
  BY <1>2, <1>3, <1>4

\* The function by which Cleaned is defined.
UpToStep(s, f, n) ==
    IF n = 0 THEN <<>>
    ELSE IF s[n].role \in Roles /\ ~s[n].blank THEN Append(f[n - 1], s[n])
    ELSE f[n - 1]

IsCleaning(s, f, m) == f = [n \in 0..m |-> UpToStep(s, f, n)]

LEMMA CleaningExists ==
    ASSUME NEW s, NEW m \in Nat
    PROVE  \E f : IsCleaning(s, f, m)
<1> DEFINE P == {n \in 0..m : \E f : IsCleaning(s, f, n)}
<1>1. 0 \in P
  <2> DEFINE f == [n \in 0..0 |-> <<>>]
  <2>1. f = [n \in 0..0 |-> UpToStep(s, f, n)]
    BY DEF UpToStep
  <2>2. IsCleaning(s, f, 0)
    BY <2>1 DEF IsCleaning
  <2>3. QED
    BY <2>2
<1>2. ASSUME NEW n \in 0..m, n < m, n \in P
      PROVE  n + 1 \in P
  <2>1. PICK f : IsCleaning(s, f, n)
    BY <1>2
  <2> DEFINE g == [i \in 0..(n + 1) |-> IF i \in 0..n THEN f[i] ELSE UpToStep(s, f, n + 1)]
  <2>2. \A i \in 0..n : f[i] = UpToStep(s, f, i)
    BY <2>1 DEF IsCleaning
  <2>3. \A i \in 0..(n + 1) : i # 0 => i - 1 \in 0..n
    OBVIOUS
  <2>4. \A i \in 0..(n + 1) : UpToStep(s, g, i) = UpToStep(s, f, i)
    <3>1. \A i \in 0..(n + 1) : i # 0 => g[i - 1] = f[i - 1]
      BY <2>3
    <3> HIDE DEF g
    <3>2. QED
      BY <3>1 DEF UpToStep
  <2>5. \A i \in 0..(n + 1) : i \in 0..n \/ i = n + 1
    OBVIOUS
  <2>6. \A i \in 0..(n + 1) : g[i] = UpToStep(s, g, i)
    BY <2>2, <2>4, <2>5
  <2>7. g = [i \in 0..(n + 1) |-> UpToStep(s, g, i)]
    BY <2>6
  <2>8. IsCleaning(s, g, n + 1)
    BY <2>7 DEF IsCleaning
  <2>9. n + 1 \in 0..m
    BY <1>2
  <2>10. QED
    BY <2>8, <2>9
<1>3. 0..m \subseteq P
  <2> HIDE DEF P
  <2>1. QED
    BY <1>1, <1>2, UpTo
<1>4. QED
  BY <1>3

LEMMA CleaningTells ==
    ASSUME NEW s, s \in Seq(AnyTurn)
    PROVE  \E f : /\ IsCleaning(s, f, Len(s))
                  /\ Cleaned(s) = f[Len(s)]
<1> DEFINE f == CHOOSE f : IsCleaning(s, f, Len(s))
<1>1. IsCleaning(s, f, Len(s))
  BY CleaningExists
<1>2. Cleaned(s) = f[Len(s)]
  BY DEF Cleaned, IsCleaning, UpToStep
<1>3. QED
  BY <1>1, <1>2

LEMMA CleaningStep ==
    ASSUME NEW s, NEW f, NEW m \in Nat, IsCleaning(s, f, m), NEW n \in 0..m
    PROVE  f[n] = UpToStep(s, f, n)
BY DEF IsCleaning

\* The longer history begins as the shorter one does, and is cleaned alike up to there.
LEMMA CleaningAgrees ==
    ASSUME NEW s, NEW t, NEW f, NEW g, NEW k \in Nat,
           IsCleaning(s, f, k), IsCleaning(t, g, k + 1),
           \A i \in 1..k : s[i] = t[i]
    PROVE  f[k] = g[k]
<1> DEFINE P == {i \in 0..k : f[i] = g[i]}
<1>1. 0 \in P
  <2>1. 0 \in 0..k /\ 0 \in 0..(k + 1) /\ k + 1 \in Nat
    OBVIOUS
  <2>2. f[0] = UpToStep(s, f, 0) /\ g[0] = UpToStep(t, g, 0)
    BY <2>1, CleaningStep
  <2>3. QED
    BY <2>1, <2>2 DEF UpToStep
<1>2. ASSUME NEW i \in 0..k, i < k, i \in P
      PROVE  i + 1 \in P
  <2>1. /\ i + 1 \in 0..(k + 1) /\ i + 1 \in 1..k /\ i + 1 \in 0..k
        /\ (i + 1) - 1 = i /\ i + 1 # 0 /\ k + 1 \in Nat
    BY <1>2
  <2>2. f[i + 1] = UpToStep(s, f, i + 1) /\ g[i + 1] = UpToStep(t, g, i + 1)
    BY <2>1, CleaningStep
  <2>3. s[i + 1] = t[i + 1] /\ f[i] = g[i]
    BY <1>2, <2>1
  <2> DEFINE j == i + 1
  <2>4. f[j - 1] = g[j - 1] /\ s[j] = t[j]
    BY <2>1, <2>3
  <2> HIDE DEF j
  <2>5. UpToStep(s, f, j) = UpToStep(t, g, j)
    BY <2>4 DEF UpToStep
  <2>6. QED
    BY <2>1, <2>2, <2>5 DEF j
<1>3. 0..k \subseteq P
  <2> HIDE DEF P
  <2>1. QED
    BY <1>1, <1>2, UpTo
<1>4. QED
  BY <1>3

LEMMA CleanedEmpty == Cleaned(<<>>) = <<>>
<1>1. <<>> \in Seq(AnyTurn) /\ Len(<<>>) = 0
  OBVIOUS
<1>2. PICK f : IsCleaning(<<>>, f, 0) /\ Cleaned(<<>>) = f[0]
  BY <1>1, CleaningTells
<1>3. f[0] = UpToStep(<<>>, f, 0)
  BY <1>2, CleaningStep
<1>4. QED
  BY <1>2, <1>3 DEF UpToStep

\* One more turn is kept, at the end, or it is not.
LEMMA CleanedAppend ==
    ASSUME NEW s \in Seq(AnyTurn), NEW x \in AnyTurn
    PROVE  Cleaned(Append(s, x)) = IF Counts(x) THEN Append(Cleaned(s), x) ELSE Cleaned(s)
<1> DEFINE t == Append(s, x)
           n == Len(s)
<1>1. /\ t \in Seq(AnyTurn) /\ Len(t) = n + 1 /\ t[n + 1] = x
      /\ \A i \in 1..n : t[i] = s[i]
      /\ n \in Nat
  BY AppendProperties
<1> HIDE DEF t
<1>2. PICK f : IsCleaning(s, f, n) /\ Cleaned(s) = f[n]
  BY CleaningTells
<1>3. PICK g : IsCleaning(t, g, n + 1) /\ Cleaned(t) = g[n + 1]
  BY <1>1, CleaningTells
<1>4. g[n] = f[n]
  <2>1. n \in Nat /\ \A i \in 1..n : s[i] = t[i]
    BY <1>1
  <2> HIDE DEF n
  <2>2. QED
    BY <1>2, <1>3, <2>1, CleaningAgrees
<1>5. g[n + 1] = UpToStep(t, g, n + 1)
  BY <1>1, <1>3, CleaningStep
<1>6. n + 1 # 0 /\ (n + 1) - 1 = n
  BY <1>1
<1> DEFINE j == n + 1
<1>7. UpToStep(t, g, j) = IF Counts(t[j]) THEN Append(g[n], t[j]) ELSE g[n]
  <2>1. j # 0 /\ j - 1 = n
    BY <1>6
  <2> HIDE DEF j
  <2>2. QED
    BY <2>1 DEF UpToStep, Counts
<1>8. QED
  BY <1>1, <1>2, <1>3, <1>4, <1>5, <1>7 DEF t

\* What is kept are turns of the history, all of which count.
LEMMA CleanedCounts ==
    ASSUME NEW T \in SUBSET AnyTurn, NEW s \in Seq(T)
    PROVE  /\ Cleaned(s) \in Seq(T)
           /\ \A i \in 1..Len(Cleaned(s)) : Counts(Cleaned(s)[i])
<1> DEFINE Good == {turn \in T : Counts(turn)}
<1>1. PICK f : IsCleaning(s, f, Len(s)) /\ Cleaned(s) = f[Len(s)]
  BY CleaningTells
<1> DEFINE P == {n \in 0..Len(s) : f[n] \in Seq(Good)}
<1>2. Len(s) \in Nat
  OBVIOUS
<1>3. 0 \in P
  <2>1. f[0] = <<>>
    BY <1>1, <1>2, CleaningStep DEF UpToStep
  <2>2. <<>> \in Seq(Good) /\ 0 \in 0..Len(s)
    BY <1>2
  <2>3. QED
    BY <2>1, <2>2
<1>4. ASSUME NEW n \in 0..Len(s), n < Len(s), n \in P
      PROVE  n + 1 \in P
  <2> DEFINE j == n + 1
  <2>1. j \in 0..Len(s) /\ j \in 1..Len(s) /\ j # 0 /\ j - 1 = n
    BY <1>2, <1>4
  <2> HIDE DEF j
  <2>2. f[j] = UpToStep(s, f, j)
    BY <1>1, <1>2, <2>1, CleaningStep
  <2>3. f[j] = IF Counts(s[j]) THEN Append(f[n], s[j]) ELSE f[n]
    BY <2>1, <2>2 DEF UpToStep, Counts
  <2>4. s[j] \in T /\ f[n] \in Seq(Good)
    BY <1>4, <2>1
  <2>5. f[j] \in Seq(Good)
    BY <2>3, <2>4
  <2>6. QED
    BY <2>1, <2>5 DEF j
<1>5. 0..Len(s) \subseteq P
  <2> HIDE DEF P
  <2>1. QED
    BY <1>2, <1>3, <1>4, UpTo
<1>6. Cleaned(s) \in Seq(Good)
  BY <1>1, <1>2, <1>5
<1>7. QED
  BY <1>6

\* A history of which every turn counts is kept as it is.
LEMMA CleanedOfClean ==
    ASSUME NEW s \in Seq(AnyTurn), \A i \in 1..Len(s) : Counts(s[i])
    PROVE  Cleaned(s) = s
<1>1. PICK f : IsCleaning(s, f, Len(s)) /\ Cleaned(s) = f[Len(s)]
  BY CleaningTells
<1> DEFINE P == {n \in 0..Len(s) : /\ f[n] \in Seq(AnyTurn) /\ Len(f[n]) = n
                                   /\ \A i \in 1..n : f[n][i] = s[i]}
<1>2. Len(s) \in Nat
  OBVIOUS
<1>3. 0 \in P
  <2>1. f[0] = <<>>
    BY <1>1, <1>2, CleaningStep DEF UpToStep
  <2>2. <<>> \in Seq(AnyTurn) /\ Len(<<>>) = 0 /\ 0 \in 0..Len(s) /\ 1..0 = {}
    BY <1>2
  <2>3. /\ f[0] \in Seq(AnyTurn) /\ Len(f[0]) = 0
        /\ \A i \in 1..0 : f[0][i] = s[i]
    BY <2>1, <2>2
  <2>4. QED
    BY <2>2, <2>3
<1>4. ASSUME NEW n \in 0..Len(s), n < Len(s), n \in P
      PROVE  n + 1 \in P
  <2> DEFINE j == n + 1
  <2>1. j \in 0..Len(s) /\ j \in 1..Len(s) /\ j # 0 /\ j - 1 = n
    BY <1>2, <1>4
  <2>2. f[j] = UpToStep(s, f, j)
    BY <1>1, <1>2, <2>1, CleaningStep
  <2>3. s[j] \in AnyTurn /\ Counts(s[j])
    BY <2>1
  <2>4. f[j] = Append(f[n], s[j])
    <3> HIDE DEF j
    <3>1. QED
      BY <2>1, <2>2, <2>3 DEF UpToStep, Counts
  <2>5. f[n] \in Seq(AnyTurn) /\ Len(f[n]) = n /\ \A i \in 1..n : f[n][i] = s[i]
    BY <1>4
  <2>6. /\ f[j] \in Seq(AnyTurn) /\ Len(f[j]) = j
        /\ \A i \in 1..n : f[j][i] = s[i]
        /\ f[j][j] = s[j]
    BY <2>3, <2>4, <2>5, AppendProperties
  <2>7. \A i \in 1..j : i \in 1..n \/ i = j
    OBVIOUS
  <2>8. QED
    BY <2>1, <2>6, <2>7
<1>5. 0..Len(s) \subseteq P
  <2> HIDE DEF P
  <2>1. QED
    BY <1>2, <1>3, <1>4, UpTo
<1>6. /\ Cleaned(s) \in Seq(AnyTurn) /\ Len(Cleaned(s)) = Len(s)
      /\ \A i \in 1..Len(s) : Cleaned(s)[i] = s[i]
  BY <1>1, <1>2, <1>5
<1>7. QED
  BY <1>6, SeqEqual

-----------------------------------------------------------------------------
(* The recent end of a conversation.                                       *)

\* How many of n turns that count are kept.
Kept(n) == IF MaxHistory <= 0 THEN 0 ELSE IF n <= MaxHistory THEN n ELSE MaxHistory

\* The last of a sequence of turns, numbered from 0.
Latest(texts) ==
    [i \in 1..Kept(Len(texts)) |->
        [texts[Len(texts) - Kept(Len(texts)) + i] EXCEPT !.order = i - 1]]

AllCount(s) == \A i \in 1..Len(s) : Counts(s[i])

\* Two turns that differ in nothing but their number.
Same(x, y) == x.role = y.role /\ x.run = y.run /\ x.blank = y.blank

\* d ends as c does, and is not shorter than what is kept of c.
Ends(d, c) ==
    /\ Len(d) <= Len(c) /\ Kept(Len(c)) <= Len(d)
    /\ \A i \in 1..Len(d) : Same(d[i], c[Len(c) - Len(d) + i])

LEMMA KeptIs ==
    ASSUME NEW n \in Nat
    PROVE  Kept(n) \in Nat /\ Kept(n) <= n /\ (MaxHistory > 0 => Kept(n) <= MaxHistory)
BY HistoryAssumption DEF Kept

LEMMA NumberedIs ==
    ASSUME NEW x \in AnyTurn, NEW n \in Int
    PROVE  LET y == [x EXCEPT !.order = n]
           IN  /\ y \in AnyTurn /\ y.order = n /\ Same(y, x)
               /\ (Counts(x) => Counts(y))
BY DEF AnyTurn, Same, Counts

\* Turns that differ in nothing but their number are one turn when numbered alike.
LEMMA NumberedAlike ==
    ASSUME NEW x \in AnyTurn, NEW y \in AnyTurn, Same(x, y), NEW n \in Int
    PROVE  [x EXCEPT !.order = n] = [y EXCEPT !.order = n]
BY DEF AnyTurn, Same

LEMMA LatestIs ==
    ASSUME NEW c \in Seq(AnyTurn)
    PROVE  /\ Latest(c) \in Seq(AnyTurn)
           /\ Len(Latest(c)) = Kept(Len(c))
           /\ \A i \in 1..Kept(Len(c)) :
                 /\ Latest(c)[i].order = i - 1
                 /\ Same(Latest(c)[i], c[Len(c) - Kept(Len(c)) + i])
                 /\ (AllCount(c) => Counts(Latest(c)[i]))
<1> DEFINE k == Kept(Len(c))
           At(i) == c[Len(c) - k + i]
<1>1. k \in Nat /\ k <= Len(c) /\ Len(c) \in Nat
  BY KeptIs
<1>2. \A i \in 1..k : Len(c) - k + i \in 1..Len(c) /\ i - 1 \in Int
  BY <1>1
<1>3. \A i \in 1..k : At(i) \in AnyTurn /\ (AllCount(c) => Counts(At(i)))
  BY <1>2 DEF AllCount
<1>4. Latest(c) = [i \in 1..k |-> [At(i) EXCEPT !.order = i - 1]]
  BY DEF Latest
<1> HIDE DEF k, At
<1>5. \A i \in 1..k : [At(i) EXCEPT !.order = i - 1] \in AnyTurn
  BY <1>2, <1>3, NumberedIs
<1>6. Latest(c) \in Seq(AnyTurn) /\ Len(Latest(c)) = k
  BY <1>1, <1>4, <1>5
<1>7. \A i \in 1..k : Latest(c)[i] = [At(i) EXCEPT !.order = i - 1]
  BY <1>4
<1>8. ASSUME NEW i \in 1..k
      PROVE  /\ Latest(c)[i].order = i - 1
             /\ Same(Latest(c)[i], At(i))
             /\ (AllCount(c) => Counts(Latest(c)[i]))
  <2> DEFINE y == [At(i) EXCEPT !.order = i - 1]
  <2>1. At(i) \in AnyTurn /\ i - 1 \in Int
    BY <1>2, <1>3
  <2>2. y.order = i - 1 /\ Same(y, At(i)) /\ (Counts(At(i)) => Counts(y))
    BY <2>1, NumberedIs
  <2>3. Latest(c)[i] = y
    BY <1>7
  <2> HIDE DEF y
  <2>4. QED
    BY <1>3, <2>2, <2>3
<1>9. QED
  BY <1>6, <1>8 DEF k, At

\* truncate_history keeps the latest of the turns that count.
LEMMA TruncateIs ==
    ASSUME NEW s \in Seq(AnyTurn)
    PROVE  Truncate(s) = Latest(Cleaned(s))
<1> DEFINE c == Cleaned(s)
<1>1. c \in Seq(AnyTurn) /\ Len(c) \in Nat
  BY CleanedCounts
<1> HIDE DEF c
<1>2. MaxHistory \in Int
  BY HistoryAssumption
<1>3. CASE MaxHistory <= 0
  <2>1. Truncate(s) = <<>>
    BY <1>3 DEF Truncate
  <2>2. Kept(Len(c)) = 0
    BY <1>3 DEF Kept
  <2>3. Latest(c) \in Seq(AnyTurn) /\ Len(Latest(c)) = 0
    BY <1>1, <2>2, LatestIs
  <2>4. QED
    BY <2>1, <2>3 DEF c
<1>4. CASE ~(MaxHistory <= 0) /\ Len(c) <= MaxHistory
  <2>1. Truncate(s) = [i \in 1..Len(c) |-> [c[i] EXCEPT !.order = i - 1]]
    BY <1>4 DEF Truncate, Renumber, c
  <2>2. Kept(Len(c)) = Len(c)
    BY <1>4 DEF Kept
  <2>3. \A i \in 1..Len(c) : Len(c) - Len(c) + i = i
    BY <1>1
  <2>4. Latest(c) = [i \in 1..Len(c) |-> [c[Len(c) - Len(c) + i] EXCEPT !.order = i - 1]]
    BY <2>2 DEF Latest
  <2>5. QED
    BY <2>1, <2>3, <2>4 DEF c
<1>5. CASE ~(MaxHistory <= 0) /\ ~(Len(c) <= MaxHistory)
  <2> DEFINE d == SubSeq(c, Len(c) - MaxHistory + 1, Len(c))
  <2>1. Truncate(s) = Renumber(d)
    BY <1>5 DEF Truncate, c
  <2>2. /\ Len(c) - MaxHistory + 1 \in 1..Len(c) + 1 /\ Len(c) \in Int
        /\ Len(c) - (Len(c) - MaxHistory + 1) + 1 = MaxHistory
    BY <1>1, <1>2, <1>5
  <2>3. /\ Len(d) = MaxHistory
        /\ \A i \in 1..MaxHistory : d[i] = c[Len(c) - MaxHistory + i]
    BY <1>1, <1>2, <1>5
  <2> HIDE DEF d
  <2>4. Kept(Len(c)) = MaxHistory
    BY <1>5 DEF Kept
  <2>5. Latest(c) =
            [i \in 1..MaxHistory |-> [c[Len(c) - MaxHistory + i] EXCEPT !.order = i - 1]]
    BY <2>4 DEF Latest
  <2>6. Renumber(d) = [i \in 1..MaxHistory |-> [d[i] EXCEPT !.order = i - 1]]
    BY <2>3 DEF Renumber
  <2>7. QED
    BY <2>1, <2>3, <2>5, <2>6 DEF c
<1>6. QED
  BY <1>3, <1>4, <1>5

\* What is kept of a conversation ends as the conversation does.
LEMMA LatestEnds ==
    ASSUME NEW c \in Seq(AnyTurn)
    PROVE  Ends(Latest(c), c)
<1>1. Kept(Len(c)) \in Nat /\ Kept(Len(c)) <= Len(c) /\ Len(c) \in Nat
  BY KeptIs
<1>2. Len(Latest(c)) = Kept(Len(c))
  BY LatestIs
<1>3. \A i \in 1..Kept(Len(c)) : Same(Latest(c)[i], c[Len(c) - Kept(Len(c)) + i])
  BY LatestIs
<1>4. QED
  BY <1>1, <1>2, <1>3 DEF Ends

\* Of two conversations that end alike the same is kept.
LEMMA EndsLatest ==
    ASSUME NEW d \in Seq(AnyTurn), NEW c \in Seq(AnyTurn), Ends(d, c)
    PROVE  Latest(d) = Latest(c)
<1> DEFINE m == Len(d)
           n == Len(c)
<1>1. m \in Nat /\ n \in Nat /\ m <= n /\ Kept(n) <= m
  BY DEF Ends
<1>2. Kept(m) = Kept(n) /\ Kept(n) \in Nat
  BY <1>1, HistoryAssumption DEF Kept
<1> DEFINE k == Kept(n)
<1>3. ASSUME NEW i \in 1..k
      PROVE  [d[m - k + i] EXCEPT !.order = i - 1] = [c[n - k + i] EXCEPT !.order = i - 1]
  <2> DEFINE j == m - k + i
  <2>1. j \in 1..m /\ n - m + j = n - k + i /\ n - k + i \in 1..n /\ i - 1 \in Int
    BY <1>1, <1>2
  <2>2. Same(d[j], c[n - k + i]) /\ d[j] \in AnyTurn /\ c[n - k + i] \in AnyTurn
    BY <2>1 DEF Ends
  <2>3. QED
    BY <2>1, <2>2, NumberedAlike
<1>4. Latest(d) = [i \in 1..k |-> [d[m - k + i] EXCEPT !.order = i - 1]]
  BY <1>2 DEF Latest
<1>5. Latest(c) = [i \in 1..k |-> [c[n - k + i] EXCEPT !.order = i - 1]]
  BY DEF Latest
<1>6. QED
  BY <1>3, <1>4, <1>5

LEMMA EndsAppend ==
    ASSUME NEW d \in Seq(AnyTurn), NEW c \in Seq(AnyTurn), Ends(d, c),
           NEW x \in AnyTurn, NEW y \in AnyTurn, Same(x, y)
    PROVE  Ends(Append(d, x), Append(c, y))
<1> DEFINE m == Len(d)
           n == Len(c)
           dd == Append(d, x)
           cc == Append(c, y)
<1>1. m \in Nat /\ n \in Nat /\ m <= n /\ Kept(n) <= m
  BY DEF Ends
<1>2. /\ Len(dd) = m + 1 /\ dd[m + 1] = x /\ \A i \in 1..m : dd[i] = d[i]
      /\ Len(cc) = n + 1 /\ cc[n + 1] = y /\ \A i \in 1..n : cc[i] = c[i]
  BY AppendProperties
<1> HIDE DEF dd, cc
<1>3. Kept(n + 1) <= m + 1 /\ m + 1 <= n + 1
  BY <1>1, HistoryAssumption DEF Kept
<1>4. ASSUME NEW i \in 1..m + 1
      PROVE  Same(dd[i], cc[(n + 1) - (m + 1) + i])
  <2>1. CASE i = m + 1
    <3>1. (n + 1) - (m + 1) + i = n + 1
      BY <1>1, <2>1
    <3>2. QED
      BY <1>2, <2>1, <3>1
  <2>2. CASE i # m + 1
    <3>1. i \in 1..m /\ (n + 1) - (m + 1) + i = n - m + i /\ n - m + i \in 1..n
      BY <1>1, <2>2
    <3>2. Same(d[i], c[n - m + i])
      BY <3>1 DEF Ends
    <3>3. QED
      BY <1>2, <3>1, <3>2
  <2>3. QED
    BY <2>1, <2>2
<1>5. QED
  BY <1>2, <1>3, <1>4 DEF Ends, dd, cc

LEMMA TurnIs ==
    ASSUME NEW role \in Roles, NEW r \in Runs, NEW blank \in BOOLEAN, NEW n \in Nat
    PROVE  /\ Turn(role, r, blank, n) \in TurnType
           /\ Counts(Turn(role, r, blank, n)) <=> ~blank
           /\ \A m \in Nat : Same(Turn(role, r, blank, n), Turn(role, r, blank, m))
BY DEF Turn, TurnType, Counts, Same

LEMMA TurnsAreAny == TurnType \in SUBSET AnyTurn
BY DEF TurnType, AnyTurn

\* Recording an exchange appends its two turns.
LEMMA ExchangeAppends ==
    ASSUME NEW s \in Seq(AnyTurn), NEW r \in Runs, NEW asked \in BOOLEAN,
           NEW answered \in BOOLEAN, NEW n \in Nat
    PROVE  s \o Exchange(r, asked, answered, n) =
              Append(Append(s, Turn("user", r, asked, n)), Turn("assistant", r, answered, n + 1))
<1> DEFINE u == Turn("user", r, asked, n)
           a == Turn("assistant", r, answered, n + 1)
<1>1. u \in AnyTurn /\ a \in AnyTurn
  BY TurnIs, TurnsAreAny DEF Roles
<1>2. Exchange(r, asked, answered, n) = <<u, a>>
  BY DEF Exchange
<1> HIDE DEF u, a
<1>3. s \o <<u, a>> = Append(Append(s, u), a)
  <2>1. /\ s \o <<u, a>> \in Seq(AnyTurn) /\ Append(Append(s, u), a) \in Seq(AnyTurn)
        /\ Append(s, u) \in Seq(AnyTurn)
    BY <1>1
  <2>2. /\ Len(s \o <<u, a>>) = Len(s) + 2 /\ Len(Append(Append(s, u), a)) = Len(s) + 2
        /\ Len(s) \in Nat
    BY <1>1
  <2>3. \A i \in 1..(Len(s) + 2) : (s \o <<u, a>>)[i] = Append(Append(s, u), a)[i]
    BY <1>1
  <2>4. QED
    BY <2>1, <2>2, <2>3, SeqEqual
<1>4. QED
  BY <1>2, <1>3 DEF u, a

\* Two conversations that end alike still do when both have the same exchange more.
LEMMA EndsExchange ==
    ASSUME NEW s \in Seq(AnyTurn), NEW t \in Seq(AnyTurn), Ends(Cleaned(s), Cleaned(t)),
           NEW r \in Runs, NEW asked \in BOOLEAN, NEW answered \in BOOLEAN,
           NEW m \in Nat, NEW n \in Nat
    PROVE  Ends(Cleaned(s \o Exchange(r, asked, answered, m)),
                Cleaned(t \o Exchange(r, asked, answered, n)))
<1> DEFINE u == Turn("user", r, asked, m)
           a == Turn("assistant", r, answered, m + 1)
           v == Turn("user", r, asked, n)
           b == Turn("assistant", r, answered, n + 1)
<1>1. /\ {u, a, v, b} \subseteq AnyTurn /\ Same(u, v) /\ Same(a, b)
      /\ (Counts(u) <=> Counts(v)) /\ (Counts(a) <=> Counts(b))
  BY TurnIs, TurnsAreAny DEF Roles
<1>2. /\ s \o Exchange(r, asked, answered, m) = Append(Append(s, u), a)
      /\ t \o Exchange(r, asked, answered, n) = Append(Append(t, v), b)
  BY ExchangeAppends
<1> HIDE DEF u, a, v, b
<1>3. Cleaned(s) \in Seq(AnyTurn) /\ Cleaned(t) \in Seq(AnyTurn)
  BY CleanedCounts
<1>4. /\ Append(s, u) \in Seq(AnyTurn) /\ Append(t, v) \in Seq(AnyTurn)
      /\ Cleaned(Append(s, u)) \in Seq(AnyTurn) /\ Cleaned(Append(t, v)) \in Seq(AnyTurn)
  <2>1. Append(s, u) \in Seq(AnyTurn) /\ Append(t, v) \in Seq(AnyTurn)
    BY <1>1
  <2>2. QED
    BY <2>1, CleanedCounts
<1>5. Ends(Cleaned(Append(s, u)), Cleaned(Append(t, v)))
  <2>1. CASE Counts(u)
    <3>1. Ends(Append(Cleaned(s), u), Append(Cleaned(t), v))
      BY <1>1, <1>3, EndsAppend
    <3>2. QED
      BY <1>1, <2>1, <3>1, CleanedAppend
  <2>2. CASE ~Counts(u)
    BY <1>1, <2>2, CleanedAppend
  <2>3. QED
    BY <2>1, <2>2
<1>6. Ends(Cleaned(Append(Append(s, u), a)), Cleaned(Append(Append(t, v), b)))
  <2>1. CASE Counts(a)
    <3>1. Ends(Append(Cleaned(Append(s, u)), a), Append(Cleaned(Append(t, v)), b))
      BY <1>1, <1>4, <1>5, EndsAppend
    <3>2. QED
      BY <1>1, <1>4, <2>1, <3>1, CleanedAppend
  <2>2. CASE ~Counts(a)
    BY <1>1, <1>4, <1>5, <2>2, CleanedAppend
  <2>3. QED
    BY <2>1, <2>2
<1>7. QED
  BY <1>2, <1>6

\* Truncating a truncated conversation with an exchange more keeps what truncating the whole
\* conversation with it keeps.
LEMMA TruncateOnce ==
    ASSUME NEW t \in Seq(AnyTurn), NEW r \in Runs, NEW asked \in BOOLEAN,
           NEW answered \in BOOLEAN, NEW m \in Nat, NEW n \in Nat
    PROVE  LET kept == Latest(Cleaned(t))
           IN  /\ Truncate(kept \o Exchange(r, asked, answered, m)) =
                     Latest(Cleaned(t \o Exchange(r, asked, answered, n)))
               /\ Truncate(kept) = kept
<1> DEFINE kept == Latest(Cleaned(t))
           longer == kept \o Exchange(r, asked, answered, m)
           whole == t \o Exchange(r, asked, answered, n)
<1>1. Cleaned(t) \in Seq(AnyTurn) /\ AllCount(Cleaned(t))
  BY CleanedCounts DEF AllCount
<1>2. /\ kept \in Seq(AnyTurn)
      /\ \A i \in 1..Len(kept) : Counts(kept[i])
  BY <1>1, LatestIs
<1>3. Ends(kept, Cleaned(t))
  BY <1>1, LatestEnds
<1> HIDE DEF kept
<1>4. Cleaned(kept) = kept
  BY <1>2, CleanedOfClean
<1>5. Exchange(r, asked, answered, m) \in Seq(AnyTurn) /\ Exchange(r, asked, answered, n) \in Seq(AnyTurn)
  BY TurnIs, TurnsAreAny DEF Exchange, Roles
<1>6. longer \in Seq(AnyTurn) /\ whole \in Seq(AnyTurn)
  BY <1>2, <1>5
<1>7. Ends(Cleaned(longer), Cleaned(whole))
  BY <1>2, <1>3, <1>4, EndsExchange
<1> HIDE DEF longer, whole
<1>8. Latest(Cleaned(longer)) = Latest(Cleaned(whole))
  BY <1>6, <1>7, CleanedCounts, EndsLatest
<1>9. Truncate(longer) = Latest(Cleaned(whole))
  BY <1>6, <1>8, TruncateIs
<1>10. Truncate(kept) = kept
  <2>1. Truncate(kept) = Latest(kept)
    BY <1>2, <1>4, TruncateIs
  <2>2. Latest(kept) = Latest(Cleaned(t))
    BY <1>1, <1>2, <1>3, EndsLatest
  <2>3. QED
    BY <2>1, <2>2 DEF kept
<1>11. QED
  BY <1>9, <1>10 DEF kept, longer, whole

-----------------------------------------------------------------------------
(* The state.                                                              *)

RunState ==
    [step : {"idle", "running", "succeeded", "failed"}, thread : Threads \cup {NoThread},
     own : BOOLEAN, history : Seq(AnyTurn), seen : Nat]

Types ==
    /\ turns \in [Threads -> Seq(AnyTurn)]
    /\ run \in [Runs -> RunState]
    /\ said \in [Threads -> Seq(TurnType)]

BufferKeepsLatest == \A thread \in Threads : turns[thread] = Latest(Cleaned(said[thread]))

Presentable(history) ==
    /\ Len(history) <= Kept(Len(history))
    /\ \A i \in 1..Len(history) : history[i].order = i - 1 /\ Counts(history[i])

\* What a run that reads the buffer of `thread` once n turns were said answers from.
ContextOf(thread, n) ==
    IF thread = NoThread THEN <<>> ELSE Latest(Cleaned(SubSeq(said[thread], 1, n)))

RunKeepsContext(r) ==
    /\ run[r].thread # NoThread => run[r].seen <= Len(said[run[r].thread])
    /\ Presentable(run[r].history)
    /\ run[r].step # "idle" /\ ~run[r].own =>
          run[r].history = ContextOf(run[r].thread, run[r].seen)

HistoryInvariant ==
    /\ Types
    /\ BufferKeepsLatest
    /\ \A r \in Runs : RunKeepsContext(r)

LEMMA SaidIsAny == Types => \A thread \in Threads : said[thread] \in Seq(AnyTurn)
<1> SUFFICES ASSUME Types, NEW thread \in Threads PROVE said[thread] \in Seq(AnyTurn)
  OBVIOUS
<1>1. said[thread] \in Seq(TurnType)
  BY DEF Types
<1>2. QED
  BY <1>1, TurnsAreAny

LEMMA TruncateIsPresentable ==
    ASSUME NEW s \in Seq(AnyTurn)
    PROVE  Truncate(s) \in Seq(AnyTurn) /\ Presentable(Truncate(s))
<1> DEFINE c == Cleaned(s)
           k == Kept(Len(c))
<1>1. c \in Seq(AnyTurn) /\ AllCount(c)
  BY CleanedCounts DEF AllCount
<1>2. Truncate(s) = Latest(c)
  BY TruncateIs
<1> HIDE DEF c
<1>3. /\ Latest(c) \in Seq(AnyTurn) /\ Len(Latest(c)) = k
      /\ \A i \in 1..k : Latest(c)[i].order = i - 1 /\ Counts(Latest(c)[i])
  BY <1>1, LatestIs
<1>4. k \in Nat /\ k <= Kept(k)
  BY <1>1, HistoryAssumption DEF Kept
<1> HIDE DEF k
<1>5. QED
  BY <1>2, <1>3, <1>4 DEF Presentable

LEMMA NothingIsPresentable ==
    /\ <<>> \in Seq(AnyTurn) /\ Presentable(<<>>)
    /\ Cleaned(<<>>) = <<>> /\ Latest(<<>>) = <<>> /\ Truncate(<<>>) = <<>>
<1>1. <<>> \in Seq(AnyTurn) /\ Len(<<>>) = 0 /\ 1..0 = {}
  OBVIOUS
<1>2. Kept(0) = 0
  BY HistoryAssumption DEF Kept
<1>3. Presentable(<<>>)
  BY <1>1, <1>2 DEF Presentable
<1>4. Latest(<<>>) = <<>>
  <2>1. Latest(<<>>) \in Seq(AnyTurn) /\ Len(Latest(<<>>)) = 0
    BY <1>1, <1>2, LatestIs
  <2>2. QED
    BY <2>1
<1>5. Truncate(<<>>) = <<>>
  BY <1>1, <1>4, CleanedEmpty, TruncateIs
<1>6. QED
  BY <1>1, <1>3, <1>4, <1>5, CleanedEmpty

LEMMA InitHistory == Init => HistoryInvariant
<1> SUFFICES ASSUME Init PROVE HistoryInvariant
  OBVIOUS
<1> DEFINE idle == [step |-> "idle", thread |-> NoThread, history |-> <<>>,
                    own |-> FALSE, seen |-> 0]
<1>1. idle \in RunState
  BY NothingIsPresentable DEF RunState
<1>2. run = [r \in Runs |-> idle] /\ turns = [thread \in Threads |-> <<>>]
      /\ said = [thread \in Threads |-> <<>>]
  BY DEF Init
<1>3. idle.thread = NoThread /\ idle.history = <<>> /\ idle.step = "idle"
  OBVIOUS
<1> HIDE DEF idle
<1>4. \A r \in Runs : run[r] = idle
  BY <1>2
<1>5. Types
  BY <1>1, <1>2, NothingIsPresentable DEF Types
<1>6. BufferKeepsLatest
  BY <1>2, NothingIsPresentable DEF BufferKeepsLatest
<1>7. \A r \in Runs : RunKeepsContext(r)
  BY <1>3, <1>4, NothingIsPresentable DEF RunKeepsContext
<1>8. QED
  BY <1>5, <1>6, <1>7 DEF HistoryInvariant

\* What a run saw stays as it was, however much is said after it.
LEMMA EarlierStays ==
    ASSUME NEW s \in Seq(AnyTurn), NEW t \in Seq(AnyTurn), NEW n \in Nat, n <= Len(s)
    PROVE  SubSeq(s \o t, 1, n) = SubSeq(s, 1, n) /\ n <= Len(s \o t)
<1>1. s \o t \in Seq(AnyTurn) /\ Len(s \o t) = Len(s) + Len(t)
  OBVIOUS
<1>2. n <= Len(s \o t)
  BY <1>1
<1>3. SubSeq(s \o t, 1, n) \in Seq(AnyTurn) /\ SubSeq(s, 1, n) \in Seq(AnyTurn)
  BY <1>1, <1>2
<1>4. Len(SubSeq(s \o t, 1, n)) = n /\ Len(SubSeq(s, 1, n)) = n
  BY <1>1, <1>2
<1>5. \A i \in 1..n : SubSeq(s \o t, 1, n)[i] = SubSeq(s, 1, n)[i]
  BY <1>1, <1>2
<1>6. QED
  BY <1>2, <1>3, <1>4, <1>5, SeqEqual

LEMMA WholeIs ==
    ASSUME NEW s \in Seq(AnyTurn)
    PROVE  SubSeq(s, 1, Len(s)) = s
BY SeqEqual

\* A run goes on, its context as it should be; nothing is recorded.
LEMMA RunMoves ==
    ASSUME HistoryInvariant, NEW r \in Runs, NEW new \in RunState,
           run' = [run EXCEPT ![r] = new], UNCHANGED <<turns, said>>,
           new.thread # NoThread => new.seen <= Len(said[new.thread]),
           Presentable(new.history),
           new.step # "idle" /\ ~new.own => new.history = ContextOf(new.thread, new.seen)
    PROVE  HistoryInvariant'
<1>1. /\ run' \in [Runs -> RunState] /\ run'[r] = new
      /\ \A q \in Runs : q # r => run'[q] = run[q]
  BY DEF HistoryInvariant, Types
<1>2. Types' /\ BufferKeepsLatest'
  BY <1>1 DEF HistoryInvariant, Types, BufferKeepsLatest
<1>3. RunKeepsContext(r)'
  BY <1>1 DEF RunKeepsContext, ContextOf
<1>4. \A q \in Runs : RunKeepsContext(q)'
  BY <1>1, <1>3 DEF HistoryInvariant, RunKeepsContext, ContextOf
<1>5. QED
  BY <1>2, <1>4 DEF HistoryInvariant

LEMMA BeginKeeps ==
    ASSUME HistoryInvariant, NEW r \in Runs, NEW thread \in Threads \cup {NoThread},
           Begin(r, thread)
    PROVE  HistoryInvariant'
<1> DEFINE context == Truncate(TurnsOf(thread))
           new == [step |-> "running", thread |-> thread, own |-> FALSE,
                   history |-> context, seen |-> SeenOn(thread)]
<1>1. Types /\ BufferKeepsLatest
  BY DEF HistoryInvariant
<1>2. /\ context \in Seq(AnyTurn) /\ Presentable(context) /\ SeenOn(thread) \in Nat
      /\ thread # NoThread => SeenOn(thread) <= Len(said[thread])
      /\ context = ContextOf(thread, SeenOn(thread))
  <2>1. CASE thread = NoThread
    BY <2>1, NothingIsPresentable DEF TurnsOf, SeenOn, ContextOf
  <2>2. CASE thread # NoThread
    <3>1. thread \in Threads /\ said[thread] \in Seq(AnyTurn) /\ turns[thread] \in Seq(AnyTurn)
      BY <1>1, <2>2, SaidIsAny DEF Types
    <3>2. turns[thread] = Latest(Cleaned(said[thread]))
      BY <1>1, <3>1 DEF BufferKeepsLatest
    <3>3. TRUE \in BOOLEAN /\ 0 \in Nat
      OBVIOUS
    <3>4. Truncate(turns[thread]) = turns[thread]
      BY <3>1, <3>2, <3>3, TruncateOnce
    <3>5. SeenOn(thread) = Len(said[thread]) /\ Len(said[thread]) \in Nat
      BY <2>2, <3>1 DEF SeenOn
    <3>6. ContextOf(thread, SeenOn(thread)) = Latest(Cleaned(said[thread]))
      BY <2>2, <3>1, <3>5, WholeIs DEF ContextOf
    <3>7. context = Truncate(turns[thread])
      BY <2>2 DEF TurnsOf
    <3>8. context \in Seq(AnyTurn) /\ Presentable(context)
      BY <3>1, <3>7, TruncateIsPresentable
    <3>9. QED
      BY <3>2, <3>4, <3>5, <3>6, <3>7, <3>8
  <2>3. QED
    BY <2>1, <2>2
<1>3. run' = [run EXCEPT ![r] = new] /\ UNCHANGED <<turns, said>>
  BY DEF Begin
<1> HIDE DEF context
<1>4. new \in RunState
  BY <1>2 DEF RunState
<1>5. /\ new.thread = thread /\ new.history = context /\ new.seen = SeenOn(thread)
      /\ new.step = "running" /\ new.own = FALSE
  OBVIOUS
<1> HIDE DEF new
<1>6. QED
  BY <1>2, <1>3, <1>4, <1>5, RunMoves

LEMMA BeginWithOwnHistoryKeeps ==
    ASSUME HistoryInvariant, NEW r \in Runs, NEW thread \in Threads \cup {NoThread},
           NEW history \in OwnHistories, BeginWithOwnHistory(r, thread, history)
    PROVE  HistoryInvariant'
<1> DEFINE context == Truncate(history)
           new == [step |-> "running", thread |-> thread, own |-> TRUE,
                   history |-> context, seen |-> SeenOn(thread)]
<1>1. context \in Seq(AnyTurn) /\ Presentable(context)
  BY HistoryAssumption, TruncateIsPresentable
<1>2. /\ SeenOn(thread) \in Nat
      /\ thread # NoThread => SeenOn(thread) <= Len(said[thread])
  <2>1. thread # NoThread => said[thread] \in Seq(AnyTurn)
    BY SaidIsAny DEF HistoryInvariant
  <2>2. thread # NoThread => Len(said[thread]) \in Nat
    BY <2>1
  <2>3. QED
    BY <2>2 DEF SeenOn
<1>3. run' = [run EXCEPT ![r] = new] /\ UNCHANGED <<turns, said>>
  BY DEF BeginWithOwnHistory
<1> HIDE DEF context
<1>4. new \in RunState
  BY <1>1, <1>2 DEF RunState
<1>5. /\ new.thread = thread /\ new.history = context /\ new.seen = SeenOn(thread)
      /\ new.own = TRUE
  OBVIOUS
<1> HIDE DEF new
<1>6. QED
  BY <1>1, <1>2, <1>3, <1>4, <1>5, RunMoves

LEMMA FailKeeps ==
    ASSUME HistoryInvariant, NEW r \in Runs, Fail(r)
    PROVE  HistoryInvariant'
<1> DEFINE new == [run[r] EXCEPT !.step = "failed"]
<1>1. run[r] \in RunState /\ RunKeepsContext(r) /\ run[r].step = "running"
  BY DEF HistoryInvariant, Types, Fail
<1>2. /\ new \in RunState /\ new.thread = run[r].thread /\ new.history = run[r].history
      /\ new.seen = run[r].seen /\ new.own = run[r].own /\ new.step = "failed"
  BY <1>1 DEF RunState
<1>3. run' = [run EXCEPT ![r] = new] /\ UNCHANGED <<turns, said>>
  BY DEF Fail
<1> HIDE DEF new
<1>4. QED
  BY <1>1, <1>2, <1>3, RunMoves DEF RunKeepsContext

LEMMA SucceedKeeps ==
    ASSUME HistoryInvariant, NEW r \in Runs, NEW asked \in BOOLEAN, NEW answered \in BOOLEAN,
           Succeed(r, asked, answered)
    PROVE  HistoryInvariant'
<1> DEFINE new == [run[r] EXCEPT !.step = "succeeded"]
<1>1. /\ run[r] \in RunState /\ RunKeepsContext(r) /\ run[r].step = "running"
      /\ Types /\ BufferKeepsLatest
  BY DEF HistoryInvariant, Types, Succeed
<1>2. /\ new \in RunState /\ new.thread = run[r].thread /\ new.history = run[r].history
      /\ new.seen = run[r].seen /\ new.own = run[r].own /\ new.step = "succeeded"
  BY <1>1 DEF RunState
<1>3. run' = [run EXCEPT ![r] = new]
  BY DEF Succeed
<1> HIDE DEF new
<1>4. CASE run[r].thread = NoThread
  <2>1. UNCHANGED <<turns, said>>
    BY <1>4 DEF Succeed, RecordExchange
  <2>2. QED
    BY <1>1, <1>2, <1>3, <2>1, RunMoves DEF RunKeepsContext
<1>5. CASE run[r].thread # NoThread
  <2> DEFINE thread == run[r].thread
             kept == turns[thread]
             longer == kept \o Exchange(r, asked, answered, Len(kept))
             exchange == Exchange(r, asked, answered, 0)
  <2>1. thread \in Threads
    BY <1>1, <1>5 DEF RunState
  <2>2. /\ turns' = [turns EXCEPT ![thread] = Truncate(longer)]
        /\ said' = [said EXCEPT ![thread] = said[thread] \o exchange]
    BY <1>5 DEF Succeed, RecordExchange
  <2> HIDE DEF thread
  <2>3. /\ kept \in Seq(AnyTurn) /\ said[thread] \in Seq(AnyTurn)
        /\ said[thread] \in Seq(TurnType)
        /\ kept = Latest(Cleaned(said[thread])) /\ Len(kept) \in Nat
    BY <1>1, <2>1, SaidIsAny DEF Types, BufferKeepsLatest
  <2>4. exchange \in Seq(TurnType) /\ exchange \in Seq(AnyTurn)
        /\ Exchange(r, asked, answered, Len(kept)) \in Seq(AnyTurn)
    BY <2>3, TurnIs, TurnsAreAny DEF Exchange, Roles
  <2>5. Truncate(longer) = Latest(Cleaned(said[thread] \o exchange))
    <3>1. 0 \in Nat
      OBVIOUS
    <3>2. QED
      BY <2>3, <3>1, TruncateOnce
  <2>6. longer \in Seq(AnyTurn) /\ said[thread] \o exchange \in Seq(TurnType)
    BY <2>3, <2>4
  <2>7. Truncate(longer) \in Seq(AnyTurn)
    BY <2>6, TruncateIsPresentable
  <2> HIDE DEF kept, longer, exchange
  <2>8. /\ turns'[thread] = Truncate(longer) /\ said'[thread] = said[thread] \o exchange
        /\ \A t \in Threads : t # thread => turns'[t] = turns[t] /\ said'[t] = said[t]
    BY <1>1, <2>1, <2>2 DEF Types
  <2>9. /\ run'[r] = new /\ \A q \in Runs : q # r => run'[q] = run[q]
    BY <1>1, <1>3 DEF Types
  <2>10. Types'
    BY <1>1, <1>2, <1>3, <2>2, <2>6, <2>7 DEF Types
  <2>11. BufferKeepsLatest'
    BY <1>1, <2>5, <2>8 DEF BufferKeepsLatest
  <2>12. ASSUME NEW t \in Threads, NEW n \in Nat, n <= Len(said[t])
         PROVE  SubSeq(said'[t], 1, n) = SubSeq(said[t], 1, n) /\ n <= Len(said'[t])
    <3>1. CASE t = thread
      BY <2>3, <2>4, <2>8, <2>12, <3>1, EarlierStays
    <3>2. CASE t # thread
      BY <2>8, <2>12, <3>2
    <3>3. QED
      BY <3>1, <3>2
  <2>13. ASSUME NEW q \in Runs
         PROVE  RunKeepsContext(q)'
    <3>1. /\ run[q] \in RunState /\ RunKeepsContext(q)
          /\ run'[q].thread = run[q].thread /\ run'[q].history = run[q].history
          /\ run'[q].seen = run[q].seen /\ run'[q].own = run[q].own
      BY <1>1, <1>2, <2>9 DEF HistoryInvariant, Types
    <3>2. run'[q].step # "idle" => run[q].step # "idle"
      BY <1>1, <2>9
    <3>3. CASE run[q].thread = NoThread
      BY <3>1, <3>2, <3>3 DEF RunKeepsContext, ContextOf
    <3>4. CASE run[q].thread # NoThread
      <4>1. run[q].thread \in Threads /\ run[q].seen \in Nat
        BY <3>1, <3>4 DEF RunState
      <4>2. run[q].seen <= Len(said[run[q].thread])
        BY <3>1, <3>4 DEF RunKeepsContext
      <4>3. /\ SubSeq(said'[run[q].thread], 1, run[q].seen)
                  = SubSeq(said[run[q].thread], 1, run[q].seen)
            /\ run[q].seen <= Len(said'[run[q].thread])
        BY <2>12, <4>1, <4>2
      <4>4. ContextOf(run[q].thread, run[q].seen)' = ContextOf(run[q].thread, run[q].seen)
        BY <3>1, <4>3 DEF ContextOf
      <4>5. QED
        BY <3>1, <3>2, <4>3, <4>4 DEF RunKeepsContext
    <3>5. QED
      BY <3>3, <3>4
  <2>14. QED
    BY <2>10, <2>11, <2>13 DEF HistoryInvariant
<1>6. QED
  BY <1>4, <1>5

LEMMA NextHistory == HistoryInvariant /\ [Next]_vars => HistoryInvariant'
<1> SUFFICES ASSUME HistoryInvariant, [Next]_vars PROVE HistoryInvariant'
  OBVIOUS
<1>1. CASE UNCHANGED vars
  BY <1>1 DEF vars, HistoryInvariant, Types, BufferKeepsLatest, RunKeepsContext, ContextOf
<1>2. ASSUME NEW r \in Runs, NEW thread \in Threads \cup {NoThread}, Begin(r, thread)
      PROVE  HistoryInvariant'
  BY <1>2, BeginKeeps
<1>3. ASSUME NEW r \in Runs, NEW thread \in Threads \cup {NoThread},
             NEW history \in OwnHistories, BeginWithOwnHistory(r, thread, history)
      PROVE  HistoryInvariant'
  BY <1>3, BeginWithOwnHistoryKeeps
<1>4. ASSUME NEW r \in Runs, NEW asked \in BOOLEAN, NEW answered \in BOOLEAN,
             Succeed(r, asked, answered)
      PROVE  HistoryInvariant'
  BY <1>4, SucceedKeeps
<1>5. ASSUME NEW r \in Runs, Fail(r)
      PROVE  HistoryInvariant'
  BY <1>5, FailKeeps
<1>6. QED
  BY <1>1, <1>2, <1>3, <1>4, <1>5 DEF Next

\* The buffer holds the latest turns that count of what was said on its thread, and every
\* run the latest of what had been said on its own when it started (context.py:92-146).
THEOREM HistoryInvariantHolds == Spec => []HistoryInvariant
<1>1. QED
  BY InitHistory, NextHistory, PTL DEF Spec

LEMMA RecentTurnsIs ==
    ASSUME NEW thread, NEW n
    PROVE  RecentTurns(thread, n) = Latest(Cleaned(SubSeq(said[thread], 1, n)))
BY DEF RecentTurns, Latest, Kept

\* Truncating after every exchange forgets nothing that truncating the whole conversation
\* once would keep, whatever the length of the conversation, the bound, and the runs that
\* overlap on the thread (context.py:127-146, async_runtime.py:142-153).
THEOREM BufferIsRecent == Spec => []BufferIsRecentConversation
<1>1. HistoryInvariant => BufferIsRecentConversation
  <2> SUFFICES ASSUME HistoryInvariant, NEW thread \in Threads
               PROVE  turns[thread] = RecentTurns(thread, Len(said[thread]))
    BY DEF BufferIsRecentConversation
  <2>1. said[thread] \in Seq(AnyTurn)
    BY SaidIsAny DEF HistoryInvariant
  <2>2. SubSeq(said[thread], 1, Len(said[thread])) = said[thread]
    BY <2>1, WholeIs
  <2>3. QED
    BY <2>2, RecentTurnsIs DEF HistoryInvariant, BufferKeepsLatest
<1>2. QED
  BY <1>1, HistoryInvariantHolds, PTL

\* A run answers from its own thread as it was when the run started, however long it waits
\* and whatever other runs record meanwhile (async_runtime.py:193-201).
THEOREM ContextIsOwn == Spec => []ContextIsOwnThreadAtStart
<1>1. HistoryInvariant => ContextIsOwnThreadAtStart
  BY RecentTurnsIs
     DEF HistoryInvariant, RunKeepsContext, ContextOf, ContextIsOwnThreadAtStart
<1>2. QED
  BY <1>1, HistoryInvariantHolds, PTL

\* Whatever history a caller passes, what reaches the answer prompt is bounded, made of
\* user and assistant texts that are not blank, and numbered without a gap (context.py:92-103).
THEOREM PromptIsPresentable == Spec => []ContextIsPresentable
<1>1. HistoryInvariant => ContextIsPresentable
  <2> SUFFICES ASSUME HistoryInvariant, NEW r \in Runs
               PROVE  LET history == run[r].history
                      IN  /\ Len(history) <= IF MaxHistory <= 0 THEN 0 ELSE MaxHistory
                          /\ \A i \in 1..Len(history) :
                                /\ history[i].order = i - 1
                                /\ history[i].role \in Roles /\ ~history[i].blank
    BY DEF ContextIsPresentable
  <2> DEFINE history == run[r].history
  <2>1. history \in Seq(AnyTurn) /\ Presentable(history)
    BY DEF HistoryInvariant, Types, RunState, RunKeepsContext
  <2> HIDE DEF history
  <2>2. Len(history) \in Nat /\ Len(history) <= Kept(Len(history))
    BY <2>1 DEF Presentable
  <2>3. Len(history) <= IF MaxHistory <= 0 THEN 0 ELSE MaxHistory
    BY <2>2, HistoryAssumption DEF Kept
  <2>4. \A i \in 1..Len(history) :
           /\ history[i].order = i - 1
           /\ history[i].role \in Roles /\ ~history[i].blank
    BY <2>1 DEF Presentable, Counts
  <2>5. QED
    BY <2>3, <2>4 DEF history
<1>2. QED
  BY <1>1, HistoryInvariantHolds, PTL

\* The types the run checks hold for conversations of any length.
THEOREM TypeCorrect == Spec => []TypeOK
<1>1. HistoryInvariant => TypeOK
  <2> SUFFICES ASSUME HistoryInvariant PROVE TypeOK
    OBVIOUS
  <2>1. ASSUME NEW thread \in Threads
        PROVE  turns[thread] \in Seq(TurnType)
    <3> DEFINE c == Cleaned(said[thread])
               k == Kept(Len(c))
    <3>1. said[thread] \in Seq(TurnType) /\ turns[thread] = Latest(c)
      BY DEF HistoryInvariant, Types, BufferKeepsLatest
    <3>2. /\ c \in Seq(TurnType) /\ \A i \in 1..Len(c) : Counts(c[i])
      BY <3>1, TurnsAreAny, CleanedCounts
    <3>3. c \in Seq(AnyTurn) /\ AllCount(c)
      BY <3>2, TurnsAreAny DEF AllCount
    <3> HIDE DEF c
    <3>4. /\ Latest(c) \in Seq(AnyTurn) /\ Len(Latest(c)) = k
          /\ \A i \in 1..k : /\ Latest(c)[i].order = i - 1 /\ Counts(Latest(c)[i])
                             /\ Same(Latest(c)[i], c[Len(c) - k + i])
      BY <3>3, LatestIs
    <3>5. k \in Nat /\ k <= Len(c) /\ Len(c) \in Nat
      BY <3>3, KeptIs
    <3> HIDE DEF k
    <3>6. ASSUME NEW i \in 1..k
          PROVE  Latest(c)[i] \in TurnType
      <4> DEFINE y == Latest(c)[i]
                 x == c[Len(c) - k + i]
      <4>1. Len(c) - k + i \in 1..Len(c) /\ i - 1 \in Nat /\ i \in 1..Len(Latest(c))
        BY <3>4, <3>5
      <4>2. x \in TurnType /\ y \in AnyTurn
        BY <3>2, <3>4, <4>1
      <4>3. y.order = i - 1 /\ Counts(y) /\ Same(y, x)
        BY <3>4
      <4> HIDE DEF x, y
      <4>4. y \in TurnType
        BY <4>1, <4>2, <4>3 DEF TurnType, AnyTurn, Counts, Same
      <4>5. QED
        BY <4>4 DEF y
    <3>7. QED
      BY <3>1, <3>4, <3>5, <3>6
  <2>2. turns \in [Threads -> Seq(TurnType)]
    BY <2>1 DEF HistoryInvariant, Types
  <2>3. QED
    BY <2>2 DEF HistoryInvariant, Types, RunState, TypeOK
<1>2. QED
  BY <1>1, HistoryInvariantHolds, PTL
=============================================================================
