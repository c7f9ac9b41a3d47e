-------------------------- MODULE RecursionProofs --------------------------
(***************************************************************************)
(* Induction over a set of naturals, and functions that are defined by     *)
(* recursion on the naturals, as the loops of the model are: that there is *)
(* such a function, and that it keeps an invariant.                        *)
(***************************************************************************)
EXTENDS Naturals, WellFoundedInduction, TLAPS

\* A set of naturals with 0 and the successor of each of its members has them all.
LEMMA SetInduction ==
  ASSUME NEW P, 0 \in P, \A n \in Nat : n \in P => n + 1 \in P
  PROVE  \A n \in Nat : n \in P
<1> DEFINE R == {pair \in Nat \X Nat : pair[1] < pair[2]}
           T == Nat \ P
<1>1. IsWellFoundedOn(R, Nat)
  BY NatLessThanWellFounded DEF OpToRel
<1>2. SUFFICES ASSUME T # {} PROVE FALSE
  OBVIOUS
<1>3. PICK x \in T : \A y \in T : ~(<<y, x>> \in R)
  <2> HIDE DEF R
  <2> QED
    BY <1>1, <1>2, WFMin
<1>4. x \in Nat \ {0} /\ x - 1 \in Nat /\ (x - 1) + 1 = x
  OBVIOUS
<1>5. x - 1 \in P
  <2>1. <<x - 1, x>> \in Nat \X Nat /\ <<x - 1, x>>[1] = x - 1 /\ <<x - 1, x>>[2] = x
    BY <1>4
  <2>2. <<x - 1, x>> \in R
    BY <1>4, <2>1
  <2> QED
    BY <1>3, <1>4, <2>2
<1> QED
  BY <1>4, <1>5

\* The values up to n of a function that is defined by recursion.
UpTo(n, S, base, Step) ==
  {h \in [0..n -> S] : h[0] = base /\ \A m \in 1..n : h[m] = Step[<<m, h[m - 1]>>]}

\* g goes on from base by Step.
GoesBy(g, base, Step) == g[0] = base /\ \A n \in Nat : g[n + 1] = Step[<<n + 1, g[n]>>]

\* There is a function that starts from base and goes on by Step.
LEMMA Recursion ==
  ASSUME NEW S, NEW base \in S, NEW Step \in [Nat \X S -> S]
  PROVE  \E g \in [Nat -> S] : GoesBy(g, base, Step)
<1> DEFINE U(n) == UpTo(n, S, base, Step)
           P == {n \in Nat : U(n) # {}}
           Q == {n \in Nat : \A m \in Nat : m >= n => \A h \in U(n), k \in U(m) : h[n] = k[n]}
<1>1. 0 \in P
  <2>1. [m \in 0..0 |-> base] \in U(0)
    BY DEF UpTo
  <2> QED
    BY <2>1
<1>2. ASSUME NEW n \in Nat, n \in P PROVE n + 1 \in P
  <2>1. PICK h : h \in [0..n -> S] /\ h[0] = base /\ \A m \in 1..n : h[m] = Step[<<m, h[m - 1]>>]
    BY <1>2 DEF UpTo
  <2>2. <<n + 1, h[n]>> \in Nat \X S /\ Step[<<n + 1, h[n]>>] \in S
    BY <2>1
  <2>3. PICK k : k = [m \in 0..(n + 1) |-> IF m = n + 1 THEN Step[<<n + 1, h[n]>>] ELSE h[m]]
    OBVIOUS
  <2>4. k \in [0..(n + 1) -> S] /\ k[0] = base /\ k[n + 1] = Step[<<n + 1, k[n]>>]
    <3>1. \A m \in 0..(n + 1) : m # n + 1 => k[m] = h[m]
      BY <2>3
    <3>2. k[n + 1] = Step[<<n + 1, h[n]>>]
      BY <2>3
    <3>3. \A m \in 0..(n + 1) : k[m] \in S
      BY <2>1, <2>2, <3>1, <3>2
    <3>4. k \in [0..(n + 1) -> S]
      BY <2>3, <3>3
    <3>5. k[n] = h[n] /\ k[0] = h[0]
      BY <3>1
    <3> QED
      BY <2>1, <3>2, <3>4, <3>5
  <2>5. \A m \in 1..(n + 1) : k[m] = Step[<<m, k[m - 1]>>]
    <3>1. ASSUME NEW m \in 1..n PROVE k[m] = Step[<<m, k[m - 1]>>]
      <4>1. k[m] = h[m] /\ k[m - 1] = h[m - 1]
        BY <2>3
      <4> QED
        BY <2>1, <4>1
    <3>2. k[n + 1] = Step[<<n + 1, k[(n + 1) - 1]>>]
      BY <2>4
    <3>3. \A m \in 1..(n + 1) : m \in 1..n \/ m = n + 1
      OBVIOUS
    <3> QED
      BY <3>1, <3>2, <3>3
  <2>6. k \in U(n + 1)
    BY <2>4, <2>5 DEF UpTo
  <2> QED
    BY <2>6
<1>3. 0 \in Q
  BY DEF UpTo
<1>4. ASSUME NEW n \in Nat, n \in Q PROVE n + 1 \in Q
  <2>1. SUFFICES ASSUME NEW m \in Nat, m >= n + 1, NEW h \in U(n + 1), NEW k \in U(m)
                 PROVE  h[n + 1] = k[n + 1]
    OBVIOUS
  <2>2. h[n + 1] = Step[<<n + 1, h[n]>>] /\ k[n + 1] = Step[<<n + 1, k[n]>>]
    BY <2>1 DEF UpTo
  <2>3. PICK low : low = [i \in 0..n |-> h[i]]
    OBVIOUS
  <2>4. low \in U(n) /\ low[n] = h[n]
    BY <2>1, <2>3 DEF UpTo
  <2>5. low[n] = k[n]
    BY <1>4, <2>1, <2>4
  <2> QED
    BY <2>2, <2>4, <2>5
<1>5. \A n \in Nat : n \in P
  <2> HIDE DEF P
  <2> QED
    BY <1>1, <1>2, SetInduction
<1>6. \A n \in Nat : n \in Q
  <2> HIDE DEF Q
  <2> QED
    BY <1>3, <1>4, SetInduction
<1>7. PICK f : f = [n \in Nat |-> CHOOSE h : h \in U(n)]
  OBVIOUS
<1>8. \A n \in Nat : f[n] \in U(n)
  BY <1>5, <1>7
<1>9. PICK g : g = [n \in Nat |-> f[n][n]]
  OBVIOUS
<1>10. g \in [Nat -> S] /\ g[0] = base
  BY <1>8, <1>9 DEF UpTo
<1>11. ASSUME NEW n \in Nat PROVE g[n + 1] = Step[<<n + 1, g[n]>>]
  <2>1. f[n + 1][n + 1] = Step[<<n + 1, f[n + 1][n]>>]
    BY <1>8 DEF UpTo
  <2>2. f[n][n] = f[n + 1][n]
    BY <1>6, <1>8
  <2> QED
    BY <1>9, <2>1, <2>2
<1> QED
  BY <1>10, <1>11 DEF GoesBy

\* g: the states after the iterations of a loop whose invariant is In.
Loops(g, n, base, Step, In) ==
  /\ g = [k \in 0..n |-> IF k = 0 THEN base ELSE Step[<<k, g[k - 1]>>]]
  /\ \A k \in 0..n : g[k] \in In[k]

\* The states of a loop of n iterations make a function, and are in what each
\* iteration leads to.
LEMMA LoopIs ==
  ASSUME NEW n \in Nat, NEW S, NEW In \in [0..n -> SUBSET S], NEW base \in In[0],
         NEW Step \in [(1..n) \X S -> S],
         \A k \in 1..n : \A s \in In[k - 1] : Step[<<k, s>>] \in In[k]
  PROVE  \E g : Loops(g, n, base, Step, In)
<1>1. PICK More : More = [p \in Nat \X S |-> IF p[1] \in 1..n THEN Step[<<p[1], p[2]>>] ELSE p[2]]
  OBVIOUS
<1>2. ASSUME NEW k \in Nat, NEW s \in S
      PROVE  More[<<k, s>>] \in S /\ (k \in 1..n => More[<<k, s>>] = Step[<<k, s>>])
  <2>1. <<k, s>> \in Nat \X S /\ <<k, s>>[1] = k /\ <<k, s>>[2] = s
    OBVIOUS
  <2>2. More[<<k, s>>] = IF k \in 1..n THEN Step[<<k, s>>] ELSE s
    BY <1>1, <2>1
  <2> QED
    BY <2>2
<1>3. More \in [Nat \X S -> S]
  <2>1. \A p \in Nat \X S : p = <<p[1], p[2]>> /\ p[1] \in Nat /\ p[2] \in S
    OBVIOUS
  <2>2. \A p \in Nat \X S : More[p] \in S
    BY <1>2, <2>1
  <2> QED
    BY <1>1, <2>2
<1>4. base \in S
  BY 0 \in 0..n
<1>5. PICK h \in [Nat -> S] : GoesBy(h, base, More)
  BY <1>3, <1>4, Recursion
<1>6. h[0] = base /\ \A k \in Nat : h[k + 1] = More[<<k + 1, h[k]>>]
  BY <1>5 DEF GoesBy
<1>7. ASSUME NEW k \in 1..n PROVE h[k] = Step[<<k, h[k - 1]>>] /\ k - 1 \in 0..n
  <2>1. k - 1 \in Nat /\ (k - 1) + 1 = k /\ k \in Nat /\ k - 1 \in 0..n
    OBVIOUS
  <2>2. h[k] = More[<<k, h[k - 1]>>] /\ h[k - 1] \in S
    BY <1>6, <2>1
  <2> QED
    BY <1>2, <2>1, <2>2
<1> DEFINE P == {k \in Nat : k <= n => h[k] \in In[k]}
<1>8. 0 \in P
  BY <1>6
<1>9. ASSUME NEW k \in Nat, k \in P PROVE k + 1 \in P
  <2>1. SUFFICES ASSUME k + 1 <= n PROVE h[k + 1] \in In[k + 1]
    OBVIOUS
  <2>2. k + 1 \in 1..n /\ (k + 1) - 1 = k /\ k <= n
    BY <2>1
  <2>3. h[k] \in In[k] /\ h[k + 1] = Step[<<k + 1, h[k]>>]
    BY <1>7, <1>9, <2>2
  <2> QED
    BY <2>2, <2>3
<1>10. \A k \in Nat : k \in P
  <2> HIDE DEF P
  <2> QED
    BY <1>8, <1>9, SetInduction
<1>11. \A k \in 0..n : h[k] \in In[k]
  BY <1>10
<1>12. PICK g : g = [k \in 0..n |-> h[k]]
  OBVIOUS
<1>13. g = [k \in 0..n |-> IF k = 0 THEN base ELSE Step[<<k, g[k - 1]>>]]
  <2>1. ASSUME NEW k \in 0..n PROVE g[k] = IF k = 0 THEN base ELSE Step[<<k, g[k - 1]>>]
    <3>1. CASE k = 0
      BY <1>6, <1>12, <3>1
    <3>2. CASE k # 0
      <4>1. k \in 1..n
        BY <3>2
      <4> QED
        BY <1>7, <1>12, <3>2, <4>1
    <3> QED
      BY <3>1, <3>2
  <2> QED
    BY <1>12, <2>1
<1> QED
  BY <1>11, <1>12, <1>13 DEF Loops

\* A function of the states of a loop is in what each iteration keeps.
LEMMA LoopKeeps ==
  ASSUME NEW n \in Nat, NEW In, NEW f, f[0] \in In[0],
         \A k \in 1..n : f[k - 1] \in In[k - 1] => f[k] \in In[k]
  PROVE  \A k \in 0..n : f[k] \in In[k]
<1> DEFINE P == {k \in Nat : k <= n => f[k] \in In[k]}
<1>1. 0 \in P
  OBVIOUS
<1>2. ASSUME NEW k \in Nat, k \in P PROVE k + 1 \in P
  <2>1. SUFFICES ASSUME k + 1 <= n PROVE f[k + 1] \in In[k + 1]
    OBVIOUS
  <2>2. k + 1 \in 1..n /\ (k + 1) - 1 = k /\ k <= n
    BY <2>1
  <2> QED
    BY <1>2, <2>2
<1>3. \A k \in Nat : k \in P
  <2> HIDE DEF P
  <2> QED
    BY <1>1, <1>2, SetInduction
<1> QED
  BY <1>3
=============================================================================
