----------------------------- MODULE DiffProofs -----------------------------
(***************************************************************************)
(* Proofs about DiffUtils.                                                 *)
(*                                                                         *)
(*   DiffsAreSound  a diff makes the text it was computed for of the one   *)
(*                  it was computed from, and the deltas since then, each  *)
(*                  inverted, rebuild every earlier text                   *)
(*                                                                         *)
(* In the order of the code: the walk through the table ends with lines    *)
(* that both texts have, in order; the edit script ends at the ends of     *)
(* both; the hunks are the script cut where too much is unchanged; and a   *)
(* hunk applied where it starts moves from where the script is before it   *)
(* to where the script is after it. An inverted diff has the hunks of the  *)
(* script with old and new exchanged, so that the same argument holds.     *)
(***************************************************************************)
EXTENDS DiffUtils, RecursionProofs, SequenceTheorems

-----------------------------------------------------------------------------
(* The common lines.                                                       *)

\* l, from its k-th line on, is found in the text from its i-th line on.
Fits(l, k, text, i) ==
  \E e \in [k..Len(l) -> i..Len(text)] :
    /\ \A x \in k..Len(l) : text[e[x]] = l[x]
    /\ \A x, y \in k..Len(l) : x < y => e[x] < e[y]

\* No lines are found in any text.
LEMMA NoneFits ==
  ASSUME NEW l \in Seq(Line), NEW text \in Seq(Line), NEW k \in Nat, NEW i \in Nat, k > Len(l)
  PROVE  Fits(l, k, text, i)
<1>1. k..Len(l) = {}
  OBVIOUS
<1>2. [x \in k..Len(l) |-> x] \in [k..Len(l) -> i..Len(text)]
  BY <1>1
<1> QED
  BY <1>1, <1>2 DEF Fits

\* What is found from line j on is found from an earlier line on.
LEMMA FitsEarlier ==
  ASSUME NEW l \in Seq(Line), NEW text \in Seq(Line), NEW k \in Nat, NEW i \in Nat, NEW j \in Nat,
         i <= j, Fits(l, k, text, j)
  PROVE  Fits(l, k, text, i)
<1>1. PICK e \in [k..Len(l) -> j..Len(text)] :
        /\ \A x \in k..Len(l) : text[e[x]] = l[x]
        /\ \A x, y \in k..Len(l) : x < y => e[x] < e[y]
  BY DEF Fits
<1>2. \A z \in j..Len(text) : z \in i..Len(text)
  OBVIOUS
<1>3. e \in [k..Len(l) -> i..Len(text)]
  BY <1>2
<1> QED
  BY <1>1, <1>3 DEF Fits

\* A line that is not the next of l is not needed.
LEMMA FitsLater ==
  ASSUME NEW l \in Seq(Line), NEW text \in Seq(Line), NEW k \in Nat, NEW i \in Nat,
         Fits(l, k, text, i), k <= Len(l) /\ i <= Len(text) => text[i] # l[k]
  PROVE  Fits(l, k, text, i + 1)
<1>1. PICK e \in [k..Len(l) -> i..Len(text)] :
        /\ \A x \in k..Len(l) : text[e[x]] = l[x]
        /\ \A x, y \in k..Len(l) : x < y => e[x] < e[y]
  BY DEF Fits
<1>2. ASSUME NEW x \in k..Len(l) PROVE e[x] \in (i + 1)..Len(text)
  <2>1. k \in k..Len(l) /\ k <= Len(l) /\ (x = k \/ k < x)
    OBVIOUS
  <2>2. e[k] \in i..Len(text) /\ e[x] \in i..Len(text) /\ text[e[k]] = l[k]
    BY <1>1, <2>1
  <2>3. i <= Len(text) /\ e[k] # i
    BY <2>1, <2>2
  <2>4. x = k \/ e[k] < e[x]
    BY <1>1, <2>1
  <2>5. i \in Nat /\ Len(text) \in Nat
    OBVIOUS
  <2> QED
    BY ONLY <2>2, <2>3, <2>4, <2>5
<1>3. e \in [k..Len(l) -> (i + 1)..Len(text)]
  BY <1>2
<1> QED
  BY <1>1, <1>3 DEF Fits

\* The next line of l may be taken where it is met first.
LEMMA FitsOn ==
  ASSUME NEW l \in Seq(Line), NEW text \in Seq(Line), NEW k \in Nat, NEW i \in Nat,
         Fits(l, k, text, i), k <= Len(l)
  PROVE  i <= Len(text) /\ Fits(l, k + 1, text, i + 1)
<1>1. PICK e \in [k..Len(l) -> i..Len(text)] :
        /\ \A x \in k..Len(l) : text[e[x]] = l[x]
        /\ \A x, y \in k..Len(l) : x < y => e[x] < e[y]
  BY DEF Fits
<1>2. PICK f : f = [x \in (k + 1)..Len(l) |-> e[x]]
  OBVIOUS
<1>3. Len(l) \in Nat /\ Len(text) \in Nat /\ k \in k..Len(l)
  OBVIOUS
<1>4. ASSUME NEW x \in (k + 1)..Len(l) PROVE f[x] = e[x] /\ x \in k..Len(l) /\ f[x] \in (i + 1)..Len(text)
  <2>1. x \in k..Len(l) /\ k < x
    OBVIOUS
  <2>2. e[k] < e[x] /\ e[k] \in i..Len(text) /\ e[x] \in i..Len(text)
    BY <1>1, <1>3, <2>1
  <2>3. e[x] \in (i + 1)..Len(text)
    BY ONLY <1>3, <2>2, i \in Nat
  <2> QED
    BY <1>2, <2>1, <2>3
<1>5. f \in [(k + 1)..Len(l) -> (i + 1)..Len(text)]
  BY <1>2, <1>4
<1>6. e[k] \in i..Len(text)
  BY <1>3
<1>7. i <= Len(text)
  BY ONLY <1>3, <1>6, i \in Nat
<1>8. Fits(l, k + 1, text, i + 1)
  <2>1. \A x \in (k + 1)..Len(l) : text[f[x]] = l[x]
    BY <1>1, <1>4
  <2>2. \A x, y \in (k + 1)..Len(l) : x < y => f[x] < f[y]
    BY <1>1, <1>4
  <2> QED
    BY ONLY <1>5, <2>1, <2>2 DEF Fits
<1> QED
  BY <1>7, <1>8

\* The walk back takes a line of the text that is before those taken so far.
LEMMA FitsBefore ==
  ASSUME NEW l \in Seq(Line), NEW text \in Seq(Line), NEW i \in 1..Len(text), Fits(l, 1, text, i + 1),
         NEW more, more = <<text[i]>> \o l
  PROVE  more \in Seq(Line) /\ Fits(more, 1, text, i)
<1>1. PICK e \in [1..Len(l) -> (i + 1)..Len(text)] :
        /\ \A x \in 1..Len(l) : text[e[x]] = l[x]
        /\ \A x, y \in 1..Len(l) : x < y => e[x] < e[y]
  BY DEF Fits
<1>2. PICK len : len = Len(l)
  OBVIOUS
<1>3. /\ len \in Nat /\ more \in Seq(Line) /\ Len(more) = len + 1 /\ more[1] = text[i]
      /\ \A x \in 2..(len + 1) : more[x] = l[x - 1]
  <2>1. <<text[i]>> \in Seq(Line) /\ Len(<<text[i]>>) = 1 /\ <<text[i]>>[1] = text[i]
    OBVIOUS
  <2>2. len \in Nat /\ Len(more) = len + 1 /\ more \in Seq(Line)
    BY <1>2, <2>1
  <2>3. \A x \in 1..(1 + len) : more[x] = IF x <= 1 THEN <<text[i]>>[x] ELSE l[x - 1]
    BY <1>2, <2>1
  <2>4. \A x \in 2..(len + 1) : x \in 1..(1 + len) /\ ~(x <= 1)
    BY <2>2
  <2>5. 1 \in 1..(1 + len) /\ 1 <= 1
    BY <2>2
  <2> QED
    BY <2>1, <2>2, <2>3, <2>4, <2>5
<1>4. PICK f : f = [x \in 1..(len + 1) |-> IF x = 1 THEN i ELSE e[x - 1]]
  OBVIOUS
<1>5. i \in Nat /\ Len(text) \in Nat /\ i <= Len(text)
  OBVIOUS
<1>6. ASSUME NEW x \in 1..(len + 1)
      PROVE  /\ f[x] \in i..Len(text)
             /\ \/ x = 1 /\ f[x] = i
                \/ x \in 2..(len + 1) /\ x - 1 \in 1..Len(l) /\ f[x] = e[x - 1] /\ f[x] \in (i + 1)..Len(text)
  <2>1. CASE x = 1
    BY <1>4, <1>5, <2>1
  <2>2. CASE x # 1
    <3>1. x \in 2..(len + 1) /\ x - 1 \in 1..Len(l)
      BY <1>2, <1>3, <2>2
    <3>2. f[x] = e[x - 1] /\ f[x] \in (i + 1)..Len(text)
      BY <1>4, <2>2, <3>1
    <3>3. f[x] \in i..Len(text)
      BY ONLY <1>5, <3>2
    <3> QED
      BY <3>1, <3>2, <3>3
  <2> QED
    BY <2>1, <2>2
<1>7. f \in [1..Len(more) -> i..Len(text)]
  BY <1>3, <1>4, <1>6
<1>8. ASSUME NEW x \in 1..(len + 1) PROVE text[f[x]] = more[x]
  BY <1>1, <1>3, <1>6
<1>9. ASSUME NEW x \in 1..(len + 1), NEW y \in 1..(len + 1), x < y PROVE f[x] < f[y]
  <2>1. y \in 2..(len + 1) /\ y - 1 \in 1..Len(l) /\ f[y] = e[y - 1] /\ f[y] \in (i + 1)..Len(text)
    <3>1. y # 1
      BY <1>3, <1>9
    <3> QED
      BY <1>6, <3>1
  <2>2. CASE x = 1
    BY <1>5, <1>6, <2>1, <2>2
  <2>3. CASE x # 1
    <3>1. x - 1 \in 1..Len(l) /\ f[x] = e[x - 1]
      BY <1>6, <2>3
    <3>2. x - 1 < y - 1
      BY <1>3, <1>9
    <3> QED
      BY <1>1, <2>1, <3>1, <3>2
  <2> QED
    BY <2>2, <2>3
<1>10. Fits(more, 1, text, i)
  <2>1. 1..Len(more) = 1..(len + 1)
    BY <1>3
  <2>2. \A x, y \in 1..Len(more) : x < y => f[x] < f[y]
    BY <1>9, <2>1
  <2>3. \A x \in 1..Len(more) : text[f[x]] = more[x]
    BY <1>8, <2>1
  <2> QED
    BY ONLY <1>7, <2>2, <2>3 DEF Fits
<1> QED
  BY <1>3, <1>10

\* What the walk back has collected is common to what it has passed of both texts.
Walks(old, new) ==
  {at \in [i : 0..Len(old), j : 0..Len(new), lcs : Seq(Line)] :
     Fits(at.lcs, 1, old, at.i + 1) /\ Fits(at.lcs, 1, new, at.j + 1)}

\* One iteration of the walk back.
LEMMA WalkBackKeeps ==
  ASSUME NEW old \in Seq(Line), NEW new \in Seq(Line), NEW dp, NEW at \in Walks(old, new)
  PROVE  WalkBack(old, new, dp, at) \in Walks(old, new)
<1>1. PICK i \in 0..Len(old), j \in 0..Len(new), lcs \in Seq(Line) : at = [i |-> i, j |-> j, lcs |-> lcs]
  BY DEF Walks
<1>2. at.i = i /\ at.j = j /\ at.lcs = lcs
  BY <1>1
<1>3. Fits(lcs, 1, old, i + 1) /\ Fits(lcs, 1, new, j + 1)
  BY <1>2 DEF Walks
<1>4. CASE i = 0 \/ j = 0
  BY <1>2, <1>4 DEF WalkBack
<1>5. CASE i # 0 /\ j # 0
  <2>1. /\ i \in 1..Len(old) /\ i \in Nat /\ i - 1 \in 0..Len(old) /\ i - 1 \in Nat /\ (i - 1) + 1 = i
        /\ j \in 1..Len(new) /\ j \in Nat /\ j - 1 \in 0..Len(new) /\ j - 1 \in Nat /\ (j - 1) + 1 = j
        /\ i <= i + 1 /\ j <= j + 1 /\ i + 1 \in Nat /\ j + 1 \in Nat
    BY <1>5
  <2>2. Fits(lcs, 1, old, i) /\ Fits(lcs, 1, new, j)
    BY <1>3, <2>1, FitsEarlier
  <2>3. CASE old[i] = new[j]
    <3>1. PICK more : more = <<old[i]>> \o lcs
      OBVIOUS
    <3>2. more \in Seq(Line) /\ Fits(more, 1, old, i)
      BY <1>3, <2>1, <3>1, FitsBefore
    <3>3. Fits(more, 1, new, j)
      BY <1>3, <2>1, <2>3, <3>1, FitsBefore
    <3>4. PICK next : next = [i |-> i - 1, j |-> j - 1, lcs |-> more]
      OBVIOUS
    <3>5. WalkBack(old, new, dp, at) = next
      BY <1>2, <1>5, <2>3, <3>1, <3>4 DEF WalkBack
    <3>6. next \in Walks(old, new)
      BY <2>1, <3>2, <3>3, <3>4 DEF Walks
    <3> QED
      BY <3>5, <3>6
  <2>4. CASE old[i] # new[j]
    <3>1. PICK one, two : one = [i |-> i - 1, j |-> j, lcs |-> lcs] /\ two = [i |-> i, j |-> j - 1, lcs |-> lcs]
      OBVIOUS
    <3>2. WalkBack(old, new, dp, at) \in {one, two}
      BY <1>2, <1>5, <2>4, <3>1 DEF WalkBack
    <3>3. one \in Walks(old, new)
      BY <1>3, <2>1, <2>2, <3>1 DEF Walks
    <3>4. two \in Walks(old, new)
      BY <1>3, <2>1, <2>2, <3>1 DEF Walks
    <3> QED
      BY <3>2, <3>3, <3>4
  <2> QED
    BY <2>3, <2>4
<1> QED
  BY <1>4, <1>5

\* computeLCS gives lines that both texts have, in order.
LEMMA LCSIs ==
  ASSUME NEW old \in Seq(Line), NEW new \in Seq(Line)
  PROVE  LCS(old, new) \in Seq(Line) /\ Fits(LCS(old, new), 1, old, 1) /\ Fits(LCS(old, new), 1, new, 1)
<1>1. PICK n, S, dp, base :
        /\ n = Len(old) + Len(new) /\ S = Walks(old, new) /\ dp = Table(old, new)
        /\ base = [i |-> Len(old), j |-> Len(new), lcs |-> <<>>]
  OBVIOUS
<1>2. n \in Nat
  BY <1>1
<1>3. base \in S
  <2>1. Len(old) \in 0..Len(old) /\ Len(new) \in 0..Len(new) /\ Len(old) + 1 \in Nat /\ Len(new) + 1 \in Nat
    OBVIOUS
  <2>2. <<>> \in Seq(Line) /\ 1 > Len(<<>>)
    OBVIOUS
  <2>3. Fits(<<>>, 1, old, Len(old) + 1) /\ Fits(<<>>, 1, new, Len(new) + 1)
    BY <2>1, <2>2, NoneFits
  <2> QED
    BY <1>1, <2>1, <2>2, <2>3 DEF Walks
<1>4. PICK In, Step : In = [k \in 0..n |-> S] /\ Step = [p \in (1..n) \X S |-> WalkBack(old, new, dp, p[2])]
  OBVIOUS
<1>5. ASSUME NEW k \in 1..n, NEW s \in S
      PROVE  Step[<<k, s>>] = WalkBack(old, new, dp, s) /\ Step[<<k, s>>] \in S
  BY <1>1, <1>4, WalkBackKeeps
<1>6. Step \in [(1..n) \X S -> S]
  <2>1. \A p \in (1..n) \X S : p[2] \in S
    OBVIOUS
  <2> QED
    BY <1>1, <1>4, <2>1, WalkBackKeeps
<1>7. In \in [0..n -> SUBSET S] /\ base \in In[0] /\ \A k \in 1..n : \A s \in In[k - 1] : Step[<<k, s>>] \in In[k]
  <2>1. 0 \in 0..n /\ \A k \in 1..n : k \in 0..n /\ k - 1 \in 0..n
    BY <1>2
  <2> QED
    BY <1>3, <1>4, <1>5, <2>1
<1>8. \E g : Loops(g, n, base, Step, In)
  BY ONLY <1>2, <1>6, <1>7, LoopIs
<1>9. PICK g : /\ g = [k \in 0..n |-> IF k = 0 THEN base ELSE Step[<<k, g[k - 1]>>]]
               /\ \A k \in 0..n : g[k] \in S
  BY <1>4, <1>8 DEF Loops
<1>10. g = [k \in 0..n |-> IF k = 0 THEN base ELSE WalkBack(old, new, dp, g[k - 1])]
  <2>1. ASSUME NEW k \in 0..n PROVE g[k] = IF k = 0 THEN base ELSE WalkBack(old, new, dp, g[k - 1])
    <3>1. k # 0 => k \in 1..n /\ k - 1 \in 0..n
      BY <1>2
    <3> QED
      BY <1>5, <1>9, <3>1
  <2> QED
    BY <1>9, <2>1
<1> DEFINE walk[k \in 0..n] == IF k = 0 THEN base ELSE WalkBack(old, new, dp, walk[k - 1])
<1>11. walk = [k \in 0..n |-> IF k = 0 THEN base ELSE WalkBack(old, new, dp, walk[k - 1])]
  BY <1>10
<1>12. LCS(old, new) = walk[n].lcs
  BY <1>1 DEF LCS
<1>13. PICK h : /\ h = [k \in 0..n |-> IF k = 0 THEN base ELSE WalkBack(old, new, dp, h[k - 1])]
                /\ LCS(old, new) = h[n].lcs
  <2> HIDE DEF walk
  <2> QED
    BY <1>11, <1>12
<1> HIDE DEF walk
<1>14. h[0] = base /\ \A k \in 1..n : h[k] = WalkBack(old, new, dp, h[k - 1])
  <2>1. 0 \in 0..n /\ \A k \in 1..n : k \in 0..n /\ k # 0
    BY <1>2
  <2> QED
    BY <1>13, <2>1
<1>15. h[0] \in In[0] /\ \A k \in 1..n : h[k - 1] \in In[k - 1] => h[k] \in In[k]
  <2>1. 0 \in 0..n /\ \A k \in 1..n : k \in 0..n /\ k - 1 \in 0..n
    BY <1>2
  <2>2. \A k \in 0..n : In[k] = S
    BY <1>4
  <2> QED
    BY <1>1, <1>3, <1>14, <2>1, <2>2, WalkBackKeeps
<1>16. h[n] \in S
  <2>1. \A k \in 0..n : h[k] \in In[k]
    BY ONLY <1>2, <1>15, LoopKeeps
  <2>2. n \in 0..n
    BY <1>2
  <2> QED
    BY <1>4, <2>1, <2>2
<1>17. PICK i \in Nat, j \in Nat, lcs \in Seq(Line) :
         lcs = LCS(old, new) /\ Fits(lcs, 1, old, i + 1) /\ Fits(lcs, 1, new, j + 1)
  <2>1. PICK at \in Walks(old, new) : at = h[n]
    BY <1>1, <1>16
  <2>2. at.i \in Nat /\ at.j \in Nat /\ at.lcs \in Seq(Line)
        /\ Fits(at.lcs, 1, old, at.i + 1) /\ Fits(at.lcs, 1, new, at.j + 1)
    BY DEF Walks
  <2>3. at.lcs = LCS(old, new)
    BY <1>13, <2>1
  <2> QED
    BY <2>2, <2>3
<1>18. i + 1 \in Nat /\ j + 1 \in Nat /\ 1 <= i + 1 /\ 1 <= j + 1
  OBVIOUS
<1>19. Fits(lcs, 1, old, 1)
  BY <1>17, <1>18, FitsEarlier
<1>20. Fits(lcs, 1, new, 1)
  BY <1>17, <1>18, FitsEarlier
<1> QED
  BY <1>17, <1>19, <1>20

-----------------------------------------------------------------------------
(* The edit script.                                                        *)

Ops == [sign : {" ", "-", "+"}, o : Nat, n : Nat, line : Line]

\* How many lines of either text the first q operations deal with.
OldDone(ops, q) == IF q = 0 THEN 0 ELSE IF ops[q].sign = "+" THEN ops[q].o - 1 ELSE ops[q].o
NewDone(ops, q) == IF q = 0 THEN 0 ELSE IF ops[q].sign = "-" THEN ops[q].n - 1 ELSE ops[q].n

\* Operation q is one that makes new of old.
OpIs(ops, q, old, new) ==
  /\ ops[q].o = OldDone(ops, q - 1) + 1 /\ ops[q].n = NewDone(ops, q - 1) + 1
  /\ ops[q].sign # "+" => ops[q].o <= Len(old) /\ ops[q].line = old[ops[q].o]
  /\ ops[q].sign # "-" => ops[q].n <= Len(new) /\ ops[q].line = new[ops[q].n]

\* The operations make the beginning of new of that of old; or all of new of all of old.
Script(ops, old, new) == ops \in Seq(Ops) /\ \A q \in 1..Len(ops) : OpIs(ops, q, old, new)
WholeScript(ops, old, new) ==
  Script(ops, old, new) /\ OldDone(ops, Len(ops)) = Len(old) /\ NewDone(ops, Len(ops)) = Len(new)

\* The script ends with an operation op.
EndsWith(ops, op, old, new) ==
  /\ Script(ops, old, new)
  /\ OldDone(ops, Len(ops)) = IF op.sign = "+" THEN op.o - 1 ELSE op.o
  /\ NewDone(ops, Len(ops)) = IF op.sign = "-" THEN op.n - 1 ELSE op.n

\* The operation at the ends of what a script has done so far extends it.
LEMMA ScriptGoesOn ==
  ASSUME NEW old, NEW new, NEW ops, Script(ops, old, new), NEW len, len = Len(ops),
         NEW op \in Ops, op.o = OldDone(ops, len) + 1, op.n = NewDone(ops, len) + 1,
         op.sign # "+" => op.o <= Len(old) /\ op.line = old[op.o],
         op.sign # "-" => op.n <= Len(new) /\ op.line = new[op.n],
         NEW more, more = Append(ops, op)
  PROVE  EndsWith(more, op, old, new)
<1>1. ops \in Seq(Ops) /\ len \in Nat
  BY DEF Script
<1>2. more \in Seq(Ops) /\ Len(more) = len + 1 /\ more[len + 1] = op /\ \A q \in 1..len : more[q] = ops[q]
  BY <1>1
<1>3. \A q \in 0..len : OldDone(more, q) = OldDone(ops, q) /\ NewDone(more, q) = NewDone(ops, q)
  <2>1. \A q \in 0..len : q = 0 \/ q \in 1..len
    BY <1>1
  <2> QED
    BY <1>2, <2>1 DEF OldDone, NewDone
<1>4. ASSUME NEW q \in 1..len PROVE OpIs(more, q, old, new)
  <2>1. q - 1 \in 0..len
    BY <1>1
  <2>2. OpIs(ops, q, old, new)
    BY DEF Script
  <2> QED
    BY <1>2, <1>3, <2>1, <2>2 DEF OpIs
<1>5. OpIs(more, len + 1, old, new)
  <2>1. (len + 1) - 1 = len /\ len \in 0..len
    BY <1>1
  <2> QED
    BY <1>2, <1>3, <2>1 DEF OpIs
<1>6. Script(more, old, new)
  <2>1. \A q \in 1..(len + 1) : q \in 1..len \/ q = len + 1
    BY <1>1
  <2> QED
    BY <1>2, <1>4, <1>5, <2>1 DEF Script
<1>7. len + 1 # 0
  BY <1>1
<1> QED
  BY <1>2, <1>6, <1>7 DEF OldDone, NewDone, EndsWith

\* Where a script of old and new is: the lines of lcs that are not dealt with are in
\* what is left of both, and in k iterations k lines are done, or all are.
EditAt(old, new, lcs, k, at) ==
  /\ Fits(lcs, at.k, old, at.o) /\ Fits(lcs, at.k, new, at.n)
  /\ Script(at.ops, old, new)
  /\ OldDone(at.ops, Len(at.ops)) + 1 = at.o /\ NewDone(at.ops, Len(at.ops)) + 1 = at.n
  /\ k + 2 <= at.o + at.n \/ (at.o = Len(old) + 1 /\ at.n = Len(new) + 1)
\* The states of computeEditScript, and those it may be in after k iterations.
EditStates(old, new, lcs) ==
  [o : 1..(Len(old) + 1), n : 1..(Len(new) + 1), k : 1..(Len(lcs) + 1), ops : Seq(Ops)]
Edits(old, new, lcs, k) == {at \in EditStates(old, new, lcs) : EditAt(old, new, lcs, k, at)}

\* One iteration of computeEditScript deals with one more line, while there is one.
LEMMA EditKeeps ==
  ASSUME NEW old \in Seq(Line), NEW new \in Seq(Line), NEW lcs \in Seq(Line), NEW i \in Nat,
         NEW at \in Edits(old, new, lcs, i)
  PROVE  Edit(old, new, lcs, at) \in Edits(old, new, lcs, i + 1)
<1>1. PICK o \in 1..(Len(old) + 1), n \in 1..(Len(new) + 1), k \in 1..(Len(lcs) + 1), ops \in Seq(Ops) :
        at = [o |-> o, n |-> n, k |-> k, ops |-> ops]
  BY DEF Edits, EditStates
<1>2. at.o = o /\ at.n = n /\ at.k = k /\ at.ops = ops
  BY <1>1
<1>3. /\ Fits(lcs, k, old, o) /\ Fits(lcs, k, new, n) /\ Script(ops, old, new)
      /\ OldDone(ops, Len(ops)) + 1 = o /\ NewDone(ops, Len(ops)) + 1 = n
      /\ i + 2 <= o + n \/ (o = Len(old) + 1 /\ n = Len(new) + 1)
  <2>1. EditAt(old, new, lcs, i, at)
    BY DEF Edits
  <2> QED
    BY <1>2, <2>1 DEF EditAt
<1>4. /\ o \in Nat /\ n \in Nat /\ k \in Nat /\ Len(old) \in Nat /\ Len(new) \in Nat /\ Len(lcs) \in Nat
      /\ o <= Len(old) => old[o] \in Line
      /\ n <= Len(new) => new[n] \in Line
  OBVIOUS
<1>9. i + 2 <= o + n \/ (o = Len(old) + 1 /\ n = Len(new) + 1)
  BY <1>3
<1>10. i \in Nat /\ o \in Nat /\ n \in Nat /\ Len(old) \in Nat /\ Len(new) \in Nat
  OBVIOUS
<1>11. (o - 1) + 1 = o /\ (n - 1) + 1 = n
  OBVIOUS
<1> DEFINE matched == k <= Len(lcs) /\ o <= Len(old) /\ n <= Len(new) /\ old[o] = lcs[k] /\ new[n] = lcs[k]
           removed == o <= Len(old) /\ (k > Len(lcs) \/ old[o] # lcs[k])
           added == n <= Len(new) /\ (k > Len(lcs) \/ new[n] # lcs[k])
<1>5. CASE matched
  <2>1. PICK op, more : op = [sign |-> " ", o |-> o, n |-> n, line |-> old[o]] /\ more = Append(ops, op)
    OBVIOUS
  <2>2. op \in Ops /\ op.sign = " " /\ op.o = o /\ op.n = n /\ op.line = old[o] /\ op.line = new[n]
    BY <1>4, <1>5, <2>1 DEF Ops
  <2>3. Script(more, old, new) /\ OldDone(more, Len(more)) = o /\ NewDone(more, Len(more)) = n
    <3>1. op.o = OldDone(ops, Len(ops)) + 1 /\ op.n = NewDone(ops, Len(ops)) + 1
      BY <1>3, <2>2
    <3>2. /\ op.sign # "+" => op.o <= Len(old) /\ op.line = old[op.o]
          /\ op.sign # "-" => op.n <= Len(new) /\ op.line = new[op.n]
      BY <1>5, <2>2
    <3>3. Script(ops, old, new) /\ op \in Ops /\ more = Append(ops, op)
      BY <1>3, <2>1, <2>2
    <3>4. EndsWith(more, op, old, new)
      BY ONLY <3>1, <3>2, <3>3, ScriptGoesOn
    <3> QED
      BY <2>2, <3>4 DEF EndsWith
  <2>4. Fits(lcs, k + 1, old, o + 1) /\ Fits(lcs, k + 1, new, n + 1)
    BY <1>3, <1>4, <1>5, FitsOn
  <2>5. PICK next : next = [o |-> o + 1, n |-> n + 1, k |-> k + 1, ops |-> more]
    OBVIOUS
  <2>6. Edit(old, new, lcs, at) = next
    BY <1>2, <1>5, <2>1, <2>5 DEF Edit
  <2>7. o + 1 \in 1..(Len(old) + 1) /\ n + 1 \in 1..(Len(new) + 1) /\ k + 1 \in 1..(Len(lcs) + 1)
    <3>1. o <= Len(old) /\ n <= Len(new) /\ k <= Len(lcs)
      BY <1>5
    <3>2. k \in Nat /\ Len(lcs) \in Nat
      BY <1>4
    <3> QED
      BY ONLY <1>10, <3>1, <3>2
  <2>8. (i + 1) + 2 <= (o + 1) + (n + 1)
    <3>1. o <= Len(old)
      BY <1>5
    <3> QED
      BY ONLY <1>9, <1>10, <3>1
  <2>9. EditAt(old, new, lcs, i + 1, next)
    BY <2>3, <2>4, <2>5, <2>8 DEF EditAt
  <2>10. next \in EditStates(old, new, lcs)
    BY <2>3, <2>5, <2>7 DEF EditStates, Script
  <2> QED
    BY <2>6, <2>9, <2>10 DEF Edits
<1>6. CASE ~matched /\ removed
  <2>1. PICK op, more : op = [sign |-> "-", o |-> o, n |-> n, line |-> old[o]] /\ more = Append(ops, op)
    OBVIOUS
  <2>2. op \in Ops /\ op.sign = "-" /\ op.o = o /\ op.n = n /\ op.line = old[o]
    BY <1>4, <1>6, <2>1 DEF Ops
  <2>3. Script(more, old, new) /\ OldDone(more, Len(more)) = o /\ NewDone(more, Len(more)) = n - 1
    <3>1. op.o = OldDone(ops, Len(ops)) + 1 /\ op.n = NewDone(ops, Len(ops)) + 1
      BY <1>3, <2>2
    <3>2. /\ op.sign # "+" => op.o <= Len(old) /\ op.line = old[op.o]
          /\ op.sign # "-" => op.n <= Len(new) /\ op.line = new[op.n]
      BY <1>6, <2>2
    <3>3. Script(ops, old, new) /\ op \in Ops /\ more = Append(ops, op)
      BY <1>3, <2>1, <2>2
    <3>4. EndsWith(more, op, old, new)
      BY ONLY <3>1, <3>2, <3>3, ScriptGoesOn
    <3> QED
      BY <2>2, <3>4 DEF EndsWith
  <2>4. Fits(lcs, k, old, o + 1)
    BY <1>3, <1>4, <1>6, FitsLater
  <2>5. PICK next : next = [o |-> o + 1, n |-> n, k |-> k, ops |-> more]
    OBVIOUS
  <2>6. Edit(old, new, lcs, at) = next
    BY <1>2, <1>4, <1>6, <2>1, <2>5 DEF Edit
  <2>7. o + 1 \in 1..(Len(old) + 1)
    BY <1>4, <1>6
  <2>8. (i + 1) + 2 <= (o + 1) + n /\ (n - 1) + 1 = n
    <3>1. o <= Len(old)
      BY <1>6
    <3> QED
      BY ONLY <1>9, <1>10, <1>11, <3>1
  <2>9. EditAt(old, new, lcs, i + 1, next)
    BY <1>3, <2>3, <2>4, <2>5, <2>8 DEF EditAt
  <2>10. next \in EditStates(old, new, lcs)
    BY <2>3, <2>5, <2>7 DEF EditStates, Script
  <2> QED
    BY <2>6, <2>9, <2>10 DEF Edits
<1>7. CASE ~matched /\ ~removed /\ added
  <2>1. PICK op, more : op = [sign |-> "+", o |-> o, n |-> n, line |-> new[n]] /\ more = Append(ops, op)
    OBVIOUS
  <2>2. op \in Ops /\ op.sign = "+" /\ op.o = o /\ op.n = n /\ op.line = new[n]
    BY <1>4, <1>7, <2>1 DEF Ops
  <2>3. Script(more, old, new) /\ OldDone(more, Len(more)) = o - 1 /\ NewDone(more, Len(more)) = n
    <3>1. op.o = OldDone(ops, Len(ops)) + 1 /\ op.n = NewDone(ops, Len(ops)) + 1
      BY <1>3, <2>2
    <3>2. /\ op.sign # "+" => op.o <= Len(old) /\ op.line = old[op.o]
          /\ op.sign # "-" => op.n <= Len(new) /\ op.line = new[op.n]
      BY <1>7, <2>2
    <3>3. Script(ops, old, new) /\ op \in Ops /\ more = Append(ops, op)
      BY <1>3, <2>1, <2>2
    <3>4. EndsWith(more, op, old, new)
      BY ONLY <3>1, <3>2, <3>3, ScriptGoesOn
    <3> QED
      BY <2>2, <3>4 DEF EndsWith
  <2>4. Fits(lcs, k, new, n + 1)
    BY <1>3, <1>4, <1>7, FitsLater
  <2>5. PICK next : next = [o |-> o, n |-> n + 1, k |-> k, ops |-> more]
    OBVIOUS
  <2>6. Edit(old, new, lcs, at) = next
    BY <1>2, <1>4, <1>7, <2>1, <2>5 DEF Edit
  <2>7. n + 1 \in 1..(Len(new) + 1)
    <3>1. n <= Len(new)
      BY <1>7
    <3> QED
      BY ONLY <1>10, <3>1
  <2>8. (i + 1) + 2 <= o + (n + 1) /\ (o - 1) + 1 = o
    <3>1. n <= Len(new)
      BY <1>7
    <3> QED
      BY ONLY <1>9, <1>10, <1>11, <3>1
  <2>9. EditAt(old, new, lcs, i + 1, next)
    BY <1>3, <2>3, <2>4, <2>5, <2>8 DEF EditAt
  <2>10. next \in EditStates(old, new, lcs)
    BY <2>3, <2>5, <2>7 DEF EditStates, Script
  <2> QED
    BY <2>6, <2>9, <2>10 DEF Edits
<1>8. CASE ~matched /\ ~removed /\ ~added
  <2>1. o = Len(old) + 1
    <3>1. ASSUME o <= Len(old) PROVE FALSE
      <4>1. k <= Len(lcs) /\ old[o] = lcs[k]
        BY <1>4, <1>8, <3>1
      <4>2. n <= Len(new)
        BY <1>3, <1>4, <4>1, FitsOn
      <4>3. new[n] = lcs[k]
        BY <1>4, <1>8, <4>1, <4>2
      <4> QED
        BY <1>8, <3>1, <4>1, <4>2, <4>3
    <3>2. o \in 1..(Len(old) + 1) /\ Len(old) \in Nat
      BY <1>4
    <3> QED
      BY ONLY <3>1, <3>2
  <2>2. n = Len(new) + 1
    <3>1. ASSUME n <= Len(new) PROVE FALSE
      <4>1. k <= Len(lcs)
        BY <1>4, <1>8, <3>1
      <4>2. o <= Len(old)
        <5>1. Fits(lcs, k, old, o) /\ k \in Nat /\ o \in Nat
          BY <1>3, <1>4
        <5> QED
          BY <4>1, <5>1, FitsOn, Zenon
      <4>3. o \in Nat /\ Len(old) \in Nat
        BY <1>4
      <4> QED
        BY ONLY <2>1, <4>2, <4>3
    <3>2. n \in 1..(Len(new) + 1) /\ Len(new) \in Nat
      BY <1>4
    <3> QED
      BY ONLY <3>1, <3>2
  <2>3. Edit(old, new, lcs, at) = at
    BY <1>2, <1>8 DEF Edit
  <2>4. EditAt(old, new, lcs, i + 1, at)
    BY <1>2, <1>3, <2>1, <2>2 DEF EditAt
  <2> QED
    BY <2>3, <2>4 DEF Edits
<1> QED
  BY <1>5, <1>6, <1>7, <1>8

\* The edit script makes the new text of the old one.
LEMMA EditScriptIs ==
  ASSUME NEW old \in Seq(Line), NEW new \in Seq(Line)
  PROVE  WholeScript(EditScript(old, new), old, new)
<1>1. PICK n, lcs, base, S :
        /\ n = Len(old) + Len(new) /\ lcs = LCS(old, new)
        /\ base = [o |-> 1, n |-> 1, k |-> 1, ops |-> <<>>] /\ S = EditStates(old, new, lcs)
  OBVIOUS
<1>2. n \in Nat /\ lcs \in Seq(Line) /\ Fits(lcs, 1, old, 1) /\ Fits(lcs, 1, new, 1)
  BY <1>1, LCSIs
<1>3. PICK In : In = [k \in 0..n |-> Edits(old, new, lcs, k)]
  OBVIOUS
<1>4. base \in In[0]
  <2>1. Script(<<>>, old, new) /\ OldDone(<<>>, Len(<<>>)) = 0 /\ NewDone(<<>>, Len(<<>>)) = 0
    BY DEF Script, OldDone, NewDone
  <2>2. base \in S
    BY <1>1, <1>2, <2>1 DEF EditStates, Script
  <2>3. EditAt(old, new, lcs, 0, base)
    BY <1>1, <1>2, <2>1 DEF EditAt
  <2>4. 0 \in 0..n
    BY <1>2
  <2> QED
    BY <1>1, <1>3, <2>2, <2>3, <2>4 DEF Edits
<1>5. ASSUME NEW k \in 1..n
      PROVE  /\ k \in 0..n /\ k - 1 \in 0..n /\ In[k - 1] \in SUBSET S
             /\ \A s \in In[k - 1] : Edit(old, new, lcs, s) \in In[k]
  <2>1. k \in 0..n /\ k - 1 \in 0..n /\ k - 1 \in Nat /\ (k - 1) + 1 = k
    BY <1>2
  <2>2. In[k - 1] = Edits(old, new, lcs, k - 1) /\ In[k] = Edits(old, new, lcs, k)
    BY <1>3, <2>1
  <2>3. \A s \in In[k - 1] : Edit(old, new, lcs, s) \in Edits(old, new, lcs, (k - 1) + 1)
    BY <1>2, <2>1, <2>2, EditKeeps
  <2> QED
    BY <1>1, <2>1, <2>2, <2>3 DEF Edits
<1>6. \A k \in 0..n : In[k] \in SUBSET S
  BY <1>1, <1>3 DEF Edits
<1>7. PICK Step : Step = [p \in (1..n) \X S |-> IF p[2] \in In[p[1] - 1] THEN Edit(old, new, lcs, p[2]) ELSE p[2]]
  OBVIOUS
<1>8. ASSUME NEW k \in 1..n, NEW s \in S
      PROVE  /\ Step[<<k, s>>] \in S
             /\ s \in In[k - 1] => Step[<<k, s>>] = Edit(old, new, lcs, s) /\ Step[<<k, s>>] \in In[k]
  <2>1. Step[<<k, s>>] = IF s \in In[k - 1] THEN Edit(old, new, lcs, s) ELSE s
    BY <1>7
  <2> QED
    BY <1>5, <1>6, <2>1
<1>9. Step \in [(1..n) \X S -> S]
  <2>1. \A p \in (1..n) \X S : p = <<p[1], p[2]>> /\ p[1] \in 1..n /\ p[2] \in S
    OBVIOUS
  <2>2. \A p \in (1..n) \X S : Step[p] \in S
    BY <1>8, <2>1
  <2> QED
    BY <1>7, <2>2
<1>10. In \in [0..n -> SUBSET S] /\ \A k \in 1..n : \A s \in In[k - 1] : Step[<<k, s>>] \in In[k]
  BY <1>3, <1>5, <1>6, <1>8
<1>11. \E g : Loops(g, n, base, Step, In)
  BY ONLY <1>2, <1>4, <1>9, <1>10, LoopIs
<1>12. PICK g : /\ g = [k \in 0..n |-> IF k = 0 THEN base ELSE Step[<<k, g[k - 1]>>]]
                /\ \A k \in 0..n : g[k] \in In[k]
  BY <1>11 DEF Loops
<1>13. g = [k \in 0..n |-> IF k = 0 THEN base ELSE Edit(old, new, lcs, g[k - 1])]
  <2>1. ASSUME NEW k \in 0..n PROVE g[k] = IF k = 0 THEN base ELSE Edit(old, new, lcs, g[k - 1])
    <3>1. k # 0 => k \in 1..n /\ k - 1 \in 0..n
      BY <1>2
    <3>2. k # 0 => g[k - 1] \in In[k - 1] /\ g[k - 1] \in S
      BY <1>5, <1>12, <3>1
    <3>3. k # 0 => Step[<<k, g[k - 1]>>] = Edit(old, new, lcs, g[k - 1])
      BY <1>8, <3>1, <3>2
    <3> QED
      BY <1>12, <3>3
  <2> QED
    BY <1>12, <2>1
<1> DEFINE after[k \in 0..n] == IF k = 0 THEN base ELSE Edit(old, new, lcs, after[k - 1])
<1>14. after = [k \in 0..n |-> IF k = 0 THEN base ELSE Edit(old, new, lcs, after[k - 1])]
  BY <1>13
<1>15. EditScript(old, new) = after[n].ops
  BY <1>1 DEF EditScript
<1>16. PICK h : /\ h = [k \in 0..n |-> IF k = 0 THEN base ELSE Edit(old, new, lcs, h[k - 1])]
                /\ EditScript(old, new) = h[n].ops
  <2> HIDE DEF after
  <2> QED
    BY <1>14, <1>15
<1> HIDE DEF after
<1>17. h[0] \in In[0] /\ \A k \in 1..n : h[k - 1] \in In[k - 1] => h[k] \in In[k]
  <2>1. 0 \in 0..n /\ \A k \in 1..n : k \in 0..n /\ k # 0
    BY <1>2
  <2>2. h[0] = base /\ \A k \in 1..n : h[k] = Edit(old, new, lcs, h[k - 1])
    BY <1>16, <2>1
  <2> QED
    BY <1>4, <1>5, <2>2
<1>18. h[n] \in Edits(old, new, lcs, n)
  <2>1. \A k \in 0..n : h[k] \in In[k]
    BY ONLY <1>2, <1>17, LoopKeeps
  <2>2. n \in 0..n
    BY <1>2
  <2> QED
    BY <1>3, <2>1, <2>2
<1>19. PICK at \in Edits(old, new, lcs, n) : at.ops = EditScript(old, new)
  BY <1>16, <1>18
<1>20. /\ at.o \in 1..(Len(old) + 1) /\ at.n \in 1..(Len(new) + 1)
       /\ EditAt(old, new, lcs, n, at)
  BY DEF Edits, EditStates
<1>21. at.o = Len(old) + 1 /\ at.n = Len(new) + 1
  <2>1. n + 2 <= at.o + at.n \/ (at.o = Len(old) + 1 /\ at.n = Len(new) + 1)
    BY <1>20 DEF EditAt
  <2>2. Len(old) \in Nat /\ Len(new) \in Nat
    OBVIOUS
  <2> QED
    BY ONLY <1>1, <1>20, <2>1, <2>2
<1>22. Script(at.ops, old, new) /\ OldDone(at.ops, Len(at.ops)) = Len(old) /\ NewDone(at.ops, Len(at.ops)) = Len(new)
  <2>1. /\ Script(at.ops, old, new)
        /\ OldDone(at.ops, Len(at.ops)) + 1 = Len(old) + 1 /\ NewDone(at.ops, Len(at.ops)) + 1 = Len(new) + 1
    BY <1>20, <1>21 DEF EditAt
  <2>2. OldDone(at.ops, Len(at.ops)) \in Int /\ NewDone(at.ops, Len(at.ops)) \in Int
    <3>1. at.ops \in Seq(Ops)
      BY <2>1 DEF Script
    <3>2. \A q \in 1..Len(at.ops) : at.ops[q].o \in Nat /\ at.ops[q].n \in Nat
      <4>1. PICK ops : ops = at.ops
        OBVIOUS
      <4>2. ops \in Seq(Ops)
        BY <3>1, <4>1
      <4>3. \A q \in 1..Len(ops) : ops[q] \in Ops
        BY <4>2
      <4> QED
        BY <4>1, <4>3 DEF Ops
    <3>3. Len(at.ops) = 0 \/ Len(at.ops) \in 1..Len(at.ops)
      BY <3>1
    <3> QED
      BY <3>2, <3>3 DEF OldDone, NewDone
  <2>3. Len(old) \in Nat /\ Len(new) \in Nat
    OBVIOUS
  <2> QED
    BY <2>1, <2>2, <2>3
<1> QED
  BY <1>19, <1>22 DEF WholeScript

-----------------------------------------------------------------------------
(* The hunks.                                                              *)

\* Types, and the hunk of the operations from a to b; n of them.
DiffLines == [sign : {" ", "-", "+"}, line : Line]
HunkSet == [oldStart : Nat, newStart : Nat, lines : Seq(DiffLines)]
Hunk(ops, a, b) == [oldStart |-> ops[a].o, newStart |-> ops[a].n, lines |-> Between(ops, a, b)]
Hunks(ops, n, from, to) == [x \in 1..n |-> Hunk(ops, from[x], to[x])]

\* n stretches of the first i operations, one after another, that have every change.
Spans(ops, i, n, from, to) ==
  /\ n \in Nat /\ from \in [1..n -> 1..i] /\ to \in [1..n -> 1..i]
  /\ \A x \in 1..n : from[x] <= to[x]
  /\ \A x, y \in 1..n : x < y => to[x] < from[y]
  /\ \A q \in 1..i : ops[q].sign # " " => \E x \in 1..n : from[x] <= q /\ q <= to[x]

\* l: the lines of the operations from the a-th on, len of them.
LinesFrom(ops, a, len, l) ==
  /\ len \in Nat /\ l \in Seq(DiffLines) /\ Len(l) = len
  /\ \A j \in 1..len : l[j] = DiffLine(ops[a + j - 1])

\* The lines of a stretch of the script are determined.
LEMMA LinesFromSame ==
  ASSUME NEW ops, NEW a, NEW len, NEW k, NEW l, LinesFrom(ops, a, len, k), LinesFrom(ops, a, len, l)
  PROVE  k = l
<1> QED
  BY DEF LinesFrom

\* Between gives the lines of the stretch from a to b.
LEMMA BetweenIs ==
  ASSUME NEW ops \in Seq(Ops), NEW a \in Nat, NEW b \in Nat, 1 <= a, a <= b + 1, b <= Len(ops)
  PROVE  LinesFrom(ops, a, b + 1 - a, Between(ops, a, b))
<1>0. PICK l : l = Between(ops, a, b)
  OBVIOUS
<1>1. b + 1 - a \in Nat /\ Larger(0, b + 1 - a) = b + 1 - a
  BY DEF Larger
<1>2. PICK m \in Nat : m = b + 1 - a
  BY <1>1
<1>3. l = [j \in 1..m |-> DiffLine(ops[a + j - 1])]
  BY <1>0, <1>1, <1>2 DEF Between
<1>4. ASSUME NEW j \in 1..m PROVE DiffLine(ops[a + j - 1]) \in DiffLines
  <2>1. a + j - 1 \in 1..Len(ops)
    BY <1>2
  <2>2. ops[a + j - 1] \in Ops
    BY <2>1
  <2> QED
    BY <2>2 DEF Ops, DiffLines, DiffLine
<1>5. l \in [1..m -> DiffLines]
  BY <1>3, <1>4
<1>6. l \in Seq(DiffLines) /\ Len(l) = m
  BY ONLY <1>5, m \in Nat
<1>7. \A j \in 1..m : l[j] = DiffLine(ops[a + j - 1])
  BY <1>3
<1> QED
  BY <1>0, <1>2, <1>6, <1>7 DEF LinesFrom

\* Two stretches that meet are one.
LEMMA LinesFromJoin ==
  ASSUME NEW ops, NEW a \in Nat, NEW p \in Nat, NEW q \in Nat, NEW k, NEW l,
         LinesFrom(ops, a, p, k), LinesFrom(ops, a + p, q, l)
  PROVE  LinesFrom(ops, a, p + q, k \o l)
<1>1. k \in Seq(DiffLines) /\ Len(k) = p /\ l \in Seq(DiffLines) /\ Len(l) = q
  BY DEF LinesFrom
<1>2. PICK both : both = k \o l
  OBVIOUS
<1>3. both \in Seq(DiffLines) /\ Len(both) = p + q
  <2>1. both \in Seq(DiffLines) /\ Len(both) = Len(k) + Len(l)
    BY ONLY <1>1, <1>2
  <2> QED
    BY <1>1, <2>1
<1>4. \A j \in 1..(p + q) : both[j] = IF j <= p THEN k[j] ELSE l[j - p]
  <2>1. \A j \in 1..(Len(k) + Len(l)) : both[j] = IF j <= Len(k) THEN k[j] ELSE l[j - Len(k)]
    BY ONLY <1>1, <1>2
  <2> QED
    BY <1>1, <2>1
<1>5. ASSUME NEW j \in 1..(p + q) PROVE both[j] = DiffLine(ops[a + j - 1])
  <2>1. CASE j <= p
    <3>1. j \in 1..p
      BY <2>1
    <3>2. k[j] = DiffLine(ops[a + j - 1])
      BY <3>1 DEF LinesFrom
    <3> QED
      BY <1>4, <2>1, <3>2
  <2>2. CASE ~(j <= p)
    <3>1. j - p \in 1..q /\ (a + p) + (j - p) - 1 = a + j - 1
      BY <2>2
    <3>2. l[j - p] = DiffLine(ops[(a + p) + (j - p) - 1])
      BY <3>1 DEF LinesFrom
    <3> QED
      BY <1>4, <2>2, <3>1, <3>2
  <2> QED
    BY <2>1, <2>2
<1>6. p + q \in Nat
  OBVIOUS
<1> QED
  BY <1>2, <1>3, <1>5, <1>6 DEF LinesFrom

Rejoin(ops, a, b, d) == Between(ops, a, b) \o Between(ops, b + 1, d) = Between(ops, a, d)

\* The lines up to b and those after it up to d are the ones up to d.
LEMMA BetweenJoins ==
  ASSUME NEW ops \in Seq(Ops), NEW a \in Nat, NEW b \in Nat, NEW d \in Nat,
         1 <= a, a <= b + 1, b <= d, d <= Len(ops)
  PROVE  Rejoin(ops, a, b, d)
<1>1. LinesFrom(ops, a, b + 1 - a, Between(ops, a, b))
  BY BetweenIs
<1>2. LinesFrom(ops, b + 1, d + 1 - (b + 1), Between(ops, b + 1, d))
  <2>1. b + 1 \in Nat /\ 1 <= b + 1 /\ b + 1 <= d + 1
    OBVIOUS
  <2> QED
    BY <2>1, BetweenIs
<1>3. LinesFrom(ops, a, d + 1 - a, Between(ops, a, d))
  <2>1. a <= d + 1
    OBVIOUS
  <2> QED
    BY <2>1, BetweenIs
<1>4. PICK p \in Nat, q \in Nat : p = b + 1 - a /\ q = d + 1 - (b + 1) /\ a + p = b + 1 /\ p + q = d + 1 - a
  <2>1. b + 1 - a \in Nat /\ d + 1 - (b + 1) \in Nat /\ a + (b + 1 - a) = b + 1
        /\ (b + 1 - a) + (d + 1 - (b + 1)) = d + 1 - a
    OBVIOUS
  <2> QED
    BY <2>1
<1>5. LinesFrom(ops, a, p, Between(ops, a, b)) /\ LinesFrom(ops, a + p, q, Between(ops, b + 1, d))
  BY <1>1, <1>2, <1>4
<1>6. LinesFrom(ops, a, p + q, Between(ops, a, b) \o Between(ops, b + 1, d))
  BY <1>5, LinesFromJoin
<1>7. LinesFrom(ops, a, p + q, Between(ops, a, d))
  BY <1>3, <1>4
<1> QED
  BY <1>6, <1>7, LinesFromSame DEF Rejoin

\* The lines before an operation and its own are the ones up to it.
LEMMA BetweenGrows ==
  ASSUME NEW ops \in Seq(Ops), NEW a \in Nat, NEW i \in 1..Len(ops), 1 <= a, a <= i
  PROVE  Append(Between(ops, a, i - 1), DiffLine(ops[i])) = Between(ops, a, i)
<1>1. i \in Nat /\ i - 1 \in Nat /\ a <= (i - 1) + 1 /\ i - 1 <= Len(ops) /\ a <= i + 1 /\ i <= Len(ops)
      /\ (i - 1) + 1 - a = i - a /\ i - a \in Nat
  OBVIOUS
<1>2. PICK k, both : k = Between(ops, a, i - 1) /\ both = Append(k, DiffLine(ops[i]))
  OBVIOUS
<1>3. LinesFrom(ops, a, i - a, k)
  BY <1>1, <1>2, BetweenIs
<1>4. k \in Seq(DiffLines) /\ Len(k) = i - a /\ \A j \in 1..(i - a) : k[j] = DiffLine(ops[a + j - 1])
  BY <1>3 DEF LinesFrom
<1>5. DiffLine(ops[i]) \in DiffLines
  <2>1. ops[i] \in Ops
    OBVIOUS
  <2> QED
    BY <2>1 DEF Ops, DiffLines, DiffLine
<1>6. both \in Seq(DiffLines) /\ Len(both) = i + 1 - a
  BY <1>1, <1>2, <1>4, <1>5
<1>7. ASSUME NEW j \in 1..(i + 1 - a) PROVE both[j] = DiffLine(ops[a + j - 1])
  <2>1. CASE j \in 1..(i - a)
    <3>1. both[j] = k[j]
      BY <1>1, <1>2, <1>4, <1>5, <2>1
    <3> QED
      BY <1>4, <2>1, <3>1
  <2>2. CASE ~(j \in 1..(i - a))
    <3>1. j = (i - a) + 1 /\ a + j - 1 = i
      BY <1>1, <2>2
    <3>2. both[Len(k) + 1] = DiffLine(ops[i])
      BY ONLY <1>2, <1>4, <1>5
    <3> QED
      BY <1>4, <3>1, <3>2
  <2> QED
    BY <2>1, <2>2
<1>8. i + 1 - a \in Nat
  BY <1>1
<1>9. LinesFrom(ops, a, i + 1 - a, both)
  BY <1>6, <1>7, <1>8 DEF LinesFrom
<1>10. LinesFrom(ops, a, i + 1 - a, Between(ops, a, i))
  BY <1>1, BetweenIs
<1> QED
  BY <1>2, <1>9, <1>10, LinesFromSame

\* The hunks of n spans.
LEMMA HunksAre ==
  ASSUME NEW ops \in Seq(Ops), NEW i \in 0..Len(ops), NEW n, NEW from, NEW to, Spans(ops, i, n, from, to),
         NEW hunks, hunks = Hunks(ops, n, from, to)
  PROVE  hunks \in Seq(HunkSet) /\ Len(hunks) = n /\ \A x \in 1..n : hunks[x] = Hunk(ops, from[x], to[x])
<1>1. n \in Nat
  BY DEF Spans
<1>2. ASSUME NEW x \in 1..n PROVE Hunk(ops, from[x], to[x]) \in HunkSet
  <2>1. PICK a \in 1..i, b \in 1..i : a = from[x] /\ b = to[x] /\ a <= b
    BY DEF Spans
  <2>2. a \in 1..Len(ops) /\ a \in Nat /\ b \in Nat /\ 1 <= a /\ a <= b + 1 /\ b <= Len(ops)
    BY <2>1
  <2>3. ops[a] \in Ops
    BY <2>2
  <2>4. Between(ops, a, b) \in Seq(DiffLines)
    BY <2>2, BetweenIs DEF LinesFrom
  <2> QED
    BY <2>1, <2>3, <2>4 DEF Ops, Hunk, HunkSet
<1>3. hunks \in [1..n -> HunkSet]
  BY <1>2 DEF Hunks
<1> QED
  BY <1>1, <1>3 DEF Hunks

\* The state of groupIntoHunks after i operations: the hunks are stretches of them, and
\* the last one has been given every operation up to the trailing context of its change.
GroupAt(ops, c, i, acc) ==
  \E n, from, to :
    /\ Spans(ops, i, n, from, to) /\ acc.hunks = Hunks(ops, n, from, to)
    /\ n = 0 => acc.change = 0 /\ acc.added = 0
    /\ n > 0 => acc.added = to[n] /\ acc.change <= i /\ acc.added = Smaller(i, acc.change + c)
GroupStates == [hunks : Seq(HunkSet), change : Nat, added : Nat]
Groups(ops, c, i) == {acc \in GroupStates : GroupAt(ops, c, i, acc)}

\* f with one more value; with another for the last.
OneMore(g, f, n, v) == g = [x \in 1..(n + 1) |-> IF x = n + 1 THEN v ELSE f[x]]
Renews(g, f, n, v) ==
  /\ DOMAIN g = 1..n /\ g[n] = v /\ \A x \in 1..n : x # n => g[x] = f[x]
  /\ g = [x \in 1..n |-> g[x]]

\* One more stretch.
LEMMA SpansOpen ==
  ASSUME NEW ops, NEW i \in Nat, NEW h, h = i - 1, NEW n \in Nat, NEW m, m = n + 1,
         NEW from, NEW to, Spans(ops, h, n, from, to),
         NEW a \in Nat, 1 <= a, a <= i, n > 0 => to[n] < a, NEW f, NEW t,
         OneMore(f, from, n, a), OneMore(t, to, n, i)
  PROVE  Spans(ops, i, m, f, t)
<1>0. /\ f = [x \in 1..(n + 1) |-> IF x = n + 1 THEN a ELSE from[x]]
      /\ t = [x \in 1..(n + 1) |-> IF x = n + 1 THEN i ELSE to[x]]
  BY DEF OneMore
<1> USE <1>0
<1>1. from \in [1..n -> 1..(i - 1)] /\ to \in [1..n -> 1..(i - 1)]
  BY DEF Spans
<1>2. \A x \in 1..n : from[x] <= to[x]
  BY DEF Spans
<1>3. \A x, y \in 1..n : x < y => to[x] < from[y]
  BY DEF Spans
<1>4. \A q \in 1..(i - 1) : ops[q].sign # " " => \E x \in 1..n : from[x] <= q /\ q <= to[x]
  BY DEF Spans
<1>5. ASSUME NEW x \in 1..n
      PROVE  f[x] = from[x] /\ t[x] = to[x] /\ x \in 1..(n + 1) /\ from[x] \in 1..i /\ to[x] \in 1..i
  <2>1. x \in 1..(n + 1) /\ x # n + 1
    BY ONLY n \in Nat, x \in 1..n
  <2>2. from[x] \in 1..(i - 1) /\ to[x] \in 1..(i - 1)
    BY ONLY <1>1, x \in 1..n
  <2>3. from[x] \in 1..i /\ to[x] \in 1..i
    BY ONLY i \in Nat, <2>2
  <2> QED
    BY <2>1, <2>3
<1>6. n + 1 \in 1..(n + 1) /\ n + 1 \in Nat
  BY ONLY n \in Nat
<1>7. f[n + 1] = a /\ t[n + 1] = i
  BY <1>6
<1>8. ASSUME NEW x \in 1..(n + 1) PROVE x \in 1..n \/ x = n + 1
  BY ONLY n \in Nat, x \in 1..(n + 1)
<1>9. a \in 1..i /\ i \in 1..i
  OBVIOUS
<1>10. f \in [1..(n + 1) -> 1..i] /\ t \in [1..(n + 1) -> 1..i]
  <2>1. \A x \in 1..(n + 1) : f[x] \in 1..i /\ t[x] \in 1..i
    BY ONLY <1>5, <1>7, <1>8, <1>9
  <2> QED
    BY <2>1
<1>11. \A x \in 1..(n + 1) : f[x] <= t[x]
  <2>1. \A x \in 1..n : f[x] <= t[x]
    BY ONLY <1>2, <1>5
  <2> QED
    BY <1>7, <1>8, <2>1
<1>12. ASSUME NEW x \in 1..(n + 1), NEW y \in 1..(n + 1), x < y PROVE t[x] < f[y]
  <2>1. x \in 1..n
    BY ONLY <1>12, n \in Nat, x \in 1..(n + 1), y \in 1..(n + 1)
  <2>2. CASE y \in 1..n
    BY ONLY <1>3, <1>5, <1>12, <2>1, <2>2
  <2>3. CASE y = n + 1
    <3>1. n > 0 /\ n \in 1..n /\ (x = n \/ x < n)
      BY ONLY n \in Nat, <2>1
    <3>2. to[n] < a /\ f[y] = a /\ t[x] = to[x]
      BY <1>5, <1>7, <2>1, <2>3, <3>1
    <3>3. x < n => to[x] < from[n] /\ from[n] <= to[n]
      BY ONLY <1>2, <1>3, <2>1, <3>1
    <3>4. to[x] \in 1..i /\ from[n] \in 1..i /\ to[n] \in 1..i
      BY ONLY <1>5, <2>1, <3>1
    <3>5. x = n \/ x < n
      BY <3>1
    <3> QED
      BY ONLY i \in Nat, a \in Nat, <3>2, <3>3, <3>4, <3>5
  <2> QED
    BY <1>8, <2>2, <2>3
<1>13. ASSUME NEW q \in 1..i, ops[q].sign # " " PROVE \E x \in 1..(n + 1) : f[x] <= q /\ q <= t[x]
  <2>1. CASE q = i
    BY <1>6, <1>7, <2>1
  <2>2. CASE q # i
    <3>1. q \in 1..(i - 1)
      BY ONLY <2>2, i \in Nat, q \in 1..i
    <3>2. PICK x \in 1..n : from[x] <= q /\ q <= to[x]
      BY ONLY <1>4, <1>13, <3>1
    <3> QED
      BY ONLY <1>5, <3>2
  <2> QED
    BY <2>1, <2>2
<1>14. Spans(ops, i, n + 1, f, t)
  BY ONLY <1>6, <1>10, <1>11, <1>12, <1>13 DEF Spans
<1> QED
  BY <1>14

\* The last stretch goes on to the i-th operation.
LEMMA SpansExtend ==
  ASSUME NEW ops, NEW i \in Nat, NEW n \in Nat, NEW from, NEW to, Spans(ops, i - 1, n, from, to),
         n > 0, i > 0, NEW t, t = [to EXCEPT ![n] = i]
  PROVE  Spans(ops, i, n, from, t)
<1>1. from \in [1..n -> 1..(i - 1)] /\ to \in [1..n -> 1..(i - 1)]
  BY DEF Spans
<1>2. \A x \in 1..n : from[x] <= to[x]
  BY DEF Spans
<1>3. \A x, y \in 1..n : x < y => to[x] < from[y]
  BY DEF Spans
<1>4. \A q \in 1..(i - 1) : ops[q].sign # " " => \E x \in 1..n : from[x] <= q /\ q <= to[x]
  BY DEF Spans
<1>5. n \in 1..n /\ i \in 1..i
  OBVIOUS
<1>6. ASSUME NEW x \in 1..n
      PROVE  /\ from[x] \in 1..i /\ from[x] <= i /\ to[x] \in 1..i /\ to[x] <= i
             /\ t[x] = IF x = n THEN i ELSE to[x]
  <2>1. from[x] \in 1..(i - 1) /\ to[x] \in 1..(i - 1)
    BY ONLY <1>1, x \in 1..n
  <2>2. from[x] \in 1..i /\ to[x] \in 1..i /\ from[x] <= i /\ to[x] <= i
    BY ONLY i \in Nat, <2>1
  <2> QED
    BY <1>1, <2>2
<1>7. from \in [1..n -> 1..i]
  BY ONLY <1>1, <1>6
<1>8. t \in [1..n -> 1..i]
  <2>1. \A x \in 1..n : t[x] \in 1..i
    BY ONLY <1>5, <1>6
  <2>2. t = [x \in 1..n |-> t[x]]
    BY <1>1
  <2> QED
    BY ONLY <2>1, <2>2
<1>9. \A x \in 1..n : from[x] <= t[x]
  BY ONLY <1>2, <1>6
<1>10. ASSUME NEW x \in 1..n, NEW y \in 1..n, x < y PROVE t[x] < from[y]
  <2>1. x # n
    BY ONLY <1>10, n \in Nat, x \in 1..n, y \in 1..n
  <2> QED
    BY ONLY <1>3, <1>6, <1>10, <2>1
<1>11. ASSUME NEW q \in 1..i, ops[q].sign # " " PROVE \E x \in 1..n : from[x] <= q /\ q <= t[x]
  <2>1. CASE q = i
    BY ONLY <1>5, <1>6, <2>1, i \in Nat
  <2>2. CASE q # i
    <3>1. q \in 1..(i - 1) /\ q <= i
      BY ONLY <2>2, i \in Nat, q \in 1..i
    <3>2. PICK x \in 1..n : from[x] <= q /\ q <= to[x]
      BY ONLY <1>4, <1>11, <3>1
    <3>3. q <= t[x]
      BY ONLY <1>6, <3>1, <3>2
    <3> QED
      BY <3>2, <3>3
  <2> QED
    BY <2>1, <2>2
<1> QED
  BY ONLY n \in Nat, <1>7, <1>8, <1>9, <1>10, <1>11 DEF Spans

\* An unchanged line leaves the spans as they are.
LEMMA SpansStay ==
  ASSUME NEW ops, NEW i \in Nat, NEW n \in Nat, NEW from, NEW to, Spans(ops, i - 1, n, from, to),
         ops[i].sign = " "
  PROVE  Spans(ops, i, n, from, to)
<1>1. from \in [1..n -> 1..(i - 1)] /\ to \in [1..n -> 1..(i - 1)]
  BY DEF Spans
<1>2. \A x \in 1..n : from[x] <= to[x]
  BY DEF Spans
<1>3. \A x, y \in 1..n : x < y => to[x] < from[y]
  BY DEF Spans
<1>4. \A q \in 1..(i - 1) : ops[q].sign # " " => \E x \in 1..n : from[x] <= q /\ q <= to[x]
  BY DEF Spans
<1>5. ASSUME NEW q \in 1..(i - 1) PROVE q \in 1..i
  BY ONLY i \in Nat, q \in 1..(i - 1)
<1>6. ASSUME NEW q \in 1..i PROVE q = i \/ q \in 1..(i - 1)
  BY ONLY i \in Nat, q \in 1..i
<1>7. from \in [1..n -> 1..i] /\ to \in [1..n -> 1..i]
  BY ONLY <1>1, <1>5
<1>8. \A q \in 1..i : ops[q].sign # " " => \E x \in 1..n : from[x] <= q /\ q <= to[x]
  BY <1>4, <1>6
<1> QED
  BY ONLY n \in Nat, <1>2, <1>3, <1>7, <1>8 DEF Spans

\* The hunks are n of the script, from from[x] to to[x].
AreHunks(hunks, ops, n, from, to) ==
  hunks \in Seq(HunkSet) /\ Len(hunks) = n /\ hunks = Hunks(ops, n, from, to)

\* A hunk for one more span.
LEMMA HunksOpen ==
  ASSUME NEW ops, NEW n \in Nat, NEW from, NEW to, NEW a, NEW i, NEW f, NEW t, NEW m, NEW hunks, NEW more,
         OneMore(f, from, n, a), OneMore(t, to, n, i), m = n + 1, AreHunks(hunks, ops, n, from, to),
         Hunk(ops, a, i) \in HunkSet, more = Append(hunks, Hunk(ops, a, i))
  PROVE  AreHunks(more, ops, m, f, t)
<1>7. PICK hunk \in HunkSet : hunk = Hunk(ops, a, i)
  OBVIOUS
<1>8. more = Append(hunks, hunk)
  BY <1>7
<1>6. /\ f = [x \in 1..(n + 1) |-> IF x = n + 1 THEN a ELSE from[x]]
      /\ t = [x \in 1..(n + 1) |-> IF x = n + 1 THEN i ELSE to[x]]
  BY DEF OneMore
<1> USE <1>6
<1>0. hunks \in Seq(HunkSet) /\ hunks = Hunks(ops, n, from, to) /\ Len(hunks) = n
  BY DEF AreHunks
<1>1. more \in Seq(HunkSet) /\ Len(more) = n + 1 /\ more[n + 1] = hunk
  BY ONLY <1>0, <1>8, hunk \in HunkSet
<1>2. ASSUME NEW x \in 1..n PROVE more[x] = hunks[x] /\ hunks[x] = Hunk(ops, from[x], to[x])
  BY <1>0, <1>8 DEF Hunks
<1>3. more = [x \in 1..(n + 1) |-> more[x]]
  <2>1. more \in [1..Len(more) -> HunkSet]
    BY ONLY <1>1
  <2>2. more \in [1..(n + 1) -> HunkSet]
    BY ONLY <1>1, <2>1
  <2> QED
    BY ONLY <2>2
<1>4. ASSUME NEW x \in 1..(n + 1) PROVE more[x] = Hunk(ops, f[x], t[x])
  <2>1. CASE x = n + 1
    BY <1>1, <1>7, <2>1
  <2>2. CASE x # n + 1
    <3>1. x \in 1..n
      BY ONLY n \in Nat, <2>2, x \in 1..(n + 1)
    <3>2. f[x] = from[x] /\ t[x] = to[x]
      BY <2>2
    <3> QED
      BY <1>2, <3>1, <3>2
  <2> QED
    BY <2>1, <2>2
<1>5. more = Hunks(ops, n + 1, f, t)
  <2>1. [x \in 1..(n + 1) |-> more[x]] = [x \in 1..(n + 1) |-> Hunk(ops, f[x], t[x])]
    BY ONLY <1>4
  <2> QED
    BY ONLY <1>3, <2>1 DEF Hunks
<1> QED
  BY <1>1, <1>5 DEF AreHunks

\* The last hunk made longer.
LEMMA HunksExtend ==
  ASSUME NEW ops, NEW n \in Nat, n > 0, NEW from, NEW to, NEW i, NEW t, Renews(t, to, n, i),
         NEW hunks, AreHunks(hunks, ops, n, from, to),
         NEW hunk \in HunkSet, hunk = Hunk(ops, from[n], i), NEW more, Renews(more, hunks, n, hunk)
  PROVE  AreHunks(more, ops, n, from, t)
<1>8. /\ t[n] = i /\ \A x \in 1..n : x # n => t[x] = to[x]
      /\ DOMAIN more = 1..n /\ more[n] = hunk /\ \A x \in 1..n : x # n => more[x] = hunks[x]
      /\ more = [x \in 1..n |-> more[x]]
  BY DEF Renews
<1> USE <1>8
<1>0. hunks \in Seq(HunkSet) /\ hunks = Hunks(ops, n, from, to) /\ Len(hunks) = n
  BY DEF AreHunks
<1>1. n \in 1..n
  OBVIOUS
<1>2. hunks \in [1..n -> HunkSet]
  BY <1>0
<1>3. more \in [1..n -> HunkSet]
  <2>1. \A x \in 1..n : more[x] \in HunkSet
    BY <1>2
  <2> QED
    BY <2>1
<1>4. ASSUME NEW x \in 1..n PROVE more[x] = Hunk(ops, from[x], t[x])
  <2>1. CASE x = n
    BY <1>1, <1>2, <2>1
  <2>2. CASE x # n
    BY <1>0, <1>2, <2>2 DEF Hunks
  <2> QED
    BY <2>1, <2>2
<1>5. more = [x \in 1..n |-> more[x]]
  BY <1>3
<1>6. more = Hunks(ops, n, from, t)
  <2>1. [x \in 1..n |-> more[x]] = [x \in 1..n |-> Hunk(ops, from[x], t[x])]
    BY ONLY <1>4
  <2> QED
    BY ONLY <1>5, <2>1 DEF Hunks
<1>7. more \in Seq(HunkSet) /\ Len(more) = n
  BY ONLY <1>3, n \in Nat
<1> QED
  BY <1>6, <1>7 DEF AreHunks

\* The hunk of a stretch of the script is one.
LEMMA HunkIs ==
  ASSUME NEW ops \in Seq(Ops), NEW a \in Nat, NEW b \in Nat, 1 <= a, a <= b, b <= Len(ops)
  PROVE  Hunk(ops, a, b) \in HunkSet
<1>1. a \in 1..Len(ops) /\ a <= b + 1
  OBVIOUS
<1>2. ops[a] \in Ops
  BY <1>1
<1>3. Between(ops, a, b) \in Seq(DiffLines)
  BY <1>1, BetweenIs DEF LinesFrom
<1> QED
  BY <1>2, <1>3 DEF Ops, Hunk, HunkSet

\* A hunk whose lines are replaced.
GrowsTo(h, lines, g) == [h EXCEPT !.lines = lines] = g

\* A longer hunk differs from it in its lines only.
LEMMA HunkGrows ==
  ASSUME NEW ops, NEW a, NEW b, NEW d
  PROVE  /\ Hunk(ops, a, b).lines = Between(ops, a, b)
         /\ GrowsTo(Hunk(ops, a, b), Between(ops, a, d), Hunk(ops, a, d))
<1>1. PICK o, s, k, m : o = ops[a].o /\ s = ops[a].n /\ k = Between(ops, a, b) /\ m = Between(ops, a, d)
  OBVIOUS
<1>2. PICK h, g : h = [oldStart |-> o, newStart |-> s, lines |-> k] /\ g = [oldStart |-> o, newStart |-> s, lines |-> m]
  OBVIOUS
<1>3. Hunk(ops, a, b) = h /\ Hunk(ops, a, d) = g
  BY <1>1, <1>2 DEF Hunk
<1>4. [h EXCEPT !.lines = m] = g /\ h.lines = k
  BY <1>2
<1> QED
  BY <1>1, <1>3, <1>4 DEF GrowsTo

\* One iteration of groupIntoHunks.
LEMMA TakeKeeps ==
  ASSUME NEW ops \in Seq(Ops), NEW c \in Nat, NEW i \in 1..Len(ops), NEW acc \in Groups(ops, c, i - 1)
  PROVE  Take(ops, c, acc, i) \in Groups(ops, c, i)
<1>1. PICK hunks \in Seq(HunkSet), change \in Nat, added \in Nat :
        acc = [hunks |-> hunks, change |-> change, added |-> added]
  BY DEF Groups, GroupStates
<1>2. acc.hunks = hunks /\ acc.change = change /\ acc.added = added
  BY <1>1
<1>3. GroupAt(ops, c, i - 1, acc)
  BY DEF Groups
<1>4. PICK n, from, to :
        /\ Spans(ops, i - 1, n, from, to) /\ hunks = Hunks(ops, n, from, to)
        /\ n = 0 => change = 0 /\ added = 0
        /\ n > 0 => added = to[n] /\ change <= i - 1 /\ added = Smaller(i - 1, change + c)
  BY <1>2, <1>3 DEF GroupAt
<1>5. /\ n \in Nat /\ from \in [1..n -> 1..(i - 1)] /\ to \in [1..n -> 1..(i - 1)]
      /\ \A x \in 1..n : from[x] <= to[x]
  BY <1>4 DEF Spans
<1>6. i \in Nat /\ i > 0 /\ i - 1 \in 0..Len(ops) /\ i <= Len(ops) /\ Len(ops) \in Nat
  OBVIOUS
<1>7. Len(hunks) = n /\ \A x \in 1..n : hunks[x] = Hunk(ops, from[x], to[x])
  BY <1>4, <1>6, HunksAre
<1>8. n \in Nat
  BY <1>5
<1>9. n > 0 => /\ n \in 1..n /\ from[n] \in Nat /\ 1 <= from[n] /\ from[n] <= added /\ added <= i - 1
               /\ hunks[n] = Hunk(ops, from[n], added)
  <2>1. SUFFICES ASSUME n > 0
                 PROVE  /\ n \in 1..n /\ from[n] \in Nat /\ 1 <= from[n] /\ from[n] <= added /\ added <= i - 1
                        /\ hunks[n] = Hunk(ops, from[n], added)
    OBVIOUS
  <2>2. n \in 1..n
    BY ONLY <1>8, <2>1
  <2>3. from[n] \in 1..(i - 1) /\ to[n] \in 1..(i - 1) /\ from[n] <= to[n]
    BY ONLY <1>5, <2>2
  <2>4. added = to[n]
    BY <1>4, <2>1
  <2>5. hunks[n] = Hunk(ops, from[n], added)
    BY ONLY <1>7, <2>2, <2>4
  <2> QED
    BY ONLY <1>6, <2>2, <2>3, <2>4, <2>5
<1>10. n > 0 => change <= i - 1 /\ added = Smaller(i - 1, change + c)
  BY <1>4
<1>11. n = 0 => change = 0 /\ added = 0
  BY <1>4
<1>12. Spans(ops, i - 1, n, from, to)
  BY <1>4
<1>18. c \in Nat /\ change \in Nat /\ added \in Nat
  OBVIOUS
<1>19. AreHunks(hunks, ops, n, from, to)
  BY <1>4, <1>7 DEF AreHunks
<1> DEFINE next == Take(ops, c, acc, i)
<1>13. CASE ops[i].sign # " " /\ (n = 0 \/ i - change > 2 * c)
  <2>1. PICK a \in Nat : a = Larger(1, i - c)
    <3>1. Larger(1, i - c) \in Nat
      BY ONLY <1>6, <1>18 DEF Larger
    <3> QED
      BY <3>1
  <2>2. 1 <= a /\ a <= i /\ (n > 0 => added < a)
    <3>1. a = IF 1 > i - c THEN 1 ELSE i - c
      BY <2>1 DEF Larger
    <3>2. n > 0 => i - change > 2 * c
      <4>1. n = 0 \/ i - change > 2 * c
        BY <1>13
      <4>2. n > 0 => n # 0
        BY ONLY <1>8
      <4> QED
        BY ONLY <4>1, <4>2
    <3>3. n > 0 => added <= change + c
      BY ONLY <1>6, <1>10, c \in Nat, change \in Nat DEF Smaller
    <3> QED
      BY ONLY <1>6, <3>1, <3>2, <3>3, c \in Nat, change \in Nat, added \in Nat
  <2>3. PICK f, t : /\ f = [x \in 1..(n + 1) |-> IF x = n + 1 THEN a ELSE from[x]]
                    /\ t = [x \in 1..(n + 1) |-> IF x = n + 1 THEN i ELSE to[x]]
    OBVIOUS
  <2>12. OneMore(f, from, n, a) /\ OneMore(t, to, n, i)
    BY ONLY <2>3 DEF OneMore
  <2>4. Spans(ops, i, n + 1, f, t)
    <3>1. n > 0 => to[n] < a
      BY <1>4, <2>2
    <3>2. PICK h, m : h = i - 1 /\ m = n + 1
      OBVIOUS
    <3>3. Spans(ops, h, n, from, to)
      BY ONLY <1>12, <3>2
    <3>4. Spans(ops, i, m, f, t)
      BY ONLY <1>6, <1>8, <2>1, <2>2, <2>12, <3>1, <3>2, <3>3, SpansOpen
    <3> QED
      BY ONLY <3>2, <3>4
  <2>5. OpenHunk(ops, i, c) = Hunk(ops, a, i)
    <3>1. Append(Between(ops, a, i - 1), DiffLine(ops[i])) = Between(ops, a, i)
      BY <2>2, BetweenGrows
    <3> QED
      BY <2>1, <3>1 DEF OpenHunk, Hunk
  <2>6. Hunk(ops, a, i) \in HunkSet
    BY <1>6, <2>2, HunkIs
  <2>7. PICK more : more = Append(hunks, Hunk(ops, a, i))
    OBVIOUS
  <2>8. more \in Seq(HunkSet) /\ more = Hunks(ops, n + 1, f, t)
    <3>2. PICK m : m = n + 1
      OBVIOUS
    <3>3. AreHunks(more, ops, m, f, t)
      BY ONLY <1>8, <1>19, <2>6, <2>7, <2>12, <3>2, HunksOpen, Zenon
    <3>1. AreHunks(more, ops, n + 1, f, t)
      BY ONLY <3>2, <3>3
    <3> QED
      BY <3>1 DEF AreHunks
  <2>9. next = [hunks |-> more, change |-> i, added |-> i]
    BY <1>2, <1>7, <1>13, <2>5, <2>7 DEF Take
  <2>10. next.hunks = more /\ next.change = i /\ next.added = i /\ next \in GroupStates
    BY <1>6, <2>8, <2>9 DEF GroupStates
  <2>11. GroupAt(ops, c, i, next)
    <3>1. n + 1 > 0 /\ n + 1 # 0 /\ n + 1 \in 1..(n + 1)
      BY ONLY <1>8
    <3>2. t[n + 1] = i
      BY <2>3, <3>1
    <3>3. i <= i /\ i = Smaller(i, i + c)
      BY ONLY <1>6, c \in Nat DEF Smaller
    <3>4. PICK m : m = n + 1
      OBVIOUS
    <3>5. Spans(ops, i, m, f, t) /\ next.hunks = Hunks(ops, m, f, t)
      BY <2>4, <2>8, <2>10, <3>4
    <3>6. /\ m = 0 => next.change = 0 /\ next.added = 0
          /\ m > 0 => next.added = t[m] /\ next.change <= i /\ next.added = Smaller(i, next.change + c)
      BY <2>10, <3>1, <3>2, <3>3, <3>4
    <3> QED
      BY ONLY <3>5, <3>6 DEF GroupAt
  <2> QED
    BY <2>10, <2>11 DEF Groups
<1>14. ASSUME n > 0, NEW more, NEW ch \in Nat, next = [hunks |-> more, change |-> ch, added |-> i],
              ch <= i, i <= ch + c, more = [hunks EXCEPT ![n] = Hunk(ops, from[n], i)]
       PROVE  next \in Groups(ops, c, i)
  <2>1. PICK t : t = [to EXCEPT ![n] = i]
    OBVIOUS
  <2>2. Spans(ops, i, n, from, t)
    BY ONLY <1>6, <1>8, <1>12, <1>14, <2>1, SpansExtend
  <2>3. Hunk(ops, from[n], i) \in HunkSet
    <3>1. from[n] \in Nat /\ 1 <= from[n] /\ from[n] <= i
      BY ONLY <1>6, <1>9, <1>14, added \in Nat
    <3> QED
      BY <1>6, <3>1, HunkIs
  <2>4. DOMAIN to = 1..n
    BY <1>5
  <2>5. more \in Seq(HunkSet) /\ more = Hunks(ops, n, from, t)
    <3>1. PICK hunk \in HunkSet : hunk = Hunk(ops, from[n], i)
      BY <2>3
    <3>2. Renews(more, hunks, n, hunk)
      <4>1. hunks \in [1..n -> HunkSet]
        BY ONLY <1>7, hunks \in Seq(HunkSet)
      <4>2. more = [hunks EXCEPT ![n] = hunk] /\ n \in 1..n
        BY <1>9, <1>14, <3>1
      <4>3. /\ DOMAIN more = 1..n /\ more[n] = hunk /\ \A x \in 1..n : x # n => more[x] = hunks[x]
            /\ more = [x \in 1..n |-> more[x]]
        BY ONLY <4>1, <4>2
      <4> QED
        BY ONLY <4>3 DEF Renews
    <3>5. Renews(t, to, n, i)
      <4>1. to \in [1..n -> 1..(i - 1)] /\ n \in 1..n
        BY <1>5, <1>9, <1>14
      <4>2. /\ DOMAIN t = 1..n /\ t[n] = i /\ \A x \in 1..n : x # n => t[x] = to[x]
            /\ t = [x \in 1..n |-> t[x]]
        BY ONLY <2>1, <4>1
      <4> QED
        BY ONLY <4>2 DEF Renews
    <3>3. n > 0
      BY <1>14
    <3>4. AreHunks(more, ops, n, from, t)
      BY ONLY <1>8, <1>19, <3>1, <3>2, <3>3, <3>5, HunksExtend
    <3> QED
      BY <3>4 DEF AreHunks
  <2>6. next.hunks = more /\ next.change = ch /\ next.added = i /\ next \in GroupStates
    BY <1>6, <1>14, <2>5 DEF GroupStates
  <2>7. t[n] = i
    BY <1>5, <1>9, <1>14, <2>1
  <2>8. i = Smaller(i, ch + c)
    BY ONLY <1>6, <1>14, c \in Nat, ch \in Nat DEF Smaller
  <2>9. /\ n = 0 => next.change = 0 /\ next.added = 0
        /\ n > 0 => next.added = t[n] /\ next.change <= i /\ next.added = Smaller(i, next.change + c)
    BY <1>14, <2>6, <2>7, <2>8
  <2>10. next.hunks = Hunks(ops, n, from, t)
    BY <2>5, <2>6
  <2>11. GroupAt(ops, c, i, next)
    BY ONLY <2>2, <2>9, <2>10 DEF GroupAt
  <2> QED
    BY <2>6, <2>11 DEF Groups
<1>15. CASE ops[i].sign # " " /\ ~(n = 0 \/ i - change > 2 * c)
  <2>1. n > 0
    <3>1. n # 0
      BY <1>15
    <3> QED
      BY ONLY <1>8, <3>1
  <2>2. Between(ops, from[n], added) \o Between(ops, added + 1, i) = Between(ops, from[n], i)
    <3>1. from[n] \in Nat /\ 1 <= from[n] /\ from[n] <= added + 1 /\ added <= i
      BY ONLY <1>6, <1>9, <2>1, added \in Nat
    <3>2. PICK f \in Nat : f = from[n] /\ 1 <= f /\ f <= added + 1
      BY <3>1
    <3>3. Rejoin(ops, f, added, i)
      BY ONLY <1>6, <3>1, <3>2, ops \in Seq(Ops), added \in Nat, BetweenJoins
    <3> QED
      BY <3>2, <3>3 DEF Rejoin
  <2>3. n \in DOMAIN hunks
    BY <1>7, <1>9, <2>1
  <2>4. PICK more : more = [hunks EXCEPT ![n] = Hunk(ops, from[n], i)]
    OBVIOUS
  <2>5. [hunks EXCEPT ![n].lines = @ \o Between(ops, added + 1, i)] = more
    <3>1. PICK h, g, m : h = hunks[n] /\ g = Hunk(ops, from[n], i) /\ m = Between(ops, from[n], i)
      OBVIOUS
    <3>2. h = Hunk(ops, from[n], added)
      BY <1>9, <2>1, <3>1
    <3>3. h.lines \o Between(ops, added + 1, i) = m
      BY <2>2, <3>1, <3>2, HunkGrows
    <3>4. [h EXCEPT !.lines = m] = g
      BY <3>1, <3>2, HunkGrows DEF GrowsTo
    <3>5. more = [hunks EXCEPT ![n] = g]
      BY <2>4, <3>1
    <3> QED
      BY ONLY <3>1, <3>3, <3>4, <3>5
  <2>6. next = [hunks |-> more, change |-> i, added |-> i]
    BY <1>2, <1>7, <1>15, <2>5 DEF Take
  <2>7. i <= i /\ i <= i + c
    BY <1>6
  <2> QED
    BY ONLY <1>6, <1>14, <2>1, <2>4, <2>6, <2>7
<1>16. CASE ops[i].sign = " " /\ n > 0 /\ i - change <= c
  <2>0. n > 0 /\ i - change <= c
    BY <1>16
  <2>1. added = i - 1 /\ change <= i /\ i <= change + c
    BY ONLY <1>6, <1>10, <1>18, <2>0 DEF Smaller
  <2>2. Append(Between(ops, from[n], added), DiffLine(ops[i])) = Between(ops, from[n], i)
    <3>1. from[n] \in Nat /\ 1 <= from[n] /\ from[n] <= i
      BY ONLY <1>6, <1>9, <1>18, <2>0
    <3> QED
      BY <2>1, <3>1, BetweenGrows
  <2>3. n \in DOMAIN hunks
    BY ONLY <1>7, <1>9, <2>0, hunks \in Seq(HunkSet)
  <2>4. PICK more : more = [hunks EXCEPT ![n] = Hunk(ops, from[n], i)]
    OBVIOUS
  <2>5. [hunks EXCEPT ![n].lines = Append(@, DiffLine(ops[i]))] = more
    <3>1. PICK h, g, m : h = hunks[n] /\ g = Hunk(ops, from[n], i) /\ m = Between(ops, from[n], i)
      OBVIOUS
    <3>2. h = Hunk(ops, from[n], added)
      BY <1>9, <2>0, <3>1
    <3>3. Append(h.lines, DiffLine(ops[i])) = m
      BY <2>2, <3>1, <3>2, HunkGrows
    <3>4. [h EXCEPT !.lines = m] = g
      BY <3>1, <3>2, HunkGrows DEF GrowsTo
    <3>5. more = [hunks EXCEPT ![n] = g]
      BY <2>4, <3>1
    <3> QED
      BY ONLY <3>1, <3>3, <3>4, <3>5
  <2>6. next = [hunks |-> more, change |-> change, added |-> i]
    BY <1>2, <1>7, <1>16, <2>5 DEF Take
  <2> QED
    BY ONLY <1>14, <1>18, <2>0, <2>1, <2>4, <2>6
<1>17. CASE ops[i].sign = " " /\ ~(n > 0 /\ i - change <= c)
  <2>1. next = acc
    BY <1>2, <1>7, <1>17 DEF Take
  <2>2. Spans(ops, i, n, from, to)
    BY ONLY <1>6, <1>8, <1>12, <1>17, SpansStay
  <2>3. n > 0 => change <= i /\ added = Smaller(i, change + c)
    <3>1. n > 0 => ~(i - change <= c)
      BY <1>17
    <3> QED
      BY ONLY <1>6, <1>10, <3>1, c \in Nat, change \in Nat DEF Smaller
  <2>4. acc.hunks = Hunks(ops, n, from, to)
    BY <1>2, <1>4
  <2>5. /\ n = 0 => acc.change = 0 /\ acc.added = 0
        /\ n > 0 => acc.added = to[n] /\ acc.change <= i /\ acc.added = Smaller(i, acc.change + c)
    BY <1>2, <1>4, <2>3
  <2>6. GroupAt(ops, c, i, acc)
    BY ONLY <2>2, <2>4, <2>5 DEF GroupAt
  <2> QED
    BY <2>1, <2>6 DEF Groups
<1> QED
  BY <1>13, <1>15, <1>16, <1>17

\* The hunks are made of stretches of the operations that have every change.
Grouped(ops, hunks) ==
  \E n, from, to : Spans(ops, Len(ops), n, from, to) /\ hunks = Hunks(ops, n, from, to)

\* groupIntoHunks leaves out no change, whatever the amount of context.
LEMMA GroupIntoHunksIs ==
  ASSUME NEW ops \in Seq(Ops), NEW c \in Nat
  PROVE  Grouped(ops, GroupIntoHunks(ops, c))
<1>1. PICK n, base, S : n = Len(ops) /\ base = [hunks |-> <<>>, change |-> 0, added |-> 0] /\ S = GroupStates
  OBVIOUS
<1>2. n \in Nat
  BY <1>1
<1>3. PICK In : In = [k \in 0..n |-> Groups(ops, c, k)]
  OBVIOUS
<1>4. base \in In[0]
  <2>1. PICK none : none = [x \in 1..0 |-> 0]
    OBVIOUS
  <2>2. Spans(ops, 0, 0, none, none)
    BY <2>1 DEF Spans
  <2>3. base.hunks = Hunks(ops, 0, none, none)
    <3>1. base.hunks = <<>>
      BY <1>1
    <3>2. <<>> = [x \in 1..0 |-> Hunk(ops, none[x], none[x])]
      <4>1. 1..0 = {}
        OBVIOUS
      <4> QED
        BY <4>1
    <3> QED
      BY <3>1, <3>2 DEF Hunks
  <2>4. base \in GroupStates /\ base.change = 0 /\ base.added = 0
    <3>1. <<>> \in Seq(HunkSet)
      OBVIOUS
    <3> QED
      BY <1>1, <3>1 DEF GroupStates
  <2>5. /\ 0 = 0 => base.change = 0 /\ base.added = 0
        /\ 0 > 0 => base.added = none[0] /\ base.change <= 0 /\ base.added = Smaller(0, base.change + c)
    BY <2>4
  <2>6. GroupAt(ops, c, 0, base)
    BY ONLY <2>2, <2>3, <2>5 DEF GroupAt
  <2>7. 0 \in 0..n
    BY <1>2
  <2> QED
    BY <1>3, <2>4, <2>6, <2>7 DEF Groups
<1>5. ASSUME NEW k \in 1..n
      PROVE  /\ k \in 0..n /\ k - 1 \in 0..n /\ In[k - 1] \in SUBSET S
             /\ \A s \in In[k - 1] : Take(ops, c, s, k) \in In[k]
  <2>1. k \in 0..n /\ k - 1 \in 0..n
    BY <1>2
  <2>2. In[k - 1] = Groups(ops, c, k - 1) /\ In[k] = Groups(ops, c, k)
    BY <1>3, <2>1
  <2>3. \A s \in In[k - 1] : Take(ops, c, s, k) \in Groups(ops, c, k)
    BY <1>1, <2>2, TakeKeeps
  <2> QED
    BY <1>1, <2>1, <2>2, <2>3 DEF Groups
<1>6. \A k \in 0..n : In[k] \in SUBSET S
  BY <1>1, <1>3 DEF Groups
<1>7. PICK Step : Step = [p \in (1..n) \X S |-> IF p[2] \in In[p[1] - 1] THEN Take(ops, c, p[2], p[1]) ELSE p[2]]
  OBVIOUS
<1>8. ASSUME NEW k \in 1..n, NEW s \in S
      PROVE  /\ Step[<<k, s>>] \in S
             /\ s \in In[k - 1] => Step[<<k, s>>] = Take(ops, c, s, k) /\ Step[<<k, s>>] \in In[k]
  <2>1. Step[<<k, s>>] = IF s \in In[k - 1] THEN Take(ops, c, s, k) ELSE s
    BY <1>7
  <2> QED
    BY <1>5, <1>6, <2>1
<1>9. Step \in [(1..n) \X S -> S]
  <2>1. \A p \in (1..n) \X S : p = <<p[1], p[2]>> /\ p[1] \in 1..n /\ p[2] \in S
    OBVIOUS
  <2>2. \A p \in (1..n) \X S : Step[p] \in S
    BY <1>8, <2>1
  <2> QED
    BY <1>7, <2>2
<1>10. In \in [0..n -> SUBSET S] /\ \A k \in 1..n : \A s \in In[k - 1] : Step[<<k, s>>] \in In[k]
  BY <1>3, <1>5, <1>6, <1>8
<1>11. \E g : Loops(g, n, base, Step, In)
  BY ONLY <1>2, <1>4, <1>9, <1>10, LoopIs
<1>12. PICK g : /\ g = [k \in 0..n |-> IF k = 0 THEN base ELSE Step[<<k, g[k - 1]>>]]
                /\ \A k \in 0..n : g[k] \in In[k]
  BY <1>11 DEF Loops
<1>13. g = [k \in 0..n |-> IF k = 0 THEN base ELSE Take(ops, c, g[k - 1], k)]
  <2>1. ASSUME NEW k \in 0..n PROVE g[k] = IF k = 0 THEN base ELSE Take(ops, c, g[k - 1], k)
    <3>1. k # 0 => k \in 1..n /\ k - 1 \in 0..n
      BY <1>2
    <3>2. k # 0 => g[k - 1] \in In[k - 1] /\ g[k - 1] \in S
      BY <1>5, <1>12, <3>1
    <3>3. k # 0 => Step[<<k, g[k - 1]>>] = Take(ops, c, g[k - 1], k)
      BY <1>8, <3>1, <3>2
    <3> QED
      BY <1>12, <3>3
  <2> QED
    BY <1>12, <2>1
<1> DEFINE after[k \in 0..n] == IF k = 0 THEN base ELSE Take(ops, c, after[k - 1], k)
<1>14. after = [k \in 0..n |-> IF k = 0 THEN base ELSE Take(ops, c, after[k - 1], k)]
  BY <1>13
<1>15. GroupIntoHunks(ops, c) = after[n].hunks
  BY <1>1 DEF GroupIntoHunks
<1>16. PICK h : /\ h = [k \in 0..n |-> IF k = 0 THEN base ELSE Take(ops, c, h[k - 1], k)]
                /\ GroupIntoHunks(ops, c) = h[n].hunks
  <2> HIDE DEF after
  <2> QED
    BY <1>14, <1>15
<1> HIDE DEF after
<1>17. h[0] \in In[0] /\ \A k \in 1..n : h[k - 1] \in In[k - 1] => h[k] \in In[k]
  <2>1. 0 \in 0..n /\ \A k \in 1..n : k \in 0..n /\ k # 0
    BY <1>2
  <2>2. h[0] = base /\ \A k \in 1..n : h[k] = Take(ops, c, h[k - 1], k)
    BY <1>16, <2>1
  <2> QED
    BY <1>4, <1>5, <2>2
<1>18. h[n] \in Groups(ops, c, n)
  <2>1. \A k \in 0..n : h[k] \in In[k]
    BY ONLY <1>2, <1>17, LoopKeeps
  <2>2. n \in 0..n
    BY <1>2
  <2> QED
    BY <1>3, <2>1, <2>2
<1>19. GroupAt(ops, c, n, h[n])
  BY <1>18 DEF Groups
<1> QED
  BY <1>1, <1>16, <1>19 DEF GroupAt, Grouped

-----------------------------------------------------------------------------
(* A diff that is applied.                                                 *)

\* What operation q does to the lines that are dealt with.
OpDoes(ops, q, old, new) ==
  LET o == OldDone(ops, q - 1)
      n == NewDone(ops, q - 1)
  IN \/ /\ ops[q].sign = "-" /\ OldDone(ops, q) = o + 1 /\ NewDone(ops, q) = n /\ o + 1 <= Len(old)
     \/ /\ ops[q].sign = "+" /\ OldDone(ops, q) = o /\ NewDone(ops, q) = n + 1 /\ n + 1 <= Len(new)
        /\ ops[q].line = new[n + 1]
     \/ /\ ops[q].sign = " " /\ OldDone(ops, q) = o + 1 /\ NewDone(ops, q) = n + 1
        /\ o + 1 <= Len(old) /\ n + 1 <= Len(new) /\ old[o + 1] = new[n + 1]

\* The lines dealt with are lines of the texts.
Done(ops, q, old, new) == OldDone(ops, q) \in 0..Len(old) /\ NewDone(ops, q) \in 0..Len(new)

\* What each operation of a script finds done, and does: by induction over the script.
LEMMA DoneIs ==
  ASSUME NEW old \in Seq(Line), NEW new \in Seq(Line), NEW ops, Script(ops, old, new)
  PROVE  \A q \in 0..Len(ops) : Done(ops, q, old, new) /\ (q > 0 => OpDoes(ops, q, old, new))
<1>1. ops \in Seq(Ops) /\ Len(ops) \in Nat /\ Len(old) \in Nat /\ Len(new) \in Nat
  BY DEF Script
<1>2. ASSUME NEW q \in Nat, q + 1 <= Len(ops), Done(ops, q, old, new)
      PROVE  OpDoes(ops, q + 1, old, new) /\ Done(ops, q + 1, old, new)
  <2>1. PICK o \in 0..Len(old), n \in 0..Len(new) : o = OldDone(ops, q) /\ n = NewDone(ops, q)
    BY <1>2 DEF Done
  <2>2. q + 1 \in 1..Len(ops) /\ (q + 1) - 1 = q /\ q + 1 # 0
    BY ONLY <1>1, <1>2
  <2>3. PICK op \in Ops : op = ops[q + 1]
    BY <1>1, <2>2
  <2>4. OpIs(ops, q + 1, old, new)
    BY <2>2 DEF Script
  <2>5. /\ op.o = o + 1 /\ op.n = n + 1
        /\ op.sign # "+" => op.o <= Len(old) /\ op.line = old[op.o]
        /\ op.sign # "-" => op.n <= Len(new) /\ op.line = new[op.n]
    BY <2>1, <2>2, <2>3, <2>4 DEF OpIs
  <2>6. OldDone(ops, q + 1) = IF op.sign = "+" THEN op.o - 1 ELSE op.o
    BY <2>2, <2>3 DEF OldDone
  <2>7. NewDone(ops, q + 1) = IF op.sign = "-" THEN op.n - 1 ELSE op.n
    BY <2>2, <2>3 DEF NewDone
  <2>8. op.sign \in {" ", "-", "+"}
    BY DEF Ops
  <2>9. (o + 1) - 1 = o /\ (n + 1) - 1 = n
    OBVIOUS
  <2>10. CASE op.sign = "-"
    <3>1. OldDone(ops, q + 1) = o + 1 /\ NewDone(ops, q + 1) = n /\ o + 1 <= Len(old)
      BY <2>5, <2>6, <2>7, <2>9, <2>10
    <3>2. o + 1 \in 0..Len(old)
      BY ONLY <1>1, <3>1, o \in 0..Len(old)
    <3> QED
      BY <2>1, <2>2, <2>3, <2>10, <3>1, <3>2 DEF OpDoes, Done
  <2>11. CASE op.sign = "+"
    <3>1. OldDone(ops, q + 1) = o /\ NewDone(ops, q + 1) = n + 1 /\ n + 1 <= Len(new) /\ op.line = new[n + 1]
      BY <2>5, <2>6, <2>7, <2>9, <2>11
    <3>2. n + 1 \in 0..Len(new)
      BY ONLY <1>1, <3>1, n \in 0..Len(new)
    <3> QED
      BY <2>1, <2>2, <2>3, <2>11, <3>1, <3>2 DEF OpDoes, Done
  <2>12. CASE op.sign = " "
    <3>1. /\ OldDone(ops, q + 1) = o + 1 /\ NewDone(ops, q + 1) = n + 1
          /\ o + 1 <= Len(old) /\ n + 1 <= Len(new) /\ old[o + 1] = new[n + 1]
      BY <2>5, <2>6, <2>7, <2>12
    <3>2. o + 1 \in 0..Len(old) /\ n + 1 \in 0..Len(new)
      BY ONLY <1>1, <3>1, o \in 0..Len(old), n \in 0..Len(new)
    <3> QED
      BY <2>1, <2>2, <2>3, <2>12, <3>1, <3>2 DEF OpDoes, Done
  <2> QED
    BY <2>8, <2>10, <2>11, <2>12
<1> DEFINE P == {q \in Nat : q <= Len(ops) => Done(ops, q, old, new)}
<1>3. 0 \in P
  BY <1>1 DEF Done, OldDone, NewDone
<1>4. ASSUME NEW q \in Nat, q \in P PROVE q + 1 \in P
  <2>1. q + 1 <= Len(ops) => q <= Len(ops)
    BY ONLY <1>1, q \in Nat
  <2> QED
    BY <1>2, <1>4, <2>1
<1>5. \A q \in Nat : q \in P
  <2> HIDE DEF P
  <2> QED
    BY ONLY <1>3, <1>4, SetInduction
<1>6. ASSUME NEW q \in 0..Len(ops) PROVE Done(ops, q, old, new) /\ (q > 0 => OpDoes(ops, q, old, new))
  <2>1. q \in Nat /\ q <= Len(ops)
    BY ONLY <1>1, q \in 0..Len(ops)
  <2>2. Done(ops, q, old, new)
    BY <1>5, <2>1
  <2>3. ASSUME q > 0 PROVE OpDoes(ops, q, old, new)
    <3>1. q - 1 \in Nat /\ q - 1 <= Len(ops) /\ (q - 1) + 1 = q
      BY ONLY <1>1, <2>1, <2>3
    <3>2. Done(ops, q - 1, old, new)
      BY <1>5, <3>1
    <3>3. OpDoes(ops, (q - 1) + 1, old, new)
      BY ONLY <1>2, <2>1, <3>1, <3>2
    <3> QED
      BY <3>1, <3>3
  <2> QED
    BY <2>2, <2>3
<1> QED
  BY <1>6

\* The first m.
Prefix(s, m) == SubSeq(s, 1, m)

PrefixOf(S, s, m, p) == p \in Seq(S) /\ Len(p) = m /\ \A j \in 1..m : p[j] = s[j]

\* A prefix of a sequence.
LEMMA PrefixIs ==
  ASSUME NEW S, NEW s \in Seq(S), NEW m \in 0..Len(s), NEW p, p = Prefix(s, m)
  PROVE  PrefixOf(S, s, m, p)
<1> QED
  BY DEF Prefix, PrefixOf

\* One after the other.
Joins(S, p, t, both) ==
  /\ both \in Seq(S) /\ Len(both) = Len(p) + Len(t)
  /\ \A j \in 1..(Len(p) + Len(t)) : both[j] = IF j <= Len(p) THEN p[j] ELSE t[j - Len(p)]

\* A sequence after another.
LEMMA JoinIs ==
  ASSUME NEW S, NEW p \in Seq(S), NEW t \in Seq(S)
  PROVE  Joins(S, p, t, p \o t)
<1>1. PICK both : both = p \o t
  OBVIOUS
<1>2. both \in Seq(S) /\ Len(both) = Len(p) + Len(t)
  BY <1>1
<1>3. \A j \in 1..(Len(p) + Len(t)) : both[j] = IF j <= Len(p) THEN p[j] ELSE t[j - Len(p)]
  BY <1>1
<1> QED
  BY <1>1, <1>2, <1>3 DEF Joins

\* The stretch of old from its line a on, of len lines, is that of new from its b-th on.
GoesOn(old, new, a, b, len) ==
  Prefix(new, b) \o SubSeq(old, a + 1, a + len) = Prefix(new, b + len)

\* Lines that two texts share prolong a prefix of the one as the other has them.
LEMMA PrefixGoesOn ==
  ASSUME NEW S, NEW old \in Seq(S), NEW new \in Seq(S), NEW a \in Nat, NEW b \in Nat, NEW len \in Nat,
         a + len <= Len(old), b + len <= Len(new),
         \A j \in 1..len : old[a + j] = new[b + j]
  PROVE  GoesOn(old, new, a, b, len)
<1>1. PICK p, t, u, both : /\ p = Prefix(new, b) /\ t = SubSeq(old, a + 1, a + len) /\ u = Prefix(new, b + len)
                           /\ both = p \o t
  OBVIOUS
<1>2. b \in 0..Len(new) /\ b + len \in 0..Len(new) /\ Len(new) \in Nat /\ Len(old) \in Nat
  OBVIOUS
<1>3. p \in Seq(S) /\ Len(p) = b /\ \A j \in 1..b : p[j] = new[j]
  <2>1. PrefixOf(S, new, b, p)
    BY ONLY <1>1, <1>2, new \in Seq(S), PrefixIs
  <2> QED
    BY ONLY <2>1 DEF PrefixOf
<1>4. u \in Seq(S) /\ Len(u) = b + len /\ \A j \in 1..(b + len) : u[j] = new[j]
  <2>1. PICK m : m = b + len
    OBVIOUS
  <2>2. m \in 0..Len(new) /\ u = Prefix(new, m)
    BY ONLY <1>1, <1>2, <2>1
  <2>3. PrefixOf(S, new, m, u)
    BY ONLY <2>2, new \in Seq(S), PrefixIs
  <2> QED
    BY ONLY <2>1, <2>3 DEF PrefixOf
<1>5. t \in Seq(S) /\ Len(t) = len /\ \A j \in 1..len : t[j] = old[a + j]
  <2>1. \A j \in (a + 1)..(a + len) : j \in 1..Len(old)
    BY <1>2
  <2>2. t \in Seq(S) /\ Len(t) = len
    BY <1>1, <2>1
  <2>3. \A j \in 1..len : t[j] = old[(a + 1) + j - 1]
    BY <1>1
  <2>4. \A j \in 1..len : (a + 1) + j - 1 = a + j
    OBVIOUS
  <2> QED
    BY <2>2, <2>3, <2>4
<1>10. Joins(S, p, t, both)
  BY <1>1, <1>3, <1>5, JoinIs
<1>6. both \in Seq(S) /\ Len(both) = b + len
  BY <1>3, <1>5, <1>10 DEF Joins
<1>7. \A j \in 1..(b + len) : both[j] = IF j <= b THEN p[j] ELSE t[j - b]
  BY <1>3, <1>5, <1>10 DEF Joins
<1>8. ASSUME NEW j \in 1..(b + len) PROVE both[j] = u[j]
  <2>1. CASE j <= b
    <3>1. j \in 1..b
      BY ONLY <2>1, j \in 1..(b + len), b \in Nat, len \in Nat
    <3> QED
      BY <1>3, <1>4, <1>7, <2>1, <3>1
  <2>2. CASE ~(j <= b)
    <3>1. j - b \in 1..len /\ b + (j - b) = j
      BY ONLY <2>2, j \in 1..(b + len), b \in Nat, len \in Nat
    <3>2. t[j - b] = old[a + (j - b)] /\ old[a + (j - b)] = new[b + (j - b)]
      BY <1>5, <3>1
    <3> QED
      BY <1>4, <1>7, <2>2, <3>1, <3>2
  <2> QED
    BY <2>1, <2>2
<1>9. both = u
  BY ONLY <1>4, <1>6, <1>8
<1> QED
  BY <1>1, <1>9 DEF GoesOn

\* Where applyUnifiedDiff is when the first q operations are dealt with.
Mid(ops, new, q) == [text |-> Prefix(new, NewDone(ops, q)), at |-> OldDone(ops, q) + 1]

\* A prefix and the element after it.
LEMMA PrefixGrows ==
  ASSUME NEW S, NEW s \in Seq(S), NEW m \in Nat, m + 1 <= Len(s)
  PROVE  Append(Prefix(s, m), s[m + 1]) = Prefix(s, m + 1)
<1>1. PICK p, u, more : p = Prefix(s, m) /\ u = Prefix(s, m + 1) /\ more = Append(p, s[m + 1])
  OBVIOUS
<1>2. m \in 0..Len(s) /\ m + 1 \in 0..Len(s) /\ m + 1 \in 1..Len(s)
  OBVIOUS
<1>3. p \in Seq(S) /\ Len(p) = m /\ \A j \in 1..m : p[j] = s[j]
  <2>1. PrefixOf(S, s, m, p)
    BY ONLY <1>1, <1>2, s \in Seq(S), PrefixIs
  <2> QED
    BY ONLY <2>1 DEF PrefixOf
<1>4. u \in Seq(S) /\ Len(u) = m + 1 /\ \A j \in 1..(m + 1) : u[j] = s[j]
  <2>1. PICK k : k = m + 1
    OBVIOUS
  <2>2. k \in 0..Len(s) /\ u = Prefix(s, k)
    BY ONLY <1>1, <1>2, <2>1
  <2>3. PrefixOf(S, s, k, u)
    BY ONLY <2>2, s \in Seq(S), PrefixIs
  <2> QED
    BY ONLY <2>1, <2>3 DEF PrefixOf
<1>5. PICK e \in S : e = s[m + 1]
  BY <1>2
<1>6. more = Append(p, e)
  BY <1>1, <1>5
<1>7. more \in Seq(S) /\ Len(more) = Len(p) + 1 /\ more[Len(p) + 1] = e /\ \A j \in 1..Len(p) : more[j] = p[j]
  BY ONLY <1>3, <1>6, e \in S
<1>8. ASSUME NEW j \in 1..(m + 1) PROVE more[j] = u[j]
  <2>1. j \in 1..m \/ j = m + 1
    BY ONLY m \in Nat, j \in 1..(m + 1)
  <2> QED
    BY <1>3, <1>4, <1>5, <1>7, <2>1
<1>9. more = u
  BY ONLY <1>3, <1>4, <1>7, <1>8
<1> QED
  BY <1>1, <1>9

\* Applying the line of an operation moves from before the operation to after it.
LEMMA ApplyLineIs ==
  ASSUME NEW old \in Seq(Line), NEW new \in Seq(Line), NEW ops, Script(ops, old, new),
         NEW q \in 1..Len(ops)
  PROVE  ApplyLine(old, Mid(ops, new, q - 1), DiffLine(ops[q])) = Mid(ops, new, q)
<1>1. ops \in Seq(Ops) /\ Len(ops) \in Nat /\ Len(old) \in Nat /\ Len(new) \in Nat
  BY DEF Script
<1>2. q \in 0..Len(ops) /\ q - 1 \in 0..Len(ops) /\ q > 0
  BY ONLY <1>1, q \in 1..Len(ops)
<1>3. OpDoes(ops, q, old, new) /\ Done(ops, q - 1, old, new)
  BY <1>2, DoneIs
<1>4. PICK o \in Nat, n \in Nat : o = OldDone(ops, q - 1) /\ n = NewDone(ops, q - 1)
  BY <1>1, <1>3 DEF Done
<1>5. PICK sign, line : sign = ops[q].sign /\ line = ops[q].line
  OBVIOUS
<1>6. PICK l : l = [sign |-> sign, line |-> line] /\ l = DiffLine(ops[q])
  BY <1>5 DEF DiffLine
<1>7. PICK p : p = Prefix(new, n)
  OBVIOUS
<1>8. PICK acc : acc = [text |-> p, at |-> o + 1] /\ acc = Mid(ops, new, q - 1)
  BY <1>4, <1>7 DEF Mid
<1>9. l.sign = sign /\ l.line = line /\ acc.text = p /\ acc.at = o + 1
  BY <1>6, <1>8
<1>10. CASE sign = "-"
  <2>1. OldDone(ops, q) = o + 1 /\ NewDone(ops, q) = n /\ o + 1 <= Len(old)
    BY <1>3, <1>4, <1>5, <1>10 DEF OpDoes
  <2>2. Smaller(o + 1, Len(old)) + 1 = (o + 1) + 1
    BY ONLY <1>1, <2>1, o \in Nat DEF Smaller
  <2>3. ApplyLine(old, acc, l) = [acc EXCEPT !.at = Smaller(acc.at, Len(old)) + 1]
    BY <1>9, <1>10 DEF ApplyLine
  <2>4. [acc EXCEPT !.at = Smaller(acc.at, Len(old)) + 1] = [text |-> p, at |-> (o + 1) + 1]
    BY <1>8, <1>9, <2>2
  <2> QED
    BY <1>6, <1>7, <1>8, <2>1, <2>3, <2>4 DEF Mid
<1>11. CASE sign = "+"
  <2>1. OldDone(ops, q) = o /\ NewDone(ops, q) = n + 1 /\ n + 1 <= Len(new) /\ line = new[n + 1]
    BY <1>3, <1>4, <1>5, <1>11 DEF OpDoes
  <2>2. Append(p, line) = Prefix(new, n + 1)
    BY <1>7, <2>1, PrefixGrows
  <2>3. ApplyLine(old, acc, l) = [acc EXCEPT !.text = Append(acc.text, l.line)]
    BY <1>9, <1>11 DEF ApplyLine
  <2>4. [acc EXCEPT !.text = Append(acc.text, l.line)] = [text |-> Prefix(new, n + 1), at |-> o + 1]
    <3>1. PICK t : t = Append(acc.text, l.line)
      OBVIOUS
    <3>2. [acc EXCEPT !.text = t] = [text |-> t, at |-> o + 1]
      BY ONLY <1>8
    <3>3. t = Prefix(new, n + 1)
      BY <1>9, <2>2, <3>1
    <3> QED
      BY ONLY <3>1, <3>2, <3>3
  <2> QED
    BY <1>6, <1>8, <2>1, <2>3, <2>4 DEF Mid
<1>12. CASE sign = " "
  <2>1. /\ OldDone(ops, q) = o + 1 /\ NewDone(ops, q) = n + 1
        /\ o + 1 <= Len(old) /\ n + 1 <= Len(new) /\ old[o + 1] = new[n + 1]
    BY <1>3, <1>4, <1>5, <1>12 DEF OpDoes
  <2>2. Smaller(o + 1, Len(old)) + 1 = (o + 1) + 1
    BY ONLY <1>1, <2>1, o \in Nat DEF Smaller
  <2>3. Append(p, old[o + 1]) = Prefix(new, n + 1)
    BY <1>7, <2>1, PrefixGrows
  <2>4. ApplyLine(old, acc, l) = [text |-> Append(acc.text, IF acc.at <= Len(old) THEN old[acc.at] ELSE l.line),
                                  at |-> Smaller(acc.at, Len(old)) + 1]
    BY <1>9, <1>12 DEF ApplyLine
  <2> QED
    BY <1>6, <1>8, <1>9, <2>1, <2>2, <2>3, <2>4 DEF Mid
<1> QED
  BY <1>3, <1>5, <1>10, <1>11, <1>12 DEF OpDoes

\* The lines between two stretches are the same in both texts.
SameLines(ops, old, new, b, d) ==
  /\ OldDone(ops, b) <= OldDone(ops, d)
  /\ Prefix(new, NewDone(ops, b)) \o SubSeq(old, OldDone(ops, b) + 1, OldDone(ops, d))
       = Prefix(new, NewDone(ops, d))

\* Where the script keeps every line, the two texts have the same ones.
LEMMA GapIs ==
  ASSUME NEW old \in Seq(Line), NEW new \in Seq(Line), NEW ops, Script(ops, old, new),
         NEW b \in Nat, NEW d \in Nat, b <= d, d <= Len(ops), \A q \in (b + 1)..d : ops[q].sign = " "
  PROVE  SameLines(ops, old, new, b, d)
<1>14. ops \in Seq(Ops)
  BY DEF Script
<1>1. Len(ops) \in Nat /\ Len(old) \in Nat /\ Len(new) \in Nat
  BY ONLY <1>14, old \in Seq(Line), new \in Seq(Line)
<1>2. b \in Nat /\ d \in Nat /\ b <= d /\ d <= Len(ops) /\ b \in 0..Len(ops) /\ d \in 0..Len(ops)
  <2>1. b <= d /\ d <= Len(ops)
    OBVIOUS
  <2> QED
    BY ONLY <1>1, <2>1, b \in Nat, d \in Nat
<1>3. PICK o \in Nat, n \in Nat : o = OldDone(ops, b) /\ n = NewDone(ops, b)
  <2>1. Done(ops, b, old, new)
    BY <1>2, DoneIs
  <2>2. OldDone(ops, b) \in 0..Len(old) /\ NewDone(ops, b) \in 0..Len(new)
    BY <2>1 DEF Done
  <2>3. OldDone(ops, b) \in Nat /\ NewDone(ops, b) \in Nat
    BY ONLY <1>1, <2>2
  <2> QED
    BY <2>3
<1> DEFINE P == {k \in Nat : b + k <= d => OldDone(ops, b + k) = o + k /\ NewDone(ops, b + k) = n + k}
<1>4. 0 \in P
  <2>1. b + 0 = b /\ o + 0 = o /\ n + 0 = n
    BY ONLY <1>2, o \in Nat, n \in Nat
  <2> QED
    BY <1>3, <2>1
<1>5. ASSUME NEW k \in Nat, b + (k + 1) <= d, k \in P
      PROVE  /\ OldDone(ops, b + (k + 1)) = o + (k + 1) /\ NewDone(ops, b + (k + 1)) = n + (k + 1)
             /\ old[o + (k + 1)] = new[n + (k + 1)]
  <2>1. PICK q \in 0..Len(ops) : q = b + (k + 1)
    <3>1. b + (k + 1) \in 0..Len(ops)
      BY ONLY <1>1, <1>2, <1>5, k \in Nat
    <3> QED
      BY <3>1
  <2>2. q > 0 /\ q - 1 = b + k /\ b + k <= d /\ q \in (b + 1)..d
    BY ONLY <1>1, <1>2, <1>5, <2>1, k \in Nat
  <2>3. ops[q].sign = " " /\ OpDoes(ops, q, old, new)
    BY <2>2, DoneIs
  <2>4. OldDone(ops, q - 1) = o + k /\ NewDone(ops, q - 1) = n + k
    BY <1>5, <2>2
  <2>5. /\ OldDone(ops, q) = (o + k) + 1 /\ NewDone(ops, q) = (n + k) + 1
        /\ old[(o + k) + 1] = new[(n + k) + 1]
    BY <2>3, <2>4 DEF OpDoes
  <2>6. (o + k) + 1 = o + (k + 1) /\ (n + k) + 1 = n + (k + 1)
    BY ONLY k \in Nat, o \in Nat, n \in Nat
  <2> QED
    BY <2>1, <2>5, <2>6
<1>6. ASSUME NEW k \in Nat, k \in P PROVE k + 1 \in P
  <2>1. ASSUME b + (k + 1) <= d PROVE OldDone(ops, b + (k + 1)) = o + (k + 1) /\ NewDone(ops, b + (k + 1)) = n + (k + 1)
    BY <1>5, <1>6, <2>1
  <2>2. k + 1 \in Nat
    BY ONLY k \in Nat
  <2> QED
    BY <2>1, <2>2
<1>7. \A k \in Nat : k \in P
  <2> HIDE DEF P
  <2> QED
    BY ONLY <1>4, <1>6, SetInduction
<1>8. PICK len \in Nat : len = d - b /\ b + len = d
  <2>1. d - b \in Nat /\ b + (d - b) = d
    BY ONLY <1>2
  <2> QED
    BY <2>1
<1>9. OldDone(ops, d) = o + len /\ NewDone(ops, d) = n + len
  <2>1. len \in P /\ b + len <= d
    <3>1. b + len <= d
      BY ONLY <1>2, <1>8
    <3> QED
      BY <1>7, <3>1
  <2> QED
    BY <1>8, <2>1
<1>10. o + len <= Len(old) /\ n + len <= Len(new)
  <2>1. Done(ops, d, old, new)
    BY <1>2, DoneIs
  <2>2. o + len \in 0..Len(old) /\ n + len \in 0..Len(new)
    BY <1>9, <2>1 DEF Done
  <2> QED
    BY ONLY <1>1, <2>2
<1>11. ASSUME NEW j \in 1..len PROVE old[o + j] = new[n + j]
  <2>1. PICK k \in Nat : j = k + 1
    <3>1. j - 1 \in Nat /\ j = (j - 1) + 1
      BY ONLY j \in 1..len, len \in Nat
    <3> QED
      BY <3>1
  <2>2. b + (k + 1) <= d
    BY ONLY <1>2, <1>8, <2>1, j \in 1..len, len \in Nat
  <2> QED
    BY <1>5, <1>7, <2>1, <2>2
<1>12. Prefix(new, n) \o SubSeq(old, o + 1, o + len) = Prefix(new, n + len)
  <2>1. \A j \in 1..len : old[o + j] = new[n + j]
    BY <1>11
  <2>2. GoesOn(old, new, o, n, len)
    BY ONLY <1>10, <2>1, old \in Seq(Line), new \in Seq(Line), o \in Nat, n \in Nat, len \in Nat, PrefixGoesOn
  <2> QED
    BY <2>2 DEF GoesOn
<1>13. o <= o + len
  BY ONLY o \in Nat, len \in Nat
<1> QED
  BY <1>3, <1>9, <1>12, <1>13 DEF SameLines

\* Applying the lines of a stretch moves from before the stretch to after it.
LEMMA ApplyLinesIs ==
  ASSUME NEW old \in Seq(Line), NEW new \in Seq(Line), NEW ops, Script(ops, old, new),
         NEW a \in Nat, NEW b \in Nat, 1 <= a, a <= b, b <= Len(ops), NEW e, e = a - 1
  PROVE  ApplyLines(old, Mid(ops, new, e), Between(ops, a, b)) = Mid(ops, new, b)
<1>1. PICK n, acc, lines : n = b + 1 - a /\ acc = Mid(ops, new, a - 1) /\ lines = Between(ops, a, b)
  OBVIOUS
<1>2. ops \in Seq(Ops) /\ Len(ops) \in Nat
  <2>1. ops \in Seq(Ops)
    BY DEF Script
  <2> QED
    BY ONLY <2>1
<1>3. n \in Nat /\ (a - 1) + n = b /\ (a - 1) + 0 = a - 1 /\ a <= b + 1
  <2>1. 1 <= a /\ a <= b
    OBVIOUS
  <2> QED
    BY ONLY <1>1, <2>1, a \in Nat, b \in Nat
<1>4. Len(lines) = n /\ \A j \in 1..n : lines[j] = DiffLine(ops[a + j - 1])
  <2>1. LinesFrom(ops, a, b + 1 - a, Between(ops, a, b))
    BY <1>2, <1>3, BetweenIs
  <2> QED
    BY <1>1, <2>1 DEF LinesFrom
<1>5. PICK g : g = [i \in 0..n |-> Mid(ops, new, (a - 1) + i)]
  OBVIOUS
<1>6. ASSUME NEW i \in 1..n
      PROVE  /\ i \in 0..n /\ i - 1 \in 0..n /\ i # 0
             /\ Mid(ops, new, (a - 1) + i) = ApplyLine(old, Mid(ops, new, (a - 1) + (i - 1)), lines[i])
  <2>1. i \in 0..n /\ i - 1 \in 0..n /\ i # 0
    BY ONLY <1>3, i \in 1..n
  <2>2. PICK q \in 1..Len(ops) : q = (a - 1) + i /\ q = a + i - 1 /\ q - 1 = (a - 1) + (i - 1)
    <3>1. 1 <= a /\ a <= b /\ b <= Len(ops)
      OBVIOUS
    <3>2. (a - 1) + i \in 1..Len(ops) /\ (a - 1) + i = a + i - 1 /\ ((a - 1) + i) - 1 = (a - 1) + (i - 1)
      BY ONLY <1>2, <1>3, <3>1, a \in Nat, b \in Nat, i \in 1..n
    <3> QED
      BY <3>2
  <2>3. ApplyLine(old, Mid(ops, new, q - 1), DiffLine(ops[q])) = Mid(ops, new, q)
    BY ApplyLineIs
  <2> QED
    BY <1>4, <2>1, <2>2, <2>3
<1>7. g = [i \in 0..n |-> IF i = 0 THEN acc ELSE ApplyLine(old, g[i - 1], lines[i])]
  <2>1. ASSUME NEW i \in 0..n PROVE g[i] = IF i = 0 THEN acc ELSE ApplyLine(old, g[i - 1], lines[i])
    <3>1. CASE i = 0
      BY <1>1, <1>3, <1>5, <3>1
    <3>2. CASE i # 0
      <4>1. i \in 1..n
        BY ONLY <1>3, <3>2, i \in 0..n
      <4> QED
        BY <1>5, <1>6, <3>2, <4>1
    <3> QED
      BY <3>1, <3>2
  <2> QED
    BY <1>5, <2>1
<1> DEFINE after[i \in 0..n] == IF i = 0 THEN acc ELSE ApplyLine(old, after[i - 1], lines[i])
<1>8. after = [i \in 0..n |-> IF i = 0 THEN acc ELSE ApplyLine(old, after[i - 1], lines[i])]
  BY <1>7
<1>9. ApplyLines(old, acc, lines) = after[n]
  BY <1>4 DEF ApplyLines
<1>10. PICK h : /\ h = [i \in 0..n |-> IF i = 0 THEN acc ELSE ApplyLine(old, h[i - 1], lines[i])]
                /\ ApplyLines(old, acc, lines) = h[n]
  <2> HIDE DEF after
  <2> QED
    BY <1>8, <1>9
<1> HIDE DEF after
<1>11. PICK In : In = [i \in 0..n |-> {Mid(ops, new, (a - 1) + i)}]
  OBVIOUS
<1>12. h[0] \in In[0] /\ \A i \in 1..n : h[i - 1] \in In[i - 1] => h[i] \in In[i]
  <2>1. 0 \in 0..n
    BY ONLY <1>3
  <2>2. h[0] = acc /\ In[0] = {Mid(ops, new, a - 1)}
    BY <1>3, <1>10, <1>11, <2>1
  <2>3. ASSUME NEW i \in 1..n, h[i - 1] \in In[i - 1] PROVE h[i] \in In[i]
    <3>1. h[i - 1] = Mid(ops, new, (a - 1) + (i - 1))
      BY <1>6, <1>11, <2>3
    <3>2. h[i] = ApplyLine(old, h[i - 1], lines[i])
      BY <1>6, <1>10
    <3> QED
      BY <1>6, <1>11, <3>1, <3>2
  <2> QED
    BY <1>1, <2>2, <2>3
<1>13. h[n] \in In[n]
  <2>1. \A i \in 0..n : h[i] \in In[i]
    BY ONLY <1>3, <1>12, LoopKeeps
  <2>2. n \in 0..n
    BY ONLY <1>3
  <2> QED
    BY <2>1, <2>2
<1>14. h[n] = Mid(ops, new, b)
  <2>1. n \in 0..n
    BY ONLY <1>3
  <2> QED
    BY <1>3, <1>11, <1>13, <2>1
<1> QED
  BY <1>1, <1>10, <1>14

\* The stretch from a to b brings the text from where it is after e operations to b.
HunkMakes(ops, old, new, e, a, b) ==
  ApplyHunk(old, Mid(ops, new, e), Hunk(ops, a, b)) = Mid(ops, new, b)

\* A hunk of a script brings the text from the operations before to those after it.
LEMMA ApplyHunkIs ==
  ASSUME NEW old \in Seq(Line), NEW new \in Seq(Line), NEW ops, Script(ops, old, new),
         NEW e \in Nat, NEW a \in Nat, NEW b \in Nat, e < a, a <= b, b <= Len(ops),
         \A q \in (e + 1)..(a - 1) : ops[q].sign = " "
  PROVE  HunkMakes(ops, old, new, e, a, b)
<1>1. ops \in Seq(Ops)
  BY DEF Script
<1>2. Len(ops) \in Nat /\ Len(old) \in Nat
  BY ONLY <1>1, old \in Seq(Line)
<1>3. a - 1 \in Nat /\ e <= a - 1 /\ a - 1 <= Len(ops) /\ 1 <= a /\ a \in 1..Len(ops) /\ a - 1 \in 0..Len(ops)
  <2>1. e < a /\ a <= b /\ b <= Len(ops)
    OBVIOUS
  <2> QED
    BY ONLY <1>2, <2>1, e \in Nat, a \in Nat, b \in Nat
<1>4. PICK o, m : o = OldDone(ops, e) /\ m = OldDone(ops, a - 1)
  OBVIOUS
<1>5. /\ o <= m
      /\ Prefix(new, NewDone(ops, e)) \o SubSeq(old, o + 1, m) = Prefix(new, NewDone(ops, a - 1))
  <2>1. SameLines(ops, old, new, e, a - 1)
    <3>1. PICK d \in Nat : d = a - 1
      BY <1>3
    <3>2. e <= d /\ d <= Len(ops) /\ \A q \in (e + 1)..d : ops[q].sign = " "
      BY <1>3, <3>1
    <3>3. SameLines(ops, old, new, e, d)
      BY <3>2, GapIs
    <3> QED
      BY <3>1, <3>3
  <2> QED
    BY <1>4, <2>1 DEF SameLines
<1>6. o \in Nat /\ m \in Nat /\ m <= Len(old)
  <2>1. e \in 0..Len(ops)
    BY ONLY <1>2, <1>3, e \in Nat
  <2>2. Done(ops, e, old, new) /\ Done(ops, a - 1, old, new)
    BY <1>3, <2>1, DoneIs
  <2>3. o \in 0..Len(old) /\ m \in 0..Len(old)
    BY <1>4, <2>2 DEF Done
  <2> QED
    BY ONLY <1>2, <2>3
<1>7. PICK hunk, acc : hunk = Hunk(ops, a, b) /\ acc = Mid(ops, new, e)
  OBVIOUS
<1>8. hunk.oldStart = ops[a].o /\ hunk.lines = Between(ops, a, b)
      /\ acc.text = Prefix(new, NewDone(ops, e)) /\ acc.at = o + 1
  BY <1>4, <1>7 DEF Hunk, Mid
<1>9. ops[a].o = m + 1
  <2>1. OpIs(ops, a, old, new)
    BY <1>3 DEF Script
  <2> QED
    BY <1>4, <2>1 DEF OpIs
<1>10. Smaller(hunk.oldStart - 1, Len(old)) = m /\ hunk.oldStart # 0
  <2>1. hunk.oldStart = m + 1
    BY <1>8, <1>9
  <2> QED
    BY ONLY <1>2, <1>6, <2>1 DEF Smaller
<1>11. Larger(acc.at, m + 1) = m + 1
  <2>1. acc.at = o + 1 /\ o <= m
    BY <1>5, <1>8
  <2> QED
    BY ONLY <1>6, <2>1 DEF Larger
<1>12. CopyUpTo(old, acc, hunk) = Mid(ops, new, a - 1)
  BY <1>4, <1>5, <1>8, <1>10, <1>11 DEF CopyUpTo, Mid
<1>13. ApplyHunk(old, acc, hunk) = ApplyLines(old, Mid(ops, new, a - 1), Between(ops, a, b))
  BY <1>8, <1>10, <1>12 DEF ApplyHunk
<1>14. ApplyLines(old, Mid(ops, new, a - 1), Between(ops, a, b)) = Mid(ops, new, b)
  <2>1. PICK d : d = a - 1
    OBVIOUS
  <2>2. a <= b /\ b <= Len(ops) /\ Script(ops, old, new)
    OBVIOUS
  <2>3. ApplyLines(old, Mid(ops, new, d), Between(ops, a, b)) = Mid(ops, new, b)
    BY ONLY <1>3, <2>1, <2>2, old \in Seq(Line), new \in Seq(Line), a \in Nat, b \in Nat, ApplyLinesIs
  <2> QED
    BY <2>1, <2>3
<1> QED
  BY <1>7, <1>13, <1>14 DEF HunkMakes

\* Outside the stretches nothing changes.
LEMMA SpansGap ==
  ASSUME NEW ops, NEW i \in Nat, NEW n, NEW from, NEW to, Spans(ops, i, n, from, to),
         NEW x \in 1..(n + 1), NEW q \in 1..i, x > 1 => to[x - 1] < q, x <= n => q < from[x]
  PROVE  ops[q].sign = " "
<1>1. n \in Nat
  BY DEF Spans
<1>2. from \in [1..n -> 1..i] /\ to \in [1..n -> 1..i]
  BY DEF Spans
<1>3. \A y \in 1..n : from[y] <= to[y]
  BY DEF Spans
<1>4. \A y, z \in 1..n : y < z => to[y] < from[z]
  BY DEF Spans
<1>5. SUFFICES ASSUME ops[q].sign # " " PROVE FALSE
  OBVIOUS
<1>6. PICK y \in 1..n : from[y] <= q /\ q <= to[y]
  BY <1>5 DEF Spans
<1>7. from[y] \in 1..i /\ to[y] \in 1..i
  BY ONLY <1>2, y \in 1..n
<1>8. CASE y < x
  <2>1. x - 1 \in 1..n /\ x > 1 /\ (y = x - 1 \/ y < x - 1)
    BY ONLY <1>1, <1>8, y \in 1..n, x \in 1..(n + 1)
  <2>2. from[x - 1] \in 1..i /\ to[x - 1] \in 1..i /\ from[x - 1] <= to[x - 1]
    BY ONLY <1>2, <1>3, <2>1
  <2>3. y < x - 1 => to[y] < from[x - 1]
    BY ONLY <1>4, <2>1, y \in 1..n
  <2>4. to[x - 1] < q
    BY <2>1
  <2>5. y = x - 1 => to[y] = to[x - 1]
    OBVIOUS
  <2>6. y = x - 1 \/ y < x - 1
    BY <2>1
  <2> QED
    BY ONLY <1>6, <1>7, <2>2, <2>3, <2>4, <2>5, <2>6, i \in Nat, q \in 1..i
<1>9. CASE ~(y < x)
  <2>1. x \in 1..n /\ x <= n /\ (x = y \/ x < y)
    BY ONLY <1>1, <1>9, y \in 1..n, x \in 1..(n + 1)
  <2>2. q < from[x]
    BY <2>1
  <2>3. from[x] \in 1..i /\ to[x] \in 1..i /\ from[x] <= to[x]
    BY ONLY <1>2, <1>3, <2>1
  <2>4. x < y => to[x] < from[y]
    BY ONLY <1>4, <2>1, y \in 1..n
  <2>5. x = y => from[x] = from[y]
    OBVIOUS
  <2>6. x = y \/ x < y
    BY <2>1
  <2> QED
    BY ONLY <1>6, <1>7, <2>2, <2>3, <2>4, <2>5, <2>6, i \in Nat, q \in 1..i
<1> QED
  BY <1>8, <1>9

\* A diff whose hunks are stretches of a script makes the new text of the old one.
LEMMA ApplyIs ==
  ASSUME NEW old \in Seq(Line), NEW new \in Seq(Line), NEW ops, WholeScript(ops, old, new),
         NEW diff, Grouped(ops, diff)
  PROVE  ApplyUnifiedDiff(old, diff) = new
<1>1. Script(ops, old, new) /\ OldDone(ops, Len(ops)) = Len(old) /\ NewDone(ops, Len(ops)) = Len(new)
  BY DEF WholeScript
<1>2. ops \in Seq(Ops)
  BY <1>1 DEF Script
<1>3. PICK m \in Nat : m = Len(ops)
  BY <1>2
<1>4. PICK n, from, to : Spans(ops, m, n, from, to) /\ diff = Hunks(ops, n, from, to)
  BY <1>3 DEF Grouped
<1>5. n \in Nat /\ from \in [1..n -> 1..m] /\ to \in [1..n -> 1..m]
  BY <1>4 DEF Spans
<1>6. n \in Nat
  BY <1>5
<1>7. \A y \in 1..n : from[y] <= to[y]
  BY <1>4 DEF Spans
<1>8. \A y, z \in 1..n : y < z => to[y] < from[z]
  BY <1>4 DEF Spans
<1>9. Len(diff) = n /\ \A x \in 1..n : diff[x] = Hunk(ops, from[x], to[x])
  <2>1. m \in 0..Len(ops)
    BY ONLY <1>3
  <2> QED
    BY <1>2, <1>4, <2>1, HunksAre
<1>10. PICK end : end = [x \in 0..n |-> IF x = 0 THEN 0 ELSE to[x]]
  OBVIOUS
<1>11. PICK acc : acc = [text |-> <<>>, at |-> 1]
  OBVIOUS
<1>12. acc = Mid(ops, new, 0)
  <2>1. Prefix(new, 0) = <<>>
    BY DEF Prefix
  <2>2. OldDone(ops, 0) = 0 /\ NewDone(ops, 0) = 0
    BY DEF OldDone, NewDone
  <2>3. 0 + 1 = 1
    OBVIOUS
  <2> QED
    BY <1>11, <2>1, <2>2, <2>3 DEF Mid
<1>13. end[0] = 0 /\ 0 \in 0..n /\ n \in 0..n
  BY <1>6, <1>10
<1>14. ASSUME NEW x \in 0..n PROVE end[x] \in 0..m
  <2>1. x # 0 => x \in 1..n
    BY ONLY <1>6, x \in 0..n
  <2>2. x # 0 => to[x] \in 1..m
    BY ONLY <1>5, <2>1
  <2>3. end[x] = IF x = 0 THEN 0 ELSE to[x]
    BY <1>10
  <2> QED
    BY ONLY <2>2, <2>3, m \in Nat
<1>15. ASSUME NEW x \in 1..n
       PROVE  /\ x \in 0..n /\ x - 1 \in 0..n /\ x # 0
              /\ Mid(ops, new, end[x]) = ApplyHunk(old, Mid(ops, new, end[x - 1]), diff[x])
  <2>1. x \in 0..n /\ x - 1 \in 0..n /\ x # 0 /\ (x - 1 = 0 \/ x - 1 \in 1..n) /\ x - 1 < x
        /\ x \in 1..(n + 1) /\ x <= n /\ (x > 1 => x - 1 \in 1..n /\ x - 1 # 0)
    BY ONLY <1>6, x \in 1..n
  <2>2. PICK e \in Nat, a \in Nat, b \in Nat : e = end[x - 1] /\ a = from[x] /\ b = to[x] /\ b = end[x]
    <3>1. from[x] \in 1..m /\ to[x] \in 1..m
      BY ONLY <1>5, x \in 1..n
    <3>2. end[x - 1] \in 0..m
      BY <1>14, <2>1
    <3>3. from[x] \in Nat /\ to[x] \in Nat /\ end[x - 1] \in Nat
      BY ONLY <3>1, <3>2, m \in Nat
    <3>4. end[x] = to[x]
      BY <1>10, <2>1
    <3> QED
      BY <3>3, <3>4
  <2>3. a <= b /\ a \in 1..m /\ b \in 1..m
    BY <1>5, <1>7, <2>2
  <2>4. e < a
    <3>1. CASE x - 1 = 0
      <4>1. e = 0
        BY <1>13, <2>2, <3>1
      <4> QED
        BY ONLY <2>3, <4>1, m \in Nat
    <3>2. CASE x - 1 \in 1..n
      <4>1. to[x - 1] < from[x]
        BY ONLY <1>8, <2>1, <3>2, x \in 1..n
      <4>2. x - 1 # 0
        BY ONLY <1>6, <3>2
      <4>3. e = to[x - 1]
        BY <1>10, <2>1, <2>2, <4>2
      <4> QED
        BY <2>2, <4>1, <4>3
    <3> QED
      BY <2>1, <3>1, <3>2
  <2>5. ASSUME NEW q \in (e + 1)..(a - 1) PROVE ops[q].sign = " "
    <3>1. q \in 1..m /\ q < a /\ e < q
      BY ONLY <2>3, q \in (e + 1)..(a - 1), e \in Nat, a \in Nat, m \in Nat
    <3>2. x > 1 => to[x - 1] < q
      <4>1. x > 1 => end[x - 1] = to[x - 1]
        BY <1>10, <2>1
      <4> QED
        BY <2>2, <3>1, <4>1
    <3>3. x <= n => q < from[x]
      BY <2>2, <3>1
    <3> QED
      BY ONLY <1>4, <2>1, <3>1, <3>2, <3>3, m \in Nat, SpansGap
  <2>6. b <= Len(ops)
    BY ONLY <1>3, <2>3
  <2>7. ApplyHunk(old, Mid(ops, new, e), Hunk(ops, a, b)) = Mid(ops, new, b)
    <3>1. \A q \in (e + 1)..(a - 1) : ops[q].sign = " "
      BY <2>5
    <3>2. a <= b
      BY <2>3
    <3>3. Script(ops, old, new)
      BY <1>1
    <3>4. HunkMakes(ops, old, new, e, a, b)
      BY ONLY <2>4, <2>6, <3>1, <3>2, <3>3, old \in Seq(Line), new \in Seq(Line), e \in Nat, a \in Nat, b \in Nat,
              ApplyHunkIs
    <3> QED
      BY <3>4 DEF HunkMakes
  <2> QED
    BY <1>9, <2>1, <2>2, <2>7
<1>16. PICK g : g = [x \in 0..n |-> Mid(ops, new, end[x])]
  OBVIOUS
<1>17. g = [x \in 0..n |-> IF x = 0 THEN acc ELSE ApplyHunk(old, g[x - 1], diff[x])]
  <2>1. ASSUME NEW x \in 0..n PROVE g[x] = IF x = 0 THEN acc ELSE ApplyHunk(old, g[x - 1], diff[x])
    <3>1. CASE x = 0
      BY <1>12, <1>13, <1>16, <3>1
    <3>2. CASE x # 0
      <4>1. x \in 1..n
        BY ONLY <1>6, <3>2, x \in 0..n
      <4> QED
        BY <1>15, <1>16, <3>2, <4>1
    <3> QED
      BY <3>1, <3>2
  <2> QED
    BY <1>16, <2>1
<1> DEFINE after[x \in 0..n] == IF x = 0 THEN acc ELSE ApplyHunk(old, after[x - 1], diff[x])
<1>18. after = [x \in 0..n |-> IF x = 0 THEN acc ELSE ApplyHunk(old, after[x - 1], diff[x])]
  BY <1>17
<1>19. ApplyUnifiedDiff(old, diff) = after[n].text \o SubSeq(old, after[n].at, Len(old))
  BY <1>9, <1>11 DEF ApplyUnifiedDiff
<1>20. PICK h : /\ h = [x \in 0..n |-> IF x = 0 THEN acc ELSE ApplyHunk(old, h[x - 1], diff[x])]
                /\ ApplyUnifiedDiff(old, diff) = h[n].text \o SubSeq(old, h[n].at, Len(old))
  <2> HIDE DEF after
  <2> QED
    BY <1>18, <1>19
<1> HIDE DEF after
<1>21. PICK In : In = [x \in 0..n |-> {Mid(ops, new, end[x])}]
  OBVIOUS
<1>22. h[0] \in In[0] /\ \A x \in 1..n : h[x - 1] \in In[x - 1] => h[x] \in In[x]
  <2>1. h[0] = acc /\ In[0] = {Mid(ops, new, 0)}
    BY <1>13, <1>20, <1>21
  <2>2. ASSUME NEW x \in 1..n, h[x - 1] \in In[x - 1] PROVE h[x] \in In[x]
    <3>1. h[x - 1] = Mid(ops, new, end[x - 1])
      BY <1>15, <1>21, <2>2
    <3>2. h[x] = ApplyHunk(old, h[x - 1], diff[x])
      BY <1>15, <1>20
    <3> QED
      BY <1>15, <1>21, <3>1, <3>2
  <2> QED
    BY <1>12, <2>1, <2>2
<1>23. h[n] = Mid(ops, new, end[n])
  <2>1. \A x \in 0..n : h[x] \in In[x]
    BY ONLY <1>6, <1>22, LoopKeeps
  <2> QED
    BY <1>13, <1>21, <2>1
<1>24. PICK e \in Nat : e = end[n] /\ e <= m
  <2>1. end[n] \in 0..m
    BY <1>13, <1>14
  <2>2. end[n] \in Nat /\ end[n] <= m
    BY ONLY <2>1, m \in Nat
  <2> QED
    BY <2>2
<1>25. ASSUME NEW q \in (e + 1)..m PROVE ops[q].sign = " "
  <2>1. q \in 1..m /\ e < q
    BY ONLY q \in (e + 1)..m, e \in Nat, m \in Nat
  <2>2. n + 1 \in 1..(n + 1) /\ ~(n + 1 <= n) /\ (n + 1 > 1 => n # 0) /\ (n + 1) - 1 = n
    BY ONLY <1>6
  <2>3. PICK x \in 1..(n + 1) : x = n + 1 /\ ~(x <= n) /\ (x > 1 => n # 0) /\ x - 1 = n
    BY <2>2
  <2>4. x > 1 => to[x - 1] < q
    BY <1>10, <1>13, <1>24, <2>1, <2>3
  <2>5. x <= n => q < from[x]
    BY <2>3
  <2> QED
    BY ONLY <1>4, <2>1, <2>4, <2>5, x \in 1..(n + 1), m \in Nat, SpansGap
<1>26. SameLines(ops, old, new, e, m)
  <2>1. e <= m /\ m <= Len(ops) /\ \A q \in (e + 1)..m : ops[q].sign = " "
    <3>1. m <= Len(ops)
      BY ONLY <1>3
    <3> QED
      BY <1>24, <1>25, <3>1
  <2> QED
    BY ONLY <1>1, <2>1, old \in Seq(Line), new \in Seq(Line), e \in Nat, m \in Nat, GapIs
<1>27. Prefix(new, NewDone(ops, e)) \o SubSeq(old, OldDone(ops, e) + 1, Len(old)) = Prefix(new, Len(new))
  BY <1>1, <1>3, <1>26 DEF SameLines
<1>28. h[n].text = Prefix(new, NewDone(ops, e)) /\ h[n].at = OldDone(ops, e) + 1
  BY <1>23, <1>24 DEF Mid
<1>29. Prefix(new, Len(new)) = new
  BY SubSeqFull DEF Prefix
<1> QED
  BY <1>20, <1>27, <1>28, <1>29

-----------------------------------------------------------------------------
(* A diff that is inverted.                                                *)

\* The script that makes the old text of the new one.
Flip(sign) == IF sign = "+" THEN "-" ELSE IF sign = "-" THEN "+" ELSE " "
FlipOp(op) == [sign |-> Flip(op.sign), o |-> op.n, n |-> op.o, line |-> op.line]
FlipAll(ops) == [q \in 1..Len(ops) |-> FlipOp(ops[q])]

\* One operation of it.
Flipped(g, op) == g.sign = Flip(op.sign) /\ g.o = op.n /\ g.n = op.o /\ g.line = op.line

\* The script with the texts exchanged, operation by operation.
LEMMA FlipIs ==
  ASSUME NEW ops \in Seq(Ops), NEW f, f = FlipAll(ops)
  PROVE  f \in Seq(Ops) /\ Len(f) = Len(ops) /\ \A q \in 1..Len(ops) : Flipped(f[q], ops[q])
<1>1. PICK m \in Nat : m = Len(ops)
  OBVIOUS
<1>2. ASSUME NEW q \in 1..m
      PROVE  f[q] \in Ops /\ Flipped(f[q], ops[q])
  <2>1. PICK op \in Ops : op = ops[q]
    BY <1>1
  <2>2. f[q] = [sign |-> Flip(op.sign), o |-> op.n, n |-> op.o, line |-> op.line]
    BY <1>1, <2>1 DEF FlipAll, FlipOp
  <2>3. Flip(op.sign) \in {" ", "-", "+"} /\ op.n \in Nat /\ op.o \in Nat /\ op.line \in Line
    BY DEF Ops, Flip
  <2>4. PICK g : g = f[q]
    OBVIOUS
  <2>5. g.sign = Flip(op.sign) /\ g.o = op.n /\ g.n = op.o /\ g.line = op.line
    BY ONLY <2>2, <2>4
  <2>6. g \in Ops
    <3>1. PICK s \in {" ", "-", "+"}, a \in Nat, b \in Nat, l \in Line :
            s = Flip(op.sign) /\ a = op.n /\ b = op.o /\ l = op.line
      BY <2>3
    <3>2. g = [sign |-> s, o |-> a, n |-> b, line |-> l]
      BY <2>2, <2>4, <3>1
    <3> QED
      BY <3>2 DEF Ops
  <2> QED
    BY <2>1, <2>4, <2>5, <2>6 DEF Flipped
<1>3. f = [q \in 1..m |-> f[q]]
  BY <1>1 DEF FlipAll
<1>4. f \in [1..m -> Ops]
  BY ONLY <1>2, <1>3
<1>5. f \in Seq(Ops) /\ Len(f) = m
  BY ONLY <1>4, m \in Nat
<1> QED
  BY <1>1, <1>2, <1>5

\* It makes the old text of the new one.
LEMMA WholeFlip ==
  ASSUME NEW old \in Seq(Line), NEW new \in Seq(Line), NEW ops, WholeScript(ops, old, new),
         NEW f, f = FlipAll(ops)
  PROVE  WholeScript(f, new, old)
<1>1. ops \in Seq(Ops)
  BY DEF WholeScript, Script
<1>2. PICK m \in Nat : m = Len(ops)
  BY <1>1
<1>3. f \in Seq(Ops) /\ Len(f) = m
  BY <1>1, <1>2, FlipIs
<1>4. ASSUME NEW q \in 1..m
      PROVE  /\ f[q].sign = Flip(ops[q].sign) /\ f[q].o = ops[q].n /\ f[q].n = ops[q].o
             /\ f[q].line = ops[q].line /\ ops[q].sign \in {" ", "-", "+"}
  <2>1. ops[q] \in Ops
    BY <1>1, <1>2
  <2> QED
    <3>1. Flipped(f[q], ops[q])
      BY <1>1, <1>2, FlipIs
    <3>2. ops[q].sign \in {" ", "-", "+"}
      BY <2>1 DEF Ops
    <3> QED
      BY <3>1, <3>2 DEF Flipped
<1>5. ASSUME NEW q \in 0..m PROVE OldDone(f, q) = NewDone(ops, q) /\ NewDone(f, q) = OldDone(ops, q)
  <2>1. q = 0 \/ q \in 1..m
    BY ONLY m \in Nat, q \in 0..m
  <2> QED
    BY <1>4, <2>1 DEF OldDone, NewDone, Flip
<1>6. ASSUME NEW q \in 1..m PROVE OpIs(f, q, new, old)
  <2>1. q - 1 \in 0..m
    BY ONLY m \in Nat, q \in 1..m
  <2>2. OpIs(ops, q, old, new)
    BY <1>2 DEF WholeScript, Script
  <2>3. OldDone(f, q - 1) = NewDone(ops, q - 1) /\ NewDone(f, q - 1) = OldDone(ops, q - 1)
    BY <1>5, <2>1
  <2>4. /\ f[q].o = OldDone(f, q - 1) + 1 /\ f[q].n = NewDone(f, q - 1) + 1
    BY <1>4, <2>2, <2>3 DEF OpIs
  <2>5. f[q].sign # "+" => ops[q].sign # "-"
    BY <1>4 DEF Flip
  <2>6. f[q].sign # "-" => ops[q].sign # "+"
    BY <1>4 DEF Flip
  <2> QED
    BY <1>4, <2>2, <2>4, <2>5, <2>6 DEF OpIs
<1>7. Script(f, new, old)
  BY <1>3, <1>6 DEF Script
<1>8. OldDone(f, m) = Len(new) /\ NewDone(f, m) = Len(old)
  <2>1. m \in 0..m
    BY ONLY m \in Nat
  <2> QED
    BY <1>2, <1>5, <2>1 DEF WholeScript
<1> QED
  BY <1>3, <1>7, <1>8 DEF WholeScript


\* Inverting the lines of a stretch gives those of the exchanged script.
LEMMA BetweenFlips ==
  ASSUME NEW ops \in Seq(Ops), NEW f, f = FlipAll(ops), NEW a \in Nat, NEW b \in Nat, 1 <= a, a <= b, b <= Len(ops),
         \A q \in 1..Len(ops) : ops[q].line \notin Dashed \cup Plussed
  PROVE  [j \in DOMAIN Between(ops, a, b) |-> InvertLine(Between(ops, a, b)[j])] = Between(f, a, b)
<1>1. PICK k, l, len : k = Between(ops, a, b) /\ l = Between(f, a, b) /\ len = b + 1 - a
  OBVIOUS
<1>2. f \in Seq(Ops) /\ Len(f) = Len(ops) /\ \A q \in 1..Len(ops) : Flipped(f[q], ops[q])
  BY FlipIs
<1>3. LinesFrom(ops, a, len, k)
  <2>1. a <= b + 1
    OBVIOUS
  <2> QED
    BY <1>1, <2>1, BetweenIs
<1>4. LinesFrom(f, a, len, l)
  <2>1. a <= b + 1 /\ b <= Len(f)
    BY <1>2
  <2> QED
    BY <1>1, <1>2, <2>1, BetweenIs
<1>5. len \in Nat /\ k \in Seq(DiffLines) /\ Len(k) = len /\ \A j \in 1..len : k[j] = DiffLine(ops[a + j - 1])
  BY <1>3 DEF LinesFrom
<1>6. l \in Seq(DiffLines) /\ Len(l) = len /\ \A j \in 1..len : l[j] = DiffLine(f[a + j - 1])
  BY <1>4 DEF LinesFrom
<1>7. DOMAIN k = 1..len /\ DOMAIN l = 1..len /\ l = [j \in 1..len |-> l[j]]
  BY ONLY <1>5, <1>6
<1>8. ASSUME NEW j \in 1..len PROVE InvertLine(k[j]) = l[j]
  <2>1. PICK q \in 1..Len(ops) : q = a + j - 1
    <3>1. Len(ops) \in Nat /\ 1 <= a /\ a <= b /\ b <= Len(ops)
      OBVIOUS
    <3>2. a + j - 1 \in 1..Len(ops)
      BY ONLY <1>1, <3>1, a \in Nat, b \in Nat, j \in 1..len
    <3> QED
      BY <3>2
  <2>2. PICK op \in Ops : op = ops[q]
    OBVIOUS
  <2>3. PICK s, x : s = op.sign /\ x = op.line
    OBVIOUS
  <2>4. s \in {" ", "-", "+"} /\ x \notin Dashed /\ x \notin Plussed
    BY <2>2, <2>3 DEF Ops
  <2>5. k[j] = [sign |-> s, line |-> x]
    BY <1>5, <2>1, <2>2, <2>3 DEF DiffLine
  <2>6. l[j] = [sign |-> Flip(s), line |-> x]
    BY <1>2, <1>6, <2>1, <2>2, <2>3 DEF DiffLine, Flipped
  <2>7. PICK kj : kj = k[j]
    OBVIOUS
  <2>8. kj.sign = s /\ kj.line = x
    BY <2>5, <2>7
  <2>9. [kj EXCEPT !.sign = "-"] = [sign |-> "-", line |-> x] /\ [kj EXCEPT !.sign = "+"] = [sign |-> "+", line |-> x]
    BY ONLY <2>5, <2>7
  <2>10. CASE s = "+"
    BY <2>4, <2>6, <2>7, <2>8, <2>9, <2>10 DEF InvertLine, Flip
  <2>11. CASE s = "-"
    BY <2>4, <2>6, <2>7, <2>8, <2>9, <2>11 DEF InvertLine, Flip
  <2>12. CASE s = " "
    BY <2>5, <2>6, <2>7, <2>8, <2>12 DEF InvertLine, Flip
  <2> QED
    BY <2>4, <2>10, <2>11, <2>12
<1>9. [j \in DOMAIN k |-> InvertLine(k[j])] = l
  <2>1. [j \in 1..len |-> InvertLine(k[j])] = [j \in 1..len |-> l[j]]
    BY ONLY <1>8
  <2> QED
    BY <1>7, <2>1
<1> QED
  BY <1>1, <1>9

\* A hunk with its lines inverted.
InvertedLines(hunk) == [hunk EXCEPT !.lines = [j \in DOMAIN @ |-> InvertLine(@[j])]]

\* Inverting a hunk gives that of the exchanged script.
LEMMA HunkFlips ==
  ASSUME NEW ops \in Seq(Ops), NEW f, f = FlipAll(ops), NEW a \in Nat, NEW b \in Nat, 1 <= a, a <= b, b <= Len(ops),
         \A q \in 1..Len(ops) : ops[q].line \notin Dashed \cup Plussed,
         NEW swapped, swapped = SwapRanges(Hunk(ops, a, b))
  PROVE  InvertedLines(swapped) = Hunk(f, a, b)
<1>1. PICK o, n, k, l : o = ops[a].o /\ n = ops[a].n /\ k = Between(ops, a, b) /\ l = Between(f, a, b)
  OBVIOUS
<1>2. [j \in DOMAIN k |-> InvertLine(k[j])] = l
  BY <1>1, BetweenFlips
<1>3. PICK h : h = Hunk(ops, a, b)
  OBVIOUS
<1>4. h = [oldStart |-> o, newStart |-> n, lines |-> k]
  BY <1>1, <1>3 DEF Hunk
<1>5. h.oldStart = o /\ h.newStart = n /\ h.lines = k
  BY ONLY <1>4
<1>7. swapped = [oldStart |-> n, newStart |-> o, lines |-> k]
  BY <1>3, <1>5 DEF SwapRanges
<1>8. swapped.lines = k /\ [swapped EXCEPT !.lines = l] = [oldStart |-> n, newStart |-> o, lines |-> l]
  BY ONLY <1>7
<1>9. Hunk(f, a, b) = [oldStart |-> n, newStart |-> o, lines |-> l]
  <2>1. a \in 1..Len(ops)
    OBVIOUS
  <2>2. Flipped(f[a], ops[a])
    BY <2>1, FlipIs
  <2> QED
    BY <1>1, <2>2 DEF Flipped, Hunk
<1>10. [j \in DOMAIN swapped.lines |-> InvertLine(swapped.lines[j])] = l
  BY <1>2, <1>8
<1> QED
  BY <1>8, <1>9, <1>10 DEF InvertedLines

\* An inverted diff has the hunks of the inverted script.
LEMMA InvertIs ==
  ASSUME NEW ops \in Seq(Ops), NEW f, f = FlipAll(ops), NEW diff, Grouped(ops, diff),
         \A q \in 1..Len(ops) : ops[q].line \notin Dashed \cup Plussed
  PROVE  Grouped(f, InvertDiff(diff))
<1>1. PICK m \in Nat : m = Len(ops)
  OBVIOUS
<1>2. f \in Seq(Ops) /\ Len(f) = m /\ \A q \in 1..m : Flipped(f[q], ops[q])
  BY <1>1, FlipIs
<1>3. PICK n, from, to : Spans(ops, m, n, from, to) /\ diff = Hunks(ops, n, from, to)
  BY <1>1 DEF Grouped
<1>4. n \in Nat /\ from \in [1..n -> 1..m] /\ to \in [1..n -> 1..m]
  BY <1>3 DEF Spans
<1>5. \A y \in 1..n : from[y] <= to[y]
  BY <1>3 DEF Spans
<1>6. Spans(f, m, n, from, to)
  <2>1. \A q \in 1..m : f[q].sign # " " => ops[q].sign # " "
    BY <1>2 DEF Flipped, Flip
  <2>2. \A q \in 1..m : ops[q].sign # " " => \E x \in 1..n : from[x] <= q /\ q <= to[x]
    BY <1>3 DEF Spans
  <2>3. \A q \in 1..m : f[q].sign # " " => \E x \in 1..n : from[x] <= q /\ q <= to[x]
    BY ONLY <2>1, <2>2
  <2> QED
    BY <1>3, <2>3 DEF Spans
<1>7. ASSUME NEW x \in 1..n
      PROVE  InvertedLines(SwapRanges(diff[x])) = Hunk(f, from[x], to[x])
  <2>1. PICK a \in Nat, b \in Nat : a = from[x] /\ b = to[x] /\ 1 <= a /\ a <= b /\ b <= Len(ops)
    <3>1. from[x] \in 1..m /\ to[x] \in 1..m /\ from[x] <= to[x]
      BY ONLY <1>4, <1>5, x \in 1..n
    <3>2. from[x] \in Nat /\ to[x] \in Nat /\ 1 <= from[x] /\ from[x] <= to[x] /\ to[x] <= Len(ops)
      BY ONLY <1>1, <3>1
    <3> QED
      BY <3>2
  <2>2. diff[x] = Hunk(ops, a, b)
    BY <1>3, <2>1 DEF Hunks
  <2>3. PICK swapped : swapped = SwapRanges(Hunk(ops, a, b))
    OBVIOUS
  <2>4. InvertedLines(swapped) = Hunk(f, a, b)
    BY <2>1, <2>3, HunkFlips
  <2> QED
    BY <2>1, <2>2, <2>3, <2>4
<1>8. DOMAIN diff = 1..n
  BY <1>3 DEF Hunks
<1>9. InvertDiff(diff) = Hunks(f, n, from, to)
  <2>1. InvertDiff(diff) = [x \in 1..n |-> InvertedLines(SwapRanges(diff[x]))]
    BY <1>8 DEF InvertDiff, InvertedLines
  <2>2. [x \in 1..n |-> InvertedLines(SwapRanges(diff[x]))]
          = [x \in 1..n |-> Hunk(f, from[x], to[x])]
    BY <1>7
  <2> QED
    BY <2>1, <2>2 DEF Hunks
<1> QED
  BY <1>2, <1>6, <1>9 DEF Grouped

\* computeDiff gives hunks of a script that makes all of new of all of old.
LEMMA ComputeDiffIs ==
  ASSUME NEW old \in Seq(Line), NEW new \in Seq(Line), NEW c \in Nat
  PROVE  \E ops \in Seq(Ops) : WholeScript(ops, old, new) /\ Grouped(ops, ComputeDiff(old, new, c))
<1>1. PICK ops : ops = EditScript(old, new)
  OBVIOUS
<1>2. WholeScript(ops, old, new)
  BY <1>1, EditScriptIs
<1>3. ops \in Seq(Ops)
  BY <1>2 DEF WholeScript, Script
<1>4. Grouped(ops, GroupIntoHunks(ops, c))
  BY <1>3, GroupIntoHunksIs
<1> QED
  BY <1>1, <1>2, <1>3, <1>4 DEF ComputeDiff

\* A diff is a sequence of hunks.
LEMMA DiffsAreHunks ==
  ASSUME NEW old \in Seq(Line), NEW new \in Seq(Line), NEW c \in Nat
  PROVE  ComputeDiff(old, new, c) \in Seq(HunkSet)
<1>1. PICK diff : diff = ComputeDiff(old, new, c)
  OBVIOUS
<1>2. PICK ops \in Seq(Ops) : Grouped(ops, diff)
  BY <1>1, ComputeDiffIs
<1>3. PICK n, from, to : Spans(ops, Len(ops), n, from, to) /\ diff = Hunks(ops, n, from, to)
  BY <1>2 DEF Grouped
<1>4. Len(ops) \in 0..Len(ops)
  OBVIOUS
<1>5. diff \in Seq(HunkSet)
  BY <1>3, <1>4, HunksAre
<1> QED
  BY <1>1, <1>5

\* applyUnifiedDiff undoes what computeDiff computes forwards,
LEMMA DiffApplies ==
  ASSUME NEW old \in Seq(Line), NEW new \in Seq(Line), NEW c \in Nat
  PROVE  ApplyUnifiedDiff(old, ComputeDiff(old, new, c)) = new
<1> QED
  BY ComputeDiffIs, ApplyIs

\* and, inverted, backwards.
LEMMA InverseApplies ==
  ASSUME NEW old \in Seq(Line), NEW new \in Seq(Line), NEW c \in Nat,
         \A i \in 1..Len(old) : old[i] \notin Dashed \cup Plussed,
         \A i \in 1..Len(new) : new[i] \notin Dashed \cup Plussed
  PROVE  ApplyUnifiedDiff(new, InvertDiff(ComputeDiff(old, new, c))) = old
<1>0. PICK diff : diff = ComputeDiff(old, new, c)
  OBVIOUS
<1>1. PICK ops \in Seq(Ops) : WholeScript(ops, old, new) /\ Grouped(ops, diff)
  BY <1>0, ComputeDiffIs
<1>2. ASSUME NEW q \in 1..Len(ops) PROVE ops[q].line \notin Dashed \cup Plussed
  <2>1. Len(ops) \in Nat /\ Len(old) \in Nat /\ Len(new) \in Nat
    OBVIOUS
  <2>2. q \in 0..Len(ops) /\ q - 1 \in 0..Len(ops) /\ q > 0
    BY ONLY <2>1, q \in 1..Len(ops)
  <2>3. Script(ops, old, new)
    BY <1>1 DEF WholeScript
  <2>4. OpIs(ops, q, old, new) /\ Done(ops, q - 1, old, new)
    BY <2>2, <2>3, DoneIs DEF Script
  <2>5. /\ ops[q].o = OldDone(ops, q - 1) + 1 /\ ops[q].n = NewDone(ops, q - 1) + 1
        /\ OldDone(ops, q - 1) \in 0..Len(old) /\ NewDone(ops, q - 1) \in 0..Len(new)
    BY <2>4 DEF OpIs, Done
  <2>6. CASE ops[q].sign # "+"
    <3>1. ops[q].o <= Len(old) /\ ops[q].line = old[ops[q].o]
      BY <2>4, <2>6 DEF OpIs
    <3>2. ops[q].o \in 1..Len(old)
      BY ONLY <2>1, <2>5, <3>1
    <3> QED
      BY <3>1, <3>2
  <2>7. CASE ops[q].sign = "+"
    <3>1. ops[q].n <= Len(new) /\ ops[q].line = new[ops[q].n]
      BY <2>4, <2>7 DEF OpIs
    <3>2. ops[q].n \in 1..Len(new)
      BY ONLY <2>1, <2>5, <3>1
    <3> QED
      BY <3>1, <3>2
  <2> QED
    BY <2>6, <2>7
<1>3. PICK f : f = FlipAll(ops)
  OBVIOUS
<1>4. WholeScript(f, new, old)
  BY <1>1, <1>3, WholeFlip
<1>5. Grouped(f, InvertDiff(diff))
  BY <1>1, <1>2, <1>3, InvertIs
<1> QED
  BY <1>0, <1>4, <1>5, ApplyIs

-----------------------------------------------------------------------------
(* The chain of deltas.                                                    *)

\* Each delta was computed from a text and the next.
DiffInv ==
  /\ context \in Contexts
  /\ past \in Seq(Texts) /\ delta \in Seq(Seq(HunkSet)) /\ Len(past) = Len(delta) + 1
  /\ \A v \in 1..Len(delta) : delta[v] = ComputeDiff(past[v], past[v + 1], context)

\* The invariant of the chain.
LEMMA DiffInvHolds == DiffSpec => []DiffInv
<1>1. ASSUME DiffInit PROVE DiffInv
  <2>1. PICK text \in Texts : past = <<text>>
    BY <1>1 DEF DiffInit
  <2>2. delta = <<>> /\ context \in Contexts
    BY <1>1 DEF DiffInit
  <2>3. past \in Seq(Texts) /\ Len(past) = 1
    BY <2>1
  <2>4. delta \in Seq(Seq(HunkSet)) /\ Len(delta) = 0 /\ 1..Len(delta) = {}
    BY <2>2
  <2> QED
    BY <2>2, <2>3, <2>4 DEF DiffInv
<1>2. ASSUME DiffInv, [DiffNext]_diffVars PROVE DiffInv'
  <2>1. CASE UNCHANGED diffVars
    BY <1>2, <2>1 DEF DiffInv, diffVars
  <2>2. CASE Revise
    <3>1. PICK text \in Texts : /\ past' = Append(past, text)
                                /\ delta' = Append(delta, ComputeDiff(Last(past), text, context))
      BY <2>2 DEF Revise
    <3>2. PICK len \in Nat : len = Len(delta) /\ len + 1 = Len(past)
      BY <1>2 DEF DiffInv
    <3>3. past \in Seq(Texts) /\ delta \in Seq(Seq(HunkSet)) /\ context \in Contexts /\ context' = context
      BY <1>2, <2>2 DEF DiffInv, Revise
    <3>4. \A v \in 1..(len + 1) : past[v] \in Texts
      BY <3>2, <3>3
    <3>5. PICK last \in Texts : last = Last(past) /\ last = past[len + 1]
      BY <3>2, <3>3, <3>4 DEF Last
    <3>6. PICK d : d = ComputeDiff(last, text, context)
      OBVIOUS
    <3>7. d \in Seq(HunkSet)
      BY <3>3, <3>6, DiffsAreHunks, DiffAssumption
    <3>8. /\ past' \in Seq(Texts) /\ Len(past') = len + 2 /\ past'[len + 2] = text
          /\ \A v \in 1..(len + 1) : past'[v] = past[v]
      BY <3>1, <3>2, <3>3
    <3>9. delta' = Append(delta, d)
      BY <3>1, <3>5, <3>6
    <3>10. /\ delta' \in Seq(Seq(HunkSet)) /\ Len(delta') = len + 1 /\ delta'[len + 1] = d
           /\ \A v \in 1..len : delta'[v] = delta[v]
      BY <3>2, <3>3, <3>7, <3>9
    <3>11. ASSUME NEW v \in 1..(len + 1) PROVE delta'[v] = ComputeDiff(past'[v], past'[v + 1], context)
      <4>1. CASE v \in 1..len
        <5>1. v + 1 \in 1..(len + 1)
          BY ONLY len \in Nat, <4>1
        <5>2. delta[v] = ComputeDiff(past[v], past[v + 1], context)
          BY <1>2, <3>2, <4>1 DEF DiffInv
        <5> QED
          BY <3>8, <3>10, <4>1, <5>1, <5>2
      <4>2. CASE v = len + 1
        <5>1. v + 1 = len + 2
          BY ONLY len \in Nat, <4>2
        <5> QED
          BY <3>5, <3>6, <3>8, <3>10, <4>2, <5>1
      <4>3. v \in 1..len \/ v = len + 1
        BY ONLY len \in Nat, v \in 1..(len + 1)
      <4> QED
        BY <4>1, <4>2, <4>3
    <3>12. len + 2 = (len + 1) + 1
      BY ONLY len \in Nat
    <3> QED
      BY <3>3, <3>8, <3>10, <3>11, <3>12 DEF DiffInv
  <2> QED
    BY <1>2, <2>1, <2>2 DEF DiffNext
<1> QED
  BY <1>1, <1>2, PTL DEF DiffSpec

\* If each delta inverted makes the text before of the text after, the deltas since a text
\* make that text of the current one.
LEMMA ReconstructIs ==
  ASSUME NEW texts \in Seq(Seq(Line)), NEW deltas, NEW len \in Nat, Len(deltas) = len, Len(texts) = len + 1,
         \A v \in 1..len : ApplyUnifiedDiff(texts[v + 1], InvertDiff(deltas[v])) = texts[v],
         NEW target \in 1..(len + 1)
  PROVE  Reconstruct(texts[len + 1], deltas, target) = texts[target]
<1>1. PICK n \in Nat : n = len + 1 - target /\ n <= len
  <2>1. len + 1 - target \in Nat /\ len + 1 - target <= len
    BY ONLY len \in Nat, target \in 1..(len + 1)
  <2> QED
    BY <2>1
<1>2. PICK current : current = texts[len + 1]
  OBVIOUS
<1>3. ASSUME NEW k \in 1..n
      PROVE  /\ k \in 0..n /\ k - 1 \in 0..n /\ k # 0
             /\ texts[len + 1 - k] = ApplyUnifiedDiff(texts[len + 1 - (k - 1)], InvertDiff(deltas[len + 1 - k]))
  <2>1. k \in 0..n /\ k - 1 \in 0..n /\ k # 0
    BY ONLY n \in Nat, k \in 1..n
  <2>2. PICK v \in 1..len : v = len + 1 - k /\ v + 1 = len + 1 - (k - 1)
    <3>1. len + 1 - k \in 1..len /\ (len + 1 - k) + 1 = len + 1 - (k - 1)
      BY ONLY <1>1, len \in Nat, n \in Nat, k \in 1..n
    <3> QED
      BY <3>1
  <2>3. ApplyUnifiedDiff(texts[v + 1], InvertDiff(deltas[v])) = texts[v]
    OBVIOUS
  <2> QED
    BY <2>1, <2>2, <2>3
<1>4. PICK g : g = [k \in 0..n |-> texts[len + 1 - k]]
  OBVIOUS
<1>5. len + 1 - 0 = len + 1 /\ len + 1 - n = target
  BY ONLY <1>1, len \in Nat, target \in 1..(len + 1)
<1>6. g = [k \in 0..n |-> IF k = 0 THEN current
                          ELSE ApplyUnifiedDiff(g[k - 1], InvertDiff(deltas[len + 1 - k]))]
  <2>1. ASSUME NEW k \in 0..n
        PROVE  g[k] = IF k = 0 THEN current ELSE ApplyUnifiedDiff(g[k - 1], InvertDiff(deltas[len + 1 - k]))
    <3>1. CASE k = 0
      BY <1>2, <1>4, <1>5, <3>1
    <3>2. CASE k # 0
      <4>1. k \in 1..n
        BY ONLY n \in Nat, <3>2, k \in 0..n
      <4> QED
        BY <1>3, <1>4, <3>2, <4>1
    <3> QED
      BY <3>1, <3>2
  <2> QED
    BY <1>4, <2>1
<1> DEFINE back[k \in 0..n] == IF k = 0 THEN current
                               ELSE ApplyUnifiedDiff(back[k - 1], InvertDiff(deltas[len + 1 - k]))
<1>7. back = [k \in 0..n |-> IF k = 0 THEN current
                             ELSE ApplyUnifiedDiff(back[k - 1], InvertDiff(deltas[len + 1 - k]))]
  BY <1>6
<1>8. Reconstruct(current, deltas, target) = back[n]
  BY <1>1 DEF Reconstruct
<1>9. PICK h : /\ h = [k \in 0..n |-> IF k = 0 THEN current
                                      ELSE ApplyUnifiedDiff(h[k - 1], InvertDiff(deltas[len + 1 - k]))]
               /\ Reconstruct(current, deltas, target) = h[n]
  <2> HIDE DEF back
  <2> QED
    BY <1>7, <1>8
<1> HIDE DEF back
<1>10. PICK In : In = [k \in 0..n |-> {texts[len + 1 - k]}]
  OBVIOUS
<1>11. 0 \in 0..n /\ n \in 0..n
  BY ONLY n \in Nat
<1>12. h[0] \in In[0] /\ \A k \in 1..n : h[k - 1] \in In[k - 1] => h[k] \in In[k]
  <2>1. h[0] = current /\ In[0] = {texts[len + 1]}
    BY <1>5, <1>9, <1>10, <1>11
  <2>2. ASSUME NEW k \in 1..n, h[k - 1] \in In[k - 1] PROVE h[k] \in In[k]
    <3>1. h[k - 1] = texts[len + 1 - (k - 1)]
      BY <1>3, <1>10, <2>2
    <3>2. h[k] = ApplyUnifiedDiff(h[k - 1], InvertDiff(deltas[len + 1 - k]))
      BY <1>3, <1>9
    <3> QED
      BY <1>3, <1>10, <3>1, <3>2
  <2> QED
    BY <1>2, <2>1, <2>2
<1>13. h[n] = texts[target]
  <2>1. \A k \in 0..n : h[k] \in In[k]
    BY ONLY n \in Nat, <1>12, LoopKeeps
  <2> QED
    BY <1>5, <1>10, <1>11, <2>1
<1> QED
  BY <1>2, <1>9, <1>13

\* Every diff makes the text it was computed for of the one it was computed from, and
\* the deltas since then rebuild every earlier text.
THEOREM DiffsAreSound == DiffSpec => []DiffsSound
<1>1. ASSUME DiffInv PROVE DiffsSound
  <2>1. PICK len \in Nat : len = Len(delta) /\ len + 1 = Len(past)
    BY <1>1 DEF DiffInv
  <2>2. past \in Seq(Texts) /\ delta \in Seq(Seq(HunkSet)) /\ context \in Nat
    BY <1>1, DiffAssumption DEF DiffInv
  <2>3. past \in Seq(Seq(Line))
    <3>1. PICK p \in Seq(Texts) : p = past
      BY <2>2
    <3>2. \A i \in 1..Len(p) : p[i] \in Seq(Line)
      BY DiffAssumption
    <3>3. p \in [1..Len(p) -> Seq(Line)] /\ Len(p) \in Nat
      BY <3>2
    <3>4. p \in Seq(Seq(Line))
      BY ONLY <3>3
    <3> QED
      BY <3>1, <3>4
  <2>4. DOMAIN past = 1..(len + 1) /\ DOMAIN delta = 1..len
    BY <2>1, <2>2
  <2>5. \A v \in 1..(len + 1) : past[v] \in Seq(Line)
    BY <2>3, <2>4
  <2>6. ASSUME NEW v \in 1..len
        PROVE  /\ v \in 1..(len + 1) /\ v + 1 \in 1..(len + 1)
               /\ past[v] \in Seq(Line) /\ past[v + 1] \in Seq(Line)
               /\ delta[v] = ComputeDiff(past[v], past[v + 1], context)
    <3>1. v \in 1..(len + 1) /\ v + 1 \in 1..(len + 1)
      BY ONLY len \in Nat, v \in 1..len
    <3>2. delta[v] = ComputeDiff(past[v], past[v + 1], context)
      BY <1>1, <2>1 DEF DiffInv
    <3> QED
      BY <2>5, <3>1, <3>2
  <2>7. DiffsApply
    <3>1. ASSUME NEW v \in 1..len PROVE ApplyUnifiedDiff(past[v], delta[v]) = past[v + 1]
      BY <2>2, <2>6, DiffApplies
    <3> QED
      BY <2>4, <3>1 DEF DiffsApply
  <2>8. ASSUME \A v \in DOMAIN past : Range(past[v]) \cap (Dashed \cup Plussed) = {}
        PROVE  \A v \in DOMAIN past : Reconstruct(Last(past), delta, v) = past[v]
    <3>1. ASSUME NEW v \in 1..(len + 1), NEW i \in 1..Len(past[v])
          PROVE  past[v][i] \notin Dashed \cup Plussed
      <4>1. Range(past[v]) \cap (Dashed \cup Plussed) = {}
        BY <2>4, <2>8
      <4>2. past[v] \in Seq(Line)
        BY <2>5
      <4>3. i \in DOMAIN past[v]
        BY <4>2
      <4>4. past[v][i] \in Range(past[v])
        BY <4>3 DEF Range
      <4> QED
        BY <4>1, <4>4
    <3>2. ASSUME NEW v \in 1..len PROVE ApplyUnifiedDiff(past[v + 1], InvertDiff(delta[v])) = past[v]
      <4>1. PICK old \in Seq(Line), new \in Seq(Line) : old = past[v] /\ new = past[v + 1]
        BY <2>6
      <4>2. /\ \A i \in 1..Len(old) : old[i] \notin Dashed \cup Plussed
            /\ \A i \in 1..Len(new) : new[i] \notin Dashed \cup Plussed
        BY <2>6, <3>1, <4>1
      <4>3. delta[v] = ComputeDiff(old, new, context)
        BY <2>6, <4>1
      <4>4. PICK c \in Nat : c = context
        BY <2>2
      <4>5. ApplyUnifiedDiff(new, InvertDiff(ComputeDiff(old, new, c))) = old
        BY ONLY <4>2, old \in Seq(Line), new \in Seq(Line), c \in Nat, InverseApplies
      <4> QED
        BY <4>1, <4>3, <4>4, <4>5
    <3>3. Last(past) = past[len + 1]
      BY <2>1 DEF Last
    <3>4. ASSUME NEW v \in 1..(len + 1) PROVE Reconstruct(past[len + 1], delta, v) = past[v]
      <4>0. PICK deltas : deltas = delta
        OBVIOUS
      <4>1. PICK texts \in Seq(Seq(Line)) : texts = past
        BY <2>3
      <4>2. Len(deltas) = len /\ Len(texts) = len + 1
        BY <2>1, <4>0, <4>1
      <4>3. \A w \in 1..len : ApplyUnifiedDiff(texts[w + 1], InvertDiff(deltas[w])) = texts[w]
        BY <3>2, <4>0, <4>1
      <4>4. Reconstruct(texts[len + 1], deltas, v) = texts[v]
        BY ONLY <4>2, <4>3, texts \in Seq(Seq(Line)), len \in Nat, v \in 1..(len + 1), ReconstructIs
      <4> QED
        BY <4>0, <4>1, <4>4
    <3> QED
      BY <2>4, <3>3, <3>4
  <2> QED
    BY <2>7, <2>8 DEF DiffsSound, PastIsRebuilt
<1> QED
  BY <1>1, DiffInvHolds, PTL
=============================================================================
