---------------------------- MODULE PagedKVProofs ----------------------------
(***************************************************************************)
(* Proofs about PagedKV, for any number of sequences and pages and any     *)
(* page size.                                                              *)
(***************************************************************************)
EXTENDS PagedKV, SequenceTheorems, TLAPS

\* Division by the page size rounds up monotonically.
LEMMA DivMonotone ==
    ASSUME NEW b \in Nat \ {0}, NEW x \in Nat, NEW y \in Nat, x <= y
    PROVE  x \div b \in Nat /\ x \div b <= y \div b
OBVIOUS

\* A longer sequence needs at least as many pages.
LEMMA PagesForMonotone ==
    ASSUME NEW x \in Nat, NEW y \in Nat, x <= y
    PROVE  PagesFor(x) \in Nat /\ PagesFor(x) <= PagesFor(y)
<1>1. /\ x + BlockSize - 1 \in Nat /\ y + BlockSize - 1 \in Nat
      /\ x + BlockSize - 1 <= y + BlockSize - 1
  BY BlockSizeAssumption
<1>2. QED
  BY <1>1, DivMonotone, BlockSizeAssumption DEF PagesFor

-----------------------------------------------------------------------------
\* A sequence that is not registered holds nothing.
Unregistered == \A s \in SeqIds \ reg : pages[s] = <<>> /\ lAcc[s] = 0 /\ lSeq[s] = 0

PagesInv == TypeOK /\ Unregistered /\ PagesDisjoint /\ PagesConserved /\ LengthsCovered

\* Popping k pages off the free list keeps every page in exactly one place.
LEMMA EnsureCapacityKeeps ==
    ASSUME PagesInv, NEW s \in SeqIds, s \in reg, reg' = reg,
           NEW k \in Nat, k <= Len(free), EnsureCapacity(s, k)
    PROVE  /\ free' \in Seq(Page) /\ pages' \in [SeqIds -> Seq(Page)]
           /\ Len(pages'[s]) = Len(pages[s]) + k
           /\ \A t \in SeqIds \ {s} : pages'[t] = pages[t]
           /\ \A i \in 1..Len(pages[s]) : pages'[s][i] = pages[s][i]
           /\ PagesDisjoint' /\ PagesConserved'
<1> DEFINE m == Len(pages[s])
           n == Len(free)
           new == [i \in 1..(m + k) |-> IF i <= m THEN pages[s][i] ELSE free[n + m + 1 - i]]
<1>1. /\ free \in Seq(Page) /\ pages \in [SeqIds -> Seq(Page)]
      /\ m \in Nat /\ n \in Nat
  BY DEF PagesInv, TypeOK
<1>2. \A i \in 1..(m + k) : new[i] \in Page
  <2> SUFFICES ASSUME NEW i \in 1..(m + k) PROVE new[i] \in Page
    OBVIOUS
  <2>1. CASE i <= m
    <3>1. i \in 1..m  BY <1>1, <2>1
    <3>2. pages[s][i] \in Page  BY <1>1, <3>1
    <3>3. QED  BY <2>1, <3>2
  <2>2. CASE ~(i <= m)
    <3>1. n + m + 1 - i \in 1..n  BY <1>1, <2>2
    <3>2. free[n + m + 1 - i] \in Page  BY <1>1, <3>1
    <3>3. QED  BY <2>2, <3>2
  <2>3. QED
    BY <2>1, <2>2
<1>3. new \in Seq(Page) /\ Len(new) = m + k /\ DOMAIN new = 1..(m + k)
  BY <1>1, <1>2
<1>4. pages' = [pages EXCEPT ![s] = new] /\ free' = SubSeq(free, 1, n - k)
  BY DEF EnsureCapacity
<1>5. /\ free' \in Seq(Page) /\ Len(free') = n - k
      /\ \A i \in 1..(n - k) : free'[i] = free[i]
  BY <1>1, <1>4
<1>6. /\ pages' \in [SeqIds -> Seq(Page)] /\ pages'[s] = new
      /\ \A t \in SeqIds \ {s} : pages'[t] = pages[t]
  BY <1>1, <1>3, <1>4
<1>7. \A i \in 1..m : new[i] = pages[s][i]
  BY <1>1
<1>8. \A i \in 1..(m + k) : i > m => n + m + 1 - i \in (n - k + 1)..n /\ new[i] = free[n + m + 1 - i]
  BY <1>1
<1>9. PagesDisjoint'
  <2>1. \A i, j \in 1..Len(free') : free'[i] = free'[j] => i = j
    BY <1>1, <1>5 DEF PagesInv, PagesDisjoint
  <2>2. \A i \in 1..(m + k) : \A j \in 1..Len(free') : new[i] # free'[j]
    <3> SUFFICES ASSUME NEW i \in 1..(m + k), NEW j \in 1..(n - k) PROVE new[i] # free[j]
      BY <1>5
    <3>1. j \in 1..Len(free)  BY <1>1
    <3>2. CASE i <= m
      <4>1. i \in 1..Len(pages[s])  BY <1>1, <3>2
      <4>2. QED  BY <1>7, <1>1, <3>1, <4>1 DEF PagesInv, PagesDisjoint
    <3>3. CASE i > m
      <4>1. n + m + 1 - i \in 1..Len(free) /\ n + m + 1 - i # j  BY <1>1, <1>8, <3>3
      <4>2. QED  BY <1>8, <3>1, <3>3, <4>1 DEF PagesInv, PagesDisjoint
    <3>4. QED  BY <1>1, <3>2, <3>3
  <2>3. \A i, j \in 1..(m + k) : new[i] = new[j] => i = j
    <3> SUFFICES ASSUME NEW i \in 1..(m + k), NEW j \in 1..(m + k), i < j PROVE new[i] # new[j]
      BY <1>1
    <3>1. CASE j <= m
      BY <3>1, <1>1, <1>7 DEF PagesInv, PagesDisjoint
    <3>2. CASE i <= m /\ j > m
      <4>1. i \in 1..Len(pages[s]) /\ n + m + 1 - j \in 1..Len(free)  BY <1>1, <1>8, <3>2
      <4>2. new[i] = pages[s][i] /\ new[j] = free[n + m + 1 - j]  BY <1>7, <1>8, <1>1, <3>2
      <4>3. QED  BY <4>1, <4>2 DEF PagesInv, PagesDisjoint
    <3>3. CASE i > m
      <4>1. /\ n + m + 1 - i \in 1..Len(free) /\ n + m + 1 - j \in 1..Len(free)
            /\ n + m + 1 - i # n + m + 1 - j
        BY <1>1, <1>8, <3>3
      <4>2. new[i] = free[n + m + 1 - i] /\ new[j] = free[n + m + 1 - j]  BY <1>8, <1>1, <3>3
      <4>3. QED  BY <4>1, <4>2 DEF PagesInv, PagesDisjoint
    <3>4. QED  BY <1>1, <3>1, <3>2, <3>3
  <2>4. \A t \in SeqIds \ {s} : \A i \in 1..(m + k) : \A j \in 1..Len(pages[t]) : new[i] # pages[t][j]
    <3> SUFFICES ASSUME NEW t \in SeqIds \ {s}, NEW i \in 1..(m + k), NEW j \in 1..Len(pages[t])
                 PROVE  new[i] # pages[t][j]
      OBVIOUS
    <3>1. CASE i <= m
      <4>1. i \in 1..Len(pages[s]) /\ new[i] = pages[s][i]  BY <1>1, <1>7, <3>1
      <4>2. QED  BY <4>1 DEF PagesInv, PagesDisjoint
    <3>2. CASE i > m
      <4>1. n + m + 1 - i \in 1..Len(free) /\ new[i] = free[n + m + 1 - i]  BY <1>1, <1>8, <3>2
      <4>2. QED  BY <4>1 DEF PagesInv, PagesDisjoint
    <3>3. QED  BY <1>1, <3>1, <3>2
  <2>5. \A t \in SeqIds \ {s} : \A i \in 1..Len(pages[t]) : \A j \in 1..Len(free') : pages[t][i] # free'[j]
    BY <1>1, <1>5 DEF PagesInv, PagesDisjoint
  <2>6. \A t, u \in SeqIds \ {s} : \A i \in 1..Len(pages[t]) : \A j \in 1..Len(pages[u]) :
            pages[t][i] = pages[u][j] => t = u /\ i = j
    BY DEF PagesInv, PagesDisjoint
  <2>7. ASSUME NEW t \in SeqIds, NEW i \in 1..Len(pages'[t]), NEW j \in 1..Len(free')
        PROVE  pages'[t][i] # free'[j]
    <3>1. CASE t = s  BY <1>3, <1>6, <2>2, <3>1
    <3>2. CASE t # s  BY <1>6, <2>5, <3>2
    <3>3. QED  BY <3>1, <3>2
  <2>8. ASSUME NEW t \in SeqIds, NEW i \in 1..Len(pages'[t]),
               NEW u \in SeqIds, NEW j \in 1..Len(pages'[u]), pages'[t][i] = pages'[u][j]
        PROVE  t = u /\ i = j
    <3>1. CASE t = s /\ u = s  BY <1>3, <1>6, <2>3, <2>8, <3>1
    <3>2. CASE t = s /\ u # s
      <4>1. i \in 1..(m + k) /\ pages'[t][i] = new[i]  BY <1>3, <1>6, <3>2
      <4>2. u \in SeqIds \ {s} /\ j \in 1..Len(pages[u]) /\ pages'[u][j] = pages[u][j]  BY <1>6, <3>2
      <4>3. QED  BY <2>4, <2>8, <4>1, <4>2
    <3>3. CASE t # s /\ u = s
      <4>1. j \in 1..(m + k) /\ pages'[u][j] = new[j]  BY <1>3, <1>6, <3>3
      <4>2. t \in SeqIds \ {s} /\ i \in 1..Len(pages[t]) /\ pages'[t][i] = pages[t][i]  BY <1>6, <3>3
      <4>3. QED  BY <2>4, <2>8, <4>1, <4>2
    <3>4. CASE t # s /\ u # s
      <4>1. t \in SeqIds \ {s} /\ i \in 1..Len(pages[t]) /\ pages'[t][i] = pages[t][i]  BY <1>6, <3>4
      <4>2. u \in SeqIds \ {s} /\ j \in 1..Len(pages[u]) /\ pages'[u][j] = pages[u][j]  BY <1>6, <3>4
      <4>3. pages[t][i] = pages[u][j]  BY <2>8, <4>1, <4>2
      <4>4. QED  BY <2>6, <4>1, <4>2, <4>3
    <3>5. QED  BY <3>1, <3>2, <3>3, <3>4
  <2>9. QED
    BY <2>1, <2>7, <2>8 DEF PagesDisjoint
<1>10. PagesConserved'
  <2> SUFFICES ASSUME NEW p \in Page
               PROVE  \/ \E i \in 1..Len(free') : free'[i] = p
                      \/ \E t \in reg : \E i \in 1..Len(pages'[t]) : pages'[t][i] = p
    BY DEF PagesConserved
  <2>1. ASSUME NEW i \in 1..Len(free), free[i] = p, i > n - k
        PROVE  \E j \in 1..Len(pages'[s]) : pages'[s][j] = p
    <3>1. n + m + 1 - i \in 1..(m + k) /\ n + m + 1 - i > m  BY <1>1, <2>1
    <3>2. new[n + m + 1 - i] = free[i]  BY <1>1, <3>1
    <3>3. QED  BY <1>3, <1>6, <2>1, <3>1, <3>2
  <2>2. ASSUME NEW i \in 1..Len(free), free[i] = p, i <= n - k
        PROVE  \E j \in 1..Len(free') : free'[j] = p
    BY <1>1, <1>5, <2>2
  <2>3. ASSUME NEW t \in reg, NEW i \in 1..Len(pages[t]), pages[t][i] = p
        PROVE  \E j \in 1..Len(pages'[t]) : pages'[t][j] = p
    <3>1. CASE t = s
      <4>1. i \in 1..(m + k) /\ new[i] = p  BY <1>1, <1>7, <2>3, <3>1
      <4>2. QED  BY <1>3, <1>6, <3>1, <4>1
    <3>2. CASE t # s
      <4>1. t \in SeqIds \ {s}  BY <3>2 DEF PagesInv, TypeOK
      <4>2. QED  BY <1>6, <2>3, <4>1
    <3>3. QED  BY <3>1, <3>2
  <2>4. \/ \E i \in 1..Len(free) : free[i] = p
        \/ \E t \in reg : \E i \in 1..Len(pages[t]) : pages[t][i] = p
    BY DEF PagesInv, PagesConserved
  <2>5. \A i \in 1..Len(free) : i > n - k \/ i <= n - k
    BY <1>1
  <2>6. s \in reg /\ reg' = reg
    OBVIOUS
  <2>7. QED
    BY <2>1, <2>2, <2>3, <2>4, <2>5, <2>6, Zenon
<1>11. QED
  BY <1>3, <1>5, <1>6, <1>7, <1>9, <1>10


\* A function on 1..n is a sequence of length n.
LEMMA SeqOfFunction ==
    ASSUME NEW S, NEW n \in Nat, NEW f \in [1..n -> S]
    PROVE  f \in Seq(S) /\ Len(f) = n
OBVIOUS

\* back lists the pages of ps after the first keep, in the order idx gives.
Lists(back, idx, ps, keep) ==
    /\ idx \in [1..Len(back) -> (keep + 1)..Len(ps)]
    /\ \A i, j \in 1..Len(back) : idx[i] = idx[j] => i = j
    /\ \A i \in 1..Len(back) : back[i] = ps[idx[i]]
    /\ \A j \in (keep + 1)..Len(ps) : \E i \in 1..Len(back) : idx[i] = j

\* Pages that leave a sequence and go to the free list stay in exactly one place.
LEMMA ReturnKeeps ==
    ASSUME PagesInv, NEW s \in SeqIds, s \in reg,
           NEW keep \in Nat, keep <= Len(pages[s]),
           NEW back \in Seq(Page), NEW idx, Lists(back, idx, pages[s], keep),
           reg' = reg \/ (keep = 0 /\ reg' = reg \ {s}),
           pages' = [pages EXCEPT ![s] = SubSeq(@, 1, keep)],
           free' = free \o back
    PROVE  /\ free' \in Seq(Page) /\ pages' \in [SeqIds -> Seq(Page)]
           /\ Len(pages'[s]) = keep
           /\ \A t \in SeqIds \ {s} : pages'[t] = pages[t]
           /\ \A i \in 1..keep : pages'[s][i] = pages[s][i]
           /\ PagesDisjoint' /\ PagesConserved'
<1> DEFINE m == Len(pages[s])
           n == Len(free)
           b == Len(back)
<1>1. /\ free \in Seq(Page) /\ pages \in [SeqIds -> Seq(Page)] /\ reg \subseteq SeqIds
      /\ m \in Nat /\ n \in Nat /\ b \in Nat
  BY DEF PagesInv, TypeOK
<1>2. /\ free' \in Seq(Page) /\ Len(free') = n + b
      /\ \A i \in 1..(n + b) : free'[i] = IF i <= n THEN free[i] ELSE back[i - n]
  BY <1>1, ConcatProperties, Zenon
<1>3. /\ SubSeq(pages[s], 1, keep) \in Seq(Page) /\ Len(SubSeq(pages[s], 1, keep)) = keep
      /\ \A i \in 1..keep : SubSeq(pages[s], 1, keep)[i] = pages[s][i]
  BY <1>1
<1>4. /\ pages' \in [SeqIds -> Seq(Page)] /\ pages'[s] = SubSeq(pages[s], 1, keep)
      /\ \A t \in SeqIds \ {s} : pages'[t] = pages[t]
  BY <1>1, <1>3
<1>5. /\ Len(pages'[s]) = keep
      /\ \A i \in 1..keep : pages'[s][i] = pages[s][i] /\ i \in 1..Len(pages[s])
  BY <1>1, <1>3, <1>4
<1>6. ASSUME NEW i \in 1..(n + b), i > n
      PROVE  /\ i - n \in 1..b /\ idx[i - n] \in 1..m /\ idx[i - n] > keep
             /\ free'[i] = pages[s][idx[i - n]]
  <2>1. i - n \in 1..b /\ free'[i] = back[i - n]  BY <1>1, <1>2, <1>6
  <2>2. idx[i - n] \in (keep + 1)..m /\ back[i - n] = pages[s][idx[i - n]]
    BY <2>1 DEF Lists
  <2>3. QED  BY <1>1, <2>1, <2>2
<1>7. ASSUME NEW t \in SeqIds, NEW i \in 1..Len(pages'[t])
      PROVE  i \in 1..Len(pages[t]) /\ pages'[t][i] = pages[t][i] /\ (t = s => i <= keep)
  <2>1. CASE t = s  BY <1>5, <2>1
  <2>2. CASE t # s  BY <1>4, <2>2
  <2>3. QED  BY <2>1, <2>2
<1>8. ASSUME NEW t \in SeqIds, NEW i \in 1..Len(pages[t]), NEW j \in 1..n
      PROVE  pages[t][i] # free[j]
  BY DEF PagesInv, PagesDisjoint
<1>8a. ASSUME NEW t \in SeqIds, NEW i \in 1..Len(pages[t]), NEW u \in SeqIds, NEW j \in 1..Len(pages[u]),
              pages[t][i] = pages[u][j]
       PROVE  t = u /\ i = j
  BY <1>8a, Zenon DEF PagesInv, PagesDisjoint
<1>9. PagesDisjoint'
  <2>1. ASSUME NEW i \in 1..(n + b), NEW j \in 1..(n + b), i < j PROVE free'[i] # free'[j]
    <3>1. CASE j <= n
      <4>1. i \in 1..n /\ j \in 1..n /\ i # j /\ free'[i] = free[i] /\ free'[j] = free[j]
        BY <1>1, <1>2, <2>1, <3>1
      <4>2. QED  BY <4>1 DEF PagesInv, PagesDisjoint
    <3>2. CASE i <= n /\ j > n
      <4>1. i \in 1..n /\ free'[i] = free[i]  BY <1>1, <1>2, <3>2
      <4>2. idx[j - n] \in 1..m /\ free'[j] = pages[s][idx[j - n]]  BY <1>6, <3>2
      <4>3. QED  BY <1>8, <4>1, <4>2
    <3>3. CASE i > n
      <4>1. j > n /\ i - n # j - n  BY <1>1, <2>1, <3>3
      <4>2. i - n \in 1..b /\ idx[i - n] \in 1..m /\ free'[i] = pages[s][idx[i - n]]  BY <1>6, <3>3
      <4>3. j - n \in 1..b /\ idx[j - n] \in 1..m /\ free'[j] = pages[s][idx[j - n]]  BY <1>6, <4>1
      <4>4. idx[i - n] # idx[j - n]  BY <4>1, <4>2, <4>3 DEF Lists
      <4>5. pages[s][idx[i - n]] # pages[s][idx[j - n]]
        <5>1. ASSUME NEW x \in 1..m, NEW y \in 1..m, x # y PROVE pages[s][x] # pages[s][y]
          BY <1>8a, <5>1
        <5>2. QED  BY <5>1, <4>2, <4>3, <4>4
      <4>6. QED  BY <4>2, <4>3, <4>5
    <3>4. QED  BY <1>1, <3>1, <3>2, <3>3
  <2>2. \A i, j \in 1..Len(free') : free'[i] = free'[j] => i = j
    <3>1. \A i, j \in 1..(n + b) : i # j => i < j \/ j < i  BY <1>1
    <3>2. QED  BY <1>2, <2>1, <3>1, Zenon
  <2>3. ASSUME NEW t \in SeqIds, NEW i \in 1..Len(pages'[t]), NEW j \in 1..Len(free')
        PROVE  pages'[t][i] # free'[j]
    <3>0. i \in 1..Len(pages[t]) /\ pages'[t][i] = pages[t][i] /\ (t = s => i <= keep) /\ j \in 1..(n + b)
      BY <1>2, <1>7
    <3>1. CASE j <= n
      <4>1. j \in 1..n /\ free'[j] = free[j]  BY <1>1, <1>2, <3>0, <3>1
      <4>2. pages[t][i] # free[j]  BY <1>8, <3>0, <4>1
      <4>3. QED  BY <3>0, <4>1, <4>2
    <3>2. CASE j > n
      <4>1. idx[j - n] \in 1..m /\ idx[j - n] > keep /\ free'[j] = pages[s][idx[j - n]]
        BY <1>6, <3>0, <3>2
      <4>2. ~(t = s /\ i = idx[j - n])  BY <1>1, <3>0, <4>1
      <4>3. pages[t][i] # pages[s][idx[j - n]]  BY <1>8a, <3>0, <4>1, <4>2
      <4>4. QED  BY <3>0, <4>1, <4>3
    <3>3. QED  BY <1>1, <3>0, <3>1, <3>2
  <2>4. ASSUME NEW t \in SeqIds, NEW i \in 1..Len(pages'[t]),
               NEW u \in SeqIds, NEW j \in 1..Len(pages'[u]), pages'[t][i] = pages'[u][j]
        PROVE  t = u /\ i = j
    <3>1. /\ i \in 1..Len(pages[t]) /\ pages'[t][i] = pages[t][i]
          /\ j \in 1..Len(pages[u]) /\ pages'[u][j] = pages[u][j]
      BY <1>7
    <3>2. pages[t][i] = pages[u][j]  BY <2>4, <3>1
    <3>3. QED  BY <1>8a, <3>1, <3>2
  <2>5. QED
    BY <2>2, <2>3, <2>4 DEF PagesDisjoint
<1>10. PagesConserved'
  <2> SUFFICES ASSUME NEW p \in Page
               PROVE  \/ \E i \in 1..Len(free') : free'[i] = p
                      \/ \E t \in reg' : \E i \in 1..Len(pages'[t]) : pages'[t][i] = p
    BY DEF PagesConserved
  <2>1. ASSUME NEW i \in 1..n, free[i] = p PROVE \E j \in 1..Len(free') : free'[j] = p
    <3>1. i \in 1..Len(free') /\ free'[i] = free[i]  BY <1>1, <1>2
    <3>2. QED  BY <2>1, <3>1
  <2>2. ASSUME NEW j \in 1..m, pages[s][j] = p, j > keep
        PROVE  \E i \in 1..Len(free') : free'[i] = p
    <3>1. PICK i \in 1..b : idx[i] = j  BY <1>1, <2>2 DEF Lists
    <3>2. n + i \in 1..(n + b) /\ n + i > n /\ (n + i) - n = i  BY <1>1
    <3>3. free'[n + i] = pages[s][idx[(n + i) - n]]  BY <1>6, <3>2
    <3>4. QED  BY <1>2, <2>2, <3>1, <3>2, <3>3
  <2>3. ASSUME NEW j \in 1..m, pages[s][j] = p, j <= keep
        PROVE  s \in reg' /\ \E i \in 1..Len(pages'[s]) : pages'[s][i] = p
    <3>1. j \in 1..keep /\ s \in reg'  BY <1>1, <2>3
    <3>2. QED  BY <1>5, <2>3, <3>1
  <2>4. ASSUME NEW t \in reg, t # s, NEW i \in 1..Len(pages[t]), pages[t][i] = p
        PROVE  t \in reg' /\ \E j \in 1..Len(pages'[t]) : pages'[t][j] = p
    <3>1. t \in SeqIds \ {s} /\ t \in reg'  BY <1>1, <2>4
    <3>2. QED  BY <1>4, <2>4, <3>1
  <2>5. \/ \E i \in 1..n : free[i] = p
        \/ \E t \in reg : \E i \in 1..Len(pages[t]) : pages[t][i] = p
    BY DEF PagesInv, PagesConserved
  <2>6. \A j \in 1..m : j > keep \/ j <= keep
    BY <1>1
  <2>7. QED
    BY <2>1, <2>2, <2>3, <2>4, <2>5, <2>6, Zenon
<1>11. QED
  BY <1>2, <1>4, <1>5, <1>9, <1>10

-----------------------------------------------------------------------------
\* The fresh table has all its pages on the free list, each once.
LEMMA PagesInit == Init => PagesInv
<1> SUFFICES ASSUME Init PROVE PagesInv
  OBVIOUS
<1>1. /\ free = FreeList /\ Len(free) = NumPages /\ free \in Seq(Page)
      /\ \A i \in 1..NumPages : free[i] = NumPages - i
  <2>1. FreeList \in [1..NumPages -> Page]  BY NumPagesAssumption DEF FreeList, Page
  <2>2. FreeList \in Seq(Page) /\ Len(FreeList) = NumPages  BY <2>1, NumPagesAssumption DEF FreeList
  <2>3. QED  BY <2>2 DEF Init, FreeList
<1>2. /\ pages = [s \in SeqIds |-> <<>>] /\ lAcc = [s \in SeqIds |-> 0]
      /\ lSeq = [s \in SeqIds |-> 0] /\ reg = {}
  BY DEF Init
<1>3. \A s \in SeqIds : pages[s] = <<>> /\ Len(pages[s]) = 0 /\ lAcc[s] = 0 /\ lSeq[s] = 0
  BY <1>2
<1>4. TypeOK
  <2>1. pages \in [SeqIds -> Seq(Page)]  BY <1>2
  <2>2. QED  BY <1>1, <1>2, <2>1 DEF TypeOK
<1>5. PagesDisjoint
  <2>1. \A i, j \in 1..Len(free) : free[i] = free[j] => i = j  BY <1>1, NumPagesAssumption
  <2>2. ASSUME NEW s \in SeqIds PROVE \A i \in 1..Len(pages[s]) : FALSE
    <3>1. Len(pages[s]) = 0  BY <1>3
    <3>2. QED  BY <3>1
  <2>3. QED  BY <2>1, <2>2 DEF PagesDisjoint
<1>6. PagesConserved
  <2> SUFFICES ASSUME NEW p \in Page PROVE \E i \in 1..Len(free) : free[i] = p
    BY DEF PagesConserved
  <2>1. NumPages - p \in 1..Len(free) /\ free[NumPages - p] = p
    BY <1>1, NumPagesAssumption DEF Page
  <2>2. QED  BY <2>1
<1>7. LengthsCovered
  <2>0. ASSUME NEW b \in Nat \ {0} PROVE (b - 1) \div b = 0  OBVIOUS
  <2>1. PagesFor(0) = 0  BY <2>0, BlockSizeAssumption DEF PagesFor
  <2>2. ASSUME NEW s \in SeqIds PROVE lAcc[s] <= lSeq[s] /\ PagesFor(lSeq[s]) <= Len(pages[s])
    <3>1. Len(pages[s]) = 0 /\ lAcc[s] = 0 /\ lSeq[s] = 0  BY <1>3
    <3>2. QED  BY <2>1, <3>1
  <2>3. QED  BY <2>2 DEF LengthsCovered
<1>8. QED
  BY <1>3, <1>4, <1>5, <1>6, <1>7 DEF PagesInv, Unregistered

\* _ensure_capacity takes no more pages than the pool has.
LEMMA PoppedBound ==
    ASSUME TypeOK, NEW s \in SeqIds, NEW len \in Nat
    PROVE  /\ Popped(s, len) \in Nat /\ Popped(s, len) <= Len(free)
           /\ PagesFor(len) \in Nat
<1>1. PagesFor(len) \in Nat  BY PagesForMonotone
<1>2. Len(free) \in Nat /\ Len(pages[s]) \in Nat  BY DEF TypeOK
<1>3. /\ PagesFor(len) - Len(pages[s]) <= 0 => Popped(s, len) = 0
      /\ PagesFor(len) - Len(pages[s]) > 0 => Popped(s, len) \in {PagesFor(len) - Len(pages[s]), Len(free)}
      /\ Popped(s, len) \in {0, PagesFor(len) - Len(pages[s]), Len(free)}
      /\ Popped(s, len) = PagesFor(len) - Len(pages[s]) => Popped(s, len) <= Len(free) \/ Popped(s, len) = 0
  BY <1>1, <1>2 DEF Popped
<1>4. QED  BY <1>1, <1>2, <1>3

\* Lengths and pages after a write.
LEMMA WriteKeeps ==
    ASSUME PagesInv, NEW s \in SeqIds, NEW start \in Nat, NEW n \in Nat, NEW commit \in BOOLEAN,
           start <= lSeq[s], Write(s, start, n, commit)
    PROVE  PagesInv'
<1> DEFINE end == start + n
           k == Popped(s, end)
<1>1. s \in reg /\ reg' = reg /\ EnsureCapacity(s, k)
  BY DEF Write
<1>2. k \in Nat /\ k <= Len(free) /\ PagesFor(end) \in Nat /\ end \in Nat
  <2>1. end \in Nat /\ TypeOK  BY DEF PagesInv
  <2>2. QED  BY <2>1, PoppedBound
<1>3. /\ free' \in Seq(Page) /\ pages' \in [SeqIds -> Seq(Page)]
      /\ Len(pages'[s]) = Len(pages[s]) + k
      /\ \A t \in SeqIds \ {s} : pages'[t] = pages[t]
      /\ PagesDisjoint' /\ PagesConserved'
  BY <1>1, <1>2, EnsureCapacityKeeps
<1>4. /\ reg \subseteq SeqIds /\ lAcc \in [SeqIds -> Nat] /\ lSeq \in [SeqIds -> Nat]
      /\ Len(pages[s]) \in Nat
  BY DEF PagesInv, TypeOK
<1>5. /\ lAcc' \in [SeqIds -> Nat] /\ lSeq' \in [SeqIds -> Nat]
      /\ \A t \in SeqIds \ {s} : lAcc'[t] = lAcc[t] /\ lSeq'[t] = lSeq[t]
      /\ \/ lAcc' = lAcc /\ lSeq' = lSeq
         \/ /\ Len(pages[s]) + k >= PagesFor(end)
            /\ lSeq'[s] = Larger(lSeq[s], end)
            /\ lAcc'[s] \in {lAcc[s], Larger(lAcc[s], end)}
  <2>1. CASE Len(pages[s]) + k < PagesFor(end)
    <3>1. lAcc' = lAcc /\ lSeq' = lSeq  BY <2>1 DEF Write
    <3>2. QED  BY <1>4, <3>1
  <2>2. CASE ~(Len(pages[s]) + k < PagesFor(end))
    <3>1. Advance(s, end, commit)  BY <2>2 DEF Write
    <3>2. /\ lSeq' = [lSeq EXCEPT ![s] = Larger(@, end)]
          /\ lAcc' = [lAcc EXCEPT ![s] = IF commit THEN Larger(@, end) ELSE @]
      BY <3>1 DEF Advance
    <3>3. Larger(lSeq[s], end) \in Nat /\ Larger(lAcc[s], end) \in Nat
      BY <1>2, <1>4 DEF Larger
    <3>4. QED  BY <1>2, <1>4, <2>2, <3>2, <3>3
  <2>3. QED  BY <2>1, <2>2
<1>6. \A t \in SeqIds : lAcc[t] <= lSeq[t] /\ PagesFor(lSeq[t]) <= Len(pages[t])
  BY DEF PagesInv, LengthsCovered
<1>7. LengthsCovered'
  <2> SUFFICES ASSUME NEW t \in SeqIds
               PROVE  lAcc'[t] <= lSeq'[t] /\ PagesFor(lSeq'[t]) <= Len(pages'[t])
    BY DEF LengthsCovered, PagesFor
  <2>1. CASE t # s
    BY <1>3, <1>5, <1>6, <2>1
  <2>2. CASE t = s
    <3>1. PagesFor(lSeq[s]) \in Nat  BY <1>4, PagesForMonotone
    <3>2. CASE lAcc' = lAcc /\ lSeq' = lSeq
      <4>1. Len(pages'[s]) >= Len(pages[s])  BY <1>2, <1>3, <1>4
      <4>2. QED  BY <1>2, <1>3, <1>4, <1>6, <2>2, <3>1, <3>2, <4>1
    <3>3. CASE /\ Len(pages[s]) + k >= PagesFor(end)
               /\ lSeq'[s] = Larger(lSeq[s], end)
               /\ lAcc'[s] \in {lAcc[s], Larger(lAcc[s], end)}
      <4>1. lAcc'[s] <= lSeq'[s]  BY <1>2, <1>4, <1>6, <3>3 DEF Larger
      <4>2. lSeq'[s] = lSeq[s] \/ lSeq'[s] = end  BY <3>3 DEF Larger
      <4>3. PagesFor(lSeq'[s]) <= Len(pages'[s])
        <5>1. CASE lSeq'[s] = lSeq[s]  BY <1>2, <1>3, <1>4, <1>6, <3>1, <5>1
        <5>2. CASE lSeq'[s] = end  BY <1>3, <3>3, <5>2
        <5>3. QED  BY <4>2, <5>1, <5>2
      <4>4. QED  BY <2>2, <4>1, <4>3
    <3>4. QED  BY <1>5, <3>2, <3>3
  <2>3. QED  BY <2>1, <2>2
<1>8. Unregistered'
  <2>1. \A t \in SeqIds \ reg : t \in SeqIds \ {s}  BY <1>1
  <2>2. QED  BY <1>1, <1>3, <1>5, <2>1 DEF PagesInv, Unregistered
<1>9. QED
  BY <1>1, <1>3, <1>4, <1>5, <1>7, <1>8 DEF PagesInv, TypeOK

\* Registering a sequence moves no page.
LEMMA RegisterKeeps ==
    ASSUME PagesInv, NEW s \in SeqIds, RegisterSequence(s)
    PROVE  PagesInv'
<1>1. /\ reg' = reg \cup {s} /\ free' = free /\ pages' = pages /\ lAcc' = lAcc /\ lSeq' = lSeq
  BY DEF RegisterSequence
<1>2. TypeOK'  BY <1>1 DEF PagesInv, TypeOK
<1>3. Unregistered'  BY <1>1 DEF PagesInv, Unregistered
<1>4. PagesDisjoint'  BY <1>1 DEF PagesInv, PagesDisjoint
<1>5. PagesConserved'
  <2>1. reg \subseteq reg'  BY <1>1
  <2>2. QED  BY <1>1, <2>1 DEF PagesInv, PagesConserved
<1>6. LengthsCovered'  BY <1>1 DEF PagesInv, LengthsCovered, PagesFor
<1>7. QED  BY <1>2, <1>3, <1>4, <1>5, <1>6 DEF PagesInv

\* Releasing a sequence gives all its pages back.
LEMMA ReleaseKeeps ==
    ASSUME PagesInv, NEW s \in SeqIds, ReleaseSequence(s)
    PROVE  PagesInv'
<1> DEFINE m == Len(pages[s])
           idx == [i \in 1..m |-> i]
<1>1. /\ s \in reg /\ reg' = reg \ {s} /\ free' = free \o pages[s]
      /\ pages' = [pages EXCEPT ![s] = <<>>]
      /\ lAcc' = [lAcc EXCEPT ![s] = 0] /\ lSeq' = [lSeq EXCEPT ![s] = 0]
  BY DEF ReleaseSequence
<1>2. /\ pages \in [SeqIds -> Seq(Page)] /\ pages[s] \in Seq(Page) /\ m \in Nat
      /\ lAcc \in [SeqIds -> Nat] /\ lSeq \in [SeqIds -> Nat] /\ reg \subseteq SeqIds
  BY DEF PagesInv, TypeOK
<1>3. Lists(pages[s], idx, pages[s], 0)
  <2>1. idx \in [1..m -> (0 + 1)..m]  BY <1>2
  <2>2. \A i \in 1..m : idx[i] = i  OBVIOUS
  <2>3. \A i, j \in 1..m : idx[i] = idx[j] => i = j  BY <2>2
  <2>4. \A i \in 1..m : pages[s][i] = pages[s][idx[i]]  BY <2>2
  <2>5. \A j \in (0 + 1)..m : \E i \in 1..m : idx[i] = j  BY <2>2
  <2>6. QED  BY <2>1, <2>3, <2>4, <2>5, Zenon DEF Lists
<1>4. pages' = [pages EXCEPT ![s] = SubSeq(@, 1, 0)]
  <2>1. SubSeq(pages[s], 1, 0) = <<>>  BY SubSeqEmpty
  <2>2. QED  BY <1>1, <2>1
<1>5. /\ free' \in Seq(Page) /\ pages' \in [SeqIds -> Seq(Page)]
      /\ Len(pages'[s]) = 0 /\ \A t \in SeqIds \ {s} : pages'[t] = pages[t]
      /\ PagesDisjoint' /\ PagesConserved'
  <2> HIDE DEF idx, m
  <2>1. 0 \in Nat /\ 0 <= Len(pages[s]) /\ (reg' = reg \/ (0 = 0 /\ reg' = reg \ {s}))
    BY <1>1, <1>2 DEF m
  <2>2. QED  BY <1>1, <1>2, <1>3, <1>4, <2>1, ReturnKeeps
<1>6. /\ lAcc' \in [SeqIds -> Nat] /\ lSeq' \in [SeqIds -> Nat]
      /\ lAcc'[s] = 0 /\ lSeq'[s] = 0 /\ pages'[s] = <<>>
      /\ \A t \in SeqIds \ {s} : lAcc'[t] = lAcc[t] /\ lSeq'[t] = lSeq[t]
  BY <1>1, <1>2
<1>7. LengthsCovered'
  <2> SUFFICES ASSUME NEW t \in SeqIds
               PROVE  lAcc'[t] <= lSeq'[t] /\ PagesFor(lSeq'[t]) <= Len(pages'[t])
    BY DEF LengthsCovered, PagesFor
  <2>1. CASE t # s  BY <1>5, <1>6, <2>1 DEF PagesInv, LengthsCovered
  <2>2. CASE t = s
    <3>0. ASSUME NEW b \in Nat \ {0} PROVE (b - 1) \div b = 0  OBVIOUS
    <3>1. PagesFor(0) = 0  BY <3>0, BlockSizeAssumption DEF PagesFor
    <3>2. QED  BY <1>5, <1>6, <2>2, <3>1
  <2>3. QED  BY <2>1, <2>2
<1>8. Unregistered'
  <2> SUFFICES ASSUME NEW t \in SeqIds \ reg'
               PROVE  pages'[t] = <<>> /\ lAcc'[t] = 0 /\ lSeq'[t] = 0
    BY DEF Unregistered
  <2>1. CASE t = s  BY <1>6, <2>1
  <2>2. CASE t # s
    <3>1. t \in SeqIds \ reg /\ t \in SeqIds \ {s}  BY <1>1, <2>2
    <3>2. QED  BY <1>5, <1>6, <3>1 DEF PagesInv, Unregistered
  <2>3. QED  BY <2>1, <2>2
<1>9. TypeOK'  BY <1>1, <1>2, <1>5, <1>6 DEF TypeOK
<1>10. QED  BY <1>5, <1>7, <1>8, <1>9 DEF PagesInv

\* Accepting written positions moves no page and stays within l_seq.
LEMMA CommitKeeps ==
    ASSUME PagesInv, NEW s \in SeqIds, NEW target \in Nat, Commit(s, target)
    PROVE  PagesInv'
<1>1. /\ free' = free /\ reg' = reg /\ pages' = pages /\ lSeq' = lSeq /\ s \in reg
      /\ target <= lSeq[s] /\ lAcc' = [lAcc EXCEPT ![s] = Larger(@, target)]
  BY DEF Commit
<1>2. lAcc \in [SeqIds -> Nat] /\ lSeq \in [SeqIds -> Nat]  BY DEF PagesInv, TypeOK
<1>3. lAcc[s] <= lSeq[s]  BY DEF PagesInv, LengthsCovered
<1>4. Larger(lAcc[s], target) \in Nat /\ Larger(lAcc[s], target) <= lSeq[s]
  BY <1>1, <1>2, <1>3 DEF Larger
<1>5. /\ lAcc' \in [SeqIds -> Nat] /\ lAcc'[s] <= lSeq[s]
      /\ \A t \in SeqIds \ {s} : lAcc'[t] = lAcc[t]
  BY <1>1, <1>2, <1>4
<1>6. TypeOK'  BY <1>1, <1>5 DEF PagesInv, TypeOK
<1>7. Unregistered'
  <2>1. \A t \in SeqIds \ reg : t \in SeqIds \ {s}  BY <1>1
  <2>2. QED  BY <1>1, <1>5, <2>1 DEF PagesInv, Unregistered
<1>8. PagesDisjoint'  BY <1>1 DEF PagesInv, PagesDisjoint
<1>9. PagesConserved'  BY <1>1 DEF PagesInv, PagesConserved
<1>10. LengthsCovered'
  <2> SUFFICES ASSUME NEW t \in SeqIds
               PROVE  lAcc'[t] <= lSeq'[t] /\ PagesFor(lSeq'[t]) <= Len(pages'[t])
    BY DEF LengthsCovered, PagesFor
  <2>1. CASE t # s  BY <1>1, <1>5, <2>1 DEF PagesInv, LengthsCovered
  <2>2. CASE t = s  BY <1>1, <1>5, <2>2 DEF PagesInv, LengthsCovered
  <2>3. QED  BY <2>1, <2>2
<1>11. QED  BY <1>6, <1>7, <1>8, <1>9, <1>10 DEF PagesInv

\* A rollback gives back the pages past its target and keeps the others in place.
LEMMA RollbackKeeps ==
    ASSUME PagesInv, NEW s \in SeqIds, NEW target \in Nat, Rollback(s, target)
    PROVE  /\ PagesInv'
           /\ \A i \in 1..Len(pages'[s]) : pages'[s][i] = pages[s][i]
           /\ \A t \in SeqIds \ {s} : pages'[t] = pages[t]
<1> DEFINE m == Len(pages[s])
           keep == IF PagesFor(target) < m THEN PagesFor(target) ELSE m
           back == [i \in 1..(m - keep) |-> pages[s][m + 1 - i]]
           idx == [i \in 1..(m - keep) |-> m + 1 - i]
<1>1. /\ s \in reg /\ reg' = reg /\ target <= lAcc[s]
      /\ lSeq' = [lSeq EXCEPT ![s] = target] /\ lAcc' = [lAcc EXCEPT ![s] = target]
      /\ pages' = [pages EXCEPT ![s] = SubSeq(@, 1, keep)] /\ free' = free \o back
  BY DEF Rollback
<1>2. /\ pages \in [SeqIds -> Seq(Page)] /\ pages[s] \in Seq(Page) /\ m \in Nat
      /\ \A i \in 1..m : pages[s][i] \in Page
      /\ lAcc \in [SeqIds -> Nat] /\ lSeq \in [SeqIds -> Nat] /\ reg \subseteq SeqIds
  BY DEF PagesInv, TypeOK
<1>3. target <= lSeq[s] /\ PagesFor(lSeq[s]) <= m
  BY <1>1, <1>2 DEF PagesInv, LengthsCovered
<1>4. /\ PagesFor(target) \in Nat /\ PagesFor(target) <= m
  BY <1>2, <1>3, PagesForMonotone
<1>5. keep = PagesFor(target) /\ keep \in Nat /\ keep <= m /\ m - keep \in Nat
  BY <1>2, <1>4
<1> HIDE DEF keep
<1>6. back \in Seq(Page) /\ Len(back) = m - keep
  <2>1. \A i \in 1..(m - keep) : m + 1 - i \in 1..m  BY <1>2, <1>5
  <2>2. \A i \in 1..(m - keep) : back[i] \in Page  BY <1>2, <2>1
  <2>3. back \in [1..(m - keep) -> Page]  BY <2>2
  <2> HIDE DEF back, m
  <2>4. QED  BY <1>5, <2>3, SeqOfFunction
<1>7. Lists(back, idx, pages[s], keep)
  <2>1. \A i \in 1..(m - keep) : m + 1 - i \in (keep + 1)..m  BY <1>2, <1>5
  <2>2. idx \in [1..(m - keep) -> (keep + 1)..m]  BY <2>1
  <2>3. \A i \in 1..(m - keep) : idx[i] = m + 1 - i /\ back[i] = pages[s][idx[i]]  OBVIOUS
  <2>4. \A i, j \in 1..(m - keep) : idx[i] = idx[j] => i = j  BY <1>2, <1>5, <2>3
  <2>5. ASSUME NEW j \in (keep + 1)..m PROVE \E i \in 1..(m - keep) : idx[i] = j
    <3>1. m + 1 - j \in 1..(m - keep) /\ m + 1 - (m + 1 - j) = j  BY <1>2, <1>5
    <3>2. QED  BY <2>3, <3>1
  <2> HIDE DEF idx, back, m
  <2>6. QED  BY <1>6, <2>2, <2>3, <2>4, <2>5 DEF Lists, m
<1>8. /\ free' \in Seq(Page) /\ pages' \in [SeqIds -> Seq(Page)]
      /\ Len(pages'[s]) = keep /\ \A t \in SeqIds \ {s} : pages'[t] = pages[t]
      /\ \A i \in 1..keep : pages'[s][i] = pages[s][i]
      /\ PagesDisjoint' /\ PagesConserved'
  <2> HIDE DEF idx, back
  <2>1. QED  BY <1>1, <1>5, <1>6, <1>7, ReturnKeeps
<1>9. /\ lAcc' \in [SeqIds -> Nat] /\ lSeq' \in [SeqIds -> Nat]
      /\ lAcc'[s] = target /\ lSeq'[s] = target
      /\ \A t \in SeqIds \ {s} : lAcc'[t] = lAcc[t] /\ lSeq'[t] = lSeq[t]
  BY <1>1, <1>2
<1>10. LengthsCovered'
  <2> SUFFICES ASSUME NEW t \in SeqIds
               PROVE  lAcc'[t] <= lSeq'[t] /\ PagesFor(lSeq'[t]) <= Len(pages'[t])
    BY DEF LengthsCovered, PagesFor
  <2>1. CASE t # s  BY <1>8, <1>9, <2>1 DEF PagesInv, LengthsCovered
  <2>2. CASE t = s  BY <1>4, <1>5, <1>8, <1>9, <2>2
  <2>3. QED  BY <2>1, <2>2
<1>11. Unregistered'
  <2>1. \A t \in SeqIds \ reg : t \in SeqIds \ {s}  BY <1>1
  <2>2. QED  BY <1>1, <1>8, <1>9, <2>1 DEF PagesInv, Unregistered
<1>12. TypeOK'  BY <1>1, <1>2, <1>8, <1>9 DEF TypeOK
<1>13. QED  BY <1>8, <1>10, <1>11, <1>12 DEF PagesInv

\* Every operation of the table keeps the page accounting.
LEMMA PagesStep == PagesInv /\ [Next]_vars => PagesInv'
<1> SUFFICES ASSUME PagesInv, [Next]_vars PROVE PagesInv'
  OBVIOUS
<1>1. CASE UNCHANGED vars
  BY <1>1 DEF vars, PagesInv, TypeOK, Unregistered, PagesDisjoint, PagesConserved, LengthsCovered, PagesFor
<1>2. CASE Next
  <2>1. PICK s \in SeqIds :
           \/ RegisterSequence(s)
           \/ ReleaseSequence(s)
           \/ \E start \in 0..lSeq[s], n \in 1..MaxWrite : Write(s, start, n, TRUE)
           \/ \E start \in lAcc[s]..lSeq[s], n \in 1..MaxWrite : Write(s, start, n, FALSE)
           \/ \E target \in 0..lSeq[s] : Commit(s, target)
           \/ \E target \in 0..lAcc[s] : Rollback(s, target)
    BY <1>2 DEF Next
  <2>2. lSeq[s] \in Nat /\ lAcc[s] \in Nat  BY DEF PagesInv, TypeOK
  <2>3. CASE RegisterSequence(s)  BY <2>3, RegisterKeeps
  <2>4. CASE ReleaseSequence(s)  BY <2>4, ReleaseKeeps
  <2>5. ASSUME NEW start \in 0..lSeq[s], NEW n \in 1..MaxWrite, NEW commit \in BOOLEAN,
               Write(s, start, n, commit)
        PROVE  PagesInv'
    <3>1. start \in Nat /\ n \in Nat /\ start <= lSeq[s]  BY <2>2, MaxWriteAssumption
    <3>2. QED  BY <2>5, <3>1, WriteKeeps
  <2>6. \A start \in lAcc[s]..lSeq[s] : start \in 0..lSeq[s]  BY <2>2
  <2>7. ASSUME NEW target \in 0..lSeq[s], Commit(s, target) PROVE PagesInv'
    BY <2>2, <2>7, CommitKeeps
  <2>8. ASSUME NEW target \in 0..lAcc[s], Rollback(s, target) PROVE PagesInv'
    BY <2>2, <2>8, RollbackKeeps
  <2>9. TRUE \in BOOLEAN /\ FALSE \in BOOLEAN  OBVIOUS
  <2>10. QED  BY <2>1, <2>3, <2>4, <2>5, <2>6, <2>7, <2>8, <2>9, Zenon
<1>3. QED  BY <1>1, <1>2

\* The page accounting of PagedKVTable is exact in every reachable state:
\* whatever writes fail half way or are rolled back, no page is shared, none
\* is lost and every written position has one.
THEOREM PagesAccounted == Spec => [](TypeOK /\ PagesDisjoint /\ PagesConserved /\ LengthsCovered)
<1>1. PagesInv => TypeOK /\ PagesDisjoint /\ PagesConserved /\ LengthsCovered
  BY DEF PagesInv
<1>2. QED
  BY PagesInit, PagesStep, <1>1, PTL DEF Spec

-----------------------------------------------------------------------------
\* Division with remainder.
LEMMA DivMod ==
    ASSUME NEW b \in Nat \ {0}, NEW p \in Nat
    PROVE  p % b \in 0..(b - 1) /\ p \div b \in Nat /\ p = b * (p \div b) + (p % b)
OBVIOUS

\* Pages do not overlap: the next page starts after the last row of this one.
LEMMA Scale ==
    ASSUME NEW b \in Nat \ {0}, NEW x \in Nat, NEW y \in Nat, x < y
    PROVE  x * b + b <= y * b
OBVIOUS

\* A row number determines the page and the slot.
LEMMA RowInjective ==
    ASSUME NEW b \in Nat \ {0}, NEW x \in Nat, NEW y \in Nat,
           NEW r \in 0..(b - 1), NEW q \in 0..(b - 1), x * b + r = y * b + q
    PROVE  x = y /\ r = q
<1>0. x * b \in Nat /\ y * b \in Nat  OBVIOUS
<1>1. ~(x < y)
  <2> SUFFICES ASSUME x < y PROVE FALSE  OBVIOUS
  <2>1. x * b + b <= y * b  BY Scale
  <2>2. QED  BY <1>0, <2>1
<1>2. ~(y < x)
  <2> SUFFICES ASSUME y < x PROVE FALSE  OBVIOUS
  <2>1. y * b + b <= x * b  BY Scale
  <2>2. QED  BY <1>0, <2>1
<1>3. x = y  BY <1>1, <1>2
<1>4. QED  BY <1>0, <1>3

\* A position below a length lies on one of the pages that length needs.
LEMMA PositionHasPage ==
    ASSUME NEW p \in Nat, NEW len \in Nat, p < len
    PROVE  p \div BlockSize + 1 \in 1..PagesFor(len)
<1>0. BlockSize \in Nat \ {0}  BY BlockSizeAssumption
<1>1. (p + BlockSize) \div BlockSize = (p \div BlockSize) + 1
  <2>1. /\ p = BlockSize * (p \div BlockSize) + (p % BlockSize)
        /\ p % BlockSize \in 0..(BlockSize - 1) /\ p \div BlockSize \in Nat
    BY <1>0, DivMod
  <2>2. QED  BY <1>0, <2>1
<1>2. (p + BlockSize) \div BlockSize <= (len + BlockSize - 1) \div BlockSize
  <2>1. /\ p + BlockSize \in Nat /\ len + BlockSize - 1 \in Nat
        /\ p + BlockSize <= len + BlockSize - 1
    BY <1>0
  <2>2. QED  BY <1>0, <2>1, DivMonotone
<1>3. p \div BlockSize \in Nat  BY <1>0, DivMod
<1>4. PagesFor(len) \in Nat  BY PagesForMonotone
<1>5. QED  BY <1>1, <1>2, <1>3, <1>4 DEF PagesFor

\* Two positions on one row are the same slot of the same page.
LEMMA SameRow ==
    ASSUME NEW ps \in Seq(Page), NEW qs \in Seq(Page), NEW p \in Nat, NEW q \in Nat,
           p \div BlockSize + 1 \in 1..Len(ps), q \div BlockSize + 1 \in 1..Len(qs),
           RowOf(ps, p) = RowOf(qs, q)
    PROVE  /\ ps[p \div BlockSize + 1] = qs[q \div BlockSize + 1]
           /\ p \div BlockSize + 1 = q \div BlockSize + 1 => p = q
<1>0. BlockSize \in Nat \ {0}  BY BlockSizeAssumption
<1> DEFINE x == ps[p \div BlockSize + 1]
           y == qs[q \div BlockSize + 1]
<1>1. x \in Nat /\ y \in Nat
  <2>1. x \in Page /\ y \in Page  OBVIOUS
  <2>2. QED  BY <2>1, NumPagesAssumption DEF Page
<1>2. /\ p % BlockSize \in 0..(BlockSize - 1) /\ q % BlockSize \in 0..(BlockSize - 1)
      /\ p = BlockSize * (p \div BlockSize) + (p % BlockSize)
      /\ q = BlockSize * (q \div BlockSize) + (q % BlockSize)
      /\ p \div BlockSize \in Nat /\ q \div BlockSize \in Nat
  BY <1>0, DivMod
<1>3. x * BlockSize + (p % BlockSize) = y * BlockSize + (q % BlockSize)  BY DEF RowOf
<1> HIDE DEF x, y
<1>4. x = y /\ p % BlockSize = q % BlockSize
  <2> DEFINE r == p % BlockSize
             o == q % BlockSize
  <2>1. r \in 0..(BlockSize - 1) /\ o \in 0..(BlockSize - 1)  BY <1>2
  <2>2. x * BlockSize + r = y * BlockSize + o  BY <1>3
  <2> HIDE DEF r, o
  <2>3. x = y /\ r = o  BY <1>0, <1>1, <2>1, <2>2, RowInjective
  <2>4. QED  BY <2>3 DEF r, o
<1>5. p \div BlockSize + 1 = q \div BlockSize + 1 => p \div BlockSize = q \div BlockSize  BY <1>2
<1>6. p \div BlockSize = q \div BlockSize => p = q  BY <1>2, <1>4
<1>7. QED  BY <1>4, <1>5, <1>6 DEF x, y

\* Every row of a page lies in the backing tensor.
LEMMA RowInRange ==
    ASSUME NEW ps \in Seq(Page), NEW p \in Nat, p \div BlockSize + 1 \in 1..Len(ps)
    PROVE  RowOf(ps, p) \in Row
<1>0. BlockSize \in Nat \ {0} /\ NumPages \in Nat  BY BlockSizeAssumption, NumPagesAssumption
<1> DEFINE x == ps[p \div BlockSize + 1]
<1>1. x \in 0..(NumPages - 1)
  <2>1. x \in Page  OBVIOUS
  <2>2. QED  BY <2>1 DEF Page
<1>2. p % BlockSize \in 0..(BlockSize - 1)  BY <1>0, DivMod
<1> HIDE DEF x
<1>3. x \in Nat /\ x < NumPages  BY <1>0, <1>1
<1>4. x * BlockSize + BlockSize <= NumPages * BlockSize  BY <1>0, <1>3, Scale
<1>5. x * BlockSize \in Nat /\ NumPages * BlockSize \in Nat  BY <1>0, <1>3
<1>6. x * BlockSize + (p % BlockSize) \in 0..(NumPages * BlockSize - 1)
  BY <1>0, <1>2, <1>4, <1>5
<1>7. QED  BY <1>6 DEF x, RowOf, Row

\* What was written at every position up to l_seq is still there.
WrittenIntact ==
    \A s \in SeqIds : \A p \in 0..(lSeq[s] - 1) : mem[RowOf(pages[s], p)] = <<s, p>>

\* The positions of a sequence lie on its pages and in the tensor.
LEMMA PositionsCovered ==
    ASSUME PagesInv, NEW s \in SeqIds, NEW p \in 0..(lSeq[s] - 1)
    PROVE  p \in Nat /\ p \div BlockSize + 1 \in 1..Len(pages[s]) /\ RowOf(pages[s], p) \in Row
<1>1. lSeq[s] \in Nat /\ pages[s] \in Seq(Page) /\ Len(pages[s]) \in Nat  BY DEF PagesInv, TypeOK
<1>2. p \in Nat /\ p < lSeq[s]  BY <1>1
<1>3. p \div BlockSize + 1 \in 1..PagesFor(lSeq[s])  BY <1>1, <1>2, PositionHasPage
<1>4. PagesFor(lSeq[s]) \in Nat /\ PagesFor(lSeq[s]) <= Len(pages[s])
  BY <1>1, PagesForMonotone DEF PagesInv, LengthsCovered
<1>5. p \div BlockSize + 1 \in 1..Len(pages[s])
  <2> DEFINE x == p \div BlockSize + 1
  <2>1. x \in 1..PagesFor(lSeq[s])  BY <1>3
  <2> HIDE DEF x
  <2>2. x \in 1..Len(pages[s])  BY <1>1, <1>4, <2>1
  <2>3. QED  BY <2>2 DEF x
<1>6. QED  BY <1>1, <1>2, <1>5, RowInRange

\* A write puts the new bytes at its own positions and nowhere else.
LEMMA WriteIntact ==
    ASSUME PagesInv, WrittenIntact, NEW s \in SeqIds, NEW start \in Nat, NEW n \in Nat,
           NEW commit \in BOOLEAN, start <= lSeq[s], Write(s, start, n, commit)
    PROVE  WrittenIntact'
<1> DEFINE end == start + n
           k == Popped(s, end)
           P == pages'
           fits == ~(Len(pages[s]) + k < PagesFor(end))
<1>1. s \in reg /\ reg' = reg /\ EnsureCapacity(s, k)  BY DEF Write
<1>2. k \in Nat /\ k <= Len(free) /\ PagesFor(end) \in Nat /\ end \in Nat
  <2>1. end \in Nat /\ TypeOK  BY DEF PagesInv
  <2>2. QED  BY <2>1, PoppedBound
<1>3. /\ P \in [SeqIds -> Seq(Page)] /\ Len(P[s]) = Len(pages[s]) + k
      /\ \A t \in SeqIds \ {s} : P[t] = pages[t]
      /\ \A i \in 1..Len(pages[s]) : P[s][i] = pages[s][i]
      /\ PagesDisjoint'
  BY <1>1, <1>2, EnsureCapacityKeeps
<1>4. lSeq \in [SeqIds -> Nat] /\ lAcc \in [SeqIds -> Nat] /\ Len(pages[s]) \in Nat
  BY DEF PagesInv, TypeOK
<1>5. ASSUME NEW t \in SeqIds, NEW p \in 0..(lSeq[t] - 1)
      PROVE  /\ p \in Nat /\ p \div BlockSize + 1 \in 1..Len(P[t])
             /\ RowOf(P[t], p) = RowOf(pages[t], p) /\ RowOf(P[t], p) \in Row
             /\ mem[RowOf(P[t], p)] = <<t, p>>
  <2>1. p \in Nat /\ p \div BlockSize + 1 \in 1..Len(pages[t]) /\ RowOf(pages[t], p) \in Row
    BY PositionsCovered
  <2>2. mem[RowOf(pages[t], p)] = <<t, p>>  BY DEF WrittenIntact
  <2>3. CASE t # s
    <3>1. P[t] = pages[t]  BY <1>3, <2>3
    <3>2. QED  BY <2>1, <2>2, <3>1
  <2>4. CASE t = s
    <3>0. Len(P[s]) \in Nat /\ Len(pages[s]) <= Len(P[s])
      <4>1. \A a, b \in Nat : a + b \in Nat /\ a <= a + b  OBVIOUS
      <4>2. k \in Nat /\ Len(pages[s]) \in Nat  BY <1>2, <1>4
      <4>3. Len(P[s]) = Len(pages[s]) + k  BY <1>3
      <4> HIDE DEF k, P
      <4>4. QED  BY <4>1, <4>2, <4>3
    <3>1. ASSUME NEW x \in 1..Len(pages[s]) PROVE x \in 1..Len(P[s])  BY <1>4, <3>0
    <3>2. RowOf(P[t], p) = RowOf(pages[t], p)  BY <1>3, <2>1, <2>4 DEF RowOf
    <3>3. QED  BY <2>1, <2>2, <2>4, <3>1, <3>2
  <2>5. QED  BY <2>3, <2>4
<1>6. CASE ~fits
  <2>1. lSeq' = lSeq /\ mem' = mem  BY <1>6 DEF Write
  <2> SUFFICES ASSUME NEW t \in SeqIds, NEW p \in 0..(lSeq[t] - 1)
               PROVE  mem[RowOf(P[t], p)] = <<t, p>>
    BY <2>1 DEF WrittenIntact, RowOf
  <2>2. QED  BY <1>5
<1>7. CASE fits
  <2> DEFINE at(r) == {p \in start..(end - 1) : RowOf(P[s], p) = r}
  <2>1. /\ mem' = [r \in Row |-> IF at(r) = {} THEN mem[r] ELSE <<s, CHOOSE p \in at(r) : TRUE>>]
        /\ lSeq' = [lSeq EXCEPT ![s] = Larger(@, end)]
    BY <1>7 DEF Write, Advance
  <2>2. ASSUME NEW q \in start..(end - 1)
        PROVE  q \in Nat /\ q \div BlockSize + 1 \in 1..Len(P[s]) /\ RowOf(P[s], q) \in Row
    <3>1. q \in Nat /\ q < end  BY <1>2
    <3>2. q \div BlockSize + 1 \in 1..PagesFor(end)  BY <1>2, <3>1, PositionHasPage
    <3>3. \A x \in 1..PagesFor(end) : x \in 1..Len(P[s])  BY <1>2, <1>3, <1>4, <1>7
    <3>4. P[s] \in Seq(Page)  BY <1>3
    <3>5. QED  BY <3>1, <3>2, <3>3, <3>4, RowInRange
  <2>3. ASSUME NEW t \in SeqIds, NEW p \in Nat, p \div BlockSize + 1 \in 1..Len(P[t]),
               NEW q \in start..(end - 1), RowOf(P[t], p) = RowOf(P[s], q)
        PROVE  t = s /\ p = q
    <3>1. P[t] \in Seq(Page) /\ P[s] \in Seq(Page)  BY <1>3
    <3>2. q \in Nat /\ q \div BlockSize + 1 \in 1..Len(P[s])  BY <2>2
    <3>3. /\ P[t][p \div BlockSize + 1] = P[s][q \div BlockSize + 1]
          /\ p \div BlockSize + 1 = q \div BlockSize + 1 => p = q
      BY <2>3, <3>1, <3>2, SameRow
    <3>4. t = s /\ p \div BlockSize + 1 = q \div BlockSize + 1
      <4>1. ASSUME NEW i \in 1..Len(P[t]), NEW j \in 1..Len(P[s]), P[t][i] = P[s][j]
            PROVE  t = s /\ i = j
        <5>1. \A t1 \in SeqIds : \A i1 \in 1..Len(P[t1]) : \A u \in SeqIds : \A j1 \in 1..Len(P[u]) :
                  P[t1][i1] = P[u][j1] => t1 = u /\ i1 = j1
          BY <1>3 DEF PagesDisjoint
        <5>2. QED  BY <4>1, <5>1, Zenon
      <4>2. QED  BY <2>3, <3>2, <3>3, <4>1, Zenon
    <3>5. QED  BY <3>3, <3>4
  <2>4. ASSUME NEW t \in SeqIds, NEW p \in 0..(lSeq'[t] - 1)
        PROVE  mem'[RowOf(P[t], p)] = <<t, p>>
    <3>1. CASE t = s /\ p \in start..(end - 1)
      <4>1. p \in Nat /\ p \div BlockSize + 1 \in 1..Len(P[s]) /\ RowOf(P[s], p) \in Row
        BY <2>2, <3>1
      <4>2. \A q \in at(RowOf(P[s], p)) : p = q  BY <2>3, <4>1, Zenon
      <4>3. p \in at(RowOf(P[s], p))  BY <3>1
      <4>4. (CHOOSE q \in at(RowOf(P[s], p)) : TRUE) = p  BY <4>2, <4>3
      <4>5. QED  BY <2>1, <3>1, <4>1, <4>3, <4>4
    <3>2. CASE ~(t = s /\ p \in start..(end - 1))
      <4>1. p \in 0..(lSeq[t] - 1)
        <5>1. CASE t # s
          <6>1. lSeq'[t] = lSeq[t]  BY <1>4, <2>1, <5>1
          <6>2. QED  BY <6>1
        <5>2. CASE t = s
          <6>1. lSeq'[s] = Larger(lSeq[s], end)  BY <1>4, <2>1
          <6>2. p \in 0..(Larger(lSeq[s], end) - 1) /\ ~(p \in start..(end - 1))
            BY <3>2, <5>2, <6>1
          <6>3. lSeq[s] \in Nat  BY <1>4
          <6>4. p \in 0..(lSeq[s] - 1)  BY <1>2, <6>2, <6>3 DEF Larger
          <6>5. QED  BY <5>2, <6>4
        <5>3. QED  BY <5>1, <5>2
      <4>2. /\ p \in Nat /\ p \div BlockSize + 1 \in 1..Len(P[t])
            /\ RowOf(P[t], p) \in Row /\ mem[RowOf(P[t], p)] = <<t, p>>
        BY <1>5, <4>1
      <4>3. at(RowOf(P[t], p)) = {}
        <5> SUFFICES ASSUME NEW q \in start..(end - 1), RowOf(P[s], q) = RowOf(P[t], p) PROVE FALSE
          OBVIOUS
        <5>1. t = s /\ p = q  BY <2>3, <4>2
        <5>2. QED  BY <3>2, <5>1
      <4>4. QED  BY <2>1, <4>2, <4>3
    <3>3. QED  BY <3>1, <3>2
  <2>5. QED  BY <2>4 DEF WrittenIntact, RowOf
<1>8. QED  BY <1>6, <1>7

\* Every operation of the table keeps the bytes of every written position.
LEMMA IntactStep == PagesInv /\ PagesInv' /\ WrittenIntact /\ [Next]_vars => WrittenIntact'
<1> SUFFICES ASSUME PagesInv, WrittenIntact, [Next]_vars PROVE WrittenIntact'
  OBVIOUS
<1>0. lSeq \in [SeqIds -> Nat] /\ lAcc \in [SeqIds -> Nat]  BY DEF PagesInv, TypeOK
<1>1. ASSUME mem' = mem, pages' = pages, lSeq' = lSeq PROVE WrittenIntact'
  BY <1>1 DEF WrittenIntact, RowOf
<1>2. CASE UNCHANGED vars  BY <1>1, <1>2 DEF vars
<1>3. ASSUME NEW s \in SeqIds, RegisterSequence(s) PROVE WrittenIntact'
  BY <1>1, <1>3 DEF RegisterSequence
<1>4. ASSUME NEW s \in SeqIds, ReleaseSequence(s) PROVE WrittenIntact'
  <2>1. mem' = mem /\ lSeq' = [lSeq EXCEPT ![s] = 0] /\ pages' = [pages EXCEPT ![s] = <<>>]
    BY <1>4 DEF ReleaseSequence
  <2>2. pages \in [SeqIds -> Seq(Page)]  BY DEF PagesInv, TypeOK
  <2>3. /\ \A t \in SeqIds \ {s} : pages'[t] = pages[t] /\ lSeq'[t] = lSeq[t]
        /\ lSeq'[s] = 0
    BY <1>0, <2>1, <2>2
  <2> SUFFICES ASSUME NEW t \in SeqIds, NEW p \in 0..(lSeq'[t] - 1)
               PROVE  mem[RowOf(pages'[t], p)] = <<t, p>>
    BY <2>1 DEF WrittenIntact, RowOf
  <2>4. t # s  BY <2>3
  <2>5. QED  BY <2>3, <2>4 DEF WrittenIntact
<1>5. ASSUME NEW s \in SeqIds, NEW start \in 0..lSeq[s], NEW n \in 1..MaxWrite, NEW commit \in BOOLEAN,
             Write(s, start, n, commit)
      PROVE  WrittenIntact'
  <2>1. start \in Nat /\ n \in Nat /\ start <= lSeq[s]  BY <1>0, MaxWriteAssumption
  <2>2. QED  BY <1>5, <2>1, WriteIntact
<1>6. ASSUME NEW s \in SeqIds, NEW target \in 0..lSeq[s], Commit(s, target) PROVE WrittenIntact'
  BY <1>1, <1>6 DEF Commit
<1>7. ASSUME NEW s \in SeqIds, NEW target \in 0..lAcc[s], Rollback(s, target) PROVE WrittenIntact'
  <2>1. mem' = mem /\ lSeq' = [lSeq EXCEPT ![s] = target] /\ target <= lAcc[s]
    BY <1>7 DEF Rollback
  <2>2. target \in Nat /\ target <= lSeq[s]
    <3>1. lAcc[s] \in Nat /\ lSeq[s] \in Nat  BY <1>0
    <3>2. lAcc[s] <= lSeq[s]  BY DEF PagesInv, LengthsCovered
    <3>3. QED  BY <2>1, <3>1, <3>2
  <2>3. /\ PagesInv'
        /\ \A i \in 1..Len(pages'[s]) : pages'[s][i] = pages[s][i]
        /\ \A t \in SeqIds \ {s} : pages'[t] = pages[t]
    BY <1>7, <2>2, RollbackKeeps
  <2>4. /\ \A t \in SeqIds \ {s} : lSeq'[t] = lSeq[t]
        /\ lSeq'[s] = target
    BY <1>0, <2>1
  <2> SUFFICES ASSUME NEW t \in SeqIds, NEW p \in 0..(lSeq'[t] - 1)
               PROVE  mem[RowOf(pages'[t], p)] = <<t, p>>
    BY <2>1 DEF WrittenIntact, RowOf
  <2>5. CASE t # s  BY <2>3, <2>4, <2>5 DEF WrittenIntact
  <2>6. CASE t = s
    <3>1. p \in Nat /\ p < target /\ lSeq[s] \in Nat  BY <1>0, <2>2, <2>4, <2>6
    <3>2. p \in 0..(lSeq[s] - 1)  BY <2>2, <3>1
    <3>3. p \div BlockSize + 1 \in 1..PagesFor(target)  BY <2>2, <3>1, PositionHasPage
    <3>4. PagesFor(target) <= Len(pages'[s]) /\ PagesFor(target) \in Nat /\ Len(pages'[s]) \in Nat
      <4>1. PagesFor(lSeq'[s]) <= Len(pages'[s])  BY <2>3 DEF PagesInv, LengthsCovered, PagesFor
      <4>2. pages'[s] \in Seq(Page)  BY <2>3 DEF PagesInv, TypeOK
      <4>3. QED  BY <2>2, <2>4, <4>1, <4>2, PagesForMonotone
    <3>5. ASSUME NEW x \in 1..PagesFor(target) PROVE x \in 1..Len(pages'[s])  BY <3>4
    <3>6. pages'[s][p \div BlockSize + 1] = pages[s][p \div BlockSize + 1]  BY <2>3, <3>3, <3>5
    <3>7. RowOf(pages'[s], p) = RowOf(pages[s], p)  BY <3>6 DEF RowOf
    <3>8. QED  BY <2>6, <3>2, <3>7 DEF WrittenIntact
  <2>7. QED  BY <2>5, <2>6
<1>8. CASE Next
  <2>1. PICK s \in SeqIds :
           \/ RegisterSequence(s)
           \/ ReleaseSequence(s)
           \/ \E start \in 0..lSeq[s], n \in 1..MaxWrite : Write(s, start, n, TRUE)
           \/ \E start \in lAcc[s]..lSeq[s], n \in 1..MaxWrite : Write(s, start, n, FALSE)
           \/ \E target \in 0..lSeq[s] : Commit(s, target)
           \/ \E target \in 0..lAcc[s] : Rollback(s, target)
    BY <1>8 DEF Next
  <2>2. \A start \in lAcc[s]..lSeq[s] : start \in 0..lSeq[s]
    <3>1. lAcc[s] \in Nat /\ lSeq[s] \in Nat  BY <1>0
    <3>2. QED  BY <3>1
  <2>3. TRUE \in BOOLEAN /\ FALSE \in BOOLEAN  OBVIOUS
  <2>4. QED  BY <1>3, <1>4, <1>5, <1>6, <1>7, <2>1, <2>2, <2>3, Zenon
<1>9. QED  BY <1>2, <1>8

\* gather_prefix returns at every accepted position the bytes that were written
\* there, for any interleaving of the operations of any number of sequences.
THEOREM PrefixNeverCorrupted == Spec => []PrefixIntact
<1>1. Init => WrittenIntact
  <2> SUFFICES ASSUME Init, NEW s \in SeqIds, NEW p \in 0..(lSeq[s] - 1) PROVE FALSE
    BY DEF WrittenIntact
  <2>1. lSeq[s] = 0  BY DEF Init
  <2>2. QED  BY <2>1
<1>2. PagesInv /\ WrittenIntact => PrefixIntact
  <2> SUFFICES ASSUME PagesInv, WrittenIntact, NEW s \in reg, NEW p \in 0..(lAcc[s] - 1)
               PROVE  mem[RowOf(pages[s], p)] = <<s, p>>
    BY DEF PrefixIntact, GatherPrefix
  <2>1. s \in SeqIds  BY DEF PagesInv, TypeOK
  <2>2. lAcc[s] \in Nat /\ lSeq[s] \in Nat /\ lAcc[s] <= lSeq[s]
    BY <2>1 DEF PagesInv, TypeOK, LengthsCovered
  <2>3. p \in 0..(lSeq[s] - 1)  BY <2>2
  <2>4. QED  BY <2>1, <2>3 DEF WrittenIntact
<1>3. QED
  BY PagesInit, PagesStep, IntactStep, <1>1, <1>2, PTL DEF Spec

=============================================================================
