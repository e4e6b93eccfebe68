------------------------------- MODULE PagedKV -------------------------------
(***************************************************************************)
(* The paged KV table (src/bloombee/server/paged_kv.py): a pool of pages   *)
(* of BlockSize tokens, a LIFO free list, and for each sequence its pages, *)
(* its accepted length l_acc and its written length l_seq.  A sequence     *)
(* that is not registered has no pages and length 0.                       *)
(*                                                                         *)
(* mem is the backing tensor: for each token row, the sequence and the     *)
(* position whose bytes were written there last.                           *)
(***************************************************************************)
EXTENDS Integers, Sequences

CONSTANTS
    SeqIds,      \* sequence ids
    NumPages,    \* num_pages
    BlockSize,   \* block_size
    MaxWrite,    \* bound: tokens per write
    NoBytes      \* content of a row that was never written

ASSUME NumPagesAssumption == NumPages \in Nat
ASSUME BlockSizeAssumption == BlockSize \in Nat \ {0}
ASSUME MaxWriteAssumption == MaxWrite \in Nat

VARIABLES free, reg, pages, lAcc, lSeq, mem

vars == <<free, reg, pages, lAcc, lSeq, mem>>

Page == 0..(NumPages - 1)
Row == 0..(NumPages * BlockSize - 1)

TypeOK ==
    /\ free \in Seq(Page)
    /\ reg \subseteq SeqIds
    /\ pages \in [SeqIds -> Seq(Page)]
    /\ lAcc \in [SeqIds -> Nat]
    /\ lSeq \in [SeqIds -> Nat]

FreeList == [i \in 1..NumPages |-> NumPages - i]

Init ==
    /\ free = FreeList
    /\ reg = {}
    /\ pages = [s \in SeqIds |-> <<>>]
    /\ lAcc = [s \in SeqIds |-> 0]
    /\ lSeq = [s \in SeqIds |-> 0]
    /\ mem = [r \in Row |-> NoBytes]

\* (len + block_size - 1) // block_size
PagesFor(len) == (len + BlockSize - 1) \div BlockSize

RowOf(ps, pos) == ps[pos \div BlockSize + 1] * BlockSize + (pos % BlockSize)

-----------------------------------------------------------------------------
RegisterSequence(s) ==
    /\ s \notin reg
    /\ reg' = reg \cup {s}
    /\ UNCHANGED <<free, pages, lAcc, lSeq, mem>>

\* Mutant: the pages of a released sequence are not given back.
ReleaseForgetsPages(s) ==
    /\ s \in reg
    /\ reg' = reg \ {s}
    /\ pages' = [pages EXCEPT ![s] = <<>>]
    /\ lAcc' = [lAcc EXCEPT ![s] = 0]
    /\ lSeq' = [lSeq EXCEPT ![s] = 0]
    /\ UNCHANGED <<free, mem>>

ReleaseSequence(s) ==
    /\ s \in reg
    /\ reg' = reg \ {s}
    /\ free' = free \o pages[s]
    /\ pages' = [pages EXCEPT ![s] = <<>>]
    /\ lAcc' = [lAcc EXCEPT ![s] = 0]
    /\ lSeq' = [lSeq EXCEPT ![s] = 0]
    /\ UNCHANGED mem

\* How many pages _ensure_capacity pops before it succeeds or the pool is empty.
Popped(s, len) ==
    LET missing == PagesFor(len) - Len(pages[s])
    IN  IF missing <= 0 THEN 0 ELSE IF missing <= Len(free) THEN missing ELSE Len(free)

\* Mutant of EnsureCapacity: the pages are read off the free list, not popped.
EnsureCapacityNoPop(s, k) ==
    /\ pages' = [pages EXCEPT ![s] =
           [i \in 1..(Len(pages[s]) + k) |->
               IF i <= Len(pages[s]) THEN pages[s][i]
               ELSE free[Len(free) + Len(pages[s]) + 1 - i]]]
    /\ UNCHANGED free

\* Pops k pages from the end of the free list onto the end of the page list.
EnsureCapacity(s, k) ==
    /\ pages' = [pages EXCEPT ![s] =
           [i \in 1..(Len(pages[s]) + k) |->
               IF i <= Len(pages[s]) THEN pages[s][i]
               ELSE free[Len(free) + Len(pages[s]) + 1 - i]]]
    /\ free' = SubSeq(free, 1, Len(free) - k)

Larger(a, b) == IF a >= b THEN a ELSE b

Advance(s, end, commit) ==
    /\ lSeq' = [lSeq EXCEPT ![s] = Larger(@, end)]
    /\ lAcc' = [lAcc EXCEPT ![s] = IF commit THEN Larger(@, end) ELSE @]

\* write: n > 0 tokens from position start.  It fails when the pool runs out;
\* the pages it popped until then stay with the sequence.
Write(s, start, n, commit) ==
    /\ s \in reg
    /\ LET end == start + n
           k == Popped(s, end)
       IN  /\ EnsureCapacity(s, k)
           /\ IF Len(pages[s]) + k < PagesFor(end)
              THEN UNCHANGED <<lAcc, lSeq, mem>>
              ELSE /\ mem' = [r \in Row |->
                          LET at == {p \in start..(end - 1) : RowOf(pages'[s], p) = r}
                          IN  IF at = {} THEN mem[r] ELSE <<s, CHOOSE p \in at : TRUE>>]
                   /\ Advance(s, end, commit)
    /\ UNCHANGED reg

\* commit raises an error beyond l_seq.
Commit(s, target) ==
    /\ s \in reg /\ target <= lSeq[s]
    /\ lAcc' = [lAcc EXCEPT ![s] = Larger(@, target)]
    /\ UNCHANGED <<free, reg, pages, lSeq, mem>>

\* rollback raises an error beyond l_acc; orphaned pages go back, last one first.
Rollback(s, target) ==
    /\ s \in reg /\ target <= lAcc[s]
    /\ lSeq' = [lSeq EXCEPT ![s] = target]
    /\ lAcc' = [lAcc EXCEPT ![s] = target]
    /\ LET held == Len(pages[s])
           keep == IF PagesFor(target) < held THEN PagesFor(target) ELSE held
       IN  /\ pages' = [pages EXCEPT ![s] = SubSeq(@, 1, keep)]
           /\ free' = free \o [i \in 1..(held - keep) |-> pages[s][held + 1 - i]]
    /\ UNCHANGED <<reg, mem>>

GatherPrefix(s) == [p \in 0..(lAcc[s] - 1) |-> mem[RowOf(pages[s], p)]]

(***************************************************************************)
(* Callers append (start = l_seq) or rewrite an earlier position, the      *)
(* speculative writes never below the accepted prefix.                     *)
(***************************************************************************)
Next ==
    \E s \in SeqIds :
        \/ RegisterSequence(s)
        \/ ReleaseSequence(s)
        \/ \E start \in 0..lSeq[s], n \in 1..MaxWrite :
              Write(s, start, n, TRUE)
        \/ \E start \in lAcc[s]..lSeq[s], n \in 1..MaxWrite :
              Write(s, start, n, FALSE)
        \/ \E target \in 0..lSeq[s] : Commit(s, target)
        \/ \E target \in 0..lAcc[s] : Rollback(s, target)

Spec == Init /\ [][Next]_vars

-----------------------------------------------------------------------------
\* No page is held twice: not by two sequences, not twice by one, not by a
\* sequence and the free list, not twice on the free list.
PagesDisjoint ==
    /\ \A i, j \in 1..Len(free) : free[i] = free[j] => i = j
    /\ \A s \in SeqIds : \A i \in 1..Len(pages[s]) :
          /\ \A j \in 1..Len(free) : pages[s][i] # free[j]
          /\ \A t \in SeqIds : \A j \in 1..Len(pages[t]) :
                pages[s][i] = pages[t][j] => s = t /\ i = j

\* No page is lost: each one is free or held by a registered sequence, also
\* after writes that failed half way.
PagesConserved ==
    \A p \in Page : \/ \E i \in 1..Len(free) : free[i] = p
                    \/ \E s \in reg : \E i \in 1..Len(pages[s]) : pages[s][i] = p

\* A sequence owns a page for every position it has written, and has accepted
\* no more than it has written: gather_prefix never indexes past its pages.
LengthsCovered ==
    \A s \in SeqIds : lAcc[s] <= lSeq[s] /\ PagesFor(lSeq[s]) <= Len(pages[s])

\* gather_prefix returns at every accepted position the bytes written there,
\* whatever was speculated, rolled back or written by other sequences since.
PrefixIntact ==
    \A s \in reg : \A p \in 0..(lAcc[s] - 1) : GatherPrefix(s)[p] = <<s, p>>

=============================================================================
