--------------------------- MODULE MemCellsProofs ---------------------------
(***************************************************************************)
(* Proof that the pointers of the memory cells spell out two lists that    *)
(* share the cells between them, however many cells there are and in       *)
(* whatever order they come back; that destroy_backend frees each cell     *)
(* once; and that the free cells are what CellPool promises.               *)
(*                                                                         *)
(* ListsLinked is not inductive: that relinking the neighbours of a cell   *)
(* leaves the rest of the lists alone follows from no cell being in both   *)
(* lists or twice in one (Partition).                                      *)
(***************************************************************************)
EXTENDS MemCells, FiniteSetTheorems, FunctionTheorems, WellFoundedInduction, TLAPS

Distinct(s) == \A i, j \in DOMAIN s : s[i] = s[j] => i = j

Partition ==
    /\ Distinct(unused) /\ Distinct(used)
    /\ \A i \in DOMAIN unused, j \in DOMAIN used : unused[i] # used[j]
    /\ \A c \in Cells : \/ \E i \in DOMAIN unused : unused[i] = c
                        \/ \E i \in DOMAIN used : used[i] = c

(* The pointers inside a list, whoever points to its head *)
Chain(s) == \A i \in DOMAIN s : next[s[i]] = IF i = Len(s) THEN Null ELSE s[i + 1]

(* By the counts f, the first k cells of s were freed; head points to the   *)
(* one after.                                                               *)
FreedTo(f, head, s, k) ==
    /\ head = IF k = Len(s) THEN Null ELSE s[k + 1]
    /\ \A i \in DOMAIN s : f[s[i]] = IF i <= k THEN 1 ELSE 0

(* How far destroy_backend has come.                                        *)
Freeing ==
    /\ Chain(unused) /\ Chain(used)
    /\ phase = "running" => FreedTo(freed, unused_head, unused, 0) /\ FreedTo(freed, used_head, used, 0)
    /\ phase = "free_used" => /\ FreedTo(freed, unused_head, unused, 0)
                              /\ \E k \in 0 .. Len(used) : FreedTo(freed, used_head, used, k)
    /\ phase = "free_unused" => /\ \E k \in 0 .. Len(unused) : FreedTo(freed, unused_head, unused, k)
                                /\ FreedTo(freed, Null, used, Len(used))
    /\ phase = "destroyed" => /\ FreedTo(freed, Null, unused, Len(unused))
                              /\ FreedTo(freed, Null, used, Len(used))

IInv == ListsLinked /\ Partition /\ Freeing
-----------------------------------------------------------------------------
(* The list without its n-th cell.                                          *)
LEMMA WithoutOne ==
    ASSUME NEW s \in Seq(Cells), Distinct(s), NEW n \in DOMAIN s
    PROVE  /\ Without(s, s[n]) \in Seq(Cells)
           /\ Len(Without(s, s[n])) = Len(s) - 1
           /\ DOMAIN Without(s, s[n]) = 1 .. Len(s) - 1
           /\ \A i \in 1 .. Len(s) - 1 :
                 Without(s, s[n])[i] = IF i < n THEN s[i] ELSE s[i + 1]
<1>1. (CHOOSE i \in DOMAIN s : s[i] = s[n]) = n
    <2>1. \A i \in DOMAIN s : s[i] = s[n] <=> i = n
        BY DEF Distinct
    <2> QED BY <2>1
<1>2. Without(s, s[n]) = [i \in 1 .. Len(s) - 1 |-> IF i < n THEN s[i] ELSE s[i + 1]]
    BY <1>1 DEF Without
<1>3. DOMAIN s = 1 .. Len(s) /\ Len(s) \in Nat /\ Len(s) - 1 \in Nat
    OBVIOUS
<1>4. \A i \in 1 .. Len(s) - 1 : (IF i < n THEN s[i] ELSE s[i + 1]) \in Cells
    BY <1>3
<1> QED BY <1>2, <1>3, <1>4

(* The list without its first cell.                                        *)
LEMMA InOneList ==
    ASSUME NEW s \in Seq(Cells), s # <<>>
    PROVE  /\ Head(s) = s[1] /\ 1 \in DOMAIN s /\ DOMAIN s = 1 .. Len(s) /\ Len(s) \in Nat
           /\ Tail(s) \in Seq(Cells) /\ Len(Tail(s)) = Len(s) - 1
           /\ DOMAIN Tail(s) = 1 .. Len(s) - 1
           /\ \A i \in 1 .. Len(s) - 1 : Tail(s)[i] = s[i + 1]
OBVIOUS

(* The list with one more cell in front.                                    *)
LEMMA InFront ==
    ASSUME NEW s \in Seq(Cells), NEW c \in Cells
    PROVE  /\ <<c>> \o s \in Seq(Cells) /\ Len(<<c>> \o s) = Len(s) + 1
           /\ DOMAIN (<<c>> \o s) = 1 .. Len(s) + 1
           /\ \A i \in 1 .. Len(s) + 1 : (<<c>> \o s)[i] = IF i = 1 THEN c ELSE s[i - 1]
OBVIOUS

(* create_backend links the cells from the last to the first.               *)
LEMMA InitIInv == Init => IInv
<1> SUFFICES ASSUME Init PROVE IInv
    OBVIOUS
<1> USE NCellsAssumption DEF Cells, Null
<1>1. /\ unused \in Seq(Cells) /\ Len(unused) = NCells /\ DOMAIN unused = 1 .. NCells
      /\ used \in Seq(Cells) /\ DOMAIN used = {} /\ Len(used) = 0 /\ used = <<>>
      /\ unused # <<>>
    BY DEF Init
<1>2. TypeOK
    BY <1>1 DEF Init, TypeOK, MaxFreed
<1>3. Partition
    <2>1. \A c \in Cells : unused[NCells + 1 - c] = c /\ NCells + 1 - c \in DOMAIN unused
        BY <1>1 DEF Init
    <2>2. Distinct(unused)
        BY <1>1 DEF Init, Distinct
    <2> QED BY <1>1, <2>1, <2>2 DEF Partition, Distinct
<1>4. Chain(unused) /\ Chain(used)
    <2>1. ASSUME NEW i \in 1 .. NCells
          PROVE  next[unused[i]] = IF i = NCells THEN Null ELSE unused[i + 1]
        <3>1. unused[i] = NCells + 1 - i /\ NCells + 1 - i \in Cells
            BY DEF Init
        <3>2. next[NCells + 1 - i] = NCells - i
            BY <3>1 DEF Init
        <3>3. i # NCells => unused[i + 1] = NCells - i
            BY DEF Init
        <3> QED BY <3>1, <3>2, <3>3
    <2> QED BY <1>1, <2>1 DEF Chain
<1>5. Linked(unused_head, unused) /\ Linked(used_head, used) /\ LinkedBack(used)
      /\ prev[unused[1]] = Null
    <2>1. unused[1] = NCells
        BY <1>1 DEF Init
    <2>2. unused_head = NCells /\ used_head = Null /\ prev[NCells] = Null
        BY DEF Init
    <2> QED BY <1>1, <1>4, <2>1, <2>2 DEF Linked, Chain, LinkedBack
<1>6. Freeing
    BY <1>1, <1>4 DEF Init, Freeing, FreedTo
<1> QED BY <1>2, <1>3, <1>5, <1>6 DEF IInv, ListsLinked
-----------------------------------------------------------------------------
(* What the invariant says while cells are given out.                       *)
Running ==
    /\ TypeOK /\ phase = "running"
    /\ Linked(unused_head, unused) /\ Linked(used_head, used)
    /\ LinkedBack(used)
    /\ unused # <<>> => prev[unused[1]] = Null
    /\ Partition
    /\ \A c \in Cells : freed[c] = 0

LEMMA RunningIs == phase = "running" => (IInv <=> Running)
<1> SUFFICES ASSUME phase = "running" PROVE IInv <=> Running
    OBVIOUS
<1>1. ASSUME IInv PROVE Running
    <2>1. ASSUME NEW c \in Cells PROVE freed[c] = 0
        <3>1. /\ \A i \in DOMAIN unused : freed[unused[i]] = 0
              /\ \A i \in DOMAIN used : freed[used[i]] = 0
            BY <1>1 DEF IInv, Freeing, FreedTo, ListsLinked, TypeOK
        <3> QED BY <1>1, <3>1 DEF IInv, Partition
    <2> QED BY <1>1, <2>1 DEF IInv, Running, ListsLinked
<1>2. ASSUME Running PROVE IInv
    <2>1. Chain(unused) /\ Chain(used)
        BY <1>2 DEF Running, Linked, Chain
    <2>2. FreedTo(freed, unused_head, unused, 0) /\ FreedTo(freed, used_head, used, 0)
        <3>1. unused \in Seq(Cells) /\ used \in Seq(Cells)
            BY <1>2 DEF Running, TypeOK
        <3> QED BY <1>2, <3>1 DEF Running, Linked, FreedTo
    <2> QED BY <1>2, <2>1, <2>2 DEF Running, IInv, ListsLinked, Freeing
<1> QED BY <1>1, <1>2

(* The lists by their lengths m and n, which is all the proofs about single *)
(* pointers need to know of sequences.                                      *)
Lists(m, n) ==
    /\ m \in Nat /\ n \in Nat
    /\ \A i \in 1 .. m : unused[i] \in Cells
    /\ \A i \in 1 .. n : used[i] \in Cells
    /\ \A i, j \in 1 .. m : unused[i] = unused[j] => i = j
    /\ \A i, j \in 1 .. n : used[i] = used[j] => i = j
    /\ \A i \in 1 .. m, j \in 1 .. n : unused[i] # used[j]
    /\ \A c \in Cells : \/ \E i \in 1 .. m : unused[i] = c
                        \/ \E i \in 1 .. n : used[i] = c

Pointers(m, n) ==
    /\ next \in [Cells -> Cells \cup {Null}] /\ prev \in [Cells -> Cells \cup {Null}]
    /\ unused_head = (IF m = 0 THEN Null ELSE unused[1])
    /\ used_head = (IF n = 0 THEN Null ELSE used[1])
    /\ \A i \in 1 .. m : next[unused[i]] = IF i = m THEN Null ELSE unused[i + 1]
    /\ \A i \in 1 .. n : next[used[i]] = IF i = n THEN Null ELSE used[i + 1]
    /\ \A i \in 1 .. n : prev[used[i]] = IF i = 1 THEN Null ELSE used[i - 1]
    /\ m > 0 => prev[unused[1]] = Null

ByLengths ==
    /\ unused \in Seq(Cells) /\ used \in Seq(Cells)
    /\ Lists(Len(unused), Len(used)) /\ Pointers(Len(unused), Len(used))
    /\ phase = "running" /\ freed \in [Cells -> 0 .. MaxFreed]
    /\ \A c \in Cells : freed[c] = 0

LEMMA LengthsAreEnough == Running <=> ByLengths
<1>1. ASSUME unused \in Seq(Cells), used \in Seq(Cells)
      PROVE  /\ DOMAIN unused = 1 .. Len(unused) /\ DOMAIN used = 1 .. Len(used)
             /\ Len(unused) \in Nat /\ Len(used) \in Nat
             /\ unused = <<>> <=> Len(unused) = 0
             /\ used = <<>> <=> Len(used) = 0
             /\ \A i \in 1 .. Len(unused) : unused[i] \in Cells
             /\ \A i \in 1 .. Len(used) : used[i] \in Cells
    BY <1>1
<1>2. ASSUME Running PROVE ByLengths
    <2>1. unused \in Seq(Cells) /\ used \in Seq(Cells)
        BY <1>2 DEF Running, TypeOK
    <2>2. Lists(Len(unused), Len(used))
        BY <1>1, <1>2, <2>1 DEF Running, Partition, Distinct, Lists
    <2>3. Pointers(Len(unused), Len(used))
        <3>1. /\ \A i \in 1 .. Len(unused) :
                    next[unused[i]] = IF i = Len(unused) THEN Null ELSE unused[i + 1]
              /\ \A i \in 1 .. Len(used) :
                    next[used[i]] = IF i = Len(used) THEN Null ELSE used[i + 1]
              /\ \A i \in 1 .. Len(used) : prev[used[i]] = IF i = 1 THEN Null ELSE used[i - 1]
            BY <1>1, <1>2, <2>1 DEF Running, Linked, LinkedBack
        <3>2. /\ unused_head = (IF Len(unused) = 0 THEN Null ELSE unused[1])
              /\ used_head = (IF Len(used) = 0 THEN Null ELSE used[1])
              /\ Len(unused) > 0 => prev[unused[1]] = Null
            BY <1>1, <1>2, <2>1 DEF Running, Linked
        <3> QED BY <1>2, <3>1, <3>2 DEF Running, TypeOK, Pointers
    <2> QED BY <1>2, <2>1, <2>2, <2>3 DEF Running, TypeOK, ByLengths
<1>3. ASSUME ByLengths PROVE Running
    <2>1. unused \in Seq(Cells) /\ used \in Seq(Cells)
        BY <1>3 DEF ByLengths
    <2>2. Partition
        BY <1>1, <1>3, <2>1 DEF ByLengths, Partition, Distinct, Lists
    <2>3. Linked(unused_head, unused) /\ Linked(used_head, used) /\ LinkedBack(used)
        BY <1>1, <1>3, <2>1 DEF ByLengths, Pointers, Linked, LinkedBack
    <2>4. unused # <<>> => prev[unused[1]] = Null
        <3>1. unused # <<>> => Len(unused) > 0
            BY <2>1
        <3> QED BY <1>3, <3>1 DEF ByLengths, Pointers
    <2>5. unused_head \in Cells \cup {Null} /\ used_head \in Cells \cup {Null}
        <3>1. /\ Len(unused) # 0 => unused[1] \in Cells
              /\ Len(used) # 0 => used[1] \in Cells
            BY <1>1, <2>1
        <3> QED BY <1>3, <3>1 DEF ByLengths, Pointers
    <2>6. TypeOK
        BY <1>3, <2>1, <2>5 DEF ByLengths, Pointers, TypeOK
    <2> QED BY <1>3, <2>2, <2>3, <2>4, <2>6 DEF ByLengths, Running
<1> QED BY <1>2, <1>3

(* touch_mem_cell: only the cell moved, the head of the unused list after   *)
(* it and the former head of the used list change a pointer that the lists  *)
(* have a use for.                                                          *)
LEMMA TouchKeeps ==
    ASSUME ByLengths, touch_mem_cell
    PROVE  ByLengths'
<1> SUFFICES ASSUME NEW m, NEW n, m = Len(unused), n = Len(used) PROVE ByLengths'
    OBVIOUS
<1> DEFINE c == unused[1]
           nx == next[c]
<1>0. /\ unused \in Seq(Cells) /\ used \in Seq(Cells)
      /\ Lists(m, n) /\ Pointers(m, n)
    BY DEF ByLengths
<1>1. /\ unused_head = c /\ c \in Cells /\ m > 0 /\ unused # <<>> /\ Head(unused) = c
    <2>1. unused_head # Null
        BY DEF touch_mem_cell
    <2>2. m > 0 /\ unused_head = c
        BY <1>0, <2>1 DEF Lists, Pointers
    <2> QED BY <1>0, <2>2
<1>2. /\ unused_head' = nx /\ used_head' = c
      /\ next' = [next EXCEPT ![c] = used_head]
      /\ prev' = SetPrev(SetPrev(prev, nx, Null), used_head, c)
      /\ unused' = Tail(unused) /\ used' = <<c>> \o used
      /\ UNCHANGED <<phase, freed>>
    BY <1>1 DEF touch_mem_cell
<1>5. /\ unused' \in Seq(Cells) /\ Len(unused') = m - 1
      /\ \A i \in 1 .. m - 1 : unused'[i] = unused[i + 1]
    BY <1>0, <1>1, <1>2, InOneList
<1>6. /\ used' \in Seq(Cells) /\ Len(used') = n + 1
      /\ \A i \in 1 .. n + 1 : used'[i] = IF i = 1 THEN c ELSE used[i - 1]
    BY <1>0, <1>1, <1>2, InFront
<1>3. /\ nx \in Cells \cup {Null}
      /\ nx = IF m = 1 THEN Null ELSE unused[2]
      /\ used_head \in Cells \cup {Null} /\ Null \notin Cells
    <2>1. 1 \in 1 .. m /\ nx = IF 1 = m THEN Null ELSE unused[1 + 1]
        BY <1>0, <1>1, SMTT(30) DEF Lists, Pointers
    <2>2. nx \in Cells \cup {Null}
        BY <1>0, <1>1 DEF Pointers
    <2>3. n # 0 => used[1] \in Cells
        BY <1>0 DEF Lists
    <2>4. Null \notin Cells
        BY DEF Cells, Null
    <2> HIDE DEF c, nx
    <2> QED BY <1>0, <2>1, <2>2, <2>3, <2>4 DEF Pointers
<1> HIDE DEF c, nx
<1>c. c = unused[1] /\ nx = next[c]
    BY DEF c, nx
<1>4. /\ prev' \in [Cells -> Cells \cup {Null}]
      /\ \A d \in Cells : prev'[d] = IF d = used_head THEN c
                                     ELSE IF d = nx THEN Null ELSE prev[d]
    <2>1. prev \in [Cells -> Cells \cup {Null}]
        BY <1>0 DEF Pointers
    <2> DEFINE f == SetPrev(prev, nx, Null)
    <2>2. /\ f \in [Cells -> Cells \cup {Null}]
          /\ \A d \in Cells : f[d] = IF d = nx THEN Null ELSE prev[d]
        BY <1>3, <2>1 DEF SetPrev
    <2>3. prev' = SetPrev(f, used_head, c)
        BY <1>2
    <2> HIDE DEF f
    <2>4. /\ prev' \in [Cells -> Cells \cup {Null}]
          /\ \A d \in Cells : prev'[d] = IF d = used_head THEN c ELSE f[d]
        BY <1>1, <1>3, <2>2, <2>3 DEF SetPrev
    <2> QED BY <2>2, <2>4
<1>7. /\ next' \in [Cells -> Cells \cup {Null}]
      /\ \A d \in Cells : next'[d] = IF d = c THEN used_head ELSE next[d]
    BY <1>0, <1>1, <1>2, <1>3 DEF Pointers
<1>n. m \in Nat /\ n \in Nat /\ m > 0 /\ m - 1 \in Nat /\ n + 1 \in Nat
    BY <1>0, <1>1 DEF Lists
<1>u. \A i \in 1 .. m - 1 : i + 1 \in 1 .. m /\ unused'[i] = unused[i + 1]
    BY <1>5, <1>n
<1>v. /\ used'[1] = c
      /\ \A i \in 2 .. n + 1 : i - 1 \in 1 .. n /\ used'[i] = used[i - 1]
    BY <1>6, <1>n
<1>9. Lists(m - 1, n + 1)'
    <2>1. \A i \in 1 .. m - 1 : unused'[i] \in Cells
        BY <1>0, <1>u DEF Lists
    <2>2. \A i \in 1 .. n + 1 : used'[i] \in Cells
        <3> SUFFICES ASSUME NEW i \in 1 .. n + 1 PROVE used'[i] \in Cells
            OBVIOUS
        <3>1. i # 1 => i \in 2 .. n + 1
            BY <1>n
        <3> QED BY <1>0, <1>1, <1>v, <3>1 DEF Lists
    <2>3. \A i, j \in 1 .. m - 1 : unused'[i] = unused'[j] => i = j
        BY <1>0, <1>u, <1>n DEF Lists
    <2>4. \A i \in 2 .. n + 1 : used'[i] # c
        BY <1>0, <1>v, <1>n, <1>c DEF Lists
    <2>5. \A i, j \in 1 .. n + 1 : used'[i] = used'[j] => i = j
        <3> SUFFICES ASSUME NEW i \in 1 .. n + 1, NEW j \in 1 .. n + 1,
                            used'[i] = used'[j]
                     PROVE  i = j
            OBVIOUS
        <3>1. (i # 1 => i \in 2 .. n + 1) /\ (j # 1 => j \in 2 .. n + 1)
            BY <1>n
        <3>2. i = 1 <=> j = 1
            BY <1>v, <2>4, <3>1
        <3>3. ASSUME i # 1 PROVE i - 1 = j - 1
            <4>1. /\ i - 1 \in 1 .. n /\ used'[i] = used[i - 1]
                  /\ j - 1 \in 1 .. n /\ used'[j] = used[j - 1]
                BY <1>v, <3>1, <3>2, <3>3
            <4>2. used[i - 1] = used[j - 1]
                BY <4>1
            <4>3. \A x, y \in 1 .. n : used[x] = used[y] => x = y
                BY <1>0 DEF Lists
            <4> QED BY <4>1, <4>2, <4>3
        <3> QED BY <1>n, <3>2, <3>3
    <2>6. \A i \in 1 .. m - 1 : unused'[i] # c
        BY <1>0, <1>u, <1>n, <1>c DEF Lists
    <2>7. ASSUME NEW i \in 1 .. m - 1, NEW j \in 1 .. n + 1 PROVE unused'[i] # used'[j]
        <3>1. j = 1 \/ j \in 2 .. n + 1
            BY <1>n
        <3>2. CASE j = 1
            BY <1>v, <2>6, <3>2
        <3>3. CASE j \in 2 .. n + 1
            <4>1. /\ i + 1 \in 1 .. m /\ unused'[i] = unused[i + 1]
                  /\ j - 1 \in 1 .. n /\ used'[j] = used[j - 1]
                BY <1>u, <1>v, <3>3
            <4> QED BY <1>0, <4>1 DEF Lists
        <3> QED BY <3>1, <3>2, <3>3
    <2>8. ASSUME NEW d \in Cells
          PROVE  \/ \E i \in 1 .. m - 1 : unused'[i] = d
                 \/ \E i \in 1 .. n + 1 : used'[i] = d
        <3>1. CASE d = c
            BY <1>v, <1>n, <3>1
        <3>2. ASSUME NEW i \in 1 .. m, unused[i] = d, d # c
              PROVE  \E k \in 1 .. m - 1 : unused'[k] = d
            <4>1. i - 1 \in 1 .. m - 1 /\ unused'[i - 1] = unused[i]
                BY <1>u, <1>n, <1>c, <3>2
            <4> QED BY <3>2, <4>1
        <3>3. ASSUME NEW i \in 1 .. n, used[i] = d
              PROVE  \E k \in 1 .. n + 1 : used'[k] = d
            <4>1. i + 1 \in 2 .. n + 1 /\ used'[i + 1] = used[i]
                BY <1>v, <1>n
            <4> QED BY <1>n, <3>3, <4>1
        <3> QED BY <1>0, <3>1, <3>2, <3>3 DEF Lists
    <2> QED BY <1>n, <2>1, <2>2, <2>3, <2>5, <2>7, <2>8 DEF Lists
<1>10. Pointers(m - 1, n + 1)'
    <2>1. nx = IF m - 1 = 0 THEN Null ELSE unused'[1]
        BY <1>3, <1>u, <1>n
    <2>2. ASSUME NEW i \in 1 .. m - 1
          PROVE  next'[unused'[i]] = IF i = m - 1 THEN Null ELSE unused'[i + 1]
        <3>1. /\ i + 1 \in 1 .. m /\ unused'[i] = unused[i + 1]
              /\ unused[i + 1] # c /\ unused[i + 1] \in Cells
            BY <1>0, <1>u, <1>n, <1>c DEF Lists
        <3>2. next'[unused'[i]] = next[unused[i + 1]]
            BY <1>7, <3>1
        <3>3. next[unused[i + 1]] = IF i + 1 = m THEN Null ELSE unused[(i + 1) + 1]
            BY <1>0, <3>1 DEF Pointers
        <3>4. i # m - 1 => unused'[i + 1] = unused[(i + 1) + 1]
            BY <1>u, <1>n
        <3> QED BY <1>n, <3>2, <3>3, <3>4
    <2>3. ASSUME NEW i \in 1 .. n + 1
          PROVE  next'[used'[i]] = IF i = n + 1 THEN Null ELSE used'[i + 1]
        <3>1. CASE i = 1
            <4>1. next'[used'[i]] = used_head
                BY <1>1, <1>v, <1>7, <3>1
            <4>2. n # 0 => 2 \in 2 .. n + 1 /\ used'[2] = used[1]
                BY <1>v, <1>n
            <4> QED BY <1>0, <1>n, <3>1, <4>1, <4>2 DEF Pointers
        <3>2. CASE i # 1
            <4>1. /\ i - 1 \in 1 .. n /\ used'[i] = used[i - 1]
                  /\ used[i - 1] # c /\ used[i - 1] \in Cells
                BY <1>0, <1>v, <1>n, <1>c, <3>2 DEF Lists
            <4>2. next'[used'[i]] = next[used[i - 1]]
                BY <1>7, <4>1
            <4>3. next[used[i - 1]] = IF i - 1 = n THEN Null ELSE used[(i - 1) + 1]
                BY <1>0, <4>1 DEF Pointers
            <4>4. i # n + 1 => used'[i + 1] = used[(i - 1) + 1]
                BY <1>v, <1>n, <3>2
            <4> QED BY <1>n, <4>2, <4>3, <4>4
        <3> QED BY <3>1, <3>2
    <2>4. ASSUME NEW i \in 1 .. n + 1
          PROVE  prev'[used'[i]] = IF i = 1 THEN Null ELSE used'[i - 1]
        <3>1. CASE i = 1
            <4>1. used'[i] = c /\ c # used_head /\ c # nx
                BY <1>0, <1>1, <1>3, <1>v, <1>n, <1>c, <3>1 DEF Lists, Pointers
            <4>2. prev[c] = Null
                BY <1>0, <1>1, <1>c DEF Pointers
            <4> QED BY <1>1, <1>4, <3>1, <4>1, <4>2
        <3>2. CASE i # 1
            <4>1. i - 1 \in 1 .. n /\ used'[i] = used[i - 1] /\ used[i - 1] \in Cells
                BY <1>0, <1>v, <1>n, <3>2 DEF Lists
            <4>2. used[i - 1] # nx
                BY <1>0, <1>3, <1>n, <4>1 DEF Lists
            <4>3. used_head = used[1] /\ (used[i - 1] = used_head <=> i = 2)
                BY <1>0, <1>n, <3>2, <4>1 DEF Lists, Pointers
            <4>4. prev'[used'[i]] = IF i = 2 THEN c ELSE prev[used[i - 1]]
                BY <1>4, <4>1, <4>2, <4>3
            <4>5. prev[used[i - 1]] = IF i - 1 = 1 THEN Null ELSE used[(i - 1) - 1]
                BY <1>0, <4>1 DEF Pointers
            <4>6. used'[i - 1] = IF i = 2 THEN c ELSE used[(i - 1) - 1]
                BY <1>v, <1>n, <3>2
            <4> QED BY <1>n, <3>2, <4>4, <4>5, <4>6
        <3> QED BY <3>1, <3>2
    <2>5. m - 1 > 0 => prev'[unused'[1]] = Null
        <3> SUFFICES ASSUME m - 1 > 0 PROVE prev'[unused'[1]] = Null
            OBVIOUS
        <3>1. unused'[1] = nx /\ nx \in Cells /\ 2 \in 1 .. m /\ nx = unused[2]
            BY <1>0, <1>3, <1>u, <1>n DEF Lists
        <3>2. nx # used_head
            BY <1>0, <1>n, <3>1, <1>3 DEF Lists, Pointers
        <3> QED BY <1>4, <3>1, <3>2
    <2>6. used_head' = (IF n + 1 = 0 THEN Null ELSE used'[1])
        BY <1>2, <1>v, <1>n
    <2> QED BY <1>2, <1>4, <1>7, <2>1, <2>2, <2>3, <2>4, <2>5, <2>6 DEF Pointers
<1> QED BY <1>2, <1>5, <1>6, <1>9, <1>10 DEF ByLengths

(* detouch_mem_cell: the neighbours of the cell are linked to each other,   *)
(* and the cell to the head of the unused list.                             *)
LEMMA DetouchKeeps ==
    ASSUME NEW cell \in Cells, ByLengths, detouch_mem_cell(cell)
    PROVE  ByLengths'
<1> SUFFICES ASSUME NEW m, NEW n, m = Len(unused), n = Len(used) PROVE ByLengths'
    OBVIOUS
<1>0. /\ unused \in Seq(Cells) /\ used \in Seq(Cells)
      /\ Lists(m, n) /\ Pointers(m, n)
    BY DEF ByLengths
<1>1. PICK k \in 1 .. n : used[k] = cell
    <2>1. DOMAIN used = 1 .. n
        BY <1>0
    <2> QED BY <2>1 DEF detouch_mem_cell
<1> DEFINE before == prev[cell]
           after == next[cell]
<1>n. m \in Nat /\ n \in Nat /\ k \in Nat /\ 1 <= k /\ k <= n /\ n - 1 \in Nat /\ m + 1 \in Nat
    BY <1>0, <1>1 DEF Lists
<1>2. before = IF k = 1 THEN Null ELSE used[k - 1]
    BY <1>0, <1>1 DEF Pointers
<1>3. after = IF k = n THEN Null ELSE used[k + 1]
    BY <1>0, <1>1 DEF Pointers
<1>4. /\ before \in Cells \cup {Null} /\ after \in Cells \cup {Null} /\ Null \notin Cells
      /\ unused_head \in Cells \cup {Null}
    <2>1. before \in Cells \cup {Null} /\ after \in Cells \cup {Null}
        BY <1>0 DEF Pointers
    <2>2. Null \notin Cells
        BY DEF Cells, Null
    <2>3. m # 0 => unused[1] \in Cells
        BY <1>0 DEF Lists
    <2> QED BY <1>0, <2>1, <2>2, <2>3 DEF Pointers
<1>5. /\ used_head = cell <=> k = 1
      /\ \A i \in 1 .. n : used[i] = cell => i = k
    <2>1. \A i \in 1 .. n : used[i] = cell => i = k
        BY <1>0, <1>1 DEF Lists
    <2>2. used_head = used[1] /\ 1 \in 1 .. n
        BY <1>0, <1>n DEF Pointers
    <2> QED BY <1>1, <2>1, <2>2
<1>6. /\ unused_head' = cell
      /\ used_head' = IF k = 1 THEN after ELSE used_head
      /\ next' = IF k = 1 THEN [next EXCEPT ![cell] = unused_head]
                 ELSE [next EXCEPT ![before] = after, ![cell] = unused_head]
      /\ prev' = [SetPrev(SetPrev(prev, after, before), unused_head, cell) EXCEPT ![cell] = Null]
      /\ used' = Without(used, used[k]) /\ unused' = <<cell>> \o unused
      /\ UNCHANGED <<phase, freed>>
    BY <1>1, <1>5 DEF detouch_mem_cell
<1>7. /\ used' \in Seq(Cells) /\ Len(used') = n - 1
      /\ \A i \in 1 .. n - 1 : used'[i] = IF i < k THEN used[i] ELSE used[i + 1]
    <2>1. DOMAIN used = 1 .. n
        BY <1>0
    <2>2. Distinct(used)
        BY <1>0, <2>1 DEF Lists, Distinct
    <2> QED BY <1>0, <1>6, <2>1, <2>2, WithoutOne
<1>8. /\ unused' \in Seq(Cells) /\ Len(unused') = m + 1
      /\ \A i \in 1 .. m + 1 : unused'[i] = IF i = 1 THEN cell ELSE unused[i - 1]
    BY <1>0, <1>6, InFront
<1> HIDE DEF before, after
<1>c. before = prev[cell] /\ after = next[cell]
    BY DEF before, after
<1>9. /\ prev' \in [Cells -> Cells \cup {Null}]
      /\ \A d \in Cells : prev'[d] = IF d = cell THEN Null
                                     ELSE IF d = unused_head THEN cell
                                     ELSE IF d = after THEN before ELSE prev[d]
    <2>1. prev \in [Cells -> Cells \cup {Null}]
        BY <1>0 DEF Pointers
    <2> DEFINE f == SetPrev(prev, after, before)
               g == SetPrev(f, unused_head, cell)
    <2>2. /\ f \in [Cells -> Cells \cup {Null}]
          /\ \A d \in Cells : f[d] = IF d = after THEN before ELSE prev[d]
        BY <1>4, <2>1 DEF SetPrev
    <2> HIDE DEF f
    <2>3. /\ g \in [Cells -> Cells \cup {Null}]
          /\ \A d \in Cells : g[d] = IF d = unused_head THEN cell ELSE f[d]
        BY <1>4, <2>2 DEF SetPrev
    <2>4. prev' = [g EXCEPT ![cell] = Null]
        BY <1>6 DEF f
    <2> HIDE DEF g
    <2> QED BY <2>2, <2>3, <2>4
<1>10. /\ next' \in [Cells -> Cells \cup {Null}]
       /\ \A d \in Cells : next'[d] = IF d = cell THEN unused_head
                                      ELSE IF d = before THEN after ELSE next[d]
    <2>1. next \in [Cells -> Cells \cup {Null}]
        BY <1>0 DEF Pointers
    <2>2. CASE k = 1
        BY <1>2, <1>4, <1>6, <2>1, <2>2
    <2>3. CASE k # 1
        <3>1. next' = [next EXCEPT ![before] = after, ![cell] = unused_head]
            BY <1>6, <2>3
        <3> QED BY <1>4, <2>1, <3>1
    <2> QED BY <2>2, <2>3
<1>u. /\ unused'[1] = cell
      /\ \A i \in 2 .. m + 1 : i - 1 \in 1 .. m /\ unused'[i] = unused[i - 1]
    BY <1>8, <1>n
<1>v. /\ \A i \in 1 .. k - 1 : i \in 1 .. n - 1 /\ i \in 1 .. n /\ used'[i] = used[i]
      /\ \A i \in k .. n - 1 : i \in 1 .. n - 1 /\ i + 1 \in 1 .. n /\ used'[i] = used[i + 1]
    BY <1>7, <1>n
<1>w. \A i \in 1 .. n - 1 : i \in 1 .. k - 1 \/ i \in k .. n - 1
    BY <1>n
(* The cells of the list from which the cell goes, by their old places *)
<1>x. \A i \in 1 .. n - 1 : \E j \in 1 .. n :
          used'[i] = used[j] /\ j # k /\ j = IF i < k THEN i ELSE i + 1
    <2> SUFFICES ASSUME NEW i \in 1 .. n - 1
                 PROVE  \E j \in 1 .. n :
                           used'[i] = used[j] /\ j # k /\ j = IF i < k THEN i ELSE i + 1
        OBVIOUS
    <2>1. CASE i \in 1 .. k - 1
        BY <1>v, <1>n, <2>1
    <2>2. CASE i \in k .. n - 1
        <3>1. i + 1 \in 1 .. n /\ used'[i] = used[i + 1] /\ i + 1 # k /\ ~(i < k)
            BY <1>v, <1>n, <2>2
        <3> QED BY <3>1
    <2> QED BY <1>w, <2>1, <2>2
<1>11. Lists(m + 1, n - 1)'
    <2>1. ASSUME NEW i \in 1 .. m + 1 PROVE unused'[i] \in Cells
        <3>1. i = 1 \/ i \in 2 .. m + 1
            BY <1>n
        <3> QED BY <1>0, <1>u, <3>1 DEF Lists
    <2>2. \A i \in 1 .. n - 1 : used'[i] \in Cells
        BY <1>0, <1>x DEF Lists
    <2>3. \A i \in 2 .. m + 1 : unused'[i] # cell
        BY <1>0, <1>1, <1>u DEF Lists
    <2>4. ASSUME NEW i \in 1 .. m + 1, NEW j \in 1 .. m + 1, unused'[i] = unused'[j]
          PROVE  i = j
        <3>1. (i # 1 => i \in 2 .. m + 1) /\ (j # 1 => j \in 2 .. m + 1)
            BY <1>n
        <3>2. i = 1 <=> j = 1
            BY <1>u, <2>3, <2>4, <3>1
        <3>3. ASSUME i # 1 PROVE i - 1 = j - 1
            <4>1. /\ i - 1 \in 1 .. m /\ unused'[i] = unused[i - 1]
                  /\ j - 1 \in 1 .. m /\ unused'[j] = unused[j - 1]
                BY <1>u, <3>1, <3>2, <3>3
            <4>2. unused[i - 1] = unused[j - 1]
                BY <2>4, <4>1
            <4> QED BY <1>0, <4>1, <4>2 DEF Lists
        <3> QED BY <1>n, <3>2, <3>3
    <2>5. ASSUME NEW i \in 1 .. n - 1, NEW j \in 1 .. n - 1, used'[i] = used'[j]
          PROVE  i = j
        <3>1. PICK a \in 1 .. n : used'[i] = used[a] /\ a = IF i < k THEN i ELSE i + 1
            BY <1>x
        <3>2. PICK b \in 1 .. n : used'[j] = used[b] /\ b = IF j < k THEN j ELSE j + 1
            BY <1>x
        <3>3. used[a] = used[b]
            BY <2>5, <3>1, <3>2
        <3>4. a = b
            BY <1>0, <3>3 DEF Lists
        <3> QED BY <1>n, <3>1, <3>2, <3>4
    <2>6. \A j \in 1 .. n - 1 : used'[j] # cell
        BY <1>5, <1>x
    <2>7. ASSUME NEW i \in 1 .. m + 1, NEW j \in 1 .. n - 1 PROVE unused'[i] # used'[j]
        <3>1. i = 1 \/ i \in 2 .. m + 1
            BY <1>n
        <3>2. CASE i = 1
            BY <1>u, <2>6, <3>2
        <3>3. CASE i \in 2 .. m + 1
            <4>1. i - 1 \in 1 .. m /\ unused'[i] = unused[i - 1]
                BY <1>u, <3>3
            <4> QED BY <1>0, <1>x, <4>1 DEF Lists
        <3> QED BY <3>1, <3>2, <3>3
    <2>8. ASSUME NEW d \in Cells
          PROVE  \/ \E i \in 1 .. m + 1 : unused'[i] = d
                 \/ \E i \in 1 .. n - 1 : used'[i] = d
        <3>1. CASE d = cell
            BY <1>u, <1>n, <3>1
        <3>2. ASSUME NEW i \in 1 .. m, unused[i] = d
              PROVE  \E j \in 1 .. m + 1 : unused'[j] = d
            <4>1. i + 1 \in 2 .. m + 1 /\ i + 1 \in 1 .. m + 1 /\ unused'[i + 1] = unused[i]
                BY <1>u, <1>n
            <4> QED BY <3>2, <4>1
        <3>3. ASSUME NEW i \in 1 .. n, used[i] = d, d # cell
              PROVE  \E j \in 1 .. n - 1 : used'[j] = d
            <4>1. CASE i < k
                BY <1>v, <1>n, <3>3, <4>1
            <4>2. CASE i > k
                <5>1. i - 1 \in k .. n - 1 /\ used'[i - 1] = used[(i - 1) + 1] /\ (i - 1) + 1 = i
                    BY <1>v, <1>n, <4>2
                <5> QED BY <1>v, <3>3, <5>1
            <4> QED BY <1>1, <1>n, <3>3, <4>1, <4>2
        <3> QED BY <1>0, <3>1, <3>2, <3>3 DEF Lists
    <2> QED BY <1>n, <2>1, <2>2, <2>4, <2>5, <2>7, <2>8 DEF Lists
<1>12. Pointers(m + 1, n - 1)'
    <2>1. used_head' = (IF n - 1 = 0 THEN Null ELSE used'[1])
        <3>1. CASE k = 1
            <4>1. n # 1 => used'[1] = used[1 + 1]
                BY <1>v, <1>n, <3>1
            <4> QED BY <1>3, <1>6, <1>n, <3>1, <4>1
        <3>2. CASE k # 1
            <4>1. n - 1 # 0 /\ used'[1] = used[1]
                BY <1>v, <1>n, <3>2
            <4> QED BY <1>0, <1>6, <1>n, <3>2, <4>1 DEF Pointers
        <3> QED BY <3>1, <3>2
    <2>2. ASSUME NEW i \in 1 .. m + 1
          PROVE  next'[unused'[i]] = IF i = m + 1 THEN Null ELSE unused'[i + 1]
        <3>1. CASE i = 1
            <4>1. next'[unused'[i]] = unused_head
                BY <1>u, <1>10, <3>1
            <4>2. m # 0 => unused'[1 + 1] = unused[1]
                BY <1>u, <1>n
            <4> QED BY <1>0, <1>n, <3>1, <4>1, <4>2 DEF Pointers
        <3>2. CASE i # 1
            <4>1. /\ i - 1 \in 1 .. m /\ unused'[i] = unused[i - 1]
                  /\ unused[i - 1] \in Cells
                BY <1>0, <1>u, <1>n, <3>2 DEF Lists
            <4>2. unused[i - 1] # cell /\ unused[i - 1] # before
                <5>1. unused[i - 1] # cell
                    BY <1>0, <1>1, <4>1 DEF Lists
                <5>2. k # 1 => unused[i - 1] # used[k - 1]
                    BY <1>0, <1>n, <4>1 DEF Lists
                <5> QED BY <1>2, <1>4, <4>1, <5>1, <5>2
            <4>3. next'[unused'[i]] = next[unused[i - 1]]
                BY <1>10, <4>1, <4>2
            <4>4. next[unused[i - 1]] = IF i - 1 = m THEN Null ELSE unused[(i - 1) + 1]
                BY <1>0, <4>1 DEF Pointers
            <4>5. i # m + 1 => unused'[i + 1] = unused[(i - 1) + 1]
                BY <1>u, <1>n, <3>2
            <4> QED BY <1>n, <4>3, <4>4, <4>5
        <3> QED BY <3>1, <3>2
    <2>3. ASSUME NEW i \in 1 .. n - 1
          PROVE  next'[used'[i]] = IF i = n - 1 THEN Null ELSE used'[i + 1]
        <3>1. PICK j \in 1 .. n : used'[i] = used[j] /\ j # k /\ j = IF i < k THEN i ELSE i + 1
            BY <1>x
        <3>2. used[j] \in Cells /\ used[j] # cell
            BY <1>0, <1>5, <3>1 DEF Lists
        <3>3. used[j] = before <=> j = k - 1
            <4>1. k # 1 => (used[j] = used[k - 1] => j = k - 1)
                BY <1>0, <1>n DEF Lists
            <4>2. k = 1 => j # k - 1
                BY <1>n
            <4> QED BY <1>2, <1>4, <3>2, <4>1, <4>2
        <3>4. next'[used'[i]] = IF j = k - 1 THEN after ELSE next[used[j]]
            BY <1>10, <3>1, <3>2, <3>3
        <3>5. next[used[j]] = IF j = n THEN Null ELSE used[j + 1]
            BY <1>0 DEF Pointers
        <3>6. CASE j = k - 1
            <4>1. i = j /\ (i = n - 1 <=> k = n)
                BY <1>n, <3>1, <3>6
            <4>2. k # n => used'[i + 1] = used[k + 1]
                BY <1>v, <1>n, <3>6, <4>1
            <4> QED BY <1>3, <3>4, <3>6, <4>1, <4>2
        <3>7. CASE j # k - 1 /\ i < k
            <4>1. i = j /\ i + 1 \in 1 .. k - 1 /\ i # n - 1 /\ j # n
                BY <1>n, <3>1, <3>7
            <4>2. used'[i + 1] = used[i + 1]
                BY <1>v, <4>1
            <4> QED BY <3>4, <3>5, <3>7, <4>1, <4>2
        <3>8. CASE j # k - 1 /\ ~(i < k)
            <4>1. j = i + 1 /\ (i = n - 1 <=> j = n)
                BY <1>n, <3>1, <3>8
            <4>2. i # n - 1 => used'[i + 1] = used[(i + 1) + 1]
                BY <1>v, <1>n, <3>8
            <4> QED BY <3>4, <3>5, <3>8, <4>1, <4>2
        <3> QED BY <3>6, <3>7, <3>8
    <2>4. ASSUME NEW i \in 1 .. n - 1
          PROVE  prev'[used'[i]] = IF i = 1 THEN Null ELSE used'[i - 1]
        <3>1. PICK j \in 1 .. n : used'[i] = used[j] /\ j # k /\ j = IF i < k THEN i ELSE i + 1
            BY <1>x
        <3>2. used[j] \in Cells /\ used[j] # cell
            BY <1>0, <1>5, <3>1 DEF Lists
        <3>3. used[j] = after <=> j = k + 1
            <4>1. k # n => (used[j] = used[k + 1] => j = k + 1)
                BY <1>0, <1>n DEF Lists
            <4>2. k = n => j # k + 1
                BY <1>n
            <4> QED BY <1>3, <1>4, <3>2, <4>1, <4>2
        <3>4. used[j] # unused_head
            <4>1. m # 0 => used[j] # unused[1]
                BY <1>0, <1>n, SMTT(30) DEF Lists
            <4> QED BY <1>0, <1>4, <3>2, <4>1 DEF Pointers
        <3>5. prev'[used'[i]] = IF j = k + 1 THEN before ELSE prev[used[j]]
            BY <1>9, <3>1, <3>2, <3>3, <3>4
        <3>6. prev[used[j]] = IF j = 1 THEN Null ELSE used[j - 1]
            BY <1>0 DEF Pointers
        <3>7. CASE j = k + 1
            <4>1. i = k
                BY <1>n, <3>1, <3>7
            <4>2. k # 1 => used'[k - 1] = used[k - 1]
                BY <1>v, <1>n
            <4> QED BY <1>2, <3>5, <3>7, <4>1, <4>2
        <3>8. CASE j # k + 1 /\ i < k
            <4>1. i = j
                BY <3>1, <3>8
            <4>2. i # 1 => used'[i - 1] = used[i - 1]
                BY <1>v, <1>n, <3>8
            <4> QED BY <3>5, <3>6, <3>8, <4>1, <4>2
        <3>9. CASE j # k + 1 /\ ~(i < k)
            <4>1. j = i + 1 /\ i - 1 \in k .. n - 1 /\ i # 1 /\ j # 1 /\ (i - 1) + 1 = i /\ j - 1 = i
                BY <1>n, <3>1, <3>9
            <4>2. used'[i - 1] = used[(i - 1) + 1]
                BY <1>v, <4>1
            <4> QED BY <3>5, <3>6, <3>9, <4>1, <4>2
        <3> QED BY <3>7, <3>8, <3>9
    <2>5. prev'[unused'[1]] = Null
        BY <1>u, <1>9
    <2>6. unused_head' = (IF m + 1 = 0 THEN Null ELSE unused'[1])
        BY <1>6, <1>u, <1>n
    <2> QED BY <1>9, <1>10, <2>1, <2>2, <2>3, <2>4, <2>5, <2>6 DEF Pointers
<1> QED BY <1>6, <1>7, <1>8, <1>11, <1>12 DEF ByLengths
-----------------------------------------------------------------------------
LEMMA RunningSteps ==
    ASSUME IInv, phase = "running", touch_mem_cell \/ \E c \in Cells : detouch_mem_cell(c)
    PROVE  IInv'
<1>1. ByLengths
    BY RunningIs, LengthsAreEnough
<1>2. ByLengths'
    BY <1>1, TouchKeeps, DetouchKeeps
<1>3. Running'
    BY <1>2, LengthsAreEnough, PTL
<1>4. phase' = "running"
    BY <1>3 DEF Running
<1>5. (phase = "running" => (IInv <=> Running))'
    BY RunningIs, PTL
<1> QED BY <1>3, <1>4, <1>5

(* destroy_backend's loops: k cells are freed, the next one is freed and    *)
(* the head moves on, until it is null after the last.                      *)
FreeStep(s, other, f, g, head, after, k) ==
    /\ s \in Seq(Cells) /\ other \in Seq(Cells) /\ Distinct(s)
    /\ f \in [Cells -> 0 .. MaxFreed] /\ head # Null
    /\ k \in 0 .. Len(s) /\ FreedTo(f, head, s, k)
    /\ \A i \in DOMAIN s : s[i] = head => after = IF i = Len(s) THEN Null ELSE s[i + 1]
    /\ \A i \in DOMAIN s, j \in DOMAIN other : s[i] # other[j]
    /\ g = [f EXCEPT ![head] = IF @ < MaxFreed THEN @ + 1 ELSE @]

LEMMA FreeOne ==
    ASSUME NEW s, NEW other, NEW f, NEW g, NEW head, NEW after, NEW k,
           FreeStep(s, other, f, g, head, after, k)
    PROVE  /\ k + 1 \in 0 .. Len(s) /\ FreedTo(g, after, s, k + 1)
           /\ \A i \in DOMAIN other : g[other[i]] = f[other[i]]
           /\ g \in [Cells -> 0 .. MaxFreed]
<1> USE DEF FreeStep
<1>1. /\ DOMAIN s = 1 .. Len(s) /\ Len(s) \in Nat
      /\ \A i \in 1 .. Len(s) : s[i] \in Cells
      /\ DOMAIN other = 1 .. Len(other) /\ \A i \in DOMAIN other : other[i] \in Cells
    OBVIOUS
<1>2. k # Len(s) /\ head = s[k + 1]
    BY DEF FreedTo
<1>3. k + 1 \in 1 .. Len(s) /\ k + 1 \in 0 .. Len(s)
    <2>1. Len(s) \in Nat
        OBVIOUS
    <2> QED BY <1>2, <2>1
<1>4. after = IF k + 1 = Len(s) THEN Null ELSE s[(k + 1) + 1]
    BY <1>1, <1>2, <1>3
<1>5. f[head] = 0 /\ head \in Cells
    <2>1. head \in Cells /\ k + 1 \in DOMAIN s
        BY <1>1, <1>2, <1>3
    <2>2. f[s[k + 1]] = IF k + 1 <= k THEN 1 ELSE 0
        BY <2>1 DEF FreedTo
    <2> QED BY <1>2, <2>1, <2>2
<1>6. g \in [Cells -> 0 .. MaxFreed] /\ \A c \in Cells : g[c] = IF c = head THEN 1 ELSE f[c]
    BY <1>5 DEF MaxFreed
<1>8. ASSUME NEW i \in DOMAIN s PROVE g[s[i]] = IF i <= k + 1 THEN 1 ELSE 0
    <2>1. s[i] \in Cells /\ i \in 1 .. Len(s)
        BY <1>1
    <2>2. s[i] = head <=> i = k + 1
        BY <1>1, <1>2, <1>3 DEF Distinct
    <2>3. f[s[i]] = IF i <= k THEN 1 ELSE 0
        BY DEF FreedTo
    <2> QED BY <1>6, <1>1, <2>1, <2>2, <2>3
<1>9. \A i \in DOMAIN other : g[other[i]] = f[other[i]]
    BY <1>1, <1>2, <1>3, <1>6
<1> QED BY <1>1, <1>2, <1>3, <1>4, <1>5, <1>6, <1>8, <1>9 DEF FreedTo

(* When the head is null, the loop has freed the whole list.                *)
LEMMA AllOfIt ==
    ASSUME NEW s \in Seq(Cells), NEW f, NEW k \in 0 .. Len(s), FreedTo(f, Null, s, k)
    PROVE  FreedTo(f, Null, s, Len(s))
<1>1. DOMAIN s = 1 .. Len(s) /\ Len(s) \in Nat /\ (k # Len(s) => s[k + 1] \in Cells)
    OBVIOUS
<1>2. Null \notin Cells
    BY DEF Null, Cells
<1>3. k = Len(s)
    BY <1>1, <1>2 DEF FreedTo
<1> QED BY <1>3

(* The cells of the other list keep their counts.                           *)
LEMMA OthersStay ==
    ASSUME NEW s, NEW f, NEW g, NEW head, NEW k,
           \A i \in DOMAIN s : g[s[i]] = f[s[i]], FreedTo(f, head, s, k)
    PROVE  FreedTo(g, head, s, k)
BY DEF FreedTo

LEMMA FreeUsedKeeps == IInv /\ FreeUsed => IInv'
<1> SUFFICES ASSUME IInv, FreeUsed PROVE IInv'
    OBVIOUS
<1>1. /\ TypeOK /\ Partition /\ Chain(unused) /\ Chain(used) /\ phase = "free_used"
      /\ FreedTo(freed, unused_head, unused, 0)
    BY DEF IInv, ListsLinked, Freeing, FreeUsed
<1>2. PICK k \in 0 .. Len(used) : FreedTo(freed, used_head, used, k)
    BY DEF IInv, Freeing, FreeUsed
<1>3. /\ unused \in Seq(Cells) /\ used \in Seq(Cells)
      /\ next \in [Cells -> Cells \cup {Null}] /\ freed \in [Cells -> 0 .. MaxFreed]
      /\ used_head \in Cells \cup {Null}
    BY <1>1 DEF TypeOK
<1>4. UNCHANGED <<next, prev, unused_head, unused, used>>
    BY DEF FreeUsed, lists
<1>5. Partition' /\ Chain(unused)' /\ Chain(used)'
    BY <1>1, <1>4 DEF Partition, Distinct, Chain
<1>6. CASE used_head # Null
    <2>1. used_head' = next[used_head] /\ Free(used_head) /\ phase' = "free_used"
        BY <1>1, <1>6 DEF FreeUsed
    <2>2. \A i \in DOMAIN used, j \in DOMAIN unused : used[i] # unused[j]
        BY <1>1 DEF Partition
    <2>3. /\ FreedTo(freed', next[used_head], used, k + 1) /\ k + 1 \in 0 .. Len(used)
          /\ \A i \in DOMAIN unused : freed'[unused[i]] = freed[unused[i]]
          /\ freed' \in [Cells -> 0 .. MaxFreed]
        <3>1. freed' = [freed EXCEPT ![used_head] = IF @ < MaxFreed THEN @ + 1 ELSE @]
            BY <2>1 DEF Free
        <3>2. \A i \in DOMAIN used : used[i] = used_head =>
                 next[used_head] = IF i = Len(used) THEN Null ELSE used[i + 1]
            BY <1>1 DEF Chain
        <3>3. Distinct(used)
            BY <1>1 DEF Partition
        <3>4. FreedTo(freed, used_head, used, k)
            BY <1>2
        <3>5. FreeStep(used, unused, freed, freed', used_head, next[used_head], k)
            BY <1>3, <1>6, <2>2, <3>1, <3>2, <3>3, <3>4 DEF FreeStep
        <3> QED BY <3>5, FreeOne
    <2>4. TypeOK'
        BY <1>1, <1>3, <1>4, <1>6, <2>1, <2>3 DEF TypeOK
    <2>5. FreedTo(freed', unused_head, unused, 0)
        BY <1>1, <2>3, OthersStay
    <2>6. Freeing'
        BY <1>4, <1>5, <2>1, <2>3, <2>5 DEF Freeing
    <2> QED BY <1>5, <2>1, <2>4, <2>6 DEF IInv, ListsLinked
<1>7. CASE used_head = Null
    <2>1. phase' = "free_unused" /\ UNCHANGED <<used_head, freed>>
        BY <1>7 DEF FreeUsed
    <2>2. FreedTo(freed, Null, used, Len(used))
        BY <1>2, <1>3, <1>7, AllOfIt
    <2>3. 0 \in 0 .. Len(unused)
        BY <1>3
    <2>4. Freeing'
        BY <1>1, <1>4, <1>5, <2>1, <2>2, <2>3 DEF Freeing
    <2> QED BY <1>1, <1>4, <1>5, <2>1, <2>4 DEF IInv, ListsLinked, TypeOK
<1> QED BY <1>6, <1>7

LEMMA FreeUnusedKeeps == IInv /\ FreeUnused => IInv'
<1> SUFFICES ASSUME IInv, FreeUnused PROVE IInv'
    OBVIOUS
<1>1. /\ TypeOK /\ Partition /\ Chain(unused) /\ Chain(used) /\ phase = "free_unused"
      /\ FreedTo(freed, Null, used, Len(used))
    BY DEF IInv, ListsLinked, Freeing, FreeUnused
<1>2. PICK k \in 0 .. Len(unused) : FreedTo(freed, unused_head, unused, k)
    BY DEF IInv, Freeing, FreeUnused
<1>3. /\ unused \in Seq(Cells) /\ used \in Seq(Cells)
      /\ next \in [Cells -> Cells \cup {Null}] /\ freed \in [Cells -> 0 .. MaxFreed]
      /\ unused_head \in Cells \cup {Null}
    BY <1>1 DEF TypeOK
<1>4. UNCHANGED <<next, prev, used_head, unused, used>>
    BY DEF FreeUnused, lists
<1>5. Partition' /\ Chain(unused)' /\ Chain(used)'
    BY <1>1, <1>4 DEF Partition, Distinct, Chain
<1>6. CASE unused_head # Null
    <2>1. unused_head' = next[unused_head] /\ Free(unused_head) /\ phase' = "free_unused"
        BY <1>1, <1>6 DEF FreeUnused
    <2>2. \A i \in DOMAIN unused, j \in DOMAIN used : unused[i] # used[j]
        BY <1>1 DEF Partition
    <2>3. /\ FreedTo(freed', next[unused_head], unused, k + 1) /\ k + 1 \in 0 .. Len(unused)
          /\ \A i \in DOMAIN used : freed'[used[i]] = freed[used[i]]
          /\ freed' \in [Cells -> 0 .. MaxFreed]
        <3>1. freed' = [freed EXCEPT ![unused_head] = IF @ < MaxFreed THEN @ + 1 ELSE @]
            BY <2>1 DEF Free
        <3>2. \A i \in DOMAIN unused : unused[i] = unused_head =>
                 next[unused_head] = IF i = Len(unused) THEN Null ELSE unused[i + 1]
            BY <1>1 DEF Chain
        <3>3. Distinct(unused)
            BY <1>1 DEF Partition
        <3>4. FreedTo(freed, unused_head, unused, k)
            BY <1>2
        <3>5. FreeStep(unused, used, freed, freed', unused_head, next[unused_head], k)
            BY <1>3, <1>6, <2>2, <3>1, <3>2, <3>3, <3>4 DEF FreeStep
        <3> QED BY <3>5, FreeOne
    <2>4. TypeOK'
        BY <1>1, <1>3, <1>4, <1>6, <2>1, <2>3 DEF TypeOK
    <2>5. FreedTo(freed', Null, used, Len(used))
        BY <1>1, <2>3, OthersStay
    <2>6. Freeing'
        BY <1>4, <1>5, <2>1, <2>3, <2>5 DEF Freeing
    <2> QED BY <1>5, <2>1, <2>4, <2>6 DEF IInv, ListsLinked
<1>7. CASE unused_head = Null
    <2>1. phase' = "destroyed" /\ UNCHANGED <<unused_head, freed>>
        BY <1>7 DEF FreeUnused
    <2>2. FreedTo(freed, Null, unused, Len(unused))
        BY <1>2, <1>3, <1>7, AllOfIt
    <2>4. Freeing'
        BY <1>1, <1>4, <1>5, <2>1, <2>2 DEF Freeing
    <2> QED BY <1>1, <1>4, <1>5, <2>1, <2>4 DEF IInv, ListsLinked, TypeOK
<1> QED BY <1>6, <1>7

LEMMA StartDestroyKeeps == IInv /\ StartDestroy => IInv'
<1> SUFFICES ASSUME IInv, StartDestroy PROVE IInv'
    OBVIOUS
<1>1. /\ TypeOK /\ Partition /\ Chain(unused) /\ Chain(used)
      /\ FreedTo(freed, unused_head, unused, 0) /\ FreedTo(freed, used_head, used, 0)
    BY DEF IInv, ListsLinked, Freeing, StartDestroy
<1>2. /\ phase' = "free_used"
      /\ UNCHANGED <<next, prev, unused_head, used_head, freed, unused, used>>
    BY DEF StartDestroy, links, lists
<1>3. TypeOK' /\ Partition' /\ Chain(unused)' /\ Chain(used)'
    BY <1>1, <1>2 DEF TypeOK, Partition, Distinct, Chain
<1>4. 0 \in 0 .. Len(used)
    BY <1>1 DEF TypeOK
<1>5. Freeing'
    BY <1>1, <1>2, <1>3, <1>4 DEF Freeing
<1> QED BY <1>2, <1>3, <1>5 DEF IInv, ListsLinked

LEMMA StutterKeeps == IInv /\ UNCHANGED vars => IInv'
BY DEF IInv, ListsLinked, Linked, LinkedBack, TypeOK, Partition, Distinct, Freeing,
       FreedTo, Chain, vars, links, lists

LEMMA NextKeeps == IInv /\ [Next]_vars => IInv'
<1> SUFFICES ASSUME IInv, [Next]_vars PROVE IInv'
    OBVIOUS
<1>1. CASE touch_mem_cell
    BY <1>1, RunningSteps DEF touch_mem_cell
<1>2. ASSUME NEW c \in Cells, detouch_mem_cell(c) PROVE IInv'
    BY <1>2, RunningSteps DEF detouch_mem_cell
<1>3. CASE StartDestroy
    BY <1>3, StartDestroyKeeps
<1>4. CASE FreeUsed
    BY <1>4, FreeUsedKeeps
<1>5. CASE FreeUnused
    BY <1>5, FreeUnusedKeeps
<1>6. CASE UNCHANGED vars
    BY <1>6, StutterKeeps
<1> QED BY <1>1, <1>2, <1>3, <1>4, <1>5, <1>6 DEF Next

LEMMA Inductive == Spec => []IInv
BY InitIInv, NextKeeps, PTL DEF Spec

(* The pointers of touch_mem_cell and detouch_mem_cell spell out the lists  *)
(* of the cells in use and not in use, in both directions where the code    *)
(* reads them.                                                              *)
THEOREM ListsCorrect == Spec => []ListsLinked
<1>1. IInv => ListsLinked
    BY DEF IInv
<1> QED BY <1>1, Inductive, PTL

(* destroy_backend frees every cell, and none twice.                        *)
THEOREM FreedCorrect == Spec => []AllFreedOnce
<1>1. IInv => AllFreedOnce
    <2> SUFFICES ASSUME IInv, NEW c \in Cells
                 PROVE  freed[c] <= 1 /\ (phase = "destroyed" => freed[c] = 1)
        BY DEF AllFreedOnce
    <2>1. /\ unused \in Seq(Cells) /\ used \in Seq(Cells)
          /\ phase \in {"running", "free_used", "free_unused", "destroyed"}
          /\ DOMAIN unused = 1 .. Len(unused) /\ DOMAIN used = 1 .. Len(used)
        BY DEF IInv, ListsLinked, TypeOK
    <2>2. /\ \E h, k : FreedTo(freed, h, unused, k)
          /\ \E h, k : FreedTo(freed, h, used, k)
        BY <2>1 DEF IInv, Freeing
    <2>3. /\ \A i \in DOMAIN unused : freed[unused[i]] <= 1
          /\ \A i \in DOMAIN used : freed[used[i]] <= 1
        BY <2>2 DEF FreedTo
    <2>4. phase = "destroyed" =>
             /\ \A i \in DOMAIN unused : freed[unused[i]] = 1
             /\ \A i \in DOMAIN used : freed[used[i]] = 1
        BY <2>1 DEF IInv, Freeing, FreedTo
    <2> QED BY <2>3, <2>4 DEF IInv, Partition
<1> QED BY <1>1, Inductive, PTL
-----------------------------------------------------------------------------
(* What one meets from the head of a linked list: in n steps its first      *)
(* n + 1 cells, and null behind the last.                                   *)
Met(s, n) ==
    {s[i] : i \in {j \in DOMAIN s : j <= n + 1}} \cup (IF Len(s) <= n THEN {Null} ELSE {})

(* Induction over the numbers up to NCells, by the least counterexample.    *)
Less == {ss \in Nat \X Nat : ss[1] < ss[2]}

LEMMA UpToNCells ==
    ASSUME NEW S, 0 \in S, \A n \in 1 .. NCells : n - 1 \in S => n \in S
    PROVE  0 .. NCells \subseteq S
<1> SUFFICES ASSUME (0 .. NCells) \ S # {} PROVE FALSE
    OBVIOUS
<1> DEFINE R == (0 .. NCells) \ S
<1>1. IsWellFoundedOn(Less, Nat)
    BY NatLessThanWellFounded DEF OpToRel, Less
<1>2. R \subseteq Nat
    BY NCellsAssumption
<1>3. PICK x \in R : \A y \in R : ~(<<y, x>> \in Less)
    BY <1>1, <1>2, WFMin
<1>4. x \in 1 .. NCells /\ x - 1 \in 0 .. NCells /\ x - 1 \in Nat /\ x \in Nat
    BY <1>3, NCellsAssumption
<1>5. x - 1 \in S
    <2>1. <<x - 1, x>> \in Nat \X Nat /\ <<x - 1, x>>[1] < <<x - 1, x>>[2]
        BY <1>4
    <2> QED BY <1>3, <1>4, <2>1 DEF Less
<1> QED BY <1>3, <1>4, <1>5

(* One step further in a linked list.                                       *)
LEMMA OneStep ==
    ASSUME NEW s \in Seq(Cells), Chain(s), NEW n \in Nat, n > 0
    PROVE  Met(s, n) = Met(s, n - 1) \cup {next[c] : c \in Met(s, n - 1) \ {Null}}
<1> SUFFICES ASSUME NEW l, l = Len(s)
             PROVE  Met(s, n) = Met(s, n - 1) \cup {next[c] : c \in Met(s, n - 1) \ {Null}}
    OBVIOUS
<1>1. l \in Nat /\ DOMAIN s = 1 .. l /\ \A i \in 1 .. l : s[i] \in Cells
    OBVIOUS
<1>2. Null \notin Cells
    BY DEF Null, Cells
<1>3. \A i \in 1 .. l : next[s[i]] = IF i = l THEN Null ELSE s[i + 1]
    BY <1>1 DEF Chain
<1>4. \A p, k : p \in Met(s, k) <=> \/ \E i \in 1 .. l : i <= k + 1 /\ p = s[i]
                                    \/ l <= k /\ p = Null
    BY <1>1 DEF Met
<1> HIDE DEF Met
<1>5. ASSUME NEW p \in Met(s, n)
      PROVE  p \in Met(s, n - 1) \cup {next[c] : c \in Met(s, n - 1) \ {Null}}
    <2>1. ASSUME NEW i \in 1 .. l, i <= n + 1, p = s[i], ~(i <= n)
          PROVE  p \in {next[c] : c \in Met(s, n - 1) \ {Null}}
        <3>1. i - 1 \in 1 .. l /\ i - 1 <= (n - 1) + 1 /\ i - 1 # l /\ (i - 1) + 1 = i
            BY <1>1, <2>1
        <3>2. s[i - 1] \in Met(s, n - 1) \ {Null}
            BY <1>1, <1>2, <1>4, <3>1
        <3>3. next[s[i - 1]] = p
            BY <1>3, <2>1, <3>1
        <3> QED BY <3>2, <3>3
    <2>2. ASSUME NEW i \in 1 .. l, i <= n, p = s[i] PROVE p \in Met(s, n - 1)
        <3>1. i <= (n - 1) + 1
            BY <1>1, <2>2
        <3> QED BY <1>4, <2>2, <3>1
    <2>3. ASSUME l <= n, p = Null
          PROVE  p \in Met(s, n - 1) \cup {next[c] : c \in Met(s, n - 1) \ {Null}}
        <3>1. CASE l <= n - 1
            BY <1>4, <2>3, <3>1
        <3>2. CASE ~(l <= n - 1)
            <4>1. l = n /\ l \in 1 .. l /\ l <= (n - 1) + 1
                BY <1>1, <2>3, <3>2
            <4>2. s[l] \in Met(s, n - 1) \ {Null} /\ next[s[l]] = Null
                BY <1>1, <1>2, <1>3, <1>4, <4>1
            <4> QED BY <2>3, <4>2
        <3> QED BY <3>1, <3>2
    <2> QED BY <1>4, <2>1, <2>2, <2>3
<1>6. ASSUME NEW p \in Met(s, n - 1) PROVE p \in Met(s, n)
    <2>1. ASSUME NEW i \in 1 .. l, i <= (n - 1) + 1 PROVE i <= n + 1
        BY <1>1, <2>1
    <2>2. l <= n - 1 => l <= n
        BY <1>1
    <2> QED BY <1>4, <2>1, <2>2
<1>7. ASSUME NEW c \in Met(s, n - 1) \ {Null} PROVE next[c] \in Met(s, n)
    <2>1. PICK i \in 1 .. l : i <= (n - 1) + 1 /\ c = s[i]
        BY <1>4
    <2>2. CASE i = l
        <3>1. l <= n /\ next[c] = Null
            BY <1>1, <1>3, <2>1, <2>2
        <3> QED BY <1>4, <3>1
    <2>3. CASE i # l
        <3>1. i + 1 \in 1 .. l /\ i + 1 <= n + 1 /\ next[c] = s[i + 1]
            BY <1>1, <1>3, <2>1, <2>3
        <3> QED BY <1>4, <3>1
    <2> QED BY <2>2, <2>3
<1> QED BY <1>5, <1>6, <1>7

LEMMA StepsAre ==
    ASSUME NEW s \in Seq(Cells), NEW head, Linked(head, s)
    PROVE  \A n \in 0 .. NCells : Steps(head)[n] = Met(s, n)
<1> USE NCellsAssumption
<1> DEFINE Is(f) == f = [n \in 0 .. NCells |->
                            IF n = 0 THEN {head}
                            ELSE f[n - 1] \cup {next[c] : c \in f[n - 1] \ {Null}}]
<1>1. Chain(s)
    BY DEF Chain, Linked
<1>2. Met(s, 0) = {head}
    <2>1. Len(s) \in Nat /\ DOMAIN s = 1 .. Len(s) /\ (s = <<>> <=> Len(s) = 0)
        OBVIOUS
    <2>2. CASE s = <<>>
        BY <2>1, <2>2 DEF Met, Linked
    <2>3. CASE s # <<>>
        <3>1. {j \in DOMAIN s : j <= 0 + 1} = {1} /\ ~(Len(s) <= 0)
            BY <2>1, <2>3
        <3> QED BY <2>3, <3>1 DEF Met, Linked
    <2> QED BY <2>2, <2>3
<1>3. Is([n \in 0 .. NCells |-> Met(s, n)])
    <2> DEFINE f == [n \in 0 .. NCells |-> Met(s, n)]
    <2>1. ASSUME NEW n \in 0 .. NCells
          PROVE  Met(s, n) = IF n = 0 THEN {head}
                             ELSE f[n - 1] \cup {next[c] : c \in f[n - 1] \ {Null}}
        <3>1. CASE n = 0
            BY <1>2, <3>1
        <3>2. CASE n # 0
            <4>1. n \in Nat /\ n > 0 /\ f[n - 1] = Met(s, n - 1)
                BY <3>2
            <4> QED BY <1>1, <3>2, <4>1, OneStep
        <3> QED BY <3>1, <3>2
    <2> QED BY <2>1
<1>4. Steps(head) = CHOOSE f : Is(f)
    BY DEF Steps
<1>5. Is(Steps(head))
    BY <1>3, <1>4
<1> DEFINE S == {n \in 0 .. NCells : Steps(head)[n] = Met(s, n)}
<1>6. \A n \in 0 .. NCells : Steps(head)[n] =
          IF n = 0 THEN {head}
          ELSE Steps(head)[n - 1] \cup {next[c] : c \in Steps(head)[n - 1] \ {Null}}
    BY <1>5
<1>7. 0 \in S
    <2>1. 0 \in 0 .. NCells
        OBVIOUS
    <2>2. Steps(head)[0] = {head}
        BY <1>6, <2>1
    <2> QED BY <1>2, <2>1, <2>2
<1>8. ASSUME NEW n \in 1 .. NCells, n - 1 \in S PROVE n \in S
    <2>1. n \in 0 .. NCells /\ n # 0 /\ n \in Nat /\ n > 0
        OBVIOUS
    <2>2. Steps(head)[n] = Met(s, n - 1) \cup {next[c] : c \in Met(s, n - 1) \ {Null}}
        BY <1>6, <1>8, <2>1
    <2> QED BY <1>1, <2>1, <2>2, OneStep
<1> HIDE DEF S
<1>9. 0 .. NCells \subseteq S
    BY <1>7, <1>8, UpToNCells
<1> QED BY <1>9 DEF S

(* A list of different cells is not longer than there are cells.            *)
LEMMA NotLonger ==
    ASSUME NEW s \in Seq(Cells), Distinct(s)
    PROVE  Len(s) \in Nat /\ Len(s) <= NCells
<1>1. Len(s) \in Nat /\ s \in [1 .. Len(s) -> Cells]
    OBVIOUS
<1>2. s \in Injection(1 .. Len(s), Cells)
    BY <1>1, Fun_IsInj DEF Distinct
<1>3. IsFiniteSet(Cells) /\ Cardinality(Cells) = NCells
    BY NCellsAssumption, FS_Interval DEF Cells
<1>4. Cardinality(1 .. Len(s)) <= NCells
    BY <1>2, <1>3, FS_Injection
<1>5. Cardinality(1 .. Len(s)) = Len(s)
    BY <1>1, FS_Interval
<1> QED BY <1>1, <1>4, <1>5

(* Following the pointers from its head one meets the cells of a list.      *)
LEMMA ReachedIs ==
    ASSUME NEW s \in Seq(Cells), NEW head, Linked(head, s), Distinct(s)
    PROVE  Reached(head) = {s[i] : i \in DOMAIN s}
<1> USE NCellsAssumption
<1>1. Steps(head)[NCells] = Met(s, NCells)
    BY StepsAre
<1>2. Len(s) \in Nat /\ Len(s) <= NCells /\ DOMAIN s = 1 .. Len(s)
      /\ \A i \in DOMAIN s : s[i] \in Cells
    BY NotLonger
<1>3. {j \in DOMAIN s : j <= NCells + 1} = DOMAIN s
    BY <1>2
<1>4. Null \notin Cells
    BY DEF Null, Cells
<1> QED BY <1>1, <1>2, <1>3, <1>4 DEF Reached, Met

ElementsOf(s) == {s[i] : i \in DOMAIN s}

(* While cells are given out, the lists of the history variables are the    *)
(* cells that can be reached.                                               *)
LEMMA ReachedLists ==
    ASSUME IInv, phase = "running"
    PROVE  /\ Reached(unused_head) = ElementsOf(unused)
           /\ Reached(used_head) = ElementsOf(used)
<1>1. /\ unused \in Seq(Cells) /\ used \in Seq(Cells)
      /\ Linked(unused_head, unused) /\ Linked(used_head, used)
      /\ Distinct(unused) /\ Distinct(used)
    BY DEF IInv, ListsLinked, TypeOK, Partition
<1> QED BY <1>1, ReachedIs DEF ElementsOf

(* No cell drops out of the lists and none gets into both, by what can be   *)
(* reached through the pointers.                                            *)
THEOREM EachCellCorrect == Spec => []EachCellInOneList
<1>1. ASSUME IInv, phase = "running"
      PROVE  /\ Reached(unused_head) \cup Reached(used_head) = Cells
             /\ Reached(unused_head) \cap Reached(used_head) = {}
    <2>1. unused \in Seq(Cells) /\ used \in Seq(Cells) /\ Partition
        BY <1>1 DEF IInv, ListsLinked, TypeOK
    <2>2. /\ \A i \in DOMAIN unused : unused[i] \in Cells
          /\ \A i \in DOMAIN used : used[i] \in Cells
        BY <2>1
    <2>3. ElementsOf(unused) \cup ElementsOf(used) = Cells
        BY <2>1, <2>2 DEF Partition, ElementsOf
    <2>4. ElementsOf(unused) \cap ElementsOf(used) = {}
        BY <2>1 DEF Partition, ElementsOf
    <2> QED BY <1>1, <2>3, <2>4, ReachedLists
<1>2. IInv => EachCellInOneList
    BY <1>1 DEF EachCellInOneList
<1> QED BY <1>2, Inductive, PTL

(* The abstract pool's cells, in every phase                                *)
PoolUnused == IF phase = "running" THEN Reached(unused_head)
              ELSE {unused[i] : i \in DOMAIN unused}

LEMMA PoolIs == IInv => PoolUnused = ElementsOf(unused)
BY ReachedLists DEF PoolUnused, ElementsOf

LEMMA TouchIsTouch ==
    ASSUME IInv, touch_mem_cell
    PROVE  \E c \in ElementsOf(unused) : ElementsOf(unused') = ElementsOf(unused) \ {c}
<1>1. phase = "running" /\ unused \in Seq(Cells) /\ Distinct(unused) /\ unused' = Tail(unused)
    BY DEF IInv, ListsLinked, TypeOK, Partition, touch_mem_cell
<1>2. unused # <<>>
    BY <1>1 DEF IInv, ListsLinked, Linked, touch_mem_cell
<1>3. /\ 1 \in DOMAIN unused /\ DOMAIN unused = 1 .. Len(unused) /\ Len(unused) \in Nat
      /\ DOMAIN unused' = 1 .. Len(unused) - 1
      /\ \A i \in 1 .. Len(unused) - 1 : unused'[i] = unused[i + 1]
    BY <1>1, <1>2, InOneList
<1>4. unused[1] \in ElementsOf(unused)
    BY <1>3 DEF ElementsOf
<1>5. ASSUME NEW d \in ElementsOf(unused') PROVE d \in ElementsOf(unused) \ {unused[1]}
    <2>1. PICK i \in 1 .. Len(unused) - 1 : d = unused[i + 1]
        BY <1>3 DEF ElementsOf
    <2>2. i + 1 \in DOMAIN unused /\ i + 1 # 1
        BY <1>3
    <2>3. unused[i + 1] # unused[1]
        BY <1>1, <1>3, <2>2 DEF Distinct
    <2> QED BY <2>1, <2>2, <2>3 DEF ElementsOf
<1>6. ASSUME NEW d \in ElementsOf(unused) \ {unused[1]} PROVE d \in ElementsOf(unused')
    <2>1. PICK i \in DOMAIN unused : d = unused[i] /\ i # 1
        BY DEF ElementsOf
    <2>2. i - 1 \in 1 .. Len(unused) - 1 /\ (i - 1) + 1 = i
        BY <1>3, <2>1
    <2>3. unused'[i - 1] = d
        BY <1>3, <2>1, <2>2
    <2> QED BY <1>3, <2>2, <2>3 DEF ElementsOf
<1> QED BY <1>4, <1>5, <1>6

LEMMA DetouchIsDetouch ==
    ASSUME IInv, NEW cell \in Cells, detouch_mem_cell(cell)
    PROVE  /\ cell \notin ElementsOf(unused)
           /\ ElementsOf(unused') = ElementsOf(unused) \cup {cell}
<1>1. unused \in Seq(Cells) /\ unused' = <<cell>> \o unused
    BY DEF IInv, ListsLinked, TypeOK, detouch_mem_cell
<1>2. cell \notin ElementsOf(unused)
    BY DEF ElementsOf, IInv, Partition, detouch_mem_cell
<1>3. /\ Len(unused) \in Nat /\ DOMAIN unused = 1 .. Len(unused)
      /\ DOMAIN unused' = 1 .. Len(unused) + 1
      /\ \A i \in 1 .. Len(unused) + 1 : unused'[i] = IF i = 1 THEN cell ELSE unused[i - 1]
    BY <1>1, InFront
<1>4. ASSUME NEW d \in ElementsOf(unused') PROVE d \in ElementsOf(unused) \cup {cell}
    <2>1. PICK i \in 1 .. Len(unused) + 1 : d = unused'[i]
        BY <1>3 DEF ElementsOf
    <2>2. i # 1 => i - 1 \in DOMAIN unused
        BY <1>3
    <2> QED BY <1>3, <2>1, <2>2 DEF ElementsOf
<1>5. cell \in ElementsOf(unused')
    <2>1. 1 \in 1 .. Len(unused) + 1
        BY <1>3
    <2> QED BY <1>3, <2>1 DEF ElementsOf
<1>6. ASSUME NEW d \in ElementsOf(unused) PROVE d \in ElementsOf(unused')
    <2>1. PICK i \in DOMAIN unused : d = unused[i]
        BY DEF ElementsOf
    <2>2. i + 1 \in 1 .. Len(unused) + 1 /\ i + 1 # 1 /\ (i + 1) - 1 = i
        BY <1>3
    <2>3. unused'[i + 1] = d
        BY <1>3, <2>1, <2>2
    <2> QED BY <1>3, <2>2, <2>3 DEF ElementsOf
<1> QED BY <1>2, <1>4, <1>5, <1>6

(* The cells that can be reached from unused_head are CellPool's: a cell is *)
(* handed out only while it is free and comes back before it is handed out  *)
(* again.                                                                   *)
THEOREM PoolCorrect == Spec => ImplementsPool
<1>1. Init => Pool!Init
    <2> SUFFICES ASSUME Init PROVE ElementsOf(unused) = Cells
        BY InitIInv, PoolIs DEF Pool!Init, PoolUnused
    <2>1. DOMAIN unused = Cells /\ \A i \in Cells : unused[i] = NCells + 1 - i
        BY DEF Init
    <2>2. \A i \in Cells : NCells + 1 - i \in Cells /\ NCells + 1 - (NCells + 1 - i) = i
        BY NCellsAssumption DEF Cells
    <2> QED BY <2>1, <2>2 DEF ElementsOf
<1>2. ASSUME IInv, IInv', [Next]_vars
      PROVE  [Pool!Touch \/ Pool!Detouch]_PoolUnused
    <2>1. PoolUnused = ElementsOf(unused)
        BY <1>2, PoolIs
    <2>2. PoolUnused' = ElementsOf(unused')
        <3>1. (IInv => PoolUnused = ElementsOf(unused))'
            BY PoolIs, PTL
        <3> QED BY <1>2, <3>1 DEF ElementsOf
    <2>3. CASE touch_mem_cell
        <3>1. \E c \in PoolUnused : PoolUnused' = PoolUnused \ {c}
            BY <1>2, <2>1, <2>2, <2>3, TouchIsTouch
        <3> QED BY <3>1 DEF Pool!Touch, PoolUnused
    <2>4. ASSUME NEW cell \in Cells, detouch_mem_cell(cell) PROVE Pool!Detouch
        <3>1. cell \in Cells \ PoolUnused /\ PoolUnused' = PoolUnused \cup {cell}
            BY <1>2, <2>1, <2>2, <2>4, DetouchIsDetouch
        <3> QED BY <3>1 DEF Pool!Detouch, PoolUnused
    <2>5. CASE UNCHANGED unused
        BY <2>1, <2>2, <2>5 DEF ElementsOf
    <2> QED BY <1>2, <2>3, <2>4, <2>5
            DEF Next, StartDestroy, FreeUsed, FreeUnused, vars, lists
<1> QED BY <1>1, <1>2, Inductive, PTL DEF Spec, ImplementsPool, Pool!Spec, PoolUnused
=============================================================================
