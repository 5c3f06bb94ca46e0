-------------------------- MODULE DataPlaneProofs --------------------------
(* Whatever the cores, the queues, the packets and the changes of the table: *)
(* a register counts in a block that is @atomic as many packets as went      *)
(* through the block, and never more in one that is not; every buffer is in  *)
(* one place, with nothing forgotten but by a broadcast; packets of a        *)
(* receive queue leave each port in the order in which they came; and they   *)
(* are handled by the entries that the changes of the table call for, as     *)
(* long as no other core runs into the computation of an LPM key.  The last  *)
(* part says first what one change does to what a table holds, then that a   *)
(* lookup in such a table finds what was promised, and then what the cores   *)
(* have in the buffers in which they compute their keys.                     *)
EXTENDS DataPlane, FiniteSetTheorems, SequenceTheorems, WellFoundedInduction, TLAPS
-----------------------------------------------------------------------------
(* The register.                                                             *)

(* A core between its read and its write holds, in an atomic block, the lock  *)
(* and the value that is still in the register; in any block, a value that    *)
(* was not too high when it was read and cannot have become so since.         *)
AboutToWrite(c) ==
    pc[c] = "write" => /\ value[c] <= counted
                       /\ scenario.block = "atomic" => lock = c /\ value[c] = reg

RegisterInv ==
    /\ DOMAIN pc = Cores /\ value \in [Cores -> Int]
    /\ reg \in Int /\ counted \in Int
    /\ lock \in Cores \cup {Nobody}
    /\ \A c \in Cores : AboutToWrite(c)
    /\ RegisterExact

(* What all other steps have in common: nobody comes to be about to write. *)
RegisterAlone ==
    /\ UNCHANGED <<scenario, value, lock, reg, counted>>
    /\ DOMAIN pc' = DOMAIN pc
    /\ \A d \in Cores : pc'[d] = "write" => pc[d] = "write"

LEMMA AloneKeeps ==
    ASSUME RegisterInv, RegisterAlone
    PROVE  RegisterInv'
BY DEF RegisterInv, AboutToWrite, RegisterExact, RegisterAlone

LEMMA InitRegister == Init => RegisterInv
<1> SUFFICES ASSUME Init PROVE RegisterInv
  OBVIOUS
<1>1. /\ DOMAIN pc = Cores
      /\ \A c \in Cores : pc[c] # "write"
  BY DEF Init
<1>2. value \in [Cores -> Int] /\ reg = 0 /\ counted = 0 /\ lock = Nobody
  BY DEF Init
<1> QED
  BY <1>1, <1>2 DEF RegisterInv, AboutToWrite, RegisterExact

(* The steps of the ports, of the control plane and of time. *)
LEMMA OutsideAlone ==
    ASSUME Arrive \/ NicFrees \/ Change \/ Relaunch \/ (\E c \in Cores : Tick(c))
    PROVE  RegisterAlone
<1> DEFINE Same == UNCHANGED <<scenario, pc, value, lock, reg, counted>>
<1>1. Same
  <2>1. ASSUME Arrive PROVE Same
    BY <2>1 DEF Arrive, coreVars
  <2>2. ASSUME NicFrees PROVE Same
    BY <2>2 DEF NicFrees, coreVars
  <2>3. ASSUME Change PROVE Same
    BY <2>3 DEF Change, coreVars
  <2>4. ASSUME Relaunch PROVE Same
    BY <2>4 DEF Relaunch, coreVars
  <2>5. ASSUME NEW c \in Cores, Tick(c) PROVE Same
    BY <2>5 DEF Tick
  <2> QED
    BY <2>1, <2>2, <2>3, <2>4, <2>5
<1> QED
  BY <1>1 DEF RegisterAlone

(* The steps of a core other than those on the register. *)
LEMMA CoreAlone ==
    ASSUME DOMAIN pc = Cores, NEW c \in Cores,
           \/ main_loop_pre_rx(c) \/ do_rx(c) \/ receive_packet(c)
           \/ table_key(c) \/ apply(c) \/ do_single_tx(c)
    PROVE  RegisterAlone
<1> DEFINE Kept == UNCHANGED <<scenario, value, lock, reg, counted>>
           Moved == /\ DOMAIN pc' = DOMAIN pc
                    /\ \A d \in Cores : pc'[d] = "write" => pc[d] = "write"
<1>1. ASSUME NextQueue(c) PROVE Moved
  BY <1>1 DEF NextQueue
<1>2. CASE main_loop_pre_rx(c)
  BY <1>2 DEF main_loop_pre_rx, RegisterAlone, tableVars
<1>3. CASE do_rx(c)
  <2>1. Kept
    BY <1>3 DEF do_rx, tableVars
  <2>2. Moved
    BY <1>3, <1>1 DEF do_rx
  <2> QED
    BY <2>1, <2>2 DEF RegisterAlone
<1>4. CASE receive_packet(c)
  BY <1>4 DEF receive_packet, RegisterAlone, tableVars
<1>5. CASE table_key(c)
  BY <1>5 DEF table_key, RegisterAlone, tableVars
<1>6. CASE apply(c)
  <2>1. Kept
    BY <1>6 DEF apply, tableVars
  <2>2. Moved
    BY <1>6 DEF apply
  <2> QED
    BY <2>1, <2>2 DEF RegisterAlone
<1>7. CASE do_single_tx(c)
  <2>1. Kept /\ NextPacket(c)
    BY <1>7 DEF do_single_tx, tableVars
  <2>2. Moved
    BY <2>1, <1>1 DEF NextPacket
  <2> QED
    BY <2>1, <2>2 DEF RegisterAlone
<1> QED
  BY <1>2, <1>3, <1>4, <1>5, <1>6, <1>7

(* In an atomic block a core reads when nobody has the lock, so that nobody   *)
(* else is about to write.                                                    *)
LEMMA ReadKeeps ==
    ASSUME RegisterInv, NEW c \in Cores, extern_register_read(c)
    PROVE  RegisterInv'
<1>1. /\ UNCHANGED <<scenario, reg, counted>>
      /\ pc' = [pc EXCEPT ![c] = "write"] /\ value' = [value EXCEPT ![c] = reg]
      /\ Lock(c)
  BY DEF extern_register_read
<1>2. lock' \in Cores \cup {Nobody}
  BY <1>1 DEF Lock, RegisterInv
<1>3. ASSUME NEW d \in Cores PROVE AboutToWrite(d)'
  <2>1. CASE d = c
    <3>1. pc'[c] = "write" /\ value'[c] = reg /\ reg <= counted
      BY <1>1 DEF RegisterInv, RegisterExact
    <3>2. scenario.block = "atomic" => lock' = c
      BY <1>1 DEF Lock
    <3> QED
      BY <2>1, <3>1, <3>2, <1>1 DEF AboutToWrite
  <2>2. CASE d # c
    <3>1. pc'[d] = pc[d] /\ value'[d] = value[d]
      BY <2>2, <1>1 DEF RegisterInv
    <3>2. scenario.block = "atomic" => pc[d] # "write"
      BY <1>1, ConstAssumption DEF Lock, Nobody, RegisterInv, AboutToWrite
    <3> QED
      BY <3>1, <3>2, <1>1 DEF RegisterInv, AboutToWrite
  <2> QED
    BY <2>1, <2>2
<1> QED
  BY <1>1, <1>2, <1>3 DEF RegisterInv, RegisterExact

(* The write makes up for what it counts, and leaves no other core behind. *)
LEMMA WriteKeeps ==
    ASSUME RegisterInv, NEW c \in Cores, extern_register_write(c)
    PROVE  RegisterInv'
<1>1. /\ pc[c] = "write" /\ pc' = [pc EXCEPT ![c] = "tx"]
      /\ reg' = value[c] + 1 /\ counted' = counted + 1 /\ lock' = Nobody
      /\ UNCHANGED <<scenario, value>>
  BY DEF extern_register_write
<1>2. value[c] <= counted /\ (scenario.block = "atomic" => value[c] = reg)
  BY <1>1 DEF RegisterInv, AboutToWrite
<1>3. RegisterExact'
  BY <1>1, <1>2 DEF RegisterInv, RegisterExact
<1>4. ASSUME NEW d \in Cores PROVE AboutToWrite(d)'
  <2>1. pc'[d] = "write" => d # c /\ pc[d] = "write"
    BY <1>1 DEF RegisterInv
  <2>2. pc'[d] = "write" => scenario.block # "atomic"
    BY <2>1, <1>1 DEF RegisterInv, AboutToWrite
  <2> QED
    BY <2>1, <2>2, <1>1 DEF RegisterInv, AboutToWrite
<1> QED
  BY <1>1, <1>3, <1>4 DEF RegisterInv

(* At any time the register has counted no more than what went through the    *)
(* block (dpdkx_smem.c), and exactly that when the block is locked            *)
(* (codegen.sugar.py, @atomic).                                               *)
THEOREM RegisterCorrect == Spec => []RegisterExact
<1>1. Init => RegisterInv
  BY InitRegister
<1>2. RegisterInv /\ [Next]_vars => RegisterInv'
  <2> SUFFICES ASSUME RegisterInv, [Next]_vars PROVE RegisterInv'
    OBVIOUS
  <2>1. CASE Arrive \/ NicFrees \/ Change \/ Relaunch \/ (\E c \in Cores : Tick(c))
    BY <2>1, OutsideAlone, AloneKeeps
  <2>2. ASSUME NEW c \in Cores, dpdk_main_loop(c) PROVE RegisterInv'
    <3>1. DOMAIN pc = Cores
      BY DEF RegisterInv
    <3>2. CASE \/ main_loop_pre_rx(c) \/ do_rx(c) \/ receive_packet(c)
               \/ table_key(c) \/ apply(c) \/ do_single_tx(c)
      BY <3>1, <3>2, CoreAlone, AloneKeeps
    <3>3. CASE extern_register_read(c)
      BY <3>3, ReadKeeps
    <3>4. CASE extern_register_write(c)
      BY <3>4, WriteKeeps
    <3> QED
      BY <2>2, <3>2, <3>3, <3>4 DEF dpdk_main_loop
  <2>3. CASE UNCHANGED vars
    <3>1. RegisterAlone
      BY <2>3 DEF vars, coreVars, RegisterAlone
    <3> QED
      BY <3>1, AloneKeeps
  <2> QED
    BY <2>1, <2>2, <2>3 DEF Next
<1>3. RegisterInv => RegisterExact
  BY DEF RegisterInv
<1> QED
  BY <1>1, <1>2, <1>3, PTL DEF Spec
-----------------------------------------------------------------------------
(* The buffers.                                                              *)

(* Queues of pairs, which are compared by their k-th part: the buffer for 1, *)
(* the packet for 2.                                                         *)
Part(q, k) == {q[i][k] : i \in DOMAIN q}

NoTwice(q, k) == \A i, j \in DOMAIN q : q[i][k] = q[j][k] => i = j

(* f says of each packet from which receive queue it is. *)
Before(f, S, T) == \A x \in S, y \in T : f[x] = f[y] => x < y

Increasing(f, q) ==
    \A i, j \in DOMAIN q : i < j /\ f[q[i][2]] = f[q[j][2]] => q[i][2] < q[j][2]

IsSeq(q) == Len(q) \in Nat /\ DOMAIN q = 1 .. Len(q)

(* q is s and then t. *)
Joined(q, s, t) ==
    /\ IsSeq(q) /\ IsSeq(s) /\ IsSeq(t) /\ Len(q) = Len(s) + Len(t)
    /\ \A i \in 1 .. Len(s) : q[i] = s[i]
    /\ \A i \in 1 .. Len(t) : q[Len(s) + i] = t[i]

(* Where the elements of the parts are in the whole.                         *)
LEMMA JoinedIndex ==
    ASSUME NEW q, NEW s, NEW t, Joined(q, s, t)
    PROVE  /\ \A i \in DOMAIN s : i \in DOMAIN q /\ q[i] = s[i]
           /\ \A i \in DOMAIN t : Len(s) + i \in DOMAIN q /\ q[Len(s) + i] = t[i]
           /\ \A i \in DOMAIN q : \/ i \in DOMAIN s
                                  \/ \E j \in DOMAIN t : i = Len(s) + j
<1> SUFFICES ASSUME NEW a, NEW b, a = Len(s), b = Len(t), a \in Nat, b \in Nat,
                    DOMAIN s = 1 .. a, DOMAIN t = 1 .. b, DOMAIN q = 1 .. a + b,
                    \A i \in 1 .. a : q[i] = s[i],
                    \A i \in 1 .. b : q[a + i] = t[i]
             PROVE  /\ \A i \in DOMAIN s : i \in DOMAIN q /\ q[i] = s[i]
                    /\ \A i \in DOMAIN t : a + i \in DOMAIN q /\ q[a + i] = t[i]
                    /\ \A i \in DOMAIN q : \/ i \in DOMAIN s
                                           \/ \E j \in DOMAIN t : i = a + j
    BY DEF Joined, IsSeq
<1>1. ASSUME NEW i \in 1 .. a + b, i \notin 1 .. a PROVE \E j \in 1 .. b : i = a + j
    <2>1. i - a \in 1 .. b /\ i = a + (i - a)
        BY <1>1
    <2> QED BY <2>1
<1>2. /\ \A i \in 1 .. a : i \in 1 .. a + b
      /\ \A i \in 1 .. b : a + i \in 1 .. a + b
    OBVIOUS
<1>3. ASSUME NEW i \in DOMAIN s PROVE i \in DOMAIN q /\ q[i] = s[i]
    BY <1>2
<1>4. ASSUME NEW i \in DOMAIN t PROVE a + i \in DOMAIN q /\ q[a + i] = t[i]
    BY <1>2
<1>5. ASSUME NEW i \in DOMAIN q, i \notin DOMAIN s PROVE \E j \in DOMAIN t : i = a + j
    <2>1. i \in 1 .. a + b /\ i \notin 1 .. a
        BY <1>5
    <2> QED BY <1>1, <2>1
<1> QED BY <1>3, <1>4, <1>5

(* The whole has what its parts have,                                        *)
LEMMA JoinedPart ==
    ASSUME NEW q, NEW s, NEW t, Joined(q, s, t), NEW k
    PROVE  Part(q, k) = Part(s, k) \cup Part(t, k)
BY JoinedIndex DEF Part

(* has nothing twice when neither part has and they share nothing,           *)
LEMMA JoinedNoTwice ==
    ASSUME NEW q, NEW s, NEW t, Joined(q, s, t), NEW k
    PROVE  NoTwice(q, k) <=> /\ NoTwice(s, k) /\ NoTwice(t, k)
                             /\ Part(s, k) \cap Part(t, k) = {}
<1>1. /\ Len(s) \in Nat /\ DOMAIN s = 1 .. Len(s) /\ DOMAIN t \subseteq Nat \ {0}
      /\ DOMAIN t = 1 .. Len(t) /\ Len(t) \in Nat
    BY DEF Joined, IsSeq
<1>2. ASSUME NoTwice(q, k)
      PROVE  NoTwice(s, k) /\ NoTwice(t, k) /\ Part(s, k) \cap Part(t, k) = {}
    <2>1. NoTwice(s, k)
        BY <1>2, JoinedIndex DEF NoTwice
    <2>2. ASSUME NEW i \in DOMAIN t, NEW j \in DOMAIN t, t[i][k] = t[j][k] PROVE i = j
        <3>1. Len(s) + i = Len(s) + j
            BY <1>2, <2>2, JoinedIndex DEF NoTwice
        <3> QED BY <1>1, <3>1
    <2>3. ASSUME NEW i \in DOMAIN s, NEW j \in DOMAIN t, s[i][k] = t[j][k] PROVE FALSE
        <3>1. i = Len(s) + j
            BY <1>2, <2>3, JoinedIndex DEF NoTwice
        <3> QED BY <1>1, <3>1
    <2> QED BY <2>1, <2>2, <2>3 DEF NoTwice, Part
<1>3. ASSUME NoTwice(s, k), NoTwice(t, k), Part(s, k) \cap Part(t, k) = {}
      PROVE  NoTwice(q, k)
    <2> SUFFICES ASSUME NEW i \in DOMAIN q, NEW j \in DOMAIN q, q[i][k] = q[j][k] PROVE i = j
        BY DEF NoTwice
    <2>1. ASSUME NEW a \in DOMAIN s, NEW b \in DOMAIN t, s[a][k] = t[b][k] PROVE FALSE
        BY <1>3, <2>1 DEF Part
    <2>2. CASE i \in DOMAIN s /\ j \in DOMAIN s
        BY <1>3, <2>2, JoinedIndex DEF NoTwice
    <2>3. CASE i \in DOMAIN s /\ j \notin DOMAIN s
        <3>1. PICK b \in DOMAIN t : j = Len(s) + b
            BY <2>3, JoinedIndex
        <3>2. q[i] = s[i] /\ q[j] = t[b]
            BY <2>3, <3>1, JoinedIndex
        <3> QED BY <2>1, <2>3, <3>2
    <2>4. CASE i \notin DOMAIN s /\ j \in DOMAIN s
        <3>1. PICK b \in DOMAIN t : i = Len(s) + b
            BY <2>4, JoinedIndex
        <3>2. q[j] = s[j] /\ q[i] = t[b]
            BY <2>4, <3>1, JoinedIndex
        <3> QED BY <2>1, <2>4, <3>2
    <2>5. CASE i \notin DOMAIN s /\ j \notin DOMAIN s
        <3>1. PICK a \in DOMAIN t, b \in DOMAIN t : i = Len(s) + a /\ j = Len(s) + b
            BY <2>5, JoinedIndex
        <3>2. q[i] = t[a] /\ q[j] = t[b]
            BY <3>1, JoinedIndex
        <3>3. a = b
            BY <1>3, <3>2 DEF NoTwice
        <3> QED BY <3>1, <3>3
    <2> QED BY <2>2, <2>3, <2>4, <2>5
<1> QED BY <1>2, <1>3

(* and is in order when its parts are and the first comes before the second. *)
LEMMA JoinedIncreasing ==
    ASSUME NEW q, NEW s, NEW t, Joined(q, s, t), NEW f
    PROVE  Increasing(f, q) <=> /\ Increasing(f, s) /\ Increasing(f, t)
                                /\ Before(f, Part(s, 2), Part(t, 2))
<1>1. /\ Len(s) \in Nat /\ DOMAIN s = 1 .. Len(s)
      /\ DOMAIN t = 1 .. Len(t) /\ Len(t) \in Nat
    BY DEF Joined, IsSeq
<1>2. \A i \in DOMAIN s, j \in DOMAIN t : i < Len(s) + j
    BY <1>1
<1>3. \A i, j \in DOMAIN t : Len(s) + i < Len(s) + j <=> i < j
    BY <1>1
<1>4. ASSUME Increasing(f, q)
      PROVE  Increasing(f, s) /\ Increasing(f, t) /\ Before(f, Part(s, 2), Part(t, 2))
    <2>1. Increasing(f, s)
        BY <1>4, JoinedIndex DEF Increasing
    <2>2. Increasing(f, t)
        BY <1>3, <1>4, JoinedIndex DEF Increasing
    <2>3. ASSUME NEW i \in DOMAIN s, NEW j \in DOMAIN t, f[s[i][2]] = f[t[j][2]]
          PROVE  s[i][2] < t[j][2]
        BY <1>2, <1>4, <2>3, JoinedIndex DEF Increasing
    <2> QED BY <2>1, <2>2, <2>3 DEF Before, Part
<1>5. ASSUME Increasing(f, s), Increasing(f, t), Before(f, Part(s, 2), Part(t, 2))
      PROVE  Increasing(f, q)
    <2> SUFFICES ASSUME NEW i \in DOMAIN q, NEW j \in DOMAIN q, i < j,
                        f[q[i][2]] = f[q[j][2]]
                 PROVE  q[i][2] < q[j][2]
        BY DEF Increasing
    <2>2. CASE i \in DOMAIN s /\ j \in DOMAIN s
        BY <1>5, <2>2, JoinedIndex DEF Increasing
    <2>3. CASE i \in DOMAIN s /\ j \notin DOMAIN s
        <3>1. PICK b \in DOMAIN t : j = Len(s) + b
            BY <2>3, JoinedIndex
        <3>2. q[i] = s[i] /\ q[j] = t[b]
            BY <2>3, <3>1, JoinedIndex
        <3>3. s[i][2] \in Part(s, 2) /\ t[b][2] \in Part(t, 2)
            BY <2>3 DEF Part
        <3> QED BY <1>5, <3>2, <3>3 DEF Before
    <2>4. CASE i \notin DOMAIN s /\ j \in DOMAIN s
        <3>1. PICK b \in DOMAIN t : i = Len(s) + b
            BY <2>4, JoinedIndex
        <3>2. j < i
            BY <1>2, <2>4, <3>1
        <3>3. i \in Nat /\ j \in Nat
            BY <1>1, <2>4, <3>1
        <3> QED BY <3>2, <3>3
    <2>5. CASE i \notin DOMAIN s /\ j \notin DOMAIN s
        <3>1. PICK a \in DOMAIN t, b \in DOMAIN t : i = Len(s) + a /\ j = Len(s) + b
            BY <2>5, JoinedIndex
        <3>2. q[i] = t[a] /\ q[j] = t[b]
            BY <3>1, JoinedIndex
        <3> QED BY <1>3, <1>5, <3>1, <3>2 DEF Increasing
    <2> QED BY <2>2, <2>3, <2>4, <2>5
<1> QED BY <1>4, <1>5

(* The ways in which queues are made of others. *)
LEMMA JoinedAppend ==
    ASSUME NEW S, NEW q \in Seq(S), NEW x \in S
    PROVE  Append(q, x) \in Seq(S) /\ Joined(Append(q, x), q, <<x>>)
BY DEF Joined, IsSeq

(* A queue is its head and its tail,                                         *)
LEMMA JoinedTail ==
    ASSUME NEW S, NEW q \in Seq(S), q # << >>
    PROVE  Tail(q) \in Seq(S) /\ Head(q) \in S /\ Joined(q, <<Head(q)>>, Tail(q))
BY DEF Joined, IsSeq

(* or its first n and what follows them (send_burst, do_rx).                 *)
LEMMA JoinedSplit ==
    ASSUME NEW S, NEW q \in Seq(S), NEW n \in 0 .. Len(q)
    PROVE  /\ SubSeq(q, 1, n) \in Seq(S) /\ SubSeq(q, n + 1, Len(q)) \in Seq(S)
           /\ Len(SubSeq(q, 1, n)) = n /\ Len(SubSeq(q, n + 1, Len(q))) = Len(q) - n
           /\ Joined(q, SubSeq(q, 1, n), SubSeq(q, n + 1, Len(q)))
<1> SUFFICES ASSUME NEW l, l = Len(q), l \in Nat, n \in 0 .. l
             PROVE  /\ SubSeq(q, 1, n) \in Seq(S) /\ SubSeq(q, n + 1, l) \in Seq(S)
                    /\ Len(SubSeq(q, 1, n)) = n /\ Len(SubSeq(q, n + 1, l)) = l - n
                    /\ Joined(q, SubSeq(q, 1, n), SubSeq(q, n + 1, l))
    OBVIOUS
<1>1. /\ SubSeq(q, 1, n) \in Seq(S) /\ Len(SubSeq(q, 1, n)) = n
      /\ \A i \in 1 .. n : SubSeq(q, 1, n)[i] = q[i]
    <2>1. 1 \in 1 .. Len(q) + 1 /\ n \in 1 - 1 .. Len(q)
        OBVIOUS
    <2> QED BY <2>1, SubSeqProperties
<1>2. /\ SubSeq(q, n + 1, l) \in Seq(S) /\ Len(SubSeq(q, n + 1, l)) = l - n
      /\ \A i \in 1 .. l - n : SubSeq(q, n + 1, l)[i] = q[n + i]
    <2>1. n + 1 \in 1 .. Len(q) + 1 /\ l \in (n + 1) - 1 .. Len(q)
        OBVIOUS
    <2>2. /\ SubSeq(q, n + 1, l) \in Seq(S)
          /\ Len(SubSeq(q, n + 1, l)) = IF n + 1 <= l THEN l - (n + 1) + 1 ELSE 0
          /\ \A i \in 1 .. l - (n + 1) + 1 : SubSeq(q, n + 1, l)[i] = q[(n + 1) + i - 1]
        BY <2>1, SubSeqProperties
    <2> HIDE DEF Joined
    <2>3. (IF n + 1 <= l THEN l - (n + 1) + 1 ELSE 0) = l - n
        OBVIOUS
    <2>4. \A i \in 1 .. l - n : i \in 1 .. l - (n + 1) + 1 /\ (n + 1) + i - 1 = n + i
        OBVIOUS
    <2> QED BY <2>2, <2>3, <2>4
<1>3. /\ DOMAIN SubSeq(q, 1, n) = 1 .. n /\ DOMAIN SubSeq(q, n + 1, l) = 1 .. l - n
      /\ DOMAIN q = 1 .. l
    BY <1>1, <1>2
<1>4. Joined(q, SubSeq(q, 1, n), SubSeq(q, n + 1, l))
    <2> DEFINE a == SubSeq(q, 1, n)
               b == SubSeq(q, n + 1, l)
    <2>1. IsSeq(q) /\ IsSeq(a) /\ IsSeq(b) /\ Len(q) = Len(a) + Len(b)
        <3>1. Len(a) = n /\ Len(b) = l - n /\ DOMAIN a = 1 .. n /\ DOMAIN b = 1 .. l - n
            BY <1>1, <1>2, <1>3
        <3> HIDE DEF a, b
        <3>2. n \in Nat /\ l - n \in Nat /\ n + (l - n) = l
            OBVIOUS
        <3> QED BY <1>3, <3>1, <3>2 DEF IsSeq
    <2>2. /\ \A i \in 1 .. Len(a) : q[i] = a[i]
          /\ \A i \in 1 .. Len(b) : q[Len(a) + i] = b[i]
        BY <1>1, <1>2
    <2> HIDE DEF a, b
    <2>3. Joined(q, a, b)
        BY <2>1, <2>2 DEF Joined
    <2> QED BY <2>3 DEF a, b
<1> QED BY <1>1, <1>2, <1>4

(* One queue behind another.                                                 *)
LEMMA JoinedConcat ==
    ASSUME NEW S, NEW q \in Seq(S), NEW s \in Seq(S)
    PROVE  q \o s \in Seq(S) /\ Joined(q \o s, q, s)
BY DEF Joined, IsSeq

(* A queue of one,                                                           *)
LEMMA One ==
    ASSUME NEW x
    PROVE  \A k : Part(<<x>>, k) = {x[k]} /\ NoTwice(<<x>>, k)
BY DEF Part, NoTwice

(* which is in order,                                                        *)
LEMMA OneIncreasing ==
    ASSUME NEW x, NEW f
    PROVE  Increasing(f, <<x>>)
BY DEF Increasing

(* and the empty queue,                                                      *)
LEMMA None == \A k : Part(<< >>, k) = {} /\ NoTwice(<< >>, k)
BY DEF Part, NoTwice

(* which is too.                                                             *)
LEMMA NoneIncreasing == \A f : Increasing(f, << >>)
BY DEF Increasing
-----------------------------------------------------------------------------
Item == Mbufs \X Nat

(* The steps by which queues change: one gets a pair at its end, loses its   *)
(* first, gives its first c to an empty one, or some are emptied.            *)
Grows(Q, R, n, x) ==
    /\ Q \in [Place -> Seq(Item)] /\ n \in Place /\ x \in Item
    /\ R = [Q EXCEPT ![n] = Append(@, x)]

LosesHead(Q, R, n, x) ==
    /\ Q \in [Place -> Seq(Item)] /\ n \in Place /\ Q[n] # << >> /\ x = Head(Q[n])
    /\ R = [Q EXCEPT ![n] = Tail(@)]

MovesFirst(Q, R, a, b, c) ==
    /\ Q \in [Place -> Seq(Item)] /\ a \in Place /\ b \in Place /\ a # b
    /\ Q[b] = << >> /\ c \in 0 .. Len(Q[a])
    /\ R = [Q EXCEPT ![a] = SubSeq(Q[a], c + 1, Len(Q[a])), ![b] = SubSeq(Q[a], 1, c)]

Empties(Q, R, E) ==
    /\ Q \in [Place -> Seq(Item)] /\ E \subseteq Place
    /\ R = [n \in Place |-> IF n \in E THEN << >> ELSE Q[n]]

(* By their k-th part, the pairs at all places are different ones. *)
Members(Q, k) == UNION {Part(Q[n], k) : n \in Place}

Apart(Q, k) ==
    /\ \A n \in Place : NoTwice(Q[n], k)
    /\ \A m, n \in Place : m # n => Part(Q[m], k) \cap Part(Q[n], k) = {}

(* A queue with an element more: all are different as long as it is a new one. *)
LEMMA Grow ==
    ASSUME NEW Q, NEW R, NEW n, NEW x, Grows(Q, R, n, x), NEW k
    PROVE  /\ R \in [Place -> Seq(Item)]
           /\ Members(R, k) = Members(Q, k) \cup {x[k]}
           /\ Apart(Q, k) /\ x[k] \notin Members(Q, k) => Apart(R, k)
<1> USE DEF Grows
<1>1. R[n] \in Seq(Item) /\ Joined(R[n], Q[n], <<x>>)
    BY JoinedAppend
<1>2. /\ Part(R[n], k) = Part(Q[n], k) \cup {x[k]}
      /\ NoTwice(R[n], k) <=> NoTwice(Q[n], k) /\ x[k] \notin Part(Q[n], k)
    <2>1. Part(<<x>>, k) = {x[k]} /\ NoTwice(<<x>>, k)
        BY One
    <2>2. Part(R[n], k) = Part(Q[n], k) \cup Part(<<x>>, k)
        BY <1>1, JoinedPart
    <2>3. NoTwice(R[n], k) <=> /\ NoTwice(Q[n], k) /\ NoTwice(<<x>>, k)
                               /\ Part(Q[n], k) \cap Part(<<x>>, k) = {}
        BY <1>1, JoinedNoTwice
    <2> QED BY <2>1, <2>2, <2>3
<1>3. \A m \in Place : m # n => R[m] = Q[m]
    OBVIOUS
<1>4. Members(R, k) = Members(Q, k) \cup {x[k]}
    <2>1. ASSUME NEW m \in Place PROVE Part(R[m], k) \subseteq Members(Q, k) \cup {x[k]}
        BY <1>2, <1>3 DEF Members
    <2>2. ASSUME NEW m \in Place PROVE Part(Q[m], k) \subseteq Members(R, k)
        BY <1>2, <1>3 DEF Members
    <2>3. x[k] \in Members(R, k)
        BY <1>2 DEF Members
    <2> QED BY <2>1, <2>2, <2>3 DEF Members
<1>5. ASSUME Apart(Q, k), x[k] \notin Members(Q, k) PROVE Apart(R, k)
    <2>1. \A m \in Place : x[k] \notin Part(Q[m], k)
        BY <1>5 DEF Members
    <2>2. \A m \in Place : NoTwice(R[m], k)
        BY <1>2, <1>3, <1>5, <2>1 DEF Apart
    <2>3. ASSUME NEW l \in Place, NEW m \in Place, l # m
          PROVE  Part(R[l], k) \cap Part(R[m], k) = {}
        <3>1. Part(Q[l], k) \cap Part(Q[m], k) = {}
            BY <1>5, <2>3 DEF Apart
        <3> QED BY <1>2, <1>3, <2>1, <2>3, <3>1
    <2> QED BY <2>2, <2>3 DEF Apart
<1> QED BY <1>1, <1>4, <1>5

(* Places that keep a part of their queue, or nothing.                       *)
LEMMA Lose ==
    ASSUME NEW Q, NEW R, NEW k, Apart(Q, k),
           \A n \in Place : Part(R[n], k) \subseteq Part(Q[n], k) /\ NoTwice(R[n], k)
    PROVE  Apart(R, k) /\ Members(R, k) \subseteq Members(Q, k)
<1>1. Apart(R, k)
    BY DEF Apart
<1>2. Members(R, k) \subseteq Members(Q, k)
    BY DEF Members
<1> QED BY <1>1, <1>2

(* The element that leaves is nowhere afterwards.                            *)
LEMMA LoseHead ==
    ASSUME NEW Q, NEW R, NEW n, NEW h, LosesHead(Q, R, n, h), NEW k
    PROVE  /\ R \in [Place -> Seq(Item)] /\ h \in Item
           /\ Joined(Q[n], <<h>>, R[n])
           /\ \A m \in Place : Part(R[m], k) \subseteq Part(Q[m], k)
           /\ Members(Q, k) = Members(R, k) \cup {h[k]}
           /\ Apart(Q, k) => Apart(R, k) /\ h[k] \notin Members(R, k)
<1> USE DEF LosesHead
<1>1. R[n] \in Seq(Item) /\ h \in Item /\ Joined(Q[n], <<h>>, R[n])
    BY JoinedTail
<1>2. /\ Part(Q[n], k) = Part(R[n], k) \cup {h[k]}
      /\ NoTwice(Q[n], k) => NoTwice(R[n], k) /\ h[k] \notin Part(R[n], k)
    <2>1. Part(<<h>>, k) = {h[k]} /\ NoTwice(<<h>>, k)
        BY One
    <2>2. Part(Q[n], k) = Part(<<h>>, k) \cup Part(R[n], k)
        BY <1>1, JoinedPart
    <2>3. NoTwice(Q[n], k) <=> /\ NoTwice(<<h>>, k) /\ NoTwice(R[n], k)
                               /\ Part(<<h>>, k) \cap Part(R[n], k) = {}
        BY <1>1, JoinedNoTwice
    <2> QED BY <2>1, <2>2, <2>3
<1>3. \A m \in Place : m # n => R[m] = Q[m]
    OBVIOUS
<1>4. \A m \in Place : Part(R[m], k) \subseteq Part(Q[m], k)
    BY <1>2, <1>3
<1>5. Members(Q, k) = Members(R, k) \cup {h[k]}
    <2>1. ASSUME NEW m \in Place PROVE Part(Q[m], k) \subseteq Members(R, k) \cup {h[k]}
        BY <1>2, <1>3 DEF Members
    <2>2. h[k] \in Members(Q, k)
        BY <1>2 DEF Members
    <2> QED BY <1>4, <2>1, <2>2 DEF Members
<1>6. ASSUME Apart(Q, k) PROVE Apart(R, k) /\ h[k] \notin Members(R, k)
    <2>1. \A m \in Place : NoTwice(R[m], k)
        BY <1>2, <1>3, <1>6 DEF Apart
    <2>2. ASSUME NEW m \in Place, m # n PROVE h[k] \notin Part(R[m], k)
        <3>1. Part(Q[m], k) \cap Part(Q[n], k) = {}
            BY <1>6, <2>2 DEF Apart
        <3> QED BY <1>2, <1>3, <2>2, <3>1
    <2>3. h[k] \notin Part(R[n], k)
        BY <1>2, <1>6 DEF Apart
    <2> QED BY <1>4, <1>6, <2>1, <2>2, <2>3, Lose DEF Members
<1> QED BY <1>1, <1>4, <1>5, <1>6

(* The same, said of the buffers.                                            *)
LEMMA LoseHeadOne ==
    ASSUME NEW Q, NEW R, NEW n, NEW h, LosesHead(Q, R, n, h), Apart(Q, 1)
    PROVE  /\ Members(Q, 1) = Members(R, 1) \cup {h[1]}
           /\ Apart(R, 1) /\ h[1] \notin Members(R, 1)
<1> DEFINE P(k) == /\ R \in [Place -> Seq(Item)] /\ h \in Item
                   /\ Joined(Q[n], <<h>>, R[n])
                   /\ \A m \in Place : Part(R[m], k) \subseteq Part(Q[m], k)
                   /\ Members(Q, k) = Members(R, k) \cup {h[k]}
                   /\ Apart(Q, k) => Apart(R, k) /\ h[k] \notin Members(R, k)
<1>1. \A k : P(k)
    BY LoseHead
<1>2. P(1)
    <2> HIDE DEF P
    <2> QED BY <1>1
<1> QED BY <1>2

(* do_rx: the first c of a go to b, which is empty.                          *)
LEMMA MoveFirst ==
    ASSUME NEW Q, NEW R, NEW a, NEW b, NEW c, MovesFirst(Q, R, a, b, c),
           NEW k
    PROVE  /\ R \in [Place -> Seq(Item)] /\ Joined(Q[a], R[b], R[a]) /\ Len(R[b]) = c
           /\ Members(R, k) = Members(Q, k)
           /\ Apart(Q, k) => Apart(R, k)
<1> USE DEF MovesFirst
<1>1. /\ R[a] = SubSeq(Q[a], c + 1, Len(Q[a])) /\ R[b] = SubSeq(Q[a], 1, c)
      /\ \A m \in Place : m # a /\ m # b => R[m] = Q[m]
    OBVIOUS
<1>2. R[a] \in Seq(Item) /\ R[b] \in Seq(Item) /\ Joined(Q[a], R[b], R[a]) /\ Len(R[b]) = c
    <2>1. Q[a] \in Seq(Item) /\ c \in 0 .. Len(Q[a])
        OBVIOUS
    <2> HIDE DEF MovesFirst
    <2> QED BY <1>1, <2>1, JoinedSplit
<1>3. R \in [Place -> Seq(Item)]
    BY <1>1, <1>2
<1>4. /\ Part(Q[a], k) = Part(R[b], k) \cup Part(R[a], k) /\ Part(Q[b], k) = {}
      /\ NoTwice(Q[a], k) => /\ NoTwice(R[b], k) /\ NoTwice(R[a], k)
                             /\ Part(R[b], k) \cap Part(R[a], k) = {}
    <2>1. Part(Q[a], k) = Part(R[b], k) \cup Part(R[a], k)
        BY <1>2, JoinedPart
    <2>2. NoTwice(Q[a], k) <=> /\ NoTwice(R[b], k) /\ NoTwice(R[a], k)
                               /\ Part(R[b], k) \cap Part(R[a], k) = {}
        BY <1>2, JoinedNoTwice
    <2> QED BY <2>1, <2>2, None
<1>5. Members(R, k) = Members(Q, k)
    <2>1. /\ \A m \in Place : Part(Q[m], k) \subseteq Members(Q, k)
          /\ \A m \in Place : Part(R[m], k) \subseteq Members(R, k)
        BY DEF Members
    <2>2. ASSUME NEW m \in Place PROVE Part(R[m], k) \subseteq Members(Q, k)
        <3>1. CASE m \in {a, b}
            BY <1>4, <2>1, <3>1
        <3>2. CASE m \notin {a, b}
            BY <1>1, <2>1, <3>2
        <3> QED BY <3>1, <3>2
    <2>3. ASSUME NEW m \in Place PROVE Part(Q[m], k) \subseteq Members(R, k)
        <3>1. CASE m \in {a, b}
            BY <1>4, <2>1, <3>1
        <3>2. CASE m \notin {a, b}
            BY <1>1, <2>1, <3>2
        <3> QED BY <3>1, <3>2
    <2> QED BY <2>2, <2>3 DEF Members
<1>6. ASSUME Apart(Q, k) PROVE Apart(R, k)
    <2>1. \A m \in Place : NoTwice(R[m], k)
        BY <1>1, <1>4, <1>6 DEF Apart
    <2>2. ASSUME NEW l \in Place, NEW m \in Place, l # m
          PROVE  Part(R[l], k) \cap Part(R[m], k) = {}
        <3>1. Part(R[b], k) \cap Part(R[a], k) = {}
            BY <1>4, <1>6 DEF Apart
        <3>2. CASE l \notin {a, b} /\ m \notin {a, b}
            <4>1. Part(Q[l], k) \cap Part(Q[m], k) = {}
                BY <1>6, <2>2 DEF Apart
            <4>2. R[l] = Q[l] /\ R[m] = Q[m]
                BY <1>1, <3>2
            <4> QED BY <4>1, <4>2
        <3>3. CASE l \in {a, b} /\ m \notin {a, b}
            <4>1. Part(Q[a], k) \cap Part(Q[m], k) = {}
                BY <1>6, <3>3 DEF Apart
            <4> QED BY <1>1, <1>4, <3>3, <4>1
        <3>4. CASE l \notin {a, b} /\ m \in {a, b}
            <4>1. Part(Q[a], k) \cap Part(Q[l], k) = {}
                BY <1>6, <3>4 DEF Apart
            <4> QED BY <1>1, <1>4, <3>4, <4>1
        <3>5. CASE l \in {a, b} /\ m \in {a, b}
            <4>1. (l = a /\ m = b) \/ (l = b /\ m = a)
                BY <2>2, <3>5
            <4>2. Part(R[a], k) \cap Part(R[b], k) = {}
                BY <3>1
            <4> QED BY <3>1, <4>1, <4>2
        <3> QED BY <3>2, <3>3, <3>4, <3>5
    <2> QED BY <2>1, <2>2 DEF Apart
<1> QED BY <1>2, <1>3, <1>5, <1>6

(* send_burst: the queues at the places of E are empty afterwards.           *)
LEMMA Empty ==
    ASSUME NEW Q, NEW R, NEW E, Empties(Q, R, E), NEW k
    PROVE  /\ R \in [Place -> Seq(Item)]
           /\ \A m \in Place : Part(R[m], k) \subseteq Part(Q[m], k)
           /\ Members(Q, k) = Members(R, k) \cup UNION {Part(Q[n], k) : n \in E}
           /\ Apart(Q, k) => /\ Apart(R, k)
                             /\ Members(R, k) \cap UNION {Part(Q[n], k) : n \in E} = {}
<1>s. E \subseteq Place /\ Q \in [Place -> Seq(Item)]
    BY DEF Empties
<1>1. \A n \in E : R[n] = << >> /\ Part(R[n], k) = {} /\ NoTwice(R[n], k)
    BY None DEF Empties
<1>2. \A n \in Place : n \notin E => R[n] = Q[n]
    BY DEF Empties
<1>3. R \in [Place -> Seq(Item)]
    <2>1. << >> \in Seq(Item)
        OBVIOUS
    <2> QED BY <2>1 DEF Empties
<1>4. \A m \in Place : Part(R[m], k) \subseteq Part(Q[m], k)
    BY <1>1, <1>2
<1>5. Members(Q, k) = Members(R, k) \cup UNION {Part(Q[n], k) : n \in E}
    <2>1. ASSUME NEW m \in Place
          PROVE  Part(Q[m], k) \subseteq Members(R, k) \cup UNION {Part(Q[n], k) : n \in E}
        BY <1>2 DEF Members
    <2>2. \A n \in E : Part(Q[n], k) \subseteq Members(Q, k)
        BY <1>s DEF Members
    <2> QED BY <1>4, <2>1, <2>2 DEF Members
<1>6. ASSUME Apart(Q, k)
      PROVE  Apart(R, k) /\ Members(R, k) \cap UNION {Part(Q[n], k) : n \in E} = {}
    <2>1. \A m \in Place : NoTwice(R[m], k)
        BY <1>1, <1>2, <1>6 DEF Apart
    <2>2. ASSUME NEW m \in Place, NEW n \in E PROVE Part(R[m], k) \cap Part(Q[n], k) = {}
        <3>1. CASE m \in E
            BY <1>1, <3>1
        <3>2. CASE m \notin E
            BY <1>s, <1>2, <1>6, <3>2 DEF Apart
        <3> QED BY <3>1, <3>2
    <2>3. Apart(R, k)
        BY <1>4, <1>6, <2>1, Lose
    <2>4. Members(R, k) \cap UNION {Part(Q[n], k) : n \in E} = {}
        <3> SUFFICES ASSUME NEW v, NEW m \in Place, v \in Part(R[m], k), NEW n \in E,
                            v \in Part(Q[n], k)
                     PROVE  FALSE
            <4> DEFINE M == UNION {Part(R[m], k) : m \in Place}
                       L == UNION {Part(Q[n], k) : n \in E}
            <4>1. ASSUME M \cap L # {} PROVE FALSE
                <5>1. PICK v : v \in M /\ v \in L
                    BY <4>1
                <5>2. PICK m \in Place : v \in Part(R[m], k)
                    BY <5>1
                <5>3. PICK n \in E : v \in Part(Q[n], k)
                    BY <5>1
                <5> QED BY <5>2, <5>3
            <4> QED BY <4>1 DEF Members
        <3> QED BY <2>2
    <2> QED BY <2>3, <2>4
<1> QED BY <1>3, <1>4, <1>5, <1>6
-----------------------------------------------------------------------------
(* Every buffer is in one place. *)
Owned(Q, pl, nc, ls) ==
    /\ Apart(Q, 1)
    /\ Members(Q, 1) \cap (pl \cup nc \cup ls) = {}
    /\ pl \cap nc = {} /\ pl \cap ls = {} /\ nc \cap ls = {}
    /\ Members(Q, 1) \cup pl \cup nc \cup ls = Mbufs

(* A free buffer enters a queue.                                             *)
LEMMA GrowOwned ==
    ASSUME NEW Q, NEW R, NEW n, NEW x, Grows(Q, R, n, x),
           NEW pl, NEW nc, NEW ls, Owned(Q, pl, nc, ls), x[1] \in pl
    PROVE  Owned(R, pl \ {x[1]}, nc, ls)
<1>1. /\ Members(R, 1) = Members(Q, 1) \cup {x[1]}
      /\ Apart(Q, 1) /\ x[1] \notin Members(Q, 1) => Apart(R, 1)
    BY Grow
<1>2. x[1] \notin Members(Q, 1) /\ x[1] \notin nc /\ x[1] \notin ls
    BY DEF Owned
<1> QED BY <1>1, <1>2 DEF Owned

(* The buffer of the head goes to the pool, or is lost, and so are the       *)
(* buffers of cl, which were free.                                           *)
LEMMA LoseHeadOwned ==
    ASSUME NEW Q, NEW R, NEW n, NEW h, LosesHead(Q, R, n, h),
           NEW pl, NEW nc, NEW ls, Owned(Q, pl, nc, ls), NEW cl \in SUBSET pl
    PROVE  /\ Owned(R, pl \cup {h[1]}, nc, ls)
           /\ Owned(R, pl \ cl, nc, ls \cup cl \cup {h[1]})
<1>1. /\ Members(Q, 1) = Members(R, 1) \cup {h[1]}
      /\ Apart(R, 1) /\ h[1] \notin Members(R, 1)
    BY LoseHeadOne DEF Owned
<1>2. h[1] \notin pl /\ h[1] \notin nc /\ h[1] \notin ls
    BY <1>1 DEF Owned
<1> QED BY <1>1, <1>2 DEF Owned

(* A buffer goes from the head of a queue to the end of one.                 *)
LEMMA ShiftOwned ==
    ASSUME NEW Q, NEW R, NEW S, NEW m, NEW n, NEW x,
           LosesHead(Q, R, m, x), Grows(R, S, n, x),
           NEW pl, NEW nc, NEW ls, Owned(Q, pl, nc, ls)
    PROVE  Owned(S, pl, nc, ls)
<1>1. /\ Members(Q, 1) = Members(R, 1) \cup {x[1]}
      /\ Apart(R, 1) /\ x[1] \notin Members(R, 1)
    BY LoseHeadOne DEF Owned
<1>3. Members(S, 1) = Members(R, 1) \cup {x[1]} /\ Apart(S, 1)
    BY <1>1, Grow
<1> QED BY <1>1, <1>3 DEF Owned

(* Buffers go from a receive queue to a core.                                *)
LEMMA MoveFirstOwned ==
    ASSUME NEW Q, NEW R, NEW a, NEW b, NEW c, MovesFirst(Q, R, a, b, c),
           NEW pl, NEW nc, NEW ls, Owned(Q, pl, nc, ls)
    PROVE  Owned(R, pl, nc, ls)
<1>1. Members(R, 1) = Members(Q, 1) /\ (Apart(Q, 1) => Apart(R, 1))
    BY MoveFirst
<1> QED BY <1>1 DEF Owned

(* The buffers of the queues emptied go in part to the driver, in part to    *)
(* the pool.                                                                 *)
Gone(Q, E) == UNION {Part(Q[n], 1) : n \in E}

(* Queues are emptied: of what they held, a part goes to the driver, the rest to *)
(* the pool.                                                                 *)
LEMMA EmptyOwned ==
    ASSUME NEW Q, NEW R, NEW E, Empties(Q, R, E),
           NEW pl, NEW nc, NEW ls, Owned(Q, pl, nc, ls),
           NEW sent, NEW freed, sent \cup freed = Gone(Q, E), sent \cap freed = {}
    PROVE  Owned(R, pl \cup freed, nc \cup sent, ls)
<1>1. /\ Members(Q, 1) = Members(R, 1) \cup (sent \cup freed)
      /\ Apart(R, 1) /\ Members(R, 1) \cap (sent \cup freed) = {}
    BY Empty DEF Owned, Gone
<1>2. (sent \cup freed) \cap (pl \cup nc \cup ls) = {}
    BY <1>1 DEF Owned
<1> QED BY <1>1, <1>2 DEF Owned

-----------------------------------------------------------------------------
(* The places.                                                               *)

(* The queues of the cores and ports as one function of the places.          *)
QueueOf(r, b, t, n) == CASE n[1] = "rx"    -> r[n[2]]
                         [] n[1] = "burst" -> b[n[2]]
                         [] n[1] = "tx"    -> t[n[2][1]][n[2][2]]

QueuesOf(r, b, t) == [n \in Place |-> QueueOf(r, b, t, n)]

Queues == QueuesOf(rx, burst, tx)

QueueSorts(r, b, t) ==
    /\ r \in [RxQueue -> Seq(Item)] /\ b \in [Cores -> Seq(Item)]
    /\ t \in [Cores -> [Ports -> Seq(Item)]]

RxAt(q)    == <<"rx", q>>
BurstAt(c) == <<"burst", c>>
TxAt(c, p) == <<"tx", <<c, p>>>>

(* A place is one of the three kinds. *)
LEMMA PlaceCases ==
    ASSUME NEW n \in Place
    PROVE  \/ \E q \in RxQueue : n = RxAt(q)
           \/ \E c \in Cores : n = BurstAt(c)
           \/ \E c \in Cores, p \in Ports : n = TxAt(c, p)
<1>1. ASSUME NEW a, NEW S, n \in {a} \X S PROVE \E x \in S : n = <<a, x>>
    BY <1>1
<1>2. CASE n \in {"rx"} \X RxQueue
    BY <1>1, <1>2 DEF RxAt
<1>3. CASE n \in {"burst"} \X Cores
    BY <1>1, <1>3 DEF BurstAt
<1>4. CASE n \in {"tx"} \X (Cores \X Ports)
    <2>1. PICK x \in Cores \X Ports : n = <<"tx", x>>
        BY <1>1, <1>4
    <2>2. PICK c \in Cores, p \in Ports : x = <<c, p>>
        BY <2>1
    <2> QED BY <2>1, <2>2 DEF TxAt
<1> QED BY <1>2, <1>3, <1>4 DEF Place

(* The places of the kinds, and of one kind, differ.                         *)
LEMMA PlacesDiffer ==
    /\ \A q \in RxQueue : RxAt(q) \in Place
    /\ \A c \in Cores : BurstAt(c) \in Place
    /\ \A c \in Cores, p \in Ports : TxAt(c, p) \in Place
    /\ \A q, c : RxAt(q) # BurstAt(c)
    /\ \A q, c, p : RxAt(q) # TxAt(c, p)
    /\ \A d, c, p : BurstAt(d) # TxAt(c, p)
    /\ \A q, r : RxAt(q) = RxAt(r) => q = r
    /\ \A c, d : BurstAt(c) = BurstAt(d) => c = d
    /\ \A c, d, p, o : TxAt(c, p) = TxAt(d, o) => c = d /\ p = o
<1> USE DEF RxAt, BurstAt, TxAt
<1>1. /\ \A q \in RxQueue : RxAt(q) \in Place
      /\ \A c \in Cores : BurstAt(c) \in Place
      /\ \A c \in Cores, p \in Ports : TxAt(c, p) \in Place
    BY DEF Place
<1>2. \A a, b, x, y : <<a, x>> = <<b, y>> => a = b /\ x = y
    OBVIOUS
<1> QED BY <1>1, <1>2

(* What is at each place.                                                    *)
LEMMA QueuesOfAt ==
    ASSUME NEW r, NEW b, NEW t
    PROVE  /\ \A q \in RxQueue : QueuesOf(r, b, t)[RxAt(q)] = r[q]
           /\ \A c \in Cores : QueuesOf(r, b, t)[BurstAt(c)] = b[c]
           /\ \A c \in Cores, p \in Ports : QueuesOf(r, b, t)[TxAt(c, p)] = t[c][p]
<1>1. ASSUME NEW q \in RxQueue PROVE QueuesOf(r, b, t)[RxAt(q)] = r[q]
    <2>1. RxAt(q)[1] = "rx" /\ RxAt(q)[2] = q /\ RxAt(q) \in Place
        BY PlacesDiffer DEF RxAt
    <2> QED BY <2>1 DEF QueuesOf, QueueOf
<1>2. ASSUME NEW c \in Cores PROVE QueuesOf(r, b, t)[BurstAt(c)] = b[c]
    <2>1. BurstAt(c)[1] = "burst" /\ BurstAt(c)[2] = c /\ BurstAt(c) \in Place
        BY PlacesDiffer DEF BurstAt
    <2> QED BY <2>1 DEF QueuesOf, QueueOf
<1>3. ASSUME NEW c \in Cores, NEW p \in Ports PROVE QueuesOf(r, b, t)[TxAt(c, p)] = t[c][p]
    <2>1. /\ TxAt(c, p)[1] = "tx" /\ TxAt(c, p)[2][1] = c /\ TxAt(c, p)[2][2] = p
          /\ TxAt(c, p) \in Place
        BY PlacesDiffer DEF TxAt
    <2> QED BY <2>1 DEF QueuesOf, QueueOf
<1> QED BY <1>1, <1>2, <1>3

(* The queues are a function of the places,                                  *)
LEMMA QueuesShape ==
    ASSUME NEW r, NEW b, NEW t, NEW F, F = QueuesOf(r, b, t)
    PROVE  DOMAIN F = Place /\ F = [n \in Place |-> F[n]]
BY DEF QueuesOf

(* and still are when one changes.                                           *)
LEMMA SetShape ==
    ASSUME NEW Q, DOMAIN Q = Place, Q = [n \in Place |-> Q[n]], NEW m, NEW v,
           NEW G, G = [Q EXCEPT ![m] = v]
    PROVE  /\ G = [n \in Place |-> G[n]]
           /\ \A n \in Place : G[n] = IF n = m THEN v ELSE Q[n]
OBVIOUS

(* Two functions of the places that agree at each are the same. *)
Agree(F, G) ==
    /\ DOMAIN F = Place /\ F = [n \in Place |-> F[n]] /\ G = [n \in Place |-> G[n]]
    /\ \A q \in RxQueue : F[RxAt(q)] = G[RxAt(q)]
    /\ \A c \in Cores : F[BurstAt(c)] = G[BurstAt(c)]
    /\ \A c \in Cores, p \in Ports : F[TxAt(c, p)] = G[TxAt(c, p)]

(* Agreement at each place of each kind is enough.                           *)
LEMMA SameQueues ==
    ASSUME NEW F, NEW G, Agree(F, G)
    PROVE  F = G
<1>1. \A n \in Place : F[n] = G[n]
    BY PlaceCases DEF Agree
<1> QED BY <1>1 DEF Agree

(* All queues hold pairs of a buffer and a packet.                           *)
LEMMA QueuesSort ==
    ASSUME NEW r, NEW b, NEW t, QueueSorts(r, b, t)
    PROVE  QueuesOf(r, b, t) \in [Place -> Seq(Item)]
<1>1. ASSUME NEW n \in Place PROVE QueuesOf(r, b, t)[n] \in Seq(Item)
    <2>1. CASE \E q \in RxQueue : n = RxAt(q)
        BY <2>1, QueuesOfAt DEF QueueSorts
    <2>2. CASE \E c \in Cores : n = BurstAt(c)
        BY <2>2, QueuesOfAt DEF QueueSorts
    <2>3. CASE \E c \in Cores, p \in Ports : n = TxAt(c, p)
        BY <2>3, QueuesOfAt DEF QueueSorts
    <2> QED BY <2>1, <2>2, <2>3, PlaceCases
<1> QED BY <1>1 DEF QueuesOf

(* A change of one queue of a kind is a change at its place. *)
SetAt(Q, R, n, v) == R = [Q EXCEPT ![n] = v]

(* A receive queue,                                                          *)
LEMMA RxSet ==
    ASSUME NEW r, NEW b, NEW t, QueueSorts(r, b, t), NEW q \in RxQueue, NEW v,
           NEW s, SetAt(r, s, q, v)
    PROVE  SetAt(QueuesOf(r, b, t), QueuesOf(s, b, t), RxAt(q), v)
<1> DEFINE F == QueuesOf(s, b, t)
           Q == QueuesOf(r, b, t)
           G == [Q EXCEPT ![RxAt(q)] = v]
<1>0. /\ DOMAIN F = Place /\ F = [n \in Place |-> F[n]]
      /\ DOMAIN Q = Place /\ Q = [n \in Place |-> Q[n]]
    BY DEF QueuesOf
<1>1. DOMAIN F = Place /\ F = [n \in Place |-> F[n]] /\ G = [n \in Place |-> G[n]]
    <2> HIDE DEF Q, F
    <2> QED BY <1>0, SetShape
<1>2. \A n \in Place : G[n] = IF n = RxAt(q) THEN v ELSE Q[n]
    <2> HIDE DEF Q
    <2> QED BY <1>0, SetShape
<1>3. \A o \in RxQueue : s[o] = IF o = q THEN v ELSE r[o]
    BY DEF QueueSorts, SetAt
<1>4. /\ \A o \in RxQueue : F[RxAt(o)] = s[o]
      /\ \A c \in Cores : F[BurstAt(c)] = b[c]
      /\ \A c \in Cores, p \in Ports : F[TxAt(c, p)] = t[c][p]
    BY QueuesOfAt
<1>q. /\ \A a \in RxQueue : Q[RxAt(a)] = r[a]
      /\ \A c \in Cores : Q[BurstAt(c)] = b[c]
      /\ \A c \in Cores, p \in Ports : Q[TxAt(c, p)] = t[c][p]
    <2>1. Q = QueuesOf(r, b, t)
        OBVIOUS
    <2> HIDE DEF Q
    <2> QED BY <2>1, QueuesOfAt
<1> HIDE DEF F, G, Q
<1>5. \A o \in RxQueue : F[RxAt(o)] = G[RxAt(o)]
    BY <1>2, <1>3, <1>4, <1>q, PlacesDiffer
<1>6. \A c \in Cores : F[BurstAt(c)] = G[BurstAt(c)]
    BY <1>2, <1>4, <1>q, PlacesDiffer
<1>7. \A c \in Cores, p \in Ports : F[TxAt(c, p)] = G[TxAt(c, p)]
    BY <1>2, <1>4, <1>q, PlacesDiffer
<1>8. F = G
    <2>1. Agree(F, G)
        BY <1>0, <1>1, <1>5, <1>6, <1>7 DEF Agree
    <2> QED BY <2>1, SameQueues
<1> QED BY <1>8 DEF F, G, Q, SetAt

(* the packets of a core,                                                    *)
LEMMA BurstSet ==
    ASSUME NEW r, NEW b, NEW t, QueueSorts(r, b, t), NEW d \in Cores, NEW v,
           NEW s, SetAt(b, s, d, v)
    PROVE  SetAt(QueuesOf(r, b, t), QueuesOf(r, s, t), BurstAt(d), v)
<1> DEFINE F == QueuesOf(r, s, t)
           Q == QueuesOf(r, b, t)
           G == [Q EXCEPT ![BurstAt(d)] = v]
<1>0. /\ DOMAIN F = Place /\ F = [n \in Place |-> F[n]]
      /\ DOMAIN Q = Place /\ Q = [n \in Place |-> Q[n]]
    BY DEF QueuesOf
<1>1. DOMAIN F = Place /\ F = [n \in Place |-> F[n]] /\ G = [n \in Place |-> G[n]]
    <2> HIDE DEF Q, F
    <2> QED BY <1>0, SetShape
<1>2. \A n \in Place : G[n] = IF n = BurstAt(d) THEN v ELSE Q[n]
    <2> HIDE DEF Q
    <2> QED BY <1>0, SetShape
<1>3. \A c \in Cores : s[c] = IF c = d THEN v ELSE b[c]
    BY DEF QueueSorts, SetAt
<1>4. /\ \A o \in RxQueue : F[RxAt(o)] = r[o]
      /\ \A c \in Cores : F[BurstAt(c)] = s[c]
      /\ \A c \in Cores, p \in Ports : F[TxAt(c, p)] = t[c][p]
    BY QueuesOfAt
<1>q. /\ \A a \in RxQueue : Q[RxAt(a)] = r[a]
      /\ \A c \in Cores : Q[BurstAt(c)] = b[c]
      /\ \A c \in Cores, p \in Ports : Q[TxAt(c, p)] = t[c][p]
    <2>1. Q = QueuesOf(r, b, t)
        OBVIOUS
    <2> HIDE DEF Q
    <2> QED BY <2>1, QueuesOfAt
<1> HIDE DEF F, G, Q
<1>5. \A o \in RxQueue : F[RxAt(o)] = G[RxAt(o)]
    BY <1>2, <1>4, <1>q, PlacesDiffer
<1>6. \A c \in Cores : F[BurstAt(c)] = G[BurstAt(c)]
    BY <1>2, <1>3, <1>4, <1>q, PlacesDiffer
<1>7. \A c \in Cores, p \in Ports : F[TxAt(c, p)] = G[TxAt(c, p)]
    BY <1>2, <1>4, <1>q, PlacesDiffer
<1>8. F = G
    <2>1. Agree(F, G)
        BY <1>0, <1>1, <1>5, <1>6, <1>7 DEF Agree
    <2> QED BY <2>1, SameQueues
<1> QED BY <1>8 DEF F, G, Q, SetAt

OneSet(t, s, d, o, v) == s = [t EXCEPT ![d] = [t[d] EXCEPT ![o] = v]]

(* one of its transmit queues.                                               *)
LEMMA TxSet ==
    ASSUME NEW r, NEW b, NEW t, QueueSorts(r, b, t), NEW d \in Cores, NEW o \in Ports, NEW v,
           NEW s, OneSet(t, s, d, o, v)
    PROVE  SetAt(QueuesOf(r, b, t), QueuesOf(r, b, s), TxAt(d, o), v)
<1> DEFINE F == QueuesOf(r, b, s)
           Q == QueuesOf(r, b, t)
           G == [Q EXCEPT ![TxAt(d, o)] = v]
<1>0. /\ DOMAIN F = Place /\ F = [n \in Place |-> F[n]]
      /\ DOMAIN Q = Place /\ Q = [n \in Place |-> Q[n]]
    BY DEF QueuesOf
<1>1. DOMAIN F = Place /\ F = [n \in Place |-> F[n]] /\ G = [n \in Place |-> G[n]]
    <2> HIDE DEF Q, F
    <2> QED BY <1>0, SetShape
<1>2. \A n \in Place : G[n] = IF n = TxAt(d, o) THEN v ELSE Q[n]
    <2> HIDE DEF Q
    <2> QED BY <1>0, SetShape
<1>3. \A c \in Cores, p \in Ports : s[c][p] = IF c = d /\ p = o THEN v ELSE t[c][p]
    BY DEF QueueSorts, OneSet
<1>4. /\ \A q \in RxQueue : F[RxAt(q)] = r[q]
      /\ \A c \in Cores : F[BurstAt(c)] = b[c]
      /\ \A c \in Cores, p \in Ports : F[TxAt(c, p)] = s[c][p]
    BY QueuesOfAt
<1>q. /\ \A a \in RxQueue : Q[RxAt(a)] = r[a]
      /\ \A c \in Cores : Q[BurstAt(c)] = b[c]
      /\ \A c \in Cores, p \in Ports : Q[TxAt(c, p)] = t[c][p]
    <2>1. Q = QueuesOf(r, b, t)
        OBVIOUS
    <2> HIDE DEF Q
    <2> QED BY <2>1, QueuesOfAt
<1> HIDE DEF F, G, Q
<1>5. \A q \in RxQueue : F[RxAt(q)] = G[RxAt(q)]
    BY <1>2, <1>4, <1>q, PlacesDiffer
<1>6. \A c \in Cores : F[BurstAt(c)] = G[BurstAt(c)]
    BY <1>2, <1>4, <1>q, PlacesDiffer
<1>7. ASSUME NEW c \in Cores, NEW p \in Ports PROVE F[TxAt(c, p)] = G[TxAt(c, p)]
    <2>1. F[TxAt(c, p)] = IF c = d /\ p = o THEN v ELSE t[c][p]
        BY <1>3, <1>4
    <2>2. G[TxAt(c, p)] = IF TxAt(c, p) = TxAt(d, o) THEN v ELSE t[c][p]
        BY <1>2, <1>q, PlacesDiffer
    <2>3. TxAt(c, p) = TxAt(d, o) <=> c = d /\ p = o
        BY PlacesDiffer
    <2> QED BY <2>1, <2>2, <2>3
<1>8. F = G
    <2>1. Agree(F, G)
        BY <1>0, <1>1, <1>5, <1>6, <1>7 DEF Agree
    <2> QED BY <2>1, SameQueues
<1> QED BY <1>8 DEF F, G, Q, SetAt

(* The queues of a core for some ports are emptied. *)
TxOf(d, ps) == {TxAt(d, p) : p \in ps}

SomeEmpty(t, s, d, ps) ==
    s = [t EXCEPT ![d] = [p \in Ports |-> IF p \in ps THEN << >> ELSE t[d][p]]]

(* They are then emptied at their places, and no other queue changes.        *)
LEMMA TxEmpty ==
    ASSUME NEW r, NEW b, NEW t, QueueSorts(r, b, t), NEW d \in Cores, NEW ps \in SUBSET Ports,
           NEW s, SomeEmpty(t, s, d, ps)
    PROVE  Empties(QueuesOf(r, b, t), QueuesOf(r, b, s), TxOf(d, ps))
<1> DEFINE F == QueuesOf(r, b, s)
           Q == QueuesOf(r, b, t)
           G == [n \in Place |-> IF n \in TxOf(d, ps) THEN << >> ELSE Q[n]]
<1>0. DOMAIN F = Place /\ F = [n \in Place |-> F[n]]
    BY QueuesShape
<1>1. DOMAIN F = Place /\ F = [n \in Place |-> F[n]] /\ G = [n \in Place |-> G[n]]
    <2>1. G = [n \in Place |-> G[n]]
        <3> HIDE DEF Q
        <3> QED OBVIOUS
    <2> QED BY <1>0, <2>1
<1>2. \A n \in Place : G[n] = IF n \in TxOf(d, ps) THEN << >> ELSE Q[n]
    OBVIOUS
<1>3. \A c \in Cores, p \in Ports : s[c][p] = IF c = d /\ p \in ps THEN << >> ELSE t[c][p]
    BY DEF QueueSorts, SomeEmpty
<1>4. /\ \A q \in RxQueue : F[RxAt(q)] = r[q]
      /\ \A c \in Cores : F[BurstAt(c)] = b[c]
      /\ \A c \in Cores, p \in Ports : F[TxAt(c, p)] = s[c][p]
    BY QueuesOfAt
<1>5. /\ \A q \in RxQueue : Q[RxAt(q)] = r[q] /\ RxAt(q) \notin TxOf(d, ps)
      /\ \A c \in Cores : Q[BurstAt(c)] = b[c] /\ BurstAt(c) \notin TxOf(d, ps)
      /\ \A c \in Cores, p \in Ports : /\ Q[TxAt(c, p)] = t[c][p]
                                       /\ TxAt(c, p) \in TxOf(d, ps) <=> c = d /\ p \in ps
    BY QueuesOfAt, PlacesDiffer DEF TxOf
<1>6. Q \in [Place -> Seq(Item)] /\ TxOf(d, ps) \subseteq Place
    BY QueuesSort, PlacesDiffer DEF TxOf
<1> HIDE DEF F, Q, G
<1>7. F = G
    <2>1. \A q \in RxQueue : F[RxAt(q)] = G[RxAt(q)]
        BY <1>2, <1>4, <1>5, PlacesDiffer
    <2>2. \A c \in Cores : F[BurstAt(c)] = G[BurstAt(c)]
        BY <1>2, <1>4, <1>5, PlacesDiffer
    <2>3. \A c \in Cores, p \in Ports : F[TxAt(c, p)] = G[TxAt(c, p)]
        BY <1>2, <1>3, <1>4, <1>5, PlacesDiffer
    <2>4. Agree(F, G)
        BY <1>1, <2>1, <2>2, <2>3 DEF Agree
    <2> QED BY <2>4, SameQueues
<1>8. Empties(Q, F, TxOf(d, ps))
    BY <1>6, <1>7 DEF Empties, G
<1> QED BY <1>8 DEF F, Q

-----------------------------------------------------------------------------
(* Recursive functions of the set-up.                                        *)

Less == {ss \in Nat \X Nat : ss[1] < ss[2]}

(* Least is the least of a set of numbers (Arrive takes the least buffer).   *)
LEMMA LeastIn ==
    ASSUME NEW S, S \subseteq Nat, S # {}
    PROVE  Least(S) \in S /\ \A y \in S : Least(S) <= y
<1>1. IsWellFoundedOn(Less, Nat)
    BY NatLessThanWellFounded DEF OpToRel, Less
<1>2. PICK x \in S : \A y \in S : ~(<<y, x>> \in Less)
    BY <1>1, WFMin
<1>3. ASSUME NEW y \in S PROVE x <= y
    <2>1. x \in Nat /\ y \in Nat /\ ~(<<y, x>> \in Less)
        BY <1>2
    <2>2. y < x => <<y, x>> \in Nat \X Nat /\ <<y, x>>[1] < <<y, x>>[2]
        BY <2>1
    <2> QED BY <2>1, <2>2 DEF Less
<1> QED BY <1>2, <1>3 DEF Least

(* A set of numbers that has 0 and the successor of each of its numbers.     *)
LEMMA FromZero ==
    ASSUME NEW T, 0 \in T, \A n \in Nat : n \in T => n + 1 \in T
    PROVE  Nat \subseteq T
<1> SUFFICES ASSUME Nat \ T # {} PROVE FALSE
    OBVIOUS
<1>1. PICK x \in Nat \ T : \A y \in Nat \ T : x <= y
    BY LeastIn
<1>2. x - 1 \in Nat /\ x - 1 + 1 = x /\ ~(x <= x - 1)
    BY <1>1
<1> QED BY <1>1, <1>2

(* init_lcore_rx_queues gives a core the queues that are its own.            *)
Chosen(p, c, n, f) ==
    f = [i \in 0 .. n |-> IF i = 0 THEN << >>
                          ELSE IF p[i].lcore = c THEN Append(f[i - 1], p[i]) ELSE f[i - 1]]

(* The recursive function that init_lcore_rx_queues defines exists.          *)
LEMMA ChosenExists ==
    ASSUME NEW p, NEW c, NEW n \in Nat
    PROVE  \E f : Chosen(p, c, n, f)
<1> DEFINE T == {m \in Nat : \E f : Chosen(p, c, m, f)}
<1>1. 0 \in T
    <2>1. Chosen(p, c, 0, [i \in 0 .. 0 |-> << >>])
        BY DEF Chosen
    <2> QED BY <2>1
<1>2. ASSUME NEW m \in Nat, m \in T PROVE m + 1 \in T
    <2>1. PICK f : Chosen(p, c, m, f)
        BY <1>2
    <2> DEFINE last == IF p[m + 1].lcore = c THEN Append(f[m], p[m + 1]) ELSE f[m]
               g == [i \in 0 .. m + 1 |-> IF i = m + 1 THEN last ELSE f[i]]
    <2>2. ASSUME NEW i \in 0 .. m + 1
          PROVE  g[i] = IF i = 0 THEN << >>
                        ELSE IF p[i].lcore = c THEN Append(g[i - 1], p[i]) ELSE g[i - 1]
        <3>1. CASE i = m + 1
            <4>1. i # 0 /\ i - 1 = m /\ m \in 0 .. m + 1 /\ m # m + 1
                BY <3>1
            <4>2. g[i] = last /\ g[i - 1] = f[m]
                BY <3>1, <4>1
            <4> QED BY <3>1, <4>1, <4>2
        <3>2. CASE i # m + 1
            <4>1. i \in 0 .. m /\ g[i] = f[i] /\ (i # 0 => g[i - 1] = f[i - 1])
                BY <3>2
            <4>2. f[i] = IF i = 0 THEN << >>
                         ELSE IF p[i].lcore = c THEN Append(f[i - 1], p[i]) ELSE f[i - 1]
                BY <2>1, <4>1 DEF Chosen
            <4> HIDE DEF g
            <4> QED BY <4>1, <4>2
        <3> QED BY <3>1, <3>2
    <2>3. g = [i \in 0 .. m + 1 |-> g[i]]
        OBVIOUS
    <2>4. Chosen(p, c, m + 1, g)
        <3> HIDE DEF g
        <3> QED BY <2>2, <2>3 DEF Chosen
    <2> HIDE DEF Chosen
    <2>5. \E h : Chosen(p, c, m + 1, h)
        BY <2>4
    <2> QED BY <2>5
<1>3. Nat \subseteq T
    <2> HIDE DEF T
    <2> QED BY <1>1, <1>2, FromZero
<1> QED BY <1>3

(* A core's list has the parameters that name the core, and no others.       *)
LEMMA RxQueueList ==
    ASSUME NEW s \in Scenarios, NEW c
    PROVE  init_lcore_rx_queues(s, c) \in Seq({q \in Range(s.params) : q.lcore = c})
<1> DEFINE p == s.params
           L == Len(p)
           S == {q \in Range(p) : q.lcore = c}
           f == CHOOSE g : Chosen(p, c, L, g)
           T == {n \in Nat : n <= L => f[n] \in Seq(S)}
<1>1. p \in Seq(Range(p)) /\ L \in Nat
    BY ScenarioAssumption, SeqOfRange
<1>2. Chosen(p, c, L, f)
    BY <1>1, ChosenExists
<1>3. init_lcore_rx_queues(s, c) = f[L]
    BY DEF init_lcore_rx_queues, Chosen
<1>4. \A i \in 0 .. L : f[i] = IF i = 0 THEN << >>
                               ELSE IF p[i].lcore = c THEN Append(f[i - 1], p[i]) ELSE f[i - 1]
    <2> HIDE DEF f
    <2> QED BY <1>2 DEF Chosen
<1> HIDE DEF f
<1>5. 0 \in T
    <2>1. 0 \in 0 .. L /\ f[0] = << >>
        BY <1>1, <1>4
    <2>2. << >> \in Seq(S)
        OBVIOUS
    <2> HIDE DEF S, L
    <2> QED BY <2>1, <2>2
<1>6. ASSUME NEW n \in Nat, n \in T PROVE n + 1 \in T
    <2> SUFFICES ASSUME n + 1 <= L PROVE f[n + 1] \in Seq(S)
        OBVIOUS
    <2>1. n + 1 \in 0 .. L /\ n + 1 # 0 /\ (n + 1) - 1 = n /\ n + 1 \in 1 .. L /\ n <= L
        BY <1>1
    <2>2. f[n] \in Seq(S)
        BY <1>6, <2>1
    <2>3. f[n + 1] = IF p[n + 1].lcore = c THEN Append(f[n], p[n + 1]) ELSE f[n]
        BY <1>4, <2>1
    <2>4. p[n + 1] \in Range(p)
        BY <1>1, <2>1
    <2> HIDE DEF p, L
    <2> QED BY <2>2, <2>3, <2>4
<1>7. Nat \subseteq T
    <2> HIDE DEF T
    <2> QED BY <1>5, <1>6, FromZero
<1> QED BY <1>1, <1>3, <1>7

-----------------------------------------------------------------------------
(* What a change makes of a table.                                           *)

(* All values that the lookups of a table may find are in K.                 *)
Fields == {"type", "key_size", "hash_entries", "index_range", "default_val", "size",
           "hash", "rules", "content", "exited"}

TernaryHolds(t, K) ==
    /\ t.size \in Nat
    /\ \A i \in 0 .. t.size - 1 : i \in DOMAIN t.content /\ t.content[i].entry.value \in K

ExactHolds(t, K) ==
    /\ t.hash \in Seq(Seq(Nat))
    /\ \A i \in DOMAIN t.hash : i - 1 \in DOMAIN t.content /\ t.content[i - 1].value \in K

LpmHolds(t, K) ==
    /\ \A r \in t.rules : /\ r.index \in DOMAIN t.content /\ t.content[r.index].value \in K
                          /\ Len(r.prefix) \in Nat
    /\ \E m \in Nat : \A r \in t.rules : Len(r.prefix) <= m

TableHolds(t, K) ==
    /\ DOMAIN t = Fields /\ t.type \in {"exact", "lpm", "ternary"}
    /\ t.default_val.value \in K
    /\ t.type = "ternary" => TernaryHolds(t, K)
    /\ t.type = "exact" => ExactHolds(t, K)
    /\ t.type = "lpm" => LpmHolds(t, K)

IsPut(r, content, i, e) ==
    /\ DOMAIN r = DOMAIN content \cup {i} /\ r[i] = e
    /\ \A j \in DOMAIN content : j # i => r[j] = content[j]

(* Put changes content at one index.                                         *)
LEMMA PutAt ==
    ASSUME NEW content, NEW i, NEW e
    PROVE  IsPut(Put(content, i, e), content, i, e)
BY DEF IsPut, Put

(* What holds of the values holds of more of them.                           *)
LEMMA HoldsMore ==
    ASSUME NEW t, NEW K, NEW L, K \subseteq L, TableHolds(t, K)
    PROVE  TableHolds(t, L)
BY DEF TableHolds, TernaryHolds, ExactHolds, LpmHolds

(* table_create: a new table finds no entry.                                 *)
LEMMA CreateHolds ==
    ASSUME NEW type \in {"exact", "lpm", "ternary"}, NEW key_size, NEW hash_entries,
           NEW index_range, NEW K, NoEntry.value \in K
    PROVE  /\ TableHolds(create_table(type, key_size, hash_entries, index_range), K)
           /\ create_table(type, key_size, hash_entries, index_range).type = type
<1> DEFINE t == create_table(type, key_size, hash_entries, index_range)
<1>1. /\ DOMAIN t = Fields /\ t.type = type /\ t.default_val = NoEntry /\ t.size = 0
      /\ t.hash = << >> /\ t.rules = {}
    BY DEF create_table, Fields
<1> HIDE DEF t
<1>2. TernaryHolds(t, K) /\ ExactHolds(t, K) /\ LpmHolds(t, K)
    BY <1>1 DEF TernaryHolds, ExactHolds, LpmHolds
<1>3. TableHolds(t, K)
    <2> HIDE DEF NoEntry
    <2> QED BY <1>1, <1>2 DEF TableHolds
<1> QED BY <1>1, <1>3 DEF t

(* The tables of the three kinds with an entry more. *)
Appended(q, r, k) ==
    /\ r \in Seq(Seq(Nat))
    /\ Len(q) + 1 \in DOMAIN r /\ r[Len(q) + 1] = k
    /\ \A i \in DOMAIN r : i = Len(q) + 1 \/ (i \in DOMAIN q /\ r[i] = q[i])

(* The hash of an exact table with a key more.                               *)
LEMMA AppendIs ==
    ASSUME NEW q \in Seq(Seq(Nat)), NEW k \in Seq(Nat)
    PROVE  Appended(q, Append(q, k), k)
<1> DEFINE S == Seq(Nat)
<1>1. q \in Seq(S) /\ k \in S
    OBVIOUS
<1> HIDE DEF S
<1>2. Append(q, k) \in Seq(S)
    BY <1>1
<1>3. /\ DOMAIN Append(q, k) = 1 .. Len(q) + 1 /\ Append(q, k)[Len(q) + 1] = k
      /\ \A i \in 1 .. Len(q) : Append(q, k)[i] = q[i]
      /\ DOMAIN q = 1 .. Len(q) /\ Len(q) \in Nat
    BY <1>1
<1>4. \A i \in 1 .. Len(q) + 1 : i = Len(q) + 1 \/ i \in 1 .. Len(q)
    BY <1>3
<1>5. Len(q) + 1 \in 1 .. Len(q) + 1
    BY <1>3
<1> QED BY <1>2, <1>3, <1>4, <1>5 DEF Appended, S

(* exact_add puts the value at the index of the key's slot.                  *)
LEMMA ExactAddHolds ==
    ASSUME NEW t, NEW K, TableHolds(t, K), t.type = "exact", NEW k \in Seq(Nat),
           NEW v \in K
    PROVE  TableHolds(exact_add(t, k, v), K) /\ exact_add(t, k, v).type = t.type
<1> DEFINE u == exact_add(t, k, v)
           hash  == IF k \in Range(t.hash) THEN t.hash ELSE Append(t.hash, k)
           index == (CHOOSE i \in DOMAIN hash : hash[i] = k) - 1
           e == make_table_entry(v)
<1>0. t.hash \in Seq(Seq(Nat))
    BY DEF TableHolds, ExactHolds
<1>a. Appended(t.hash, Append(t.hash, k), k)
    BY <1>0, AppendIs
<1>1. hash \in Seq(Seq(Nat)) /\ (\E i \in DOMAIN hash : hash[i] = k)
    <2>1. CASE k \in Range(t.hash)
        BY <1>0, <2>1 DEF Range
    <2>2. CASE k \notin Range(t.hash)
        <3>1. hash = Append(t.hash, k)
            BY <2>2
        <3> HIDE DEF hash
        <3> QED BY <1>a, <3>1 DEF Appended
    <2> QED BY <2>1, <2>2
<1>2. \A i \in DOMAIN hash : i \in DOMAIN t.hash \/ i - 1 = index
    <2>1. CASE k \in Range(t.hash)
        BY <2>1
    <2>2. CASE k \notin Range(t.hash)
        <3>1. hash = Append(t.hash, k) /\ \A i \in DOMAIN t.hash : t.hash[i] # k
            BY <2>2 DEF Range
        <3>2. \A i \in DOMAIN Append(t.hash, k) :
                 i = Len(t.hash) + 1 \/ (i \in DOMAIN t.hash /\ Append(t.hash, k)[i] = t.hash[i])
            BY <1>a DEF Appended
        <3>3. \A i \in DOMAIN hash : hash[i] = k => i = Len(t.hash) + 1
            BY <3>1, <3>2
        <3> HIDE DEF hash
        <3>4. (CHOOSE i \in DOMAIN hash : hash[i] = k) = Len(t.hash) + 1
            BY <1>1, <3>3
        <3> QED BY <3>1, <3>2, <3>4
    <2> QED BY <2>1, <2>2
<1> HIDE DEF hash, index
<1>3. CASE k \notin Range(t.hash) /\ Len(t.hash) = t.hash_entries
    <2>1. u = [t EXCEPT !.exited = TRUE]
        BY <1>3 DEF exact_add
    <2>2. /\ DOMAIN u = Fields /\ u.type = t.type /\ u.default_val = t.default_val
          /\ u.hash = t.hash /\ u.content = t.content
        BY <2>1 DEF TableHolds, Fields
    <2> HIDE DEF u
    <2>3. TableHolds(u, K)
        BY <2>2 DEF TableHolds, ExactHolds
    <2> QED BY <2>2, <2>3 DEF u
<1>4. CASE ~(k \notin Range(t.hash) /\ Len(t.hash) = t.hash_entries)
    <2>1. u = [t EXCEPT !.hash = hash, !.content = Put(t.content, index, e)]
        BY <1>4 DEF exact_add, hash, index
    <2>2. /\ DOMAIN u = Fields /\ u.type = t.type /\ u.default_val = t.default_val
          /\ u.hash = hash /\ u.content = Put(t.content, index, e)
        BY <2>1 DEF TableHolds, Fields
    <2>3. e.value = v
        BY DEF make_table_entry
    <2> HIDE DEF u, e
    <2>4. ASSUME NEW i \in DOMAIN hash
          PROVE  i - 1 \in DOMAIN u.content /\ u.content[i - 1].value \in K
        <3>0. /\ DOMAIN u.content = DOMAIN t.content \cup {index} /\ u.content[index] = e
              /\ \A j \in DOMAIN t.content : j # index => u.content[j] = t.content[j]
            <4>1. IsPut(u.content, t.content, index, e)
                BY <2>2, PutAt
            <4> QED BY <4>1 DEF IsPut
        <3>1. CASE i - 1 = index
            BY <2>3, <3>0, <3>1
        <3>2. CASE i - 1 # index
            <4>1. i - 1 \in DOMAIN t.content /\ t.content[i - 1].value \in K
                BY <1>2, <3>2 DEF TableHolds, ExactHolds
            <4> QED BY <3>0, <3>2, <4>1
        <3> QED BY <3>1, <3>2
    <2>5. TableHolds(u, K)
        BY <1>1, <2>2, <2>4 DEF TableHolds, ExactHolds
    <2> QED BY <2>2, <2>5 DEF u
<1> QED BY <1>3, <1>4

(* lpm_add puts it where the rule points, new or replaced.                   *)
LEMMA LpmAddHolds ==
    ASSUME NEW t, NEW K, TableHolds(t, K), t.type = "lpm", NEW k \in Seq(Nat),
           NEW depth \in 0 .. Len(k), NEW v \in K
    PROVE  /\ TableHolds(lpm_add(t, k, depth, v), K)
           /\ lpm_add(t, k, depth, v).type = t.type
<1> DEFINE u == lpm_add(t, k, depth, v)
           prefix == SubSeq(k, 1, depth)
           new == [prefix |-> prefix, index |-> t.size]
           e == make_table_entry(v)
<1>1. CASE depth = 0
    <2>1. u = [t EXCEPT !.exited = TRUE]
        BY <1>1 DEF lpm_add
    <2>2. /\ DOMAIN u = Fields /\ u.type = t.type /\ u.default_val = t.default_val
          /\ u.rules = t.rules /\ u.content = t.content
        BY <2>1 DEF TableHolds, Fields
    <2> HIDE DEF u
    <2>3. TableHolds(u, K)
        BY <2>2 DEF TableHolds, LpmHolds
    <2> QED BY <2>2, <2>3 DEF u
<1>2. CASE depth # 0
    <2>1. u = [t EXCEPT !.content = Put(t.content, t.size, e),
                        !.rules = {r \in t.rules : r.prefix # prefix} \cup {new},
                        !.size = (t.size + 1) % t.index_range]
        BY <1>2 DEF lpm_add
    <2>2. /\ DOMAIN u = Fields /\ u.type = t.type /\ u.default_val = t.default_val
          /\ u.rules = {r \in t.rules : r.prefix # prefix} \cup {new}
          /\ u.content = Put(t.content, t.size, e)
        BY <2>1 DEF TableHolds, Fields
    <2>3. e.value = v
        BY DEF make_table_entry
    <2>4. new.index = t.size /\ new.prefix = prefix /\ Len(prefix) = depth /\ depth \in Nat
        <3>1. Len(SubSeq(k, 1, depth)) = depth
            <4>1. 1 \in 1 .. Len(k) + 1 /\ depth \in 1 - 1 .. Len(k)
                OBVIOUS
            <4> QED BY <4>1, SubSeqProperties
        <3> QED BY <3>1
    <2>5. PICK m \in Nat : \A r \in t.rules : Len(r.prefix) <= m
        BY DEF TableHolds, LpmHolds
    <2>6. \A r \in t.rules : /\ r.index \in DOMAIN t.content
                             /\ t.content[r.index].value \in K /\ Len(r.prefix) \in Nat
        BY DEF TableHolds, LpmHolds
    <2> HIDE DEF u, e, new, prefix
    <2>7. ASSUME NEW r \in u.rules
          PROVE  /\ r.index \in DOMAIN u.content /\ u.content[r.index].value \in K
                 /\ Len(r.prefix) \in Nat /\ Len(r.prefix) <= m + depth
        <3>0. /\ DOMAIN u.content = DOMAIN t.content \cup {t.size} /\ u.content[t.size] = e
              /\ \A j \in DOMAIN t.content : j # t.size => u.content[j] = t.content[j]
            <4>1. IsPut(u.content, t.content, t.size, e)
                BY <2>2, PutAt
            <4> QED BY <4>1 DEF IsPut
        <3>1. CASE r = new
            BY <2>3, <2>4, <2>5, <3>0, <3>1
        <3>2. CASE r \in t.rules
            <4>1. r.index \in DOMAIN u.content /\ u.content[r.index].value \in K
                BY <2>3, <2>6, <3>0, <3>2
            <4>2. Len(r.prefix) \in Nat /\ Len(r.prefix) <= m
                BY <2>5, <2>6, <3>2
            <4> QED BY <2>4, <4>1, <4>2
        <3> QED BY <2>2, <3>1, <3>2
    <2>8. m + depth \in Nat
        BY <2>4
    <2>9. LpmHolds(u, K)
        BY <2>7, <2>8 DEF LpmHolds
    <2>10. TableHolds(u, K)
        BY <2>2, <2>9 DEF TableHolds
    <2> QED BY <2>2, <2>10 DEF u
<1> QED BY <1>1, <1>2

(* ternary_add puts it at the end.                                           *)
LEMMA TernaryAddHolds ==
    ASSUME NEW t, NEW K, TableHolds(t, K), t.type = "ternary", NEW k, NEW mask,
           NEW v \in K
    PROVE  /\ TableHolds(ternary_add(t, k, mask, v), K)
           /\ ternary_add(t, k, mask, v).type = t.type
<1> DEFINE u == ternary_add(t, k, mask, v)
           e == [key |-> k, mask |-> mask, entry |-> make_table_entry(v)]
<1>1. u = [t EXCEPT !.content = Put(t.content, t.size, e), !.size = t.size + 1]
    BY DEF ternary_add
<1>2. /\ DOMAIN u = Fields /\ u.type = t.type /\ u.default_val = t.default_val
      /\ u.size = t.size + 1 /\ u.content = Put(t.content, t.size, e)
    BY <1>1 DEF TableHolds, Fields
<1>3. e.entry.value = v
    BY DEF make_table_entry
<1> HIDE DEF u, e
<1>4. ASSUME NEW i \in 0 .. u.size - 1
      PROVE  i \in DOMAIN u.content /\ u.content[i].entry.value \in K
    <2>0. /\ DOMAIN u.content = DOMAIN t.content \cup {t.size} /\ u.content[t.size] = e
          /\ \A j \in DOMAIN t.content : j # t.size => u.content[j] = t.content[j]
        <3>1. IsPut(u.content, t.content, t.size, e)
            BY <1>2, PutAt
        <3> QED BY <3>1 DEF IsPut
    <2>1. CASE i = t.size
        BY <1>3, <2>0, <2>1
    <2>2. CASE i # t.size
        <3>1. i \in 0 .. t.size - 1
            BY <1>2, <2>2 DEF TableHolds, TernaryHolds
        <3>2. i \in DOMAIN t.content /\ t.content[i].entry.value \in K
            BY <3>1 DEF TableHolds, TernaryHolds
        <3> QED BY <2>0, <2>2, <3>2
    <2> QED BY <2>1, <2>2
<1>5. u.size \in Nat
    BY <1>2 DEF TableHolds, TernaryHolds
<1>6. TableHolds(u, K)
    BY <1>2, <1>4, <1>5 DEF TableHolds, TernaryHolds
<1> QED BY <1>2, <1>6 DEF u

(* table_set_default_action.                                                 *)
LEMMA DefaultHolds ==
    ASSUME NEW t, NEW K, TableHolds(t, K), NEW v \in K
    PROVE  /\ TableHolds(table_set_default_action(t, v), K)
           /\ table_set_default_action(t, v).type = t.type
<1> DEFINE u == table_set_default_action(t, v)
           e == [make_table_entry(v) EXCEPT !.valid = FALSE]
<1>1. u = [t EXCEPT !.default_val = e]
    BY DEF table_set_default_action
<1>2. /\ DOMAIN u = Fields /\ u.type = t.type /\ u.default_val = e
      /\ u.size = t.size /\ u.content = t.content /\ u.rules = t.rules /\ u.hash = t.hash
    <2> HIDE DEF e
    <2> QED BY <1>1 DEF TableHolds, Fields
<1>3. e.value = v
    BY DEF make_table_entry
<1> HIDE DEF u, e
<1>4. TableHolds(u, K)
    BY <1>2, <1>3 DEF TableHolds, TernaryHolds, ExactHolds, LpmHolds
<1> QED BY <1>2, <1>4 DEF u

(* exact_flush, lpm_flush and ternary_flush leave the default alone.         *)
LEMMA FlushHolds ==
    ASSUME NEW t, NEW K, TableHolds(t, K)
    PROVE  TableHolds(flush_table(t), K) /\ flush_table(t).type = t.type
<1> DEFINE u == flush_table(t)
<1>1. CASE t.key_size = 0
    BY <1>1 DEF flush_table
<1>2. CASE t.key_size # 0
    <2>1. u = [t EXCEPT !.hash = << >>, !.rules = {},
                        !.size = IF t.type = "ternary" THEN 0 ELSE t.size]
        BY <1>2 DEF flush_table
    <2>2. /\ DOMAIN u = Fields /\ u.type = t.type /\ u.default_val = t.default_val
          /\ u.hash = << >> /\ u.rules = {} /\ (t.type = "ternary" => u.size = 0)
        BY <2>1 DEF TableHolds, Fields
    <2> HIDE DEF u
    <2>3. (t.type = "ternary" => TernaryHolds(u, K)) /\ ExactHolds(u, K) /\ LpmHolds(u, K)
        BY <2>2 DEF TernaryHolds, ExactHolds, LpmHolds
    <2>4. TableHolds(u, K)
        BY <2>2, <2>3 DEF TableHolds
    <2> QED BY <2>2, <2>4 DEF u
<1> QED BY <1>1, <1>2

(* Whatever the change, only the value it brings is found besides the old ones. *)
LEMMA ChangeHolds ==
    ASSUME NEW t, NEW K, TableHolds(t, K), NEW s, s.type = t.type, NEW op,
           MayBeChanged(s, op), op.value \in K
    PROVE  TableHolds(ApplyChange(t, op), K) /\ ApplyChange(t, op).type = t.type
<1>1. CASE op.kind = "default"
    <2>1. ApplyChange(t, op) = table_set_default_action(t, op.value)
        BY <1>1 DEF ApplyChange
    <2> QED BY <2>1, DefaultHolds
<1>2. CASE op.kind = "add"
    <2>1. ApplyChange(t, op) = Add(t, op)
        BY <1>2 DEF ApplyChange
    <2>2. op.key \in Seq(Nat)
        BY <1>2 DEF MayBeChanged
    <2>3. CASE t.key_size = 0
        <3>1. Add(t, op) = t
            BY <2>3 DEF Add
        <3> QED BY <2>1, <3>1
    <2>4. CASE t.key_size # 0 /\ t.type = "exact"
        <3>1. Add(t, op) = exact_add(t, op.key, op.value)
            BY <2>4 DEF Add
        <3> QED BY <2>1, <2>2, <2>4, <3>1, ExactAddHolds
    <2>5. CASE t.key_size # 0 /\ t.type = "lpm"
        <3>1. Add(t, op) = lpm_add(t, op.key, op.depth, op.value)
            BY <2>5 DEF Add
        <3>2. op.depth \in 0 .. Len(op.key)
            BY <1>2, <2>5 DEF MayBeChanged
        <3> QED BY <2>1, <2>2, <2>5, <3>1, <3>2, LpmAddHolds
    <2>6. CASE t.key_size # 0 /\ t.type = "ternary"
        <3>1. Add(t, op) = ternary_add(t, op.key, op.mask, op.value)
            BY <2>6 DEF Add
        <3> QED BY <2>1, <2>2, <2>6, <3>1, TernaryAddHolds
    <2> QED BY <2>3, <2>4, <2>5, <2>6 DEF TableHolds
<1> QED BY <1>1, <1>2 DEF MayBeChanged

-----------------------------------------------------------------------------
(* What a lookup finds.                                                      *)

(* exact_lookup: the slot of the key, or the default.                        *)
LEMMA ExactLookupHolds ==
    ASSUME NEW t, NEW K, TableHolds(t, K), t.type = "exact", NEW k
    PROVE  exact_lookup(t, k).value \in K
<1>1. CASE k \in Range(t.hash)
    <2> DEFINE i == CHOOSE j \in DOMAIN t.hash : t.hash[j] = k
    <2>1. i \in DOMAIN t.hash
        BY <1>1 DEF Range
    <2>2. exact_lookup(t, k) = t.content[i - 1]
        BY <1>1 DEF exact_lookup
    <2> HIDE DEF i
    <2> QED BY <2>1, <2>2 DEF TableHolds, ExactHolds
<1>2. CASE k \notin Range(t.hash)
    BY <1>2 DEF exact_lookup, TableHolds
<1> QED BY <1>1, <1>2

(* lpm_lookup: of the rules that match, one whose prefix is longest exists.  *)
LEMMA LpmLookupHolds ==
    ASSUME NEW t, NEW K, TableHolds(t, K), t.type = "lpm", NEW k
    PROVE  lpm_lookup(t, k).value \in K
<1> DEFINE found == {r \in t.rules : IsPrefix(r.prefix, k)}
           best  == CHOOSE r \in found : \A q \in found : Len(q.prefix) <= Len(r.prefix)
<1>1. CASE found # {}
    <2>1. PICK m \in Nat : \A r \in t.rules : Len(r.prefix) <= m
        BY DEF TableHolds, LpmHolds
    <2>2. \A r \in t.rules : Len(r.prefix) \in Nat
        BY DEF TableHolds, LpmHolds
    <2>3. \A r \in found : r \in t.rules
        OBVIOUS
    <2>4. lpm_lookup(t, k) = t.content[best.index]
        BY <1>1 DEF lpm_lookup
    <2> DEFINE L == {m - Len(r.prefix) : r \in found}
    <2> HIDE DEF found
    <2>5. L \subseteq Nat /\ L # {}
        BY <1>1, <2>1, <2>2, <2>3
    <2>6. PICK l \in L : \A n \in L : l <= n
        <3> HIDE DEF L
        <3> QED BY <2>5, LeastIn
    <2>7. PICK r \in found : l = m - Len(r.prefix)
        BY <2>6
    <2>8. ASSUME NEW q \in found PROVE Len(q.prefix) <= Len(r.prefix)
        <3>1. m - Len(q.prefix) \in L
            OBVIOUS
        <3>2. m - Len(r.prefix) <= m - Len(q.prefix)
            BY <2>6, <2>7, <3>1
        <3> QED BY <2>2, <2>3, <2>7, <3>2
    <2>9. best \in found
        BY <2>7, <2>8
    <2> HIDE DEF best
    <2> QED BY <2>3, <2>4, <2>9 DEF TableHolds, LpmHolds
<1>2. CASE found = {}
    <2>1. lpm_lookup(t, k) = t.default_val
        BY <1>2 DEF lpm_lookup
    <2> QED BY <2>1 DEF TableHolds
<1> QED BY <1>1, <1>2

(* The least of a set of numbers, as FiniteSetsExt has it.                   *)
LEMMA MinIn ==
    ASSUME NEW S, S \subseteq Nat, S # {}
    PROVE  Min(S) \in S /\ \A y \in S : Min(S) <= y
<1>1. PICK x \in S : \A y \in S : x <= y
    BY LeastIn
<1> QED BY <1>1 DEF Min

(* ternary_lookup: the first that matches.                                   *)
LEMMA TernaryLookupHolds ==
    ASSUME NEW t, NEW K, TableHolds(t, K), t.type = "ternary", NEW k
    PROVE  ternary_lookup(t, k).value \in K
<1> DEFINE Matches(e) == \A j \in DOMAIN k : e.key[j] = k[j] * e.mask[j]
           found == {i \in 0 .. t.size - 1 : Matches(t.content[i])}
<1>1. CASE found # {}
    <2>1. ternary_lookup(t, k) = t.content[Min(found)].entry
        BY <1>1 DEF ternary_lookup
    <2>2. found \subseteq Nat /\ found \subseteq 0 .. t.size - 1
        OBVIOUS
    <2> HIDE DEF found
    <2>3. Min(found) \in 0 .. t.size - 1
        BY <1>1, <2>2, MinIn
    <2> QED BY <2>1, <2>3 DEF TableHolds, TernaryHolds
<1>2. CASE found = {}
    <2>1. ternary_lookup(t, k) = t.default_val
        BY <1>2 DEF ternary_lookup
    <2> QED BY <2>1 DEF TableHolds
<1> QED BY <1>1, <1>2

(* A lookup finds a value that was put into the table.                       *)
LEMMA LookupHolds ==
    ASSUME NEW t, NEW K, TableHolds(t, K), NEW k
    PROVE  Lookup(t, k).value \in K
<1>1. CASE t.key_size = 0
    BY <1>1 DEF Lookup, TableHolds
<1>2. CASE t.key_size # 0 /\ t.type = "exact"
    <2>1. Lookup(t, k) = exact_lookup(t, k)
        BY <1>2 DEF Lookup
    <2> QED BY <1>2, <2>1, ExactLookupHolds
<1>3. CASE t.key_size # 0 /\ t.type = "lpm"
    <2>1. Lookup(t, k) = lpm_lookup(t, k)
        BY <1>3 DEF Lookup
    <2> QED BY <1>3, <2>1, LpmLookupHolds
<1>4. CASE t.key_size # 0 /\ t.type = "ternary"
    <2>1. Lookup(t, k) = ternary_lookup(t, k)
        BY <1>4 DEF Lookup
    <2> QED BY <1>4, <2>1, TernaryLookupHolds
<1> QED BY <1>1, <1>2, <1>3, <1>4 DEF TableHolds

(* The tables with which the cores start. *)
Created(s, n, f) ==
    f = [i \in 0 .. n |->
           IF i = 0 THEN create_table(s.type, s.key_size, s.hash_entries, s.index_range)
           ELSE ApplyChange(f[i - 1], s.preset[i])]

(* The recursive function that create_tables defines exists.                 *)
LEMMA CreatedExists ==
    ASSUME NEW s, NEW n \in Nat
    PROVE  \E f : Created(s, n, f)
<1> DEFINE z == create_table(s.type, s.key_size, s.hash_entries, s.index_range)
           T == {m \in Nat : \E f : Created(s, m, f)}
<1>1. 0 \in T
    <2>1. Created(s, 0, [i \in 0 .. 0 |-> z])
        BY DEF Created
    <2> QED BY <2>1
<1>2. ASSUME NEW m \in Nat, m \in T PROVE m + 1 \in T
    <2>1. PICK f : Created(s, m, f)
        BY <1>2
    <2> DEFINE last == ApplyChange(f[m], s.preset[m + 1])
               g == [i \in 0 .. m + 1 |-> IF i = m + 1 THEN last ELSE f[i]]
    <2>2. ASSUME NEW i \in 0 .. m + 1
          PROVE  g[i] = IF i = 0 THEN z ELSE ApplyChange(g[i - 1], s.preset[i])
        <3>1. CASE i = m + 1
            <4>1. i # 0 /\ i - 1 = m /\ m \in 0 .. m + 1 /\ m # m + 1
                BY <3>1
            <4>2. g[i] = last /\ g[i - 1] = f[m]
                BY <3>1, <4>1
            <4> QED BY <3>1, <4>1, <4>2
        <3>2. CASE i # m + 1
            <4>1. i \in 0 .. m /\ g[i] = f[i] /\ (i # 0 => g[i - 1] = f[i - 1])
                BY <3>2
            <4>2. f[i] = IF i = 0 THEN z ELSE ApplyChange(f[i - 1], s.preset[i])
                <5> HIDE DEF g
                <5> QED BY <2>1, <4>1 DEF Created
            <4> HIDE DEF g
            <4> QED BY <4>1, <4>2
        <3> QED BY <3>1, <3>2
    <2>3. g = [i \in 0 .. m + 1 |-> g[i]]
        OBVIOUS
    <2>4. Created(s, m + 1, g)
        <3> HIDE DEF g
        <3> QED BY <2>2, <2>3 DEF Created
    <2> HIDE DEF Created
    <2>5. \E h : Created(s, m + 1, h)
        BY <2>4
    <2> QED BY <2>5
<1>3. Nat \subseteq T
    <2> HIDE DEF T
    <2> QED BY <1>1, <1>2, FromZero
<1> QED BY <1>3

(* The changes before the cores start put in the values of the preset.       *)
LEMMA CreateTablesHolds ==
    ASSUME NEW s \in Scenarios, NEW K, NoEntry.value \in K,
           \A op \in Range(s.preset) : op.value \in K
    PROVE  TableHolds(create_tables(s), K) /\ create_tables(s).type = s.type
<1> DEFINE L == Len(s.preset)
           f == CHOOSE g : Created(s, L, g)
           z == create_table(s.type, s.key_size, s.hash_entries, s.index_range)
           T == {n \in Nat : n <= L => TableHolds(f[n], K) /\ f[n].type = s.type}
<1>1. /\ s.preset \in Seq(Range(s.preset)) /\ s.type \in {"exact", "lpm", "ternary"}
      /\ \A op \in Range(s.preset) : MayBeChanged(s, op)
    BY ScenarioAssumption
<1>2. L \in Nat /\ \A i \in 1 .. L : s.preset[i] \in Range(s.preset)
    <2> DEFINE R == Range(s.preset)
    <2>1. s.preset \in Seq(R)
        BY <1>1
    <2> HIDE DEF R
    <2>2. L \in Nat /\ \A i \in 1 .. L : s.preset[i] \in R
        BY <2>1
    <2> QED BY <2>2 DEF R
<1>3. Created(s, L, f)
    BY <1>2, CreatedExists
<1>4. create_tables(s) = f[L]
    BY DEF create_tables, Created
<1> HIDE DEF f, L
<1>5. \A i \in 0 .. L : f[i] = IF i = 0 THEN z ELSE ApplyChange(f[i - 1], s.preset[i])
    BY <1>3 DEF Created
<1>6. 0 \in T
    <2>1. 0 \in 0 .. L /\ f[0] = z
        BY <1>2, <1>5
    <2>2. TableHolds(z, K) /\ z.type = s.type
        <3> DEFINE a == s.type
                   b == s.key_size
                   c == s.hash_entries
                   d == s.index_range
        <3>1. a \in {"exact", "lpm", "ternary"} /\ z = create_table(a, b, c, d)
            BY <1>1
        <3> HIDE DEF a, b, c, d, z
        <3>2. TableHolds(create_table(a, b, c, d), K) /\ create_table(a, b, c, d).type = a
            BY <3>1, CreateHolds
        <3> QED BY <3>1, <3>2 DEF a
    <2> HIDE DEF z
    <2> QED BY <2>1, <2>2
<1>7. ASSUME NEW n \in Nat, n \in T PROVE n + 1 \in T
    <2> SUFFICES ASSUME n + 1 <= L PROVE TableHolds(f[n + 1], K) /\ f[n + 1].type = s.type
        OBVIOUS
    <2>1. n + 1 \in 0 .. L /\ n + 1 # 0 /\ (n + 1) - 1 = n /\ n + 1 \in 1 .. L /\ n <= L
        BY <1>2
    <2>2. TableHolds(f[n], K) /\ f[n].type = s.type
        BY <1>7, <2>1
    <2>3. f[n + 1] = ApplyChange(f[n], s.preset[n + 1])
        BY <1>5, <2>1
    <2>4. MayBeChanged(s, s.preset[n + 1]) /\ s.preset[n + 1].value \in K
        BY <1>1, <1>2, <2>1
    <2> DEFINE t == f[n]
               op == s.preset[n + 1]
    <2>5. /\ TableHolds(t, K) /\ s.type = t.type /\ MayBeChanged(s, op) /\ op.value \in K
          /\ f[n + 1] = ApplyChange(t, op)
        BY <2>2, <2>3, <2>4
    <2> HIDE DEF t, op
    <2> QED BY <2>5, ChangeHolds
<1>8. Nat \subseteq T
    <2> HIDE DEF T
    <2> QED BY <1>6, <1>7, FromZero
<1> QED BY <1>2, <1>4, <1>8

-----------------------------------------------------------------------------
(* The values that cores and tables have.                                    *)

(* The values that the changes put into the table, and that of no entry.     *)
Ops(s) == Range(s.preset) \cup s.ops

ValuesOf(ch) ==
    {NoEntry.value} \cup {ch[i].value : i \in {j \in DOMAIN ch : ch[j].kind # "flush"}}

(* Nothing is found that was not put there. *)
ValuesInv ==
    /\ scenario \in Scenarios
    /\ changes \in Seq(Ops(scenario) \cup {[kind |-> "flush"]})
    /\ TableHolds(table, ValuesOf(changes)) /\ table.type = scenario.type
    /\ DOMAIN entry = Cores /\ \A c \in Cores : entry[c].value \in ValuesOf(changes)

(* NoEntry's value is always among them.                                     *)
LEMMA NoValue == \A ch : NoEntry.value \in ValuesOf(ch)
BY DEF ValuesOf

(* The changes are such as ScenarioAssumption says, and no flushes.          *)
LEMMA OpsFit ==
    ASSUME NEW s \in Scenarios, NEW op \in Ops(s)
    PROVE  MayBeChanged(s, op) /\ op.kind # "flush"
<1>1. MayBeChanged(s, op)
    BY ScenarioAssumption DEF Ops
<1> QED BY <1>1 DEF MayBeChanged

(* A change adds its value.                                                  *)
LEMMA MoreValues ==
    ASSUME NEW S, NEW ch \in Seq(S), NEW op \in S
    PROVE  /\ ValuesOf(ch) \subseteq ValuesOf(Append(ch, op))
           /\ op.kind # "flush" => op.value \in ValuesOf(Append(ch, op))
<1> DEFINE app == Append(ch, op)
<1>1. /\ \A i \in DOMAIN ch : i \in DOMAIN app /\ app[i] = ch[i]
      /\ Len(ch) + 1 \in DOMAIN app /\ app[Len(ch) + 1] = op
    OBVIOUS
<1> HIDE DEF app
<1>2. ValuesOf(ch) \subseteq ValuesOf(app)
    BY <1>1 DEF ValuesOf
<1>3. op.kind # "flush" => op.value \in ValuesOf(app)
    BY <1>1 DEF ValuesOf
<1> QED BY <1>2, <1>3 DEF app

(* Before the cores start, only the preset was put in.                       *)
LEMMA InitValues == Init => ValuesInv
<1> SUFFICES ASSUME Init PROVE ValuesInv
    OBVIOUS
<1> DEFINE s == scenario
<1>1. s \in Scenarios /\ changes = s.preset /\ table = create_tables(s)
    BY DEF Init
<1>2. DOMAIN entry = Cores /\ \A c \in Cores : entry[c] = NoEntry
    BY DEF Init
<1>3. s.preset \in Seq(Range(s.preset))
    BY <1>1, ScenarioAssumption
<1>4. changes \in Seq(Ops(s) \cup {[kind |-> "flush"]})
    <2> DEFINE R == Range(s.preset)
               S == Ops(s) \cup {[kind |-> "flush"]}
    <2>1. R \subseteq S /\ changes \in Seq(R)
        BY <1>1, <1>3 DEF Ops
    <2> HIDE DEF R, S
    <2>2. changes \in Seq(S)
        BY <2>1
    <2> QED BY <2>2 DEF S
<1>5. ASSUME NEW op \in Range(s.preset) PROVE op.value \in ValuesOf(changes)
    <2>1. PICK i \in DOMAIN changes : op = changes[i]
        BY <1>1, <1>5 DEF Range
    <2>2. op.kind # "flush"
        BY <1>1, OpsFit DEF Ops
    <2> QED BY <2>1, <2>2 DEF ValuesOf
<1>6. TableHolds(table, ValuesOf(changes)) /\ table.type = s.type
    <2> DEFINE K == ValuesOf(changes)
    <2>1. NoEntry.value \in K /\ \A op \in Range(s.preset) : op.value \in K
        BY <1>5, NoValue
    <2> HIDE DEF K
    <2>2. TableHolds(create_tables(s), K) /\ create_tables(s).type = s.type
        BY <1>1, <2>1, CreateTablesHolds
    <2> QED BY <1>1, <2>2 DEF K
<1>7. \A c \in Cores : entry[c].value \in ValuesOf(changes)
    BY <1>2, NoValue
<1> QED BY <1>1, <1>2, <1>4, <1>6, <1>7 DEF ValuesInv

(* A change more. *)
LEMMA ChangeValues ==
    ASSUME ValuesInv, NEW op \in Ops(scenario) \cup {[kind |-> "flush"]},
           changes' = Append(changes, op), table' = ApplyChange(table, op),
           UNCHANGED <<scenario, entry>>
    PROVE  ValuesInv'
<1> DEFINE S == Ops(scenario) \cup {[kind |-> "flush"]}
           K == ValuesOf(changes)
           L == ValuesOf(Append(changes, op))
<1>1. changes \in Seq(S) /\ op \in S /\ S' = S
    BY DEF ValuesInv, Ops
<1> HIDE DEF S
<1>2. Append(changes, op) \in Seq(S)
    BY <1>1
<1>3. K \subseteq L /\ (op.kind # "flush" => op.value \in L)
    BY <1>1, MoreValues
<1> HIDE DEF L
<1>4. TableHolds(table, L) /\ table.type = scenario.type /\ scenario \in Scenarios
    BY <1>3, HoldsMore DEF ValuesInv
<1>5. TableHolds(ApplyChange(table, op), L) /\ ApplyChange(table, op).type = table.type
    <2>1. CASE op \in Ops(scenario)
        <3>1. MayBeChanged(scenario, op) /\ op.value \in L
            BY <1>3, <1>4, <2>1, OpsFit
        <3> QED BY <1>4, <3>1, ChangeHolds
    <2>2. CASE op = [kind |-> "flush"]
        <3>1. ApplyChange(table, op) = flush_table(table)
            BY <2>2 DEF ApplyChange
        <3> QED BY <1>4, <3>1, FlushHolds
    <2> QED BY <2>1, <2>2
<1>6. /\ ValuesOf(changes') = L /\ changes' \in Seq(S) /\ scenario' \in Scenarios
      /\ TableHolds(table', L) /\ table'.type = scenario'.type
    BY <1>2, <1>4, <1>5 DEF L
<1>7. DOMAIN entry' = Cores /\ \A c \in Cores : entry'[c].value \in L
    BY <1>3 DEF ValuesInv
<1> QED BY <1>1, <1>6, <1>7 DEF ValuesInv, S

(* What a core finds. *)
LEMMA EntryValues ==
    ASSUME ValuesInv, NEW c \in Cores, NEW e, e.value \in ValuesOf(changes),
           entry' = [entry EXCEPT ![c] = e], UNCHANGED <<scenario, changes, table>>
    PROVE  ValuesInv'
BY DEF ValuesInv, Ops

(* A step that changes neither the table nor an entry.                       *)
LEMMA SameValues ==
    ASSUME ValuesInv, UNCHANGED <<scenario, changes, table, entry>>
    PROVE  ValuesInv'
BY DEF ValuesInv, Ops

(* No step makes a table or a core find what was not put in.                 *)
LEMMA NextValues == ValuesInv /\ [Next]_vars => ValuesInv'
<1> SUFFICES ASSUME ValuesInv, [Next]_vars PROVE ValuesInv'
    OBVIOUS
<1> DEFINE Same == UNCHANGED <<scenario, changes, table, entry>>
<1>1. CASE Arrive
    <2>1. Same
        BY <1>1 DEF Arrive, tableVars, coreVars
    <2> QED BY <2>1, SameValues
<1>2. CASE NicFrees
    <2>1. Same
        BY <1>2 DEF NicFrees, tableVars, coreVars
    <2> QED BY <2>1, SameValues
<1>3. CASE Change
    <2>1. PICK op \in scenario.ops :
             changes' = Append(changes, op) /\ table' = ApplyChange(table, op)
        BY <1>3 DEF Change
    <2>2. UNCHANGED <<scenario, entry>> /\ op \in Ops(scenario) \cup {[kind |-> "flush"]}
        BY <1>3 DEF Change, coreVars, Ops
    <2> QED BY <2>1, <2>2, ChangeValues
<1>4. CASE Relaunch
    <2> DEFINE op == [kind |-> "flush"]
    <2>1. /\ changes' = Append(changes, op) /\ table' = ApplyChange(table, op)
          /\ UNCHANGED <<scenario, entry>> /\ op \in Ops(scenario) \cup {[kind |-> "flush"]}
        BY <1>4 DEF Relaunch, coreVars
    <2> QED BY <2>1, ChangeValues
<1>5. ASSUME NEW c \in Cores, Tick(c) PROVE ValuesInv'
    <2>1. Same
        BY <1>5 DEF Tick, tableVars
    <2> QED BY <2>1, SameValues
<1>6. ASSUME NEW c \in Cores, dpdk_main_loop(c) PROVE ValuesInv'
    <2>1. CASE main_loop_pre_rx(c)
        <3>1. Same
            BY <2>1 DEF main_loop_pre_rx, tableVars
        <3> QED BY <3>1, SameValues
    <2>2. CASE do_rx(c)
        <3>1. Same
            BY <2>2 DEF do_rx, tableVars
        <3> QED BY <3>1, SameValues
    <2>3. CASE receive_packet(c)
        <3>1. Same
            BY <2>3 DEF receive_packet, tableVars
        <3> QED BY <3>1, SameValues
    <2>4. CASE table_key(c)
        <3>1. Same
            BY <2>4 DEF table_key, tableVars
        <3> QED BY <3>1, SameValues
    <2>5. CASE apply(c)
        <3>1. UNCHANGED <<scenario, changes, table>>
            BY <2>5 DEF apply, tableVars
        <3>2. CASE TernaryCrashes(table)
            <4>1. Same
                BY <2>5, <3>1, <3>2 DEF apply
            <4> QED BY <4>1, SameValues
        <3>3. CASE ~TernaryCrashes(table)
            <4>1. entry' = [entry EXCEPT ![c] = Lookup(table, key[c])]
                BY <2>5, <3>3 DEF apply
            <4>2. Lookup(table, key[c]).value \in ValuesOf(changes)
                BY LookupHolds DEF ValuesInv
            <4> QED BY <3>1, <4>1, <4>2, EntryValues
        <3> QED BY <3>2, <3>3
    <2>6. CASE extern_register_read(c)
        <3>1. Same
            BY <2>6 DEF extern_register_read, tableVars
        <3> QED BY <3>1, SameValues
    <2>7. CASE extern_register_write(c)
        <3>1. Same
            BY <2>7 DEF extern_register_write, tableVars
        <3> QED BY <3>1, SameValues
    <2>8. CASE do_single_tx(c)
        <3>1. UNCHANGED <<scenario, changes, table>> /\ entry' = [entry EXCEPT ![c] = NoEntry]
            BY <2>8 DEF do_single_tx, tableVars
        <3> QED BY <3>1, EntryValues, NoValue
    <2> QED BY <1>6, <2>1, <2>2, <2>3, <2>4, <2>5, <2>6, <2>7, <2>8 DEF dpdk_main_loop
<1>7. CASE UNCHANGED vars
    <2>1. Same
        BY <1>7 DEF vars, tableVars, coreVars
    <2> QED BY <2>1, SameValues
<1> QED BY <1>1, <1>2, <1>3, <1>4, <1>5, <1>6, <1>7 DEF Next

(* What follows for the port to which a packet goes and for broadcasts. *)
LEMMA ValueKnown ==
    ASSUME ValuesInv, NEW v \in ValuesOf(changes)
    PROVE  /\ v.act = "forward" => v.port \in Ports
           /\ v.act = "broadcast" => Says("broadcast")
<1>1. CASE v = NoEntry.value
    BY <1>1 DEF NoEntry
<1>2. CASE v # NoEntry.value
    <2>1. PICK i \in DOMAIN changes : changes[i].kind # "flush" /\ v = changes[i].value
        BY <1>2 DEF ValuesOf
    <2>2. changes[i] \in Ops(scenario) \cup {[kind |-> "flush"]}
        <3> DEFINE S == Ops(scenario) \cup {[kind |-> "flush"]}
        <3>1. changes \in Seq(S)
            BY DEF ValuesInv
        <3> HIDE DEF S
        <3>2. changes[i] \in S
            BY <3>1, <2>1
        <3> QED BY <3>2 DEF S
    <2>3. changes[i] \in Ops(scenario)
        BY <2>1, <2>2
    <2>4. MayBeChanged(scenario, changes[i])
        BY <2>3, OpsFit DEF ValuesInv
    <2> QED BY <2>1, <2>4 DEF MayBeChanged, Says
<1> QED BY <1>1, <1>2

(* The port is one that tx_mbufs has.                                        *)
LEMMA PortKnown ==
    ASSUME ValuesInv, NEW c \in Cores
    PROVE  /\ egress_port(entry[c]) \in Ports
           /\ entry[c].value.act = "broadcast" => Says("broadcast")
<1>1. entry[c].value \in ValuesOf(changes)
    BY DEF ValuesInv
<1> QED BY <1>1, ValueKnown, ConstAssumption DEF egress_port

(* A change that was made is never taken back from the list.                 *)
LEMMA StillSays ==
    ASSUME ValuesInv, [Next]_vars, Says("broadcast")
    PROVE  Says("broadcast")'
<1>1. \/ UNCHANGED changes
      \/ \E op \in Ops(scenario) \cup {[kind |-> "flush"]} : changes' = Append(changes, op)
    BY DEF Next, vars, Arrive, NicFrees, Change, Relaunch, Tick, dpdk_main_loop,
           main_loop_pre_rx, do_rx, receive_packet, table_key, apply, extern_register_read,
           extern_register_write, do_single_tx, tableVars, Ops
<1>2. ASSUME NEW op \in Ops(scenario) \cup {[kind |-> "flush"]},
             changes' = Append(changes, op)
      PROVE  Says("broadcast")'
    <2> DEFINE S == Ops(scenario) \cup {[kind |-> "flush"]}
    <2>1. changes \in Seq(S) /\ op \in S
        BY DEF ValuesInv
    <2> HIDE DEF S
    <2>2. \A i \in DOMAIN changes : i \in DOMAIN changes' /\ changes'[i] = changes[i]
        BY <1>2, <2>1
    <2> QED BY <2>2 DEF Says
<1>3. UNCHANGED changes => Says("broadcast")'
    BY DEF Says
<1> QED BY <1>1, <1>2, <1>3

-----------------------------------------------------------------------------
(* Where the cores are.                                                      *)

Handling == {"next", "key", "read", "write", "tx"}
PcValues == {"off", "pre", "rx"} \cup Handling

(* A core that runs has receive queues, is at one of them after its drain,   *)
(* and has packets in hand when and only when it handles one.                *)
CoreFits(c) ==
    /\ pc[c] # "off" => rx_queue_list(c) # << >>
    /\ pc[c] \notin {"off", "pre"} => queue_idx[c] \in 1 .. Len(rx_queue_list(c))
    /\ burst[c] # << >> <=> pc[c] \in Handling

Control ==
    /\ pc \in [Cores -> PcValues] /\ queue_idx \in [Cores -> Nat]
    /\ QueueSorts(rx, burst, tx)
    /\ arrived \in 0 .. Len(scenario.packets)
    /\ \A c \in Cores : CoreFits(c)

(* The receive queues in a core's list are set up, and its own.              *)
LEMMA ListLength ==
    ASSUME ValuesInv, NEW c
    PROVE  /\ Len(rx_queue_list(c)) \in Nat
           /\ rx_queue_list(c) # << >> => Len(rx_queue_list(c)) > 0
           /\ \A i \in 1 .. Len(rx_queue_list(c)) :
                 /\ <<rx_queue_list(c)[i].port, rx_queue_list(c)[i].queue>> \in RxQueue
                 /\ rx_queue_list(c)[i].lcore = c
                 /\ rx_queue_list(c)[i] \in Range(scenario.params)
<1> DEFINE S == {q \in Range(scenario.params) : q.lcore = c}
           l == rx_queue_list(c)
<1>1. l \in Seq(S)
    BY RxQueueList DEF ValuesInv, rx_queue_list
<1>2. \A q \in S : q \in Range(scenario.params) /\ q.lcore = c /\ <<q.port, q.queue>> \in RxQueue
    BY DEF ValuesInv, RxQueue
<1> HIDE DEF S, l
<1>3. /\ Len(l) \in Nat /\ (l # << >> => Len(l) > 0)
      /\ \A i \in 1 .. Len(l) : l[i] \in S
    BY <1>1
<1> QED BY <1>2, <1>3 DEF l

(* A core of which nothing changes.                                          *)
LEMMA StillFits ==
    ASSUME NEW d, CoreFits(d), UNCHANGED scenario, pc'[d] = pc[d],
           queue_idx'[d] = queue_idx[d], burst'[d] = burst[d]
    PROVE  CoreFits(d)'
BY DEF CoreFits, rx_queue_list

(* The steps that touch neither the queues nor the place of a core in its    *)
(* round.                                                                    *)
LEMMA SameControl ==
    ASSUME Control, UNCHANGED <<scenario, queue_idx, rx, burst, tx, arrived>>,
           NEW c \in Cores, NEW v \in PcValues, v # "off", pc[c] \in PcValues \ {"off", "pre"},
           v \in Handling, pc[c] \in Handling,
           pc' = [pc EXCEPT ![c] = v]
    PROVE  Control'
<1>1. ASSUME NEW d \in Cores PROVE CoreFits(d)'
    <2>1. pc'[d] = IF d = c THEN v ELSE pc[d]
        BY DEF Control
    <2>2. CASE d # c
        BY <2>1, <2>2, StillFits DEF Control
    <2>3. CASE d = c
        <3>1. rx_queue_list(c)' = rx_queue_list(c)
            BY DEF rx_queue_list
        <3> QED BY <2>1, <2>3, <3>1 DEF Control, CoreFits, Handling
    <2> QED BY <2>2, <2>3
<1>2. pc' \in [Cores -> PcValues]
    BY DEF Control
<1> QED BY <1>1, <1>2 DEF Control

(* A step that changes nothing of the cores' control.                        *)
LEMMA AllSameControl ==
    ASSUME Control, UNCHANGED <<scenario, pc, queue_idx, rx, burst, tx, arrived>>
    PROVE  Control'
<1>1. ASSUME NEW d \in Cores PROVE CoreFits(d)'
    BY StillFits DEF Control
<1> QED BY <1>1 DEF Control

(* At the start, all cores that have receive queues drain.                   *)
LEMMA InitControl == Init => Control
<1> SUFFICES ASSUME Init PROVE Control
    OBVIOUS
<1>1. /\ pc = [c \in Cores |-> IF c \in scenario.cores /\ rx_queue_list(c) # << >>
                               THEN "pre" ELSE "off"]
      /\ queue_idx = [c \in Cores |-> 0] /\ burst = [c \in Cores |-> << >>]
      /\ rx = [q \in RxQueue |-> << >>] /\ tx = [c \in Cores |-> [p \in Ports |-> << >>]]
      /\ arrived = 0 /\ scenario \in Scenarios
    BY DEF Init
<1>2. ASSUME NEW c \in Cores PROVE CoreFits(c)
    BY <1>1 DEF CoreFits, Handling
<1>3. << >> \in Seq(Item)
    OBVIOUS
<1>4. QueueSorts(rx, burst, tx)
    BY <1>1, <1>3 DEF QueueSorts
<1>5. arrived \in 0 .. Len(scenario.packets)
    <2>1. scenario.packets \in Seq([port : Nat, queue : Nat, key : Seq(Nat)])
        BY <1>1, ScenarioAssumption
    <2> DEFINE S == [port : Nat, queue : Nat, key : Seq(Nat)]
    <2> HIDE DEF S
    <2>2. scenario.packets \in Seq(S)
        BY <2>1 DEF S
    <2> QED BY <1>1, <2>2
<1>6. pc \in [Cores -> PcValues] /\ queue_idx \in [Cores -> Nat]
    BY <1>1 DEF PcValues
<1> QED BY <1>2, <1>4, <1>5, <1>6 DEF Control

(* What the next queue, or the next round, is. *)
LEMMA NextQueueFits ==
    ASSUME Control, ValuesInv, NEW c \in Cores, pc[c] \notin {"off", "pre"}, NextQueue(c),
           burst' \in [Cores -> Seq(Item)], burst'[c] = << >>, UNCHANGED scenario
    PROVE  /\ pc' \in [Cores -> PcValues] /\ queue_idx' \in [Cores -> Nat]
           /\ CoreFits(c)'
           /\ \A d \in Cores : d # c => pc'[d] = pc[d] /\ queue_idx'[d] = queue_idx[d]
<1> DEFINE L == Len(rx_queue_list(c))
<1>1. L \in Nat /\ rx_queue_list(c) # << >> /\ queue_idx[c] \in 1 .. L
    BY ListLength DEF Control, CoreFits
<1>2. pc' = [pc EXCEPT ![c] = IF queue_idx[c] < L THEN "rx" ELSE "pre"]
      /\ queue_idx' = [queue_idx EXCEPT ![c] = queue_idx[c] + 1]
    BY DEF NextQueue
<1>3. pc' \in [Cores -> PcValues] /\ queue_idx' \in [Cores -> Nat]
    BY <1>1, <1>2 DEF Control, PcValues
<1>4. /\ pc'[c] = IF queue_idx[c] < L THEN "rx" ELSE "pre"
      /\ queue_idx'[c] = queue_idx[c] + 1
    BY <1>2 DEF Control
<1>5. rx_queue_list(c)' = rx_queue_list(c)
    BY DEF rx_queue_list
<1>6. CoreFits(c)'
    BY <1>1, <1>4, <1>5 DEF CoreFits, Handling
<1> QED BY <1>2, <1>3, <1>6 DEF Control
-----------------------------------------------------------------------------
(* The steps as moves of buffers between places.                             *)

-----------------------------------------------------------------------------
(* The steps as moves of buffers.                                            *)

(* The steps as moves of buffers between places.                             *)
LEMMA QueuesNext == Queues' = QueuesOf(rx', burst', tx')
BY DEF Queues, QueuesOf, QueueOf, Place, RxQueue

(* The receive queue of each packet exists.                                  *)
LEMMA PacketQueue ==
    ASSUME ValuesInv, NEW n \in 1 .. Len(scenario.packets)
    PROVE  <<scenario.packets[n].port, scenario.packets[n].queue>> \in RxQueue
<1> DEFINE S == [port : Nat, queue : Nat, key : Seq(Nat)]
           p == scenario.packets
<1>1. p \in Seq(S) /\ \A q \in Range(p) : <<q.port, q.queue>> \in RxQueue
    BY ScenarioAssumption DEF ValuesInv
<1> HIDE DEF S, p
<1>2. p[n] \in Range(p)
    <2>1. n \in 1 .. Len(p)
        BY DEF p
    <2>2. n \in DOMAIN p
        BY <1>1, <2>1
    <2> QED BY <2>2 DEF Range
<1>3. <<p[n].port, p[n].queue>> \in RxQueue
    BY <1>1, <1>2
<1> QED BY <1>3 DEF p

ArriveQueue == <<scenario.packets[arrived + 1].port, scenario.packets[arrived + 1].queue>>

(* A packet arrives in the least free buffer, or is dropped if there is none. *)
LEMMA ArriveMoves ==
    ASSUME Control, ValuesInv, pool \subseteq Mbufs, Arrive
    PROVE  /\ Control'
           /\ arrived' = arrived + 1 /\ arrived' \in 1 .. Len(scenario.packets)
           /\ UNCHANGED <<scenario, nic, out, lost>>
           /\ \/ Queues' = Queues /\ pool' = pool
              \/ \E m \in pool : /\ pool' = pool \ {m}
                                 /\ Grows(Queues, Queues', RxAt(ArriveQueue), <<m, arrived'>>)
<1>1. /\ arrived' = arrived + 1 /\ arrived < Len(scenario.packets)
      /\ UNCHANGED <<scenario, nic, out, lost, burst, tx, pc, queue_idx>>
    BY DEF Arrive, coreVars
<1>l. Len(scenario.packets) \in Nat
    <2> DEFINE S == [port : Nat, queue : Nat, key : Seq(Nat)]
    <2>1. scenario.packets \in Seq(S)
        BY ScenarioAssumption DEF ValuesInv
    <2> HIDE DEF S
    <2> QED BY <2>1
<1>2. arrived' \in 1 .. Len(scenario.packets) /\ arrived' \in Nat
    BY <1>1, <1>l DEF Control
<1>3. \A d \in Cores : CoreFits(d)'
    BY <1>1, StillFits DEF Control
<1> DEFINE q == ArriveQueue
<1>4. q \in RxQueue
    BY <1>1, <1>2, PacketQueue DEF ArriveQueue
<1>5. CASE pool = {}
    <2>1. UNCHANGED <<rx, pool>>
        BY <1>5 DEF Arrive
    <2>2. Queues' = Queues
        BY <1>1, <2>1, QueuesNext DEF Queues
    <2>3. Control'
        BY <1>1, <1>2, <1>3, <2>1 DEF Control
    <2> QED BY <1>1, <1>2, <2>1, <2>2, <2>3
<1>6. CASE pool # {}
    <2> DEFINE m == Least(pool)
               x == <<m, arrived'>>
    <2>1. m \in pool /\ m \in Mbufs
        <3>1. pool \subseteq Nat
            BY ConstAssumption DEF Mbufs
        <3> QED BY <1>6, <3>1, LeastIn
    <2>2. /\ rx' = [rx EXCEPT ![q] = Append(rx[q], x)] /\ pool' = pool \ {m}
        BY <1>1, <1>6 DEF Arrive, ArriveQueue
    <2>3. x \in Item
        BY <1>2, <2>1 DEF Item
    <2> HIDE DEF q, m
    <2>4. QueueSorts(rx', burst', tx')
        BY <1>1, <1>4, <2>2, <2>3 DEF Control, QueueSorts
    <2>5. Control'
        BY <1>1, <1>2, <1>3, <2>4 DEF Control, QueueSorts, Item, Mbufs, RxQueue
    <2> HIDE DEF x
    <2>6. QueuesOf(rx', burst', tx') = [Queues EXCEPT ![RxAt(q)] = Append(rx[q], x)]
        <3> DEFINE v == Append(rx[q], x)
        <3>1. QueueSorts(rx, burst, tx) /\ SetAt(rx, rx', q, v)
            BY <2>2 DEF Control, SetAt
        <3> HIDE DEF v
        <3>2. SetAt(QueuesOf(rx, burst, tx), QueuesOf(rx', burst, tx), RxAt(q), v)
            BY <1>4, <3>1, RxSet
        <3>3. QueuesOf(rx', burst', tx') = [Queues EXCEPT ![RxAt(q)] = v]
            BY <1>1, <3>2 DEF Queues, SetAt
        <3> QED BY <3>3 DEF v
    <2>7. Queues[RxAt(q)] = rx[q] /\ RxAt(q) \in Place /\ Queues \in [Place -> Seq(Item)]
        BY <1>4, QueuesOfAt, QueuesSort, PlacesDiffer DEF Queues, Control
    <2>8. Grows(Queues, Queues', RxAt(q), x)
        BY <2>3, <2>6, <2>7, QueuesNext DEF Grows
    <2> QED BY <1>1, <1>2, <2>1, <2>2, <2>5, <2>8 DEF x, q
<1> QED BY <1>5, <1>6

(* The smaller of two numbers.                                               *)
LEMMA MinOfTwo ==
    ASSUME NEW a \in Nat, NEW b \in Nat
    PROVE  /\ Min({a, b}) \in 0 .. b /\ Min({a, b}) <= a
           /\ Min({a, b}) \in {a, b}
<1>1. {a, b} \subseteq Nat /\ {a, b} # {}
    OBVIOUS
<1>2. Min({a, b}) \in {a, b} /\ \A y \in {a, b} : Min({a, b}) <= y
    BY <1>1, MinIn
<1> QED BY <1>2

(* A core takes from its receive queue the first packets that have come.     *)
LEMMA ReceiveMoves ==
    ASSUME Control, ValuesInv, NEW c \in Cores, do_rx(c)
    PROVE  /\ Control' /\ Queue(c) \in RxQueue
           /\ \E n : MovesFirst(Queues, Queues', RxAt(Queue(c)), BurstAt(c), n)
           /\ UNCHANGED <<scenario, arrived, nic, out, pool, lost>>
<1> DEFINE q == Queue(c)
           n == Min({Burst, Len(rx[q])})
<1>1. /\ pc[c] = "rx" /\ UNCHANGED <<scenario, arrived, nic, out, pool, lost, tx>>
      /\ burst' = [burst EXCEPT ![c] = SubSeq(rx[q], 1, n)]
      /\ rx' = [rx EXCEPT ![q] = SubSeq(rx[q], n + 1, Len(rx[q]))]
      /\ IF n > 0 THEN pc' = [pc EXCEPT ![c] = "next"] /\ UNCHANGED queue_idx
         ELSE NextQueue(c)
    BY DEF do_rx
<1>2. queue_idx[c] \in 1 .. Len(rx_queue_list(c)) /\ burst[c] = << >> /\ pc[c] # "off"
    BY <1>1 DEF Control, CoreFits, Handling
<1>3. q \in RxQueue
    BY <1>2, ListLength DEF Queue
<1> HIDE DEF q
<1>4. rx[q] \in Seq(Item) /\ Len(rx[q]) \in Nat
    BY <1>3 DEF Control, QueueSorts
<1>5. n \in 0 .. Len(rx[q]) /\ (n = 0 <=> Len(rx[q]) = 0) /\ n \in Nat
    <2>1. Burst \in Nat /\ Burst # 0
        BY ConstAssumption
    <2> QED BY <1>4, <2>1, MinOfTwo
<1> HIDE DEF n
<1>6. /\ SubSeq(rx[q], 1, n) \in Seq(Item) /\ Len(SubSeq(rx[q], 1, n)) = n
      /\ SubSeq(rx[q], n + 1, Len(rx[q])) \in Seq(Item)
    BY <1>4, <1>5, JoinedSplit
<1> DEFINE v == SubSeq(rx[q], 1, n)
           w == SubSeq(rx[q], n + 1, Len(rx[q]))
<1>7. v \in Seq(Item) /\ w \in Seq(Item) /\ (v = << >> <=> n = 0)
    <2>1. v \in Seq(Item) /\ w \in Seq(Item) /\ Len(v) = n
        BY <1>6
    <2> HIDE DEF v, w
    <2> QED BY <1>5, <2>1
<1>8. burst' = [burst EXCEPT ![c] = v] /\ rx' = [rx EXCEPT ![q] = w]
    BY <1>1
<1> HIDE DEF v, w
<1>9. QueueSorts(rx', burst', tx') /\ burst'[c] = v /\ QueueSorts(rx', burst, tx)
    BY <1>1, <1>3, <1>7, <1>8 DEF Control, QueueSorts
<1>10. ASSUME NEW d \in Cores, d # c PROVE burst'[d] = burst[d]
    BY <1>8, <1>10 DEF Control, QueueSorts
<1>11. Control'
    <2>1. CASE n > 0
        <3>1. pc' = [pc EXCEPT ![c] = "next"] /\ UNCHANGED queue_idx
            BY <1>1, <2>1
        <3>2. pc'[c] = "next" /\ pc' \in [Cores -> PcValues]
            BY <3>1 DEF Control, PcValues, Handling
        <3>3. CoreFits(c)'
            <4>1. rx_queue_list(c)' = rx_queue_list(c)
                BY <1>1 DEF rx_queue_list
            <4>2. burst'[c] # << >>
                BY <1>5, <1>7, <1>9, <2>1
            <4>3. queue_idx'[c] = queue_idx[c] /\ rx_queue_list(c) # << >>
                BY <1>2, <3>1 DEF Control, CoreFits
            <4> QED BY <1>2, <3>2, <4>1, <4>2, <4>3 DEF CoreFits, Handling
        <3>4. ASSUME NEW d \in Cores, d # c PROVE CoreFits(d)'
            <4>1. pc'[d] = pc[d] /\ queue_idx'[d] = queue_idx[d]
                BY <3>1, <3>4 DEF Control
            <4> QED BY <1>1, <1>10, <3>4, <4>1, StillFits DEF Control
        <3> QED BY <1>1, <1>9, <3>1, <3>2, <3>3, <3>4 DEF Control, QueueSorts, RxQueue, Item, Mbufs
    <2>2. CASE ~(n > 0)
        <3>1. NextQueue(c)
            BY <1>1, <2>2
        <3>2. burst'[c] = << >> /\ burst' \in [Cores -> Seq(Item)]
            BY <1>5, <1>7, <1>9, <2>2 DEF QueueSorts
        <3>3. pc[c] \notin {"off", "pre"} /\ UNCHANGED scenario
            BY <1>1
        <3>4. /\ pc' \in [Cores -> PcValues] /\ queue_idx' \in [Cores -> Nat]
              /\ CoreFits(c)'
              /\ \A d \in Cores : d # c => pc'[d] = pc[d] /\ queue_idx'[d] = queue_idx[d]
            BY <3>1, <3>2, <3>3, NextQueueFits
        <3>5. ASSUME NEW d \in Cores, d # c PROVE CoreFits(d)'
            BY <1>1, <1>10, <3>4, <3>5, StillFits DEF Control
        <3> QED BY <1>1, <1>9, <3>4, <3>5 DEF Control, QueueSorts, RxQueue, Item, Mbufs
    <2> QED BY <2>1, <2>2
<1>12. MovesFirst(Queues, Queues', RxAt(q), BurstAt(c), n)
    <2>1. SetAt(Queues, QueuesOf(rx', burst, tx), RxAt(q), w)
        <3>1. SetAt(rx, rx', q, w) /\ QueueSorts(rx, burst, tx)
            BY <1>8 DEF SetAt, Control
        <3> QED BY <1>3, <3>1, RxSet DEF Queues
    <2>2. SetAt(QueuesOf(rx', burst, tx), QueuesOf(rx', burst', tx), BurstAt(c), v)
        <3>1. SetAt(burst, burst', c, v)
            BY <1>8 DEF SetAt
        <3> QED BY <1>9, <3>1, BurstSet
    <2>3. Queues' = QueuesOf(rx', burst', tx)
        BY <1>1, QueuesNext
    <2>4. /\ Queues \in [Place -> Seq(Item)] /\ RxAt(q) \in Place /\ BurstAt(c) \in Place
          /\ RxAt(q) # BurstAt(c) /\ Queues[BurstAt(c)] = << >> /\ Queues[RxAt(q)] = rx[q]
        BY <1>2, <1>3, QueuesSort, QueuesOfAt, PlacesDiffer DEF Control, Queues
    <2> DEFINE Q == Queues
    <2>5. Queues' = [Q EXCEPT ![RxAt(q)] = w, ![BurstAt(c)] = v]
        BY <2>1, <2>2, <2>3 DEF SetAt
    <2>6. v = SubSeq(Q[RxAt(q)], 1, n) /\ w = SubSeq(Q[RxAt(q)], n + 1, Len(Q[RxAt(q)]))
        BY <2>4 DEF v, w
    <2> QED BY <1>5, <2>4, <2>5, <2>6 DEF MovesFirst
<1> QED BY <1>1, <1>3, <1>11, <1>12 DEF q
-----------------------------------------------------------------------------
(* What is sent of each queue and what is not.                               *)
AllJoined(Q, c, ps, s, t) == \A p \in ps : Joined(Q[TxAt(c, p)], s[p], t[p])

(* A buffer of an emptied queue is either sent or freed.                     *)
LEMMA SentAndNot ==
    ASSUME NEW Q, Apart(Q, 1), NEW c \in Cores, NEW ps \in SUBSET Ports,
           NEW s, NEW t, AllJoined(Q, c, ps, s, t)
    PROVE  /\ Gone(s, ps) \cup Gone(t, ps) = Gone(Q, TxOf(c, ps))
           /\ Gone(s, ps) \cap Gone(t, ps) = {}
<1>1. ASSUME NEW p \in ps
      PROVE  /\ Part(Q[TxAt(c, p)], 1) = Part(s[p], 1) \cup Part(t[p], 1)
             /\ Part(s[p], 1) \cap Part(t[p], 1) = {}
    <2>1. Joined(Q[TxAt(c, p)], s[p], t[p])
        BY DEF AllJoined
    <2>2. NoTwice(Q[TxAt(c, p)], 1)
        BY PlacesDiffer DEF Apart
    <2>3. Part(Q[TxAt(c, p)], 1) = Part(s[p], 1) \cup Part(t[p], 1)
        BY <2>1, JoinedPart
    <2>4. NoTwice(Q[TxAt(c, p)], 1) <=> /\ NoTwice(s[p], 1) /\ NoTwice(t[p], 1)
                                        /\ Part(s[p], 1) \cap Part(t[p], 1) = {}
        BY <2>1, JoinedNoTwice
    <2> QED BY <2>2, <2>3, <2>4
<1>2. ASSUME NEW p \in ps, NEW o \in ps
      PROVE  Part(s[p], 1) \cap Part(t[o], 1) = {}
    <2>1. CASE p = o
        BY <1>1, <2>1
    <2>2. CASE p # o
        <3>1. Part(Q[TxAt(c, p)], 1) \cap Part(Q[TxAt(c, o)], 1) = {}
            BY <2>2, PlacesDiffer DEF Apart
        <3> QED BY <1>1, <3>1
    <2> QED BY <2>1, <2>2
<1> DEFINE A == UNION {Part(s[p], 1) : p \in ps}
           B == UNION {Part(t[p], 1) : p \in ps}
           C == UNION {Part(Q[n], 1) : n \in TxOf(c, ps)}
<1>3. A \cap B = {}
    <2> SUFFICES ASSUME NEW v \in A, v \in B PROVE FALSE
        OBVIOUS
    <2>1. PICK p \in ps : v \in Part(s[p], 1)
        OBVIOUS
    <2>2. PICK o \in ps : v \in Part(t[o], 1)
        OBVIOUS
    <2> QED BY <1>2, <2>1, <2>2
<1>4. A \cup B = C
    <2>1. ASSUME NEW v \in A \cup B PROVE v \in C
        <3>1. PICK p \in ps : v \in Part(s[p], 1) \/ v \in Part(t[p], 1)
            BY <2>1
        <3>2. v \in Part(Q[TxAt(c, p)], 1) /\ TxAt(c, p) \in TxOf(c, ps)
            BY <1>1, <3>1 DEF TxOf
        <3> QED BY <3>2
    <2>2. ASSUME NEW v \in C PROVE v \in A \cup B
        <3>1. PICK n \in TxOf(c, ps) : v \in Part(Q[n], 1)
            BY <2>2
        <3>2. PICK p \in ps : n = TxAt(c, p)
            BY DEF TxOf
        <3>3. v \in Part(s[p], 1) \/ v \in Part(t[p], 1)
            BY <1>1, <3>1, <3>2
        <3>4. (v \in Part(s[p], 1) => v \in A) /\ (v \in Part(t[p], 1) => v \in B)
            OBVIOUS
        <3> QED BY <3>3, <3>4
    <2> QED BY <2>1, <2>2
<1> QED BY <1>3, <1>4 DEF Gone

(* send_burst, for the ports ps, when the queues of the core are q.          *)
SendsOf(c, ps, q, ret) ==
    /\ ret \in [ps -> 0 .. Burst]
    /\ \A p \in ps : ret[p] <= Len(q[p])
    /\ out' = [p \in Ports |->
                 IF p \in ps
                 THEN out[p] \o [i \in 1 .. ret[p] |-> <<c, q[p][i][2]>>]
                 ELSE out[p]]
    /\ nic' = nic \cup UNION {Buffers(SubSeq(q[p], 1, ret[p])) : p \in ps}
    /\ pool' = pool \cup UNION {Buffers(NotSent(q[p], ret[p])) : p \in ps}
    /\ tx' = [tx EXCEPT ![c] = [p \in Ports |-> IF p \in ps THEN << >> ELSE q[p]]]

(* SendBursts, without what becomes of the process.                          *)
LEMMA SendsSome ==
    ASSUME NEW c, NEW ps, NEW q, SendBursts(c, ps, q)
    PROVE  \E ret : SendsOf(c, ps, q, ret)
BY DEF SendBursts, SendsOf

(* S are the queues at the places when those of the core are q.              *)
SendReady(c, q, r, b, t) ==
    /\ q \in [Ports -> Seq(Item)] /\ tx \in [Cores -> [Ports -> Seq(Item)]]
    /\ QueueSorts(r, b, t) /\ t[c] = q /\ \A d \in Cores : d # c => t[d] = tx[d]
    /\ Owned(QueuesOf(r, b, t), pool, nic, lost)

(* The queues of the ports become empty, and each buffer has its new owner.  *)
LEMMA SendMoves ==
    ASSUME NEW c \in Cores, NEW ps \in SUBSET Ports, NEW q, NEW ret,
           SendsOf(c, ps, q, ret), NEW r, NEW b, NEW t, SendReady(c, q, r, b, t),
           UNCHANGED lost
    PROVE  /\ QueueSorts(r, b, tx')
           /\ Empties(QueuesOf(r, b, t), QueuesOf(r, b, tx'), TxOf(c, ps))
           /\ Owned(QueuesOf(r, b, tx'), pool', nic', lost')
<1> DEFINE Q == QueuesOf(r, b, t)
           s == [p \in ps |-> SubSeq(q[p], 1, ret[p])]
           u == [p \in ps |-> SubSeq(q[p], ret[p] + 1, Len(q[p]))]
<1> USE DEF SendReady
<1>1. /\ nic' = nic \cup UNION {Buffers(SubSeq(q[p], 1, ret[p])) : p \in ps}
      /\ pool' = pool \cup UNION {Buffers(NotSent(q[p], ret[p])) : p \in ps}
      /\ tx' = [tx EXCEPT ![c] = [p \in Ports |-> IF p \in ps THEN << >> ELSE q[p]]]
      /\ ret \in [ps -> 0 .. Burst] /\ \A p \in ps : ret[p] <= Len(q[p])
    BY DEF SendsOf
<1>2. SomeEmpty(t, tx', c, ps)
    <2> DEFINE e == [p \in Ports |-> IF p \in ps THEN << >> ELSE q[p]]
    <2>1. tx' = [tx EXCEPT ![c] = e] /\ t \in [Cores -> [Ports -> Seq(Item)]]
        BY <1>1 DEF QueueSorts
    <2> HIDE DEF e
    <2>2. tx' = [t EXCEPT ![c] = e]
        BY <2>1
    <2> QED BY <2>2 DEF SomeEmpty, e
<1>3. Empties(Q, QueuesOf(r, b, tx'), TxOf(c, ps))
    BY <1>2, TxEmpty
<1>4. QueueSorts(r, b, tx')
    <2> DEFINE e == [p \in Ports |-> IF p \in ps THEN << >> ELSE q[p]]
    <2>1. << >> \in Seq(Item)
        OBVIOUS
    <2>2. e \in [Ports -> Seq(Item)]
        BY <2>1
    <2>3. tx' = [tx EXCEPT ![c] = e]
        BY <1>1
    <2> HIDE DEF e
    <2> QED BY <2>2, <2>3 DEF QueueSorts
<1>5. \A p \in ps : Q[TxAt(c, p)] = q[p]
    BY QueuesOfAt
<1>6. \A p \in ps : Joined(Q[TxAt(c, p)], s[p], u[p])
    <2> SUFFICES ASSUME NEW p \in ps PROVE Joined(Q[TxAt(c, p)], s[p], u[p])
        OBVIOUS
    <2>1. q[p] \in Seq(Item) /\ ret[p] \in 0 .. Len(q[p])
        BY <1>1, ConstAssumption
    <2>2. s[p] = SubSeq(q[p], 1, ret[p]) /\ u[p] = SubSeq(q[p], ret[p] + 1, Len(q[p]))
        OBVIOUS
    <2> DEFINE l == q[p]
               n == ret[p]
    <2>3. l \in Seq(Item) /\ n \in 0 .. Len(l)
        BY <2>1
    <2> HIDE DEF l, n
    <2>4. Joined(l, SubSeq(l, 1, n), SubSeq(l, n + 1, Len(l)))
        BY <2>3, JoinedSplit
    <2> QED BY <1>5, <2>2, <2>4 DEF l, n
<1> DEFINE A == Gone(s, ps)
           B == Gone(u, ps)
<1>7. nic' = nic \cup A /\ pool' = pool \cup B
    <2>1. \A p \in ps : /\ Buffers(SubSeq(q[p], 1, ret[p])) = Part(s[p], 1)
                        /\ Buffers(NotSent(q[p], ret[p])) = Part(u[p], 1)
        BY DEF Buffers, Part, NotSent
    <2>2. /\ {Buffers(SubSeq(q[p], 1, ret[p])) : p \in ps} = {Part(s[p], 1) : p \in ps}
          /\ {Buffers(NotSent(q[p], ret[p])) : p \in ps} = {Part(u[p], 1) : p \in ps}
        <3> HIDE DEF s, u
        <3> QED BY <2>1
    <2> QED BY <1>1, <2>2 DEF Gone
<1>8. A \cup B = Gone(Q, TxOf(c, ps)) /\ A \cap B = {}
    <2>1. Apart(Q, 1) /\ AllJoined(Q, c, ps, s, u)
        BY <1>6 DEF Owned, AllJoined
    <2> HIDE DEF s, u, Q
    <2> QED BY <2>1, SentAndNot
<1> HIDE DEF A, B, Q
<1>9. Owned(QueuesOf(r, b, tx'), pool \cup B, nic \cup A, lost)
    <2>1. Owned(Q, pool, nic, lost)
        BY DEF Q
    <2> QED BY <1>3, <1>8, <2>1, EmptyOwned
<1> QED BY <1>3, <1>4, <1>7, <1>9 DEF Q

Ownership == Owned(Queues, pool, nic, lost) /\ (lost # {} => Says("broadcast"))

(* A core at the end of its drain is at its first receive queue.             *)
LEMMA DrainMoves ==
    ASSUME Control, ValuesInv, NEW c \in Cores, main_loop_pre_rx(c),
           Owned(Queues, pool, nic, lost)
    PROVE  /\ Control' /\ Owned(Queues', pool', nic', lost')
           /\ UNCHANGED <<scenario, arrived, lost>>
           /\ \/ Queues' = Queues /\ UNCHANGED out
              \/ \E ret : /\ SendsOf(c, ToDrain(c), tx[c], ret)
                          /\ Empties(Queues, Queues', TxOf(c, ToDrain(c)))
<1>1. /\ pc[c] = "pre" /\ pc' = [pc EXCEPT ![c] = "rx"]
      /\ queue_idx' = [queue_idx EXCEPT ![c] = 1]
      /\ UNCHANGED <<scenario, arrived, rx, burst, lost>>
      /\ \/ SendBursts(c, ToDrain(c), tx[c])
         \/ UNCHANGED <<out, nic, pool, tx>>
    BY DEF main_loop_pre_rx
<1>2. ASSUME QueueSorts(rx, burst, tx') PROVE Control'
    <2>1. ASSUME NEW d \in Cores PROVE CoreFits(d)'
        <3>1. CASE d # c
            <4>1. pc'[d] = pc[d] /\ queue_idx'[d] = queue_idx[d]
                BY <1>1, <3>1 DEF Control
            <4> QED BY <1>1, <4>1, StillFits DEF Control
        <3>2. CASE d = c
            <4>1. pc'[c] = "rx" /\ queue_idx'[c] = 1
                BY <1>1 DEF Control
            <4>2. rx_queue_list(c)' = rx_queue_list(c)
                BY <1>1 DEF rx_queue_list
            <4>3. rx_queue_list(c) # << >> /\ burst[c] = << >>
                BY <1>1 DEF Control, CoreFits, Handling
            <4>4. 1 \in 1 .. Len(rx_queue_list(c))
                BY <4>3, ListLength
            <4> QED BY <1>1, <3>2, <4>1, <4>2, <4>3, <4>4 DEF CoreFits, Handling
        <3> QED BY <3>1, <3>2
    <2>2. pc' \in [Cores -> PcValues] /\ queue_idx' \in [Cores -> Nat]
        BY <1>1 DEF Control, PcValues
    <2> QED BY <1>1, <1>2, <2>1, <2>2 DEF Control, QueueSorts, RxQueue, Item, Mbufs
<1>3. CASE UNCHANGED <<out, nic, pool, tx>>
    <2>1. Queues' = Queues
        BY <1>1, <1>3, QueuesNext DEF Queues
    <2>2. Control'
        BY <1>2, <1>3 DEF Control
    <2>3. Owned(Queues', pool', nic', lost')
        BY <1>1, <1>3, <2>1
    <2> QED BY <1>1, <1>3, <2>1, <2>2, <2>3
<1>4. CASE SendBursts(c, ToDrain(c), tx[c])
    <2>1. PICK ret : SendsOf(c, ToDrain(c), tx[c], ret)
        BY <1>4, SendsSome
    <2>2. /\ ToDrain(c) \in SUBSET Ports /\ tx[c] \in [Ports -> Seq(Item)]
          /\ QueueSorts(rx, burst, tx) /\ tx \in [Cores -> [Ports -> Seq(Item)]]
          /\ Owned(QueuesOf(rx, burst, tx), pool, nic, lost)
        BY DEF ToDrain, Control, QueueSorts, Queues
    <2> DEFINE ps == ToDrain(c)
               q == tx[c]
               t == tx
    <2>3. ps \in SUBSET Ports /\ SendsOf(c, ps, q, ret) /\ SendReady(c, q, rx, burst, t)
        BY <2>1, <2>2 DEF SendReady
    <2> HIDE DEF ps, q, t
    <2>4. /\ QueueSorts(rx, burst, tx')
          /\ Empties(QueuesOf(rx, burst, t), QueuesOf(rx, burst, tx'), TxOf(c, ps))
          /\ Owned(QueuesOf(rx, burst, tx'), pool', nic', lost')
        BY <1>1, <2>3, SendMoves
    <2>5. Queues' = QueuesOf(rx, burst, tx') /\ Queues = QueuesOf(rx, burst, t)
        BY <1>1, QueuesNext DEF Queues, t
    <2> QED BY <1>1, <1>2, <2>1, <2>4, <2>5 DEF ps
<1> QED BY <1>1, <1>3, <1>4

(* The packet in hand leaves the burst.                                      *)
LEMMA BurstLoses ==
    ASSUME Control, NEW c \in Cores, pc[c] = "tx", NextPacket(c), NEW R,
           R = QueuesOf(rx, burst', tx)
    PROVE  /\ LosesHead(Queues, R, BurstAt(c), Head(burst[c]))
           /\ QueueSorts(rx, burst', tx) /\ Head(burst[c]) \in Item
           /\ burst[c] # << >> /\ burst[c] \in Seq(Item)
           /\ \A d \in Cores : d # c => burst'[d] = burst[d]
           /\ burst'[c] = Tail(burst[c])
<1> DEFINE v == Tail(burst[c])
<1>1. burst' = [burst EXCEPT ![c] = v]
    BY DEF NextPacket
<1>2. burst[c] # << >> /\ burst[c] \in Seq(Item)
    BY DEF Control, CoreFits, Handling, QueueSorts
<1>3. v \in Seq(Item) /\ Head(burst[c]) \in Item
    BY <1>2, JoinedTail
<1> HIDE DEF v
<1>4. /\ QueueSorts(rx, burst', tx) /\ burst'[c] = v
      /\ \A d \in Cores : d # c => burst'[d] = burst[d]
    BY <1>1, <1>3 DEF Control, QueueSorts
<1>5. SetAt(Queues, R, BurstAt(c), v)
    <2>1. SetAt(burst, burst', c, v) /\ QueueSorts(rx, burst, tx)
        BY <1>1 DEF SetAt, Control
    <2> QED BY <2>1, BurstSet DEF Queues
<1>6. /\ Queues \in [Place -> Seq(Item)] /\ BurstAt(c) \in Place
      /\ Queues[BurstAt(c)] = burst[c]
    BY QueuesSort, QueuesOfAt, PlacesDiffer DEF Control, Queues
<1>7. LosesHead(Queues, R, BurstAt(c), Head(burst[c]))
    <2> DEFINE Q == Queues
    <2>1. R = [Q EXCEPT ![BurstAt(c)] = Tail(Q[BurstAt(c)])]
        BY <1>5, <1>6 DEF SetAt, v
    <2> QED BY <1>2, <1>6, <2>1 DEF LosesHead
<1> QED BY <1>2, <1>3, <1>4, <1>7 DEF v

(* The core goes on with its next packet, its next queue, or its next round. *)
LEMMA TransmitControl ==
    ASSUME Control, ValuesInv, NEW c \in Cores, pc[c] = "tx", NextPacket(c),
           QueueSorts(rx', burst', tx'), UNCHANGED <<scenario, arrived>>
    PROVE  Control'
<1>1. /\ burst[c] # << >> /\ burst[c] \in Seq(Item) /\ burst'[c] = Tail(burst[c])
      /\ \A d \in Cores : d # c => burst'[d] = burst[d]
    BY BurstLoses
<1>2. Len(burst[c]) > 1 <=> burst'[c] # << >>
    <2> DEFINE l == burst[c]
    <2>1. l # << >> /\ l \in Seq(Item) /\ burst'[c] = Tail(l)
        BY <1>1
    <2> HIDE DEF l
    <2>2. Len(l) \in Nat /\ Len(l) # 0 /\ Tail(l) \in Seq(Item) /\ Len(Tail(l)) = Len(l) - 1
        BY <2>1
    <2>3. \A m \in Seq(Item) : m # << >> <=> Len(m) # 0
        OBVIOUS
    <2>4. Len(l) > 1 <=> Len(Tail(l)) # 0
        <3> DEFINE n == Len(l)
                   m == Len(Tail(l))
        <3>1. n \in Nat /\ n # 0 /\ m = n - 1
            BY <2>2
        <3> HIDE DEF n, m
        <3>2. n > 1 <=> m # 0
            BY <3>1
        <3> QED BY <3>2 DEF n, m
    <2>5. Len(l) > 1 <=> Tail(l) # << >>
        BY <2>2, <2>3, <2>4
    <2> QED BY <2>1, <2>5 DEF l
<1>3. queue_idx[c] \in 1 .. Len(rx_queue_list(c)) /\ rx_queue_list(c) # << >>
    BY DEF Control, CoreFits
<1>4. ASSUME pc' \in [Cores -> PcValues], queue_idx' \in [Cores -> Nat], CoreFits(c)',
             \A d \in Cores : d # c => pc'[d] = pc[d] /\ queue_idx'[d] = queue_idx[d]
      PROVE  Control'
    <2>1. ASSUME NEW d \in Cores, d # c PROVE CoreFits(d)'
        BY <1>1, <1>4, <2>1, StillFits DEF Control
    <2> QED BY <1>4, <2>1 DEF Control, QueueSorts, RxQueue, Item, Mbufs
<1>5. CASE Len(burst[c]) > 1
    <2>1. pc' = [pc EXCEPT ![c] = "next"] /\ UNCHANGED queue_idx
        BY <1>5 DEF NextPacket
    <2>2. pc' \in [Cores -> PcValues] /\ queue_idx' \in [Cores -> Nat] /\ pc'[c] = "next"
        BY <2>1 DEF Control, PcValues, Handling
    <2>3. rx_queue_list(c)' = rx_queue_list(c)
        BY DEF rx_queue_list
    <2>4. CoreFits(c)'
        BY <1>2, <1>3, <1>5, <2>1, <2>2, <2>3 DEF CoreFits, Handling
    <2> QED BY <1>4, <2>1, <2>2, <2>4 DEF Control
<1>6. CASE ~(Len(burst[c]) > 1)
    <2>1. NextQueue(c) /\ burst'[c] = << >> /\ burst' \in [Cores -> Seq(Item)]
        BY <1>2, <1>6 DEF NextPacket, QueueSorts
    <2>2. /\ pc' \in [Cores -> PcValues] /\ queue_idx' \in [Cores -> Nat] /\ CoreFits(c)'
          /\ \A d \in Cores : d # c => pc'[d] = pc[d] /\ queue_idx'[d] = queue_idx[d]
        BY <2>1, NextQueueFits
    <2> QED BY <1>4, <2>2
<1> QED BY <1>5, <1>6

(* ... and enters a queue of the core.                                       *)
Added(c, p, h, q, t) ==
    q = [tx[c] EXCEPT ![p] = Append(tx[c][p], h)] /\ t = [tx EXCEPT ![c] = q]

(* Its queue for the port has one more.                                      *)
LEMMA TxGrows ==
    ASSUME NEW r, NEW b, QueueSorts(r, b, tx), NEW c \in Cores, NEW p \in Ports,
           NEW h \in Item, NEW q, NEW t, Added(c, p, h, q, t)
    PROVE  /\ Grows(QueuesOf(r, b, tx), QueuesOf(r, b, t), TxAt(c, p), h)
           /\ QueueSorts(r, b, t) /\ q \in [Ports -> Seq(Item)] /\ t[c] = q
           /\ \A d \in Cores : d # c => t[d] = tx[d]
<1> DEFINE v == Append(tx[c][p], h)
           Q == QueuesOf(r, b, tx)
<1>1. tx \in [Cores -> [Ports -> Seq(Item)]] /\ v \in Seq(Item)
    BY DEF QueueSorts
<1>2. q = [tx[c] EXCEPT ![p] = v] /\ t = [tx EXCEPT ![c] = q]
    BY DEF Added
<1> HIDE DEF v
<1>3. q \in [Ports -> Seq(Item)]
    BY <1>1, <1>2
<1>4. t \in [Cores -> [Ports -> Seq(Item)]] /\ t[c] = q /\ \A d \in Cores : d # c => t[d] = tx[d]
    BY <1>1, <1>2, <1>3
<1>5. QueueSorts(r, b, t)
    BY <1>4 DEF QueueSorts
<1>6. SetAt(Q, QueuesOf(r, b, t), TxAt(c, p), v)
    <2>1. OneSet(tx, t, c, p, v)
        BY <1>2 DEF OneSet
    <2> QED BY <2>1, TxSet
<1>7. Q \in [Place -> Seq(Item)] /\ TxAt(c, p) \in Place /\ Q[TxAt(c, p)] = tx[c][p]
    BY QueuesSort, QueuesOfAt, PlacesDiffer
<1> HIDE DEF Q
<1>8. Grows(Q, QueuesOf(r, b, t), TxAt(c, p), h)
    BY <1>6, <1>7 DEF Grows, SetAt, v
<1> QED BY <1>3, <1>4, <1>5, <1>8 DEF Q

(* What dpdk_send_packet does, R being the queues without the packet and S   *)
(* those with it in the transmit queue.                                      *)
SendsOn(c, p, R) ==
    \E S : /\ Grows(R, S, TxAt(c, p), Head(burst[c]))
           /\ \/ Queues' = S /\ UNCHANGED out
              \/ \E q, ret : /\ SendsOf(c, {p}, q, ret) /\ q[p] = S[TxAt(c, p)]
                             /\ Empties(S, Queues', TxOf(c, {p}))

(* dpdk_send_packet.                                                         *)
LEMMA SendPacketMoves ==
    ASSUME Control, NEW c \in Cores, pc[c] = "tx", NextPacket(c), NEW p \in Ports,
           dpdk_send_packet(c, p), UNCHANGED <<rx, lost>>,
           Owned(Queues, pool, nic, lost), NEW R, R = QueuesOf(rx, burst', tx)
    PROVE  /\ QueueSorts(rx', burst', tx') /\ Owned(Queues', pool', nic', lost')
           /\ SendsOn(c, p, R)
<1> DEFINE h == Head(burst[c])
           q == [tx[c] EXCEPT ![p] = Append(tx[c][p], h)]
           t == [tx EXCEPT ![c] = q]
           S == QueuesOf(rx, burst', t)
<1>1. /\ LosesHead(Queues, R, BurstAt(c), h) /\ h \in Item /\ QueueSorts(rx, burst', tx)
    BY BurstLoses
<1>2. \/ SendBursts(c, {p}, q)
      \/ tx' = t /\ UNCHANGED <<out, nic, pool>>
    BY DEF dpdk_send_packet, add_packet_to_queue
<1> HIDE DEF h
<1>3. /\ Grows(R, S, TxAt(c, p), h)
      /\ QueueSorts(rx, burst', t) /\ q \in [Ports -> Seq(Item)] /\ t[c] = q
      /\ \A d \in Cores : d # c => t[d] = tx[d]
    <2>1. Added(c, p, h, q, t) /\ R = QueuesOf(rx, burst', tx)
        BY DEF Added
    <2> HIDE DEF q, t
    <2> QED BY <1>1, <2>1, TxGrows
<1>4. Owned(S, pool, nic, lost)
    BY <1>1, <1>3, ShiftOwned
<1>5. CASE tx' = t /\ UNCHANGED <<out, nic, pool>>
    <2>1. Queues' = S
        BY <1>5, QueuesNext
    <2>2. SendsOn(c, p, R)
        BY <1>3, <1>5, <2>1 DEF SendsOn, h
    <2>3. QueueSorts(rx', burst', tx')
        BY <1>3, <1>5
    <2> QED BY <1>4, <1>5, <2>1, <2>2, <2>3
<1>6. CASE SendBursts(c, {p}, q)
    <2>1. PICK ret : SendsOf(c, {p}, q, ret)
        BY <1>6, SendsSome
    <2>2. /\ tx \in [Cores -> [Ports -> Seq(Item)]] /\ {p} \in SUBSET Ports
          /\ UNCHANGED lost
        BY <1>1 DEF QueueSorts
    <2> HIDE DEF q, t
    <2>3. /\ QueueSorts(rx, burst', tx')
          /\ Empties(S, QueuesOf(rx, burst', tx'), TxOf(c, {p}))
          /\ Owned(QueuesOf(rx, burst', tx'), pool', nic', lost')
        <3>1. SendReady(c, q, rx, burst', t)
            BY <1>3, <1>4, <2>2 DEF SendReady
        <3> QED BY <2>1, <2>2, <3>1, SendMoves
    <2>4. Queues' = QueuesOf(rx, burst', tx')
        BY QueuesNext
    <2>5. S[TxAt(c, p)] = q[p]
        BY <1>3, QueuesOfAt
    <2> HIDE DEF S
    <2>6. SendsOn(c, p, R)
        BY <1>3, <2>1, <2>3, <2>4, <2>5 DEF SendsOn, h
    <2> QED BY <2>3, <2>4, <2>6
<1> QED BY <1>2, <1>5, <1>6

-----------------------------------------------------------------------------
(* The invariant.                                                            *)

BuffersInv == ValuesInv /\ Control /\ Ownership

(* At the start all buffers are free.                                        *)
LEMMA InitBuffers == Init => BuffersInv
<1> SUFFICES ASSUME Init PROVE BuffersInv
    OBVIOUS
<1>1. ValuesInv /\ Control
    BY InitValues, InitControl
<1>2. /\ rx = [q \in RxQueue |-> << >>] /\ burst = [c \in Cores |-> << >>]
      /\ tx = [c \in Cores |-> [p \in Ports |-> << >>]]
      /\ pool = Mbufs /\ nic = {} /\ lost = {}
    BY DEF Init
<1>3. ASSUME NEW n \in Place PROVE Queues[n] = << >>
    <2>1. CASE \E q \in RxQueue : n = RxAt(q)
        BY <1>2, <2>1, QueuesOfAt DEF Queues
    <2>2. CASE \E c \in Cores : n = BurstAt(c)
        BY <1>2, <2>2, QueuesOfAt DEF Queues
    <2>3. CASE \E c \in Cores, p \in Ports : n = TxAt(c, p)
        BY <1>2, <2>3, QueuesOfAt DEF Queues
    <2> QED BY <2>1, <2>2, <2>3, PlaceCases
<1>4. ASSUME NEW n \in Place PROVE Part(Queues[n], 1) = {} /\ NoTwice(Queues[n], 1)
    BY <1>3, None
<1>5. Apart(Queues, 1) /\ Members(Queues, 1) = {}
    BY <1>4 DEF Apart, Members
<1>6. Owned(Queues, pool, nic, lost)
    BY <1>2, <1>5 DEF Owned
<1> QED BY <1>1, <1>2, <1>6 DEF BuffersInv, Ownership

(* The steps that move no buffer. *)
LEMMA SameOwned ==
    ASSUME Ownership, UNCHANGED <<rx, burst, tx, pool, nic, lost>>
    PROVE  Owned(Queues', pool', nic', lost')
<1>1. Queues' = Queues
    BY QueuesNext DEF Queues
<1> QED BY <1>1 DEF Ownership

(* A packet that came to its transmit queue, was dropped or was broadcast.   *)
LEMMA TransmitBuffers ==
    ASSUME BuffersInv, NEW c \in Cores, do_single_tx(c)
    PROVE  /\ Control' /\ Owned(Queues', pool', nic', lost')
           /\ lost' # lost => Says("broadcast")
           /\ UNCHANGED <<scenario, arrived>>
           /\ \/ UNCHANGED out /\ LosesHead(Queues, Queues', BurstAt(c), Head(burst[c]))
              \/ \E p \in Ports : \E R : /\ LosesHead(Queues, R, BurstAt(c), Head(burst[c]))
                                     /\ SendsOn(c, p, R)
<1>1. /\ pc[c] = "tx" /\ NextPacket(c) /\ UNCHANGED <<scenario, arrived, rx>>
      /\ \/ /\ pool' = pool \cup {Head(burst[c])[1]} /\ UNCHANGED <<out, nic, tx, lost>>
         \/ entry[c].value.act = "broadcast" /\ broadcast_packet(c)
         \/ dpdk_send_packet(c, egress_port(entry[c])) /\ UNCHANGED lost
    BY DEF do_single_tx
<1> DEFINE h == Head(burst[c])
           R == QueuesOf(rx, burst', tx)
<1>2. LosesHead(Queues, R, BurstAt(c), h) /\ QueueSorts(rx, burst', tx)
    BY <1>1, BurstLoses DEF BuffersInv
<1>3. Control /\ ValuesInv /\ Owned(Queues, pool, nic, lost) /\ egress_port(entry[c]) \in Ports
    BY PortKnown DEF BuffersInv, Ownership
<1>4. ASSUME UNCHANGED <<out, tx>> PROVE Control' /\ Queues' = R
    <2>1. QueueSorts(rx', burst', tx') /\ Queues' = R
        BY <1>1, <1>2, <1>4, QueuesNext
    <2> QED BY <1>1, <1>3, <2>1, TransmitControl
<1>5. CASE pool' = pool \cup {h[1]} /\ UNCHANGED <<out, nic, tx, lost>>
    <2> HIDE DEF h, R
    <2>1. {} \in SUBSET pool
        OBVIOUS
    <2>2. Owned(R, pool \cup {h[1]}, nic, lost)
        BY <1>2, <1>3, <2>1, LoseHeadOwned
    <2> QED BY <1>1, <1>2, <1>4, <1>5, <2>2 DEF h
<1>6. CASE entry[c].value.act = "broadcast" /\ broadcast_packet(c)
    <2> DEFINE cl == {m \in pool : Cardinality({n \in pool : n <= m})
                                      <= NbClones(scenario.packets[h[2]].port)}
    <2>1. /\ pool' = pool \ cl /\ lost' = lost \cup cl \cup {h[1]}
          /\ UNCHANGED <<out, nic, tx>>
        BY <1>6 DEF broadcast_packet
    <2>2. cl \in SUBSET pool
        OBVIOUS
    <2>3. Says("broadcast")
        BY <1>6, PortKnown DEF BuffersInv
    <2> HIDE DEF h, R, cl
    <2>4. Owned(R, pool \ cl, nic, lost \cup cl \cup {h[1]})
        BY <1>2, <1>3, <2>2, LoseHeadOwned
    <2> QED BY <1>1, <1>2, <1>4, <2>1, <2>3, <2>4 DEF h
<1>7. CASE dpdk_send_packet(c, egress_port(entry[c])) /\ UNCHANGED lost
    <2> DEFINE p == egress_port(entry[c])
    <2>1. p \in Ports /\ dpdk_send_packet(c, p) /\ UNCHANGED <<rx, lost>>
        BY <1>1, <1>3, <1>7
    <2> HIDE DEF p, R
    <2>2. /\ QueueSorts(rx', burst', tx') /\ Owned(Queues', pool', nic', lost')
          /\ SendsOn(c, p, R)
        BY <1>1, <1>3, <2>1, SendPacketMoves DEF R
    <2>3. Control'
        BY <1>1, <1>3, <2>2, TransmitControl
    <2> QED BY <1>1, <1>2, <1>7, <2>1, <2>2, <2>3 DEF h
<1> QED BY <1>1, <1>5, <1>6, <1>7

(* No step loses a buffer or gives one to two.                               *)
LEMMA NextBuffers == BuffersInv /\ [Next]_vars => BuffersInv'
<1> SUFFICES ASSUME BuffersInv, [Next]_vars PROVE BuffersInv'
    OBVIOUS
<1>1. ValuesInv /\ Control /\ Ownership /\ ValuesInv'
    BY NextValues DEF BuffersInv
<1> DEFINE Goal == Control' /\ Owned(Queues', pool', nic', lost')
           Kept == UNCHANGED <<scenario, queue_idx, rx, burst, tx, arrived, nic, pool, lost>>
           SaysSo == lost' # lost => Says("broadcast")
<1>2. ASSUME Kept, UNCHANGED pc PROVE Goal /\ SaysSo
    BY <1>1, <1>2, SameOwned, AllSameControl
<1>3. ASSUME Kept, NEW c \in Cores, NEW v \in Handling, pc[c] \in Handling,
             pc' = [pc EXCEPT ![c] = v]
      PROVE  Goal /\ SaysSo
    <2>1. v \in PcValues /\ v # "off" /\ pc[c] \in PcValues \ {"off", "pre"}
        BY <1>3 DEF PcValues, Handling
    <2>2. Control'
        BY <1>1, <1>3, <2>1, SameControl
    <2> QED BY <1>1, <1>3, <2>2, SameOwned
<1>4. Goal /\ SaysSo
    <2>1. CASE Arrive
        <3>0. pool \subseteq Mbufs /\ Owned(Queues, pool, nic, lost)
            BY <1>1 DEF Ownership, Owned
        <3>1. /\ Control' /\ UNCHANGED <<nic, lost>>
              /\ \/ Queues' = Queues /\ pool' = pool
                 \/ \E m \in pool : /\ pool' = pool \ {m}
                                    /\ Grows(Queues, Queues', RxAt(ArriveQueue), <<m, arrived'>>)
            BY <1>1, <2>1, <3>0, ArriveMoves
        <3>2. CASE Queues' = Queues /\ pool' = pool
            BY <3>0, <3>1, <3>2
        <3>3. ASSUME NEW m \in pool, pool' = pool \ {m},
                     Grows(Queues, Queues', RxAt(ArriveQueue), <<m, arrived'>>)
              PROVE  Goal /\ SaysSo
            <4> DEFINE x == <<m, arrived'>>
            <4>1. x[1] = m /\ Grows(Queues, Queues', RxAt(ArriveQueue), x)
                BY <3>3
            <4> HIDE DEF x
            <4>2. Owned(Queues', pool \ {x[1]}, nic, lost)
                BY <3>0, <3>3, <4>1, GrowOwned
            <4> QED BY <3>1, <3>3, <4>1, <4>2
        <3> QED BY <3>1, <3>2, <3>3
    <2>2. CASE NicFrees
        <3>1. /\ UNCHANGED <<scenario, pc, queue_idx, rx, burst, tx, arrived, lost>>
              /\ nic' = {} /\ pool' = pool \cup nic
            BY <2>2 DEF NicFrees, coreVars
        <3>2. Queues' = Queues
            BY <3>1, QueuesNext DEF Queues
        <3>3. Owned(Queues, pool \cup nic, {}, lost)
            BY <1>1 DEF Ownership, Owned
        <3> QED BY <1>1, <3>1, <3>2, <3>3, AllSameControl
    <2>3. CASE Change
        BY <1>2, <2>3 DEF Change, portVars, coreVars
    <2>4. CASE Relaunch
        BY <1>2, <2>4 DEF Relaunch, portVars, coreVars
    <2>5. ASSUME NEW c \in Cores, Tick(c) PROVE Goal /\ SaysSo
        BY <1>2, <2>5 DEF Tick, portVars
    <2>6. ASSUME NEW c \in Cores, dpdk_main_loop(c) PROVE Goal /\ SaysSo
        <3>1. CASE main_loop_pre_rx(c)
            BY <1>1, <3>1, DrainMoves DEF Ownership
        <3>2. CASE do_rx(c)
            <4>1. /\ Control' /\ UNCHANGED <<nic, pool, lost>>
                  /\ \E n : MovesFirst(Queues, Queues', RxAt(Queue(c)), BurstAt(c), n)
                BY <1>1, <3>2, ReceiveMoves
            <4>2. Owned(Queues', pool, nic, lost)
                BY <1>1, <4>1, MoveFirstOwned DEF Ownership
            <4> QED BY <4>1, <4>2
        <3>3. CASE receive_packet(c)
            <4>1. Kept /\ pc[c] = "next" /\ pc' = [pc EXCEPT ![c] = "key"]
                BY <3>3 DEF receive_packet, portVars
            <4> QED BY <1>3, <4>1 DEF Handling
        <3>4. CASE table_key(c)
            BY <1>2, <3>4 DEF table_key, portVars
        <3>5. CASE apply(c)
            <4>1. Kept /\ pc[c] = "key"
                  /\ (UNCHANGED pc \/ \E v \in {"tx", "read"} : pc' = [pc EXCEPT ![c] = v])
                BY <3>5 DEF apply, portVars
            <4> QED BY <1>2, <1>3, <4>1 DEF Handling
        <3>6. CASE extern_register_read(c)
            <4>1. Kept /\ pc[c] = "read" /\ pc' = [pc EXCEPT ![c] = "write"]
                BY <3>6 DEF extern_register_read, portVars
            <4> QED BY <1>3, <4>1 DEF Handling
        <3>7. CASE extern_register_write(c)
            <4>1. Kept /\ pc[c] = "write" /\ pc' = [pc EXCEPT ![c] = "tx"]
                BY <3>7 DEF extern_register_write, portVars
            <4> QED BY <1>3, <4>1 DEF Handling
        <3>8. CASE do_single_tx(c)
            BY <3>8, TransmitBuffers
        <3> QED BY <2>6, <3>1, <3>2, <3>3, <3>4, <3>5, <3>6, <3>7, <3>8 DEF dpdk_main_loop
    <2>7. CASE UNCHANGED vars
        BY <1>2, <2>7 DEF vars, portVars, coreVars
    <2> QED BY <2>1, <2>2, <2>3, <2>4, <2>5, <2>6, <2>7 DEF Next
<1>5. lost' # {} => Says("broadcast")'
    <2>1. lost' # {} => Says("broadcast")
        BY <1>1, <1>4 DEF Ownership
    <2> QED BY <1>1, <2>1, StillSays
<1>6. Ownership'
    BY <1>4, <1>5 DEF Ownership, Owned, Apart, Members, NoTwice, Part, Mbufs, Place, RxQueue
<1> QED BY <1>1, <1>4, <1>6 DEF BuffersInv

(* What BuffersOwnedOnce says of pairs of positions.                         *)
LEMMA OwnedOnce ==
    ASSUME Ownership
    PROVE  BuffersOwnedOnce
<1>1. ASSUME NEW n \in Place PROVE QueueAt(n) = Queues[n]
    <2>1. QueueAt(n) = QueueOf(rx, burst, tx, n)
        BY Zenon DEF QueueAt, QueueOf
    <2> QED BY <2>1 DEF Queues, QueuesOf
<1>2. Owned(Queues, pool, nic, lost)
    BY DEF Ownership
<1>3. ASSUME NEW m \in Place, NEW n \in Place, NEW i \in DOMAIN QueueAt(m),
             NEW j \in DOMAIN QueueAt(n), <<m, i>> # <<n, j>>
      PROVE  QueueAt(m)[i][1] # QueueAt(n)[j][1]
    <2> DEFINE q == Queues[m]
               r == Queues[n]
    <2>1. QueueAt(m) = q /\ QueueAt(n) = r /\ i \in DOMAIN q /\ j \in DOMAIN r
        BY <1>1
    <2>2. CASE m = n
        <3>1. i # j /\ NoTwice(q, 1) /\ q = r
            BY <1>2, <1>3, <2>2 DEF Owned, Apart
        <3> QED BY <2>1, <3>1 DEF NoTwice
    <2>3. CASE m # n
        <3>1. Part(q, 1) \cap Part(r, 1) = {}
            BY <1>2, <2>3 DEF Owned, Apart
        <3>2. q[i][1] \in Part(q, 1) /\ r[j][1] \in Part(r, 1)
            BY <2>1 DEF Part
        <3> HIDE DEF q, r
        <3> QED BY <2>1, <3>1, <3>2
    <2> QED BY <2>2, <2>3
<1>4. \A n \in Place : Buffers(QueueAt(n)) = Part(Queues[n], 1)
    BY <1>1 DEF Buffers, Part
<1>5. \A n \in Place : Buffers(QueueAt(n)) \cap Unqueued = {}
    BY <1>2, <1>4 DEF Owned, Members, Unqueued
<1>6. (UNION {Buffers(QueueAt(n)) : n \in Place}) \cup Unqueued = Mbufs
    <2>1. UNION {Buffers(QueueAt(n)) : n \in Place} = Members(Queues, 1)
        BY <1>4 DEF Members
    <2> QED BY <1>2, <2>1 DEF Owned, Unqueued
<1>7. /\ pool \cap nic = {} /\ pool \cap lost = {} /\ nic \cap lost = {}
      /\ lost # {} => Says("broadcast")
    BY <1>2 DEF Owned, Ownership
<1> QED BY <1>3, <1>5, <1>6, <1>7 DEF BuffersOwnedOnce

(* A buffer is in one place at a time and none is forgotten, whatever part   *)
(* of a burst the driver takes (send_burst, dpdk_send_packet), but those of  *)
(* broadcasts (dpdk_lib.c, broadcast_packet).                                *)
THEOREM BuffersCorrect == Spec => []BuffersOwnedOnce
<1>1. BuffersInv => BuffersOwnedOnce
    BY OwnedOnce DEF BuffersInv
<1> QED BY <1>1, InitBuffers, NextBuffers, PTL DEF Spec
-----------------------------------------------------------------------------
(* The order of packets.  Those of a receive queue leave each port in the    *)
(* order in which they came, and none leaves twice, as long as no receive    *)
(* queue is given to two cores.  What a packet may overtake depends on where *)
(* it waits: it goes from its receive queue to a core, from there to one of  *)
(* the core's transmit queues, and out.                                      *)

(* A packet at m has been taken before those at n, *)
Earlier(m, n) == (m[1] = "tx" /\ n[1] # "tx") \/ (m[1] = "burst" /\ n[1] = "rx")

(* and those at n may still leave by port p. *)
Reaches(n, p) == n[1] # "tx" \/ n[2][2] = p

(* f says of each packet from which receive queue it is; o is what the ports *)
(* transmitted.                                                              *)
Line(f, Q, o) ==
    /\ \A n \in Place : Increasing(f, Q[n])
    /\ \A p \in Ports : Increasing(f, o[p])
    /\ \A m, n \in Place : Earlier(m, n) => Before(f, Part(Q[m], 2), Part(Q[n], 2))
    /\ \A p \in Ports : \A n \in Place :
          Reaches(n, p) => Before(f, Part(o[p], 2), Part(Q[n], 2))

(* w says which receive queues each core has. *)
Kept(w) == \A c, d \in Cores : c # d => w[c] \cap w[d] = {}

From(f, q, S) == \A x \in Part(q, 2) : f[x] \in S

Flows(f, w, Q) ==
    /\ \A q \in RxQueue : From(f, Q[RxAt(q)], {q})
    /\ \A c \in Cores : From(f, Q[BurstAt(c)], w[c])
    /\ \A c \in Cores, p \in Ports : From(f, Q[TxAt(c, p)], w[c])

(* No packet is twice in the queues and what left. *)
Once(Q, o, arr) ==
    /\ Apart(Q, 2) /\ Members(Q, 2) \subseteq 1 .. arr
    /\ \A p \in Ports : /\ NoTwice(o[p], 2) /\ Part(o[p], 2) \subseteq 1 .. arr
                        /\ Part(o[p], 2) \cap Members(Q, 2) = {}
    /\ \A p, r \in Ports : p # r => Part(o[p], 2) \cap Part(o[r], 2) = {}

InOrder(f, w, Q, o, arr) == Line(f, Q, o) /\ Flows(f, w, Q) /\ Once(Q, o, arr)

(* Fewer packets, or none, at the places. *)
Thins(f, Q, R) ==
    \A n \in Place : Part(R[n], 2) \subseteq Part(Q[n], 2) /\ Increasing(f, R[n])

LEMMA ThinnerLine ==
    ASSUME NEW f, NEW Q, NEW R, Thins(f, Q, R), NEW o, Line(f, Q, o)
    PROVE  Line(f, R, o)
<1>1. ASSUME NEW m \in Place, NEW n \in Place, Earlier(m, n)
      PROVE  Before(f, Part(R[m], 2), Part(R[n], 2))
    <2>1. Before(f, Part(Q[m], 2), Part(Q[n], 2))
        BY <1>1 DEF Line
    <2> QED BY <2>1 DEF Thins, Before
<1>2. ASSUME NEW p \in Ports, NEW n \in Place, Reaches(n, p)
      PROVE  Before(f, Part(o[p], 2), Part(R[n], 2))
    <2>1. Before(f, Part(o[p], 2), Part(Q[n], 2))
        BY <1>2 DEF Line
    <2> QED BY <2>1 DEF Thins, Before
<1> QED BY <1>1, <1>2 DEF Line, Thins

LEMMA ThinnerFlows ==
    ASSUME NEW f, NEW Q, NEW R, Thins(f, Q, R), NEW w, Flows(f, w, Q)
    PROVE  Flows(f, w, R)
BY PlacesDiffer DEF Flows, From, Thins

LEMMA ThinnerOnce ==
    ASSUME NEW f, NEW Q, NEW R, Thins(f, Q, R), Apart(R, 2), NEW o, NEW arr,
           Once(Q, o, arr)
    PROVE  Once(R, o, arr)
<1>1. Members(R, 2) \subseteq Members(Q, 2)
    BY DEF Members, Thins
<1> QED BY <1>1 DEF Once

(* A core drops the packet in hand. *)
LEMMA LoseOrder ==
    ASSUME NEW Q, NEW R, NEW n, NEW h, LosesHead(Q, R, n, h), NEW f, NEW w, NEW o, NEW arr,
           InOrder(f, w, Q, o, arr)
    PROVE  InOrder(f, w, R, o, arr)
<1>1. /\ Joined(Q[n], <<h>>, R[n]) /\ n \in Place
      /\ \A m \in Place : Part(R[m], 2) \subseteq Part(Q[m], 2)
      /\ Apart(R, 2)
    <2>1. Apart(Q, 2)
        BY DEF InOrder, Once
    <2>2. n \in Place
        BY DEF LosesHead
    <2> QED BY <2>1, <2>2, LoseHead
<1>2. ASSUME NEW m \in Place PROVE Increasing(f, R[m])
    <2>1. CASE m = n
        <3>1. Increasing(f, Q[n])
            BY <1>1 DEF InOrder, Line
        <3> QED BY <1>1, <2>1, <3>1, JoinedIncreasing
    <2>2. CASE m # n
        BY <2>2 DEF LosesHead, InOrder, Line
    <2> QED BY <2>1, <2>2
<1>3. Thins(f, Q, R)
    BY <1>1, <1>2 DEF Thins
<1> QED BY <1>1, <1>3, ThinnerLine, ThinnerFlows, ThinnerOnce DEF InOrder

(* do_rx: what a core takes from its receive queue comes before what stays.  *)
Took(Q, R, q, c) ==
    /\ Joined(Q[RxAt(q)], R[BurstAt(c)], R[RxAt(q)])
    /\ \A m \in Place \ {RxAt(q), BurstAt(c)} : R[m] = Q[m]

LEMMA TookParts ==
    ASSUME NEW Q, NEW R, NEW q \in RxQueue, NEW c \in Cores, Took(Q, R, q, c)
    PROVE  /\ Part(R[BurstAt(c)], 2) \subseteq Part(Q[RxAt(q)], 2)
           /\ Part(R[RxAt(q)], 2) \subseteq Part(Q[RxAt(q)], 2)
BY JoinedPart DEF Took

LEMMA ReceiveLine ==
    ASSUME NEW Q, NEW R, NEW q \in RxQueue, NEW c \in Cores, Took(Q, R, q, c),
           NEW f, NEW w, NEW o, Line(f, Q, o), Flows(f, w, Q)
    PROVE  Line(f, R, o)
<1> DEFINE a == RxAt(q)
           b == BurstAt(c)
<1>1. /\ a \in Place /\ b \in Place /\ a # b /\ a[1] = "rx" /\ b[1] = "burst"
    BY PlacesDiffer DEF RxAt, BurstAt
<1>2. /\ Part(R[b], 2) \subseteq Part(Q[a], 2) /\ Part(R[a], 2) \subseteq Part(Q[a], 2)
      /\ \A m \in Place \ {a, b} : R[m] = Q[m]
    BY TookParts DEF Took
<1>3. Increasing(f, R[b]) /\ Increasing(f, R[a]) /\ Before(f, Part(R[b], 2), Part(R[a], 2))
    <2>1. Increasing(f, Q[a]) /\ Joined(Q[a], R[b], R[a])
        BY <1>1 DEF Line, Took
    <2> QED BY <2>1, JoinedIncreasing
<1>4. ASSUME NEW m \in Place PROVE Increasing(f, R[m])
    BY <1>2, <1>3 DEF Line
<1>5. ASSUME NEW m \in Place, NEW n \in Place, Earlier(m, n)
      PROVE  Before(f, Part(R[m], 2), Part(R[n], 2))
    <2>1. m # a /\ (n = b => Earlier(m, a)) /\ (m = b => n[1] = "rx")
        BY <1>1, <1>5 DEF Earlier
    <2>2. CASE m = b /\ n = a
        BY <1>3, <2>2
    <2>3. CASE m = b /\ n # a
        <3>1. PICK s \in RxQueue : n = RxAt(s)
            BY <2>1, <2>3, PlaceCases DEF BurstAt, TxAt
        <3>2. s # q /\ n # b
            BY <2>3, <3>1, PlacesDiffer
        <3>3. \A x \in Part(R[m], 2) : f[x] = q
            BY <1>2, <2>3 DEF Flows, From
        <3>4. \A y \in Part(R[n], 2) : f[y] = s
            BY <1>2, <2>3, <3>1, <3>2 DEF Flows, From
        <3> QED BY <3>2, <3>3, <3>4 DEF Before
    <2>4. CASE m # b /\ n \in {a, b}
        <3>1. Before(f, Part(Q[m], 2), Part(Q[a], 2)) /\ R[m] = Q[m]
            BY <1>1, <1>2, <1>5, <2>1, <2>4 DEF Line
        <3> QED BY <1>2, <2>4, <3>1 DEF Before
    <2>5. CASE m # b /\ n \notin {a, b}
        BY <1>2, <1>5, <2>1, <2>5 DEF Line
    <2> QED BY <2>2, <2>3, <2>4, <2>5
<1>6. ASSUME NEW p \in Ports, NEW n \in Place, Reaches(n, p)
      PROVE  Before(f, Part(o[p], 2), Part(R[n], 2))
    <2>1. Before(f, Part(o[p], 2), Part(Q[a], 2)) /\ Before(f, Part(o[p], 2), Part(Q[n], 2))
        BY <1>1, <1>6 DEF Line, Reaches
    <2>2. CASE n \in {a, b}
        BY <1>2, <2>1, <2>2 DEF Before
    <2>3. CASE n \notin {a, b}
        BY <1>2, <2>1, <2>3
    <2> QED BY <2>2, <2>3
<1> QED BY <1>4, <1>5, <1>6 DEF Line

LEMMA ReceiveFlows ==
    ASSUME NEW Q, NEW R, NEW q \in RxQueue, NEW c \in Cores, Took(Q, R, q, c),
           NEW f, NEW w, q \in w[c], Flows(f, w, Q)
    PROVE  Flows(f, w, R)
<1>1. /\ Part(R[BurstAt(c)], 2) \subseteq Part(Q[RxAt(q)], 2)
      /\ Part(R[RxAt(q)], 2) \subseteq Part(Q[RxAt(q)], 2)
      /\ \A m \in Place \ {RxAt(q), BurstAt(c)} : R[m] = Q[m]
    BY TookParts DEF Took
<1>2. ASSUME NEW s \in RxQueue PROVE From(f, R[RxAt(s)], {s})
    <2>1. CASE s = q
        BY <1>1, <2>1 DEF Flows, From
    <2>2. CASE s # q
        BY <1>1, <2>2, PlacesDiffer DEF Flows
    <2> QED BY <2>1, <2>2
<1>3. ASSUME NEW d \in Cores PROVE From(f, R[BurstAt(d)], w[d])
    <2>1. CASE d = c
        <3>1. From(f, Q[RxAt(q)], {q})
            BY DEF Flows
        <3> QED BY <1>1, <2>1, <3>1 DEF From
    <2>2. CASE d # c
        BY <1>1, <2>2, PlacesDiffer DEF Flows
    <2> QED BY <2>1, <2>2
<1>4. ASSUME NEW d \in Cores, NEW p \in Ports PROVE From(f, R[TxAt(d, p)], w[d])
    BY <1>1, PlacesDiffer DEF Flows
<1> QED BY <1>2, <1>3, <1>4 DEF Flows

LEMMA ReceiveOrder ==
    ASSUME NEW Q, NEW R, NEW q \in RxQueue, NEW c \in Cores, NEW n,
           MovesFirst(Q, R, RxAt(q), BurstAt(c), n),
           NEW f, NEW w, q \in w[c], NEW o, NEW arr, InOrder(f, w, Q, o, arr)
    PROVE  InOrder(f, w, R, o, arr)
<1> DEFINE P(k) == /\ Joined(Q[RxAt(q)], R[BurstAt(c)], R[RxAt(q)])
                   /\ Members(R, k) = Members(Q, k)
                   /\ Apart(Q, k) => Apart(R, k)
<1>1. \A k : P(k)
    BY MoveFirst
<1>2. P(2)
    <2> HIDE DEF P
    <2> QED BY <1>1
<1>3. Took(Q, R, q, c)
    BY <1>2 DEF Took, MovesFirst
<1>4. Once(R, o, arr)
    BY <1>2 DEF InOrder, Once
<1> QED BY <1>3, <1>4, ReceiveLine, ReceiveFlows DEF InOrder

(* A packet arrives, the last of all so far. *)
LEMMA ArriveOrder ==
    ASSUME NEW Q, NEW R, NEW q \in RxQueue, NEW x, Grows(Q, R, RxAt(q), x),
           NEW arr \in Nat, x[2] = arr + 1,
           NEW f, NEW w, f[arr + 1] = q, NEW o, InOrder(f, w, Q, o, arr)
    PROVE  InOrder(f, w, R, o, arr + 1)
<1> DEFINE a == RxAt(q)
           P(k) == /\ R \in [Place -> Seq(Item)]
                   /\ Members(R, k) = Members(Q, k) \cup {x[k]}
                   /\ Apart(Q, k) /\ x[k] \notin Members(Q, k) => Apart(R, k)
<1>1. P(2)
    <2>1. \A k : P(k)
        BY Grow
    <2> HIDE DEF P
    <2> QED BY <2>1
<1>2. /\ a \in Place /\ a[1] = "rx"
    BY PlacesDiffer DEF RxAt
<1>3. /\ Joined(R[a], Q[a], <<x>>) /\ \A m \in Place \ {a} : R[m] = Q[m]
    BY <1>2, JoinedAppend DEF Grows
<1>4. Part(R[a], 2) = Part(Q[a], 2) \cup {arr + 1}
    BY <1>3, JoinedPart, One
<1>5. /\ \A n \in Place : Part(Q[n], 2) \subseteq 1 .. arr
      /\ \A p \in Ports : Part(o[p], 2) \subseteq 1 .. arr
    BY DEF InOrder, Once, Members
<1>6. /\ \A n \in Place : Before(f, Part(Q[n], 2), {arr + 1})
      /\ \A p \in Ports : Before(f, Part(o[p], 2), {arr + 1})
    <2>1. ASSUME NEW S, S \subseteq 1 .. arr PROVE Before(f, S, {arr + 1})
        BY <2>1 DEF Before
    <2> QED BY <1>5, <2>1
<1>7. Line(f, R, o)
    <2>1. Increasing(f, R[a])
        <3>1. Increasing(f, Q[a]) /\ Increasing(f, <<x>>)
            BY <1>2, OneIncreasing DEF InOrder, Line
        <3>2. Before(f, Part(Q[a], 2), Part(<<x>>, 2))
            BY <1>2, <1>6, One
        <3> QED BY <1>3, <3>1, <3>2, JoinedIncreasing
    <2>2. ASSUME NEW n \in Place PROVE Increasing(f, R[n])
        BY <1>3, <2>1 DEF InOrder, Line
    <2>3. ASSUME NEW m \in Place, NEW n \in Place, Earlier(m, n)
          PROVE  Before(f, Part(R[m], 2), Part(R[n], 2))
        <3>1. R[m] = Q[m] /\ Before(f, Part(Q[m], 2), Part(Q[n], 2))
            BY <1>2, <1>3, <2>3 DEF Earlier, InOrder, Line
        <3>2. Part(R[n], 2) \subseteq Part(Q[n], 2) \cup {arr + 1}
            BY <1>3, <1>4
        <3> QED BY <1>6, <3>1, <3>2 DEF Before
    <2>4. ASSUME NEW p \in Ports, NEW n \in Place, Reaches(n, p)
          PROVE  Before(f, Part(o[p], 2), Part(R[n], 2))
        <3>1. Before(f, Part(o[p], 2), Part(Q[n], 2))
            BY <2>4 DEF InOrder, Line
        <3>2. Part(R[n], 2) \subseteq Part(Q[n], 2) \cup {arr + 1}
            BY <1>3, <1>4
        <3> QED BY <1>6, <3>1, <3>2 DEF Before
    <2> QED BY <2>2, <2>3, <2>4 DEF InOrder, Line
<1>8. Flows(f, w, R)
    <2>1. ASSUME NEW s \in RxQueue PROVE From(f, R[RxAt(s)], {s})
        <3>1. CASE s = q
            <4>1. From(f, Q[a], {q})
                BY DEF InOrder, Flows
            <4> QED BY <1>4, <3>1, <4>1 DEF From
        <3>2. CASE s # q
            BY <1>3, <3>2, PlacesDiffer DEF InOrder, Flows
        <3> QED BY <3>1, <3>2
    <2> QED BY <1>3, <2>1, PlacesDiffer DEF InOrder, Flows
<1>9. Once(R, o, arr + 1)
    <2>1. arr + 1 \notin Members(Q, 2)
        BY DEF InOrder, Once
    <2>2. Apart(R, 2)
        BY <1>1, <2>1 DEF InOrder, Once
    <2>3. Members(R, 2) \subseteq 1 .. arr + 1
        BY <1>1 DEF InOrder, Once
    <2>4. \A p \in Ports : Part(o[p], 2) \subseteq 1 .. arr + 1
        BY <1>5
    <2>5. ASSUME NEW p \in Ports PROVE Part(o[p], 2) \cap Members(R, 2) = {}
        <3>1. Part(o[p], 2) \cap Members(Q, 2) = {} /\ arr + 1 \notin Part(o[p], 2)
            BY <1>5 DEF InOrder, Once
        <3>2. Members(R, 2) = Members(Q, 2) \cup {arr + 1}
            BY <1>1
        <3> QED BY <3>1, <3>2
    <2> QED BY <2>2, <2>3, <2>4, <2>5 DEF InOrder, Once
<1> QED BY <1>7, <1>8, <1>9 DEF InOrder

(* add_packet_to_queue: the packet in hand is the last of its queue, behind  *)
(* those its core has put there and before all that have not been put there. *)
LEMMA ShiftOrder ==
    ASSUME NEW Q, NEW R, NEW S, NEW c \in Cores, NEW p \in Ports, NEW h,
           LosesHead(Q, R, BurstAt(c), h), Grows(R, S, TxAt(c, p), h),
           NEW f, NEW w, Kept(w), NEW o, NEW arr, InOrder(f, w, Q, o, arr)
    PROVE  InOrder(f, w, S, o, arr)
<1> DEFINE b == BurstAt(c)
           t == TxAt(c, p)
           L(k) == /\ Joined(Q[b], <<h>>, R[b])
                   /\ Members(Q, k) = Members(R, k) \cup {h[k]}
                   /\ Apart(Q, k) => Apart(R, k) /\ h[k] \notin Members(R, k)
           G(k) == /\ Members(S, k) = Members(R, k) \cup {h[k]}
                   /\ Apart(R, k) /\ h[k] \notin Members(R, k) => Apart(S, k)
<1>1. L(2) /\ G(2)
    <2>1. (\A k : L(k)) /\ (\A k : G(k))
        BY LoseHead, Grow
    <2> HIDE DEF L, G
    <2> QED BY <2>1
<1>2. InOrder(f, w, R, o, arr)
    BY LoseOrder
<1>3. b \in Place /\ t \in Place /\ b # t /\ b[1] = "burst" /\ t[1] = "tx"
    BY PlacesDiffer DEF BurstAt, TxAt
<1>4. /\ \A m \in Place \ {b} : R[m] = Q[m]
      /\ \A m \in Place \ {t} : S[m] = R[m]
      /\ Joined(S[t], R[t], <<h>>)
    BY <1>3, JoinedAppend DEF LosesHead, Grows
<1>5. /\ Part(S[t], 2) = Part(R[t], 2) \cup {h[2]} /\ h[2] \in Part(Q[b], 2)
      /\ Before(f, {h[2]}, Part(R[b], 2))
    <2>1. Part(<<h>>, 2) = {h[2]}
        BY One
    <2>2. Increasing(f, Q[b])
        BY <1>3 DEF InOrder, Line
    <2> QED BY <1>1, <1>4, <2>1, <2>2, JoinedPart, JoinedIncreasing
<1>6. f[h[2]] \in w[c]
    BY <1>5 DEF InOrder, Flows, From
<1>7. /\ Before(f, Part(R[t], 2), {h[2]})
      /\ \A r \in Ports : Before(f, Part(o[r], 2), {h[2]})
    <2>1. Before(f, Part(Q[t], 2), Part(Q[b], 2)) /\ R[t] = Q[t]
        BY <1>3, <1>4 DEF InOrder, Line, Earlier
    <2>2. \A r \in Ports : Before(f, Part(o[r], 2), Part(Q[b], 2))
        BY <1>3 DEF InOrder, Line, Reaches
    <2> QED BY <1>5, <2>1, <2>2 DEF Before
<1>8. ASSUME NEW n \in Place, n[1] # "tx" PROVE Before(f, {h[2]}, Part(R[n], 2))
    <2>1. CASE n = b
        BY <1>5, <2>1
    <2>2. CASE \E d \in Cores \ {c} : n = BurstAt(d)
        <3>1. PICK d \in Cores \ {c} : n = BurstAt(d)
            BY <2>2
        <3>2. \A y \in Part(R[n], 2) : f[y] \in w[d]
            BY <1>2, <3>1 DEF InOrder, Flows, From
        <3>3. w[c] \cap w[d] = {}
            BY DEF Kept
        <3> QED BY <1>6, <3>2, <3>3 DEF Before
    <2>3. CASE \E q \in RxQueue : n = RxAt(q)
        <3>1. n # b /\ Earlier(b, n)
            BY <1>3, <2>3 DEF RxAt, Earlier
        <3>2. Before(f, Part(Q[b], 2), Part(Q[n], 2)) /\ R[n] = Q[n]
            BY <1>3, <1>4, <3>1 DEF InOrder, Line
        <3> QED BY <1>5, <3>2 DEF Before
    <2> QED BY <1>8, <2>1, <2>2, <2>3, PlaceCases DEF TxAt
<1>9. Line(f, S, o)
    <2>1. Increasing(f, S[t])
        <3>1. Increasing(f, R[t]) /\ Increasing(f, <<h>>) /\ Part(<<h>>, 2) = {h[2]}
            BY <1>2, <1>3, One, OneIncreasing DEF InOrder, Line
        <3> QED BY <1>4, <1>7, <3>1, JoinedIncreasing
    <2>2. ASSUME NEW n \in Place PROVE Increasing(f, S[n])
        BY <1>2, <1>4, <2>1 DEF InOrder, Line
    <2>3. ASSUME NEW m \in Place, NEW n \in Place, Earlier(m, n)
          PROVE  Before(f, Part(S[m], 2), Part(S[n], 2))
        <3>1. n # t /\ n[1] # "tx" /\ S[n] = R[n]
            BY <1>3, <1>4, <2>3 DEF Earlier
        <3>2. Before(f, Part(R[m], 2), Part(R[n], 2))
            BY <1>2, <2>3 DEF InOrder, Line
        <3>3. Part(S[m], 2) \subseteq Part(R[m], 2) \cup {h[2]}
            BY <1>4, <1>5
        <3> QED BY <1>8, <3>1, <3>2, <3>3 DEF Before
    <2>4. ASSUME NEW r \in Ports, NEW n \in Place, Reaches(n, r)
          PROVE  Before(f, Part(o[r], 2), Part(S[n], 2))
        <3>1. Before(f, Part(o[r], 2), Part(R[n], 2))
            BY <1>2, <2>4 DEF InOrder, Line
        <3>2. Part(S[n], 2) \subseteq Part(R[n], 2) \cup {h[2]}
            BY <1>4, <1>5
        <3> QED BY <1>7, <3>1, <3>2 DEF Before
    <2> QED BY <1>2, <2>2, <2>3, <2>4 DEF InOrder, Line
<1>10. Flows(f, w, S)
    <2>1. ASSUME NEW d \in Cores, NEW r \in Ports PROVE From(f, S[TxAt(d, r)], w[d])
        <3>1. From(f, R[TxAt(d, r)], w[d])
            BY <1>2 DEF InOrder, Flows
        <3>2. CASE d = c /\ r = p
            BY <1>5, <1>6, <3>1, <3>2 DEF From
        <3>3. CASE ~(d = c /\ r = p)
            BY <1>4, <3>1, <3>3, PlacesDiffer
        <3> QED BY <3>2, <3>3
    <2> QED BY <1>2, <1>4, <2>1, PlacesDiffer DEF InOrder, Flows
<1>11. Once(S, o, arr)
    <2>1. Apart(Q, 2)
        BY DEF InOrder, Once
    <2>2. Apart(S, 2) /\ Members(S, 2) = Members(Q, 2)
        BY <1>1, <2>1
    <2> QED BY <2>2 DEF InOrder, Once
<1> QED BY <1>9, <1>10, <1>11 DEF InOrder

(* What a port transmits are the same packets, with the core that sent them. *)
Twin(u, s) == IsSeq(u) /\ IsSeq(s) /\ Len(u) = Len(s) /\ \A i \in DOMAIN s : u[i][2] = s[i][2]

LEMMA TwinSame ==
    ASSUME NEW u, NEW s, Twin(u, s)
    PROVE  /\ Part(u, 2) = Part(s, 2) /\ (NoTwice(u, 2) <=> NoTwice(s, 2))
           /\ \A f : Increasing(f, u) <=> Increasing(f, s)
<1>1. DOMAIN u = DOMAIN s /\ \A i \in DOMAIN s : u[i][2] = s[i][2]
    BY DEF Twin, IsSeq
<1> QED BY <1>1 DEF Part, NoTwice, Increasing

(* b is a, and behind it the first of the packets of q. *)
Extends(a, b, q) == \E s, t, u : Joined(q, s, t) /\ Twin(u, s) /\ Joined(b, a, u)

LEMMA ExtendsIs ==
    ASSUME NEW a, NEW b, NEW q, Extends(a, b, q)
    PROVE  /\ Part(b, 2) \subseteq Part(a, 2) \cup Part(q, 2)
           /\ \A f : /\ Increasing(f, a) /\ Increasing(f, q)
                     /\ Before(f, Part(a, 2), Part(q, 2))
                     => Increasing(f, b)
           /\ /\ NoTwice(a, 2) /\ NoTwice(q, 2) /\ Part(a, 2) \cap Part(q, 2) = {}
              => NoTwice(b, 2)
<1>1. PICK s, t, u : Joined(q, s, t) /\ Twin(u, s) /\ Joined(b, a, u)
    BY DEF Extends
<1>2. /\ Part(b, 2) = Part(a, 2) \cup Part(s, 2) /\ Part(s, 2) \subseteq Part(q, 2)
      /\ Part(u, 2) = Part(s, 2)
    BY <1>1, JoinedPart, TwinSame
<1>3. ASSUME NEW f, Increasing(f, a), Increasing(f, q), Before(f, Part(a, 2), Part(q, 2))
      PROVE  Increasing(f, b)
    <2>1. Increasing(f, s)
        BY <1>1, <1>3, JoinedIncreasing
    <2>2. Increasing(f, u)
        BY <1>1, <2>1, TwinSame
    <2>3. Before(f, Part(a, 2), Part(u, 2))
        BY <1>2, <1>3 DEF Before
    <2> QED BY <1>1, <1>3, <2>2, <2>3, JoinedIncreasing
<1>4. ASSUME NoTwice(a, 2), NoTwice(q, 2), Part(a, 2) \cap Part(q, 2) = {}
      PROVE  NoTwice(b, 2)
    <2>1. NoTwice(u, 2)
        <3>1. NoTwice(s, 2)
            BY <1>1, <1>4, JoinedNoTwice
        <3> QED BY <1>1, <3>1, TwinSame
    <2>2. Part(a, 2) \cap Part(u, 2) = {}
        BY <1>2, <1>4
    <2> QED BY <1>1, <1>4, <2>1, <2>2, JoinedNoTwice
<1> QED BY <1>2, <1>3, <1>4

(* send_burst: a port transmits the first of a queue and the rest is freed.  *)
Leave(Q, c, ps, o, o2) ==
    \A p \in Ports : IF p \in ps THEN Extends(o[p], o2[p], Q[TxAt(c, p)]) ELSE o2[p] = o[p]

LEMMA EmptiedIs ==
    ASSUME NEW Q, NEW R, NEW c \in Cores, NEW ps \in SUBSET Ports, Empties(Q, R, TxOf(c, ps)),
           Apart(Q, 2)
    PROVE  /\ \A p \in ps : R[TxAt(c, p)] = << >>
           /\ \A n \in Place : R[n] = Q[n] \/ R[n] = << >>
           /\ \A n \in Place : (\A p \in ps : n # TxAt(c, p)) => R[n] = Q[n]
           /\ Apart(R, 2)
           /\ \A p \in ps : Members(R, 2) \cap Part(Q[TxAt(c, p)], 2) = {}
<1> DEFINE E == TxOf(c, ps)
           P(k) == Apart(Q, k) => /\ Apart(R, k)
                                  /\ Members(R, k) \cap UNION {Part(Q[n], k) : n \in E} = {}
<1>1. P(2)
    <2>1. \A k : P(k)
        BY Empty
    <2> HIDE DEF P
    <2> QED BY <2>1
<1>2. \A p \in ps : TxAt(c, p) \in E /\ TxAt(c, p) \in Place
    BY PlacesDiffer DEF TxOf
<1>3. \A p \in ps : Part(Q[TxAt(c, p)], 2) \subseteq UNION {Part(Q[n], 2) : n \in E}
    BY <1>2
<1>4. \A n \in Place : R[n] = IF n \in E THEN << >> ELSE Q[n]
    BY DEF Empties
<1>5. \A n \in Place : (\A p \in ps : n # TxAt(c, p)) => n \notin E
    BY DEF TxOf
<1> HIDE DEF E
<1> QED BY <1>1, <1>2, <1>3, <1>4, <1>5

LEMMA SendOrder ==
    ASSUME NEW Q, NEW R, NEW c \in Cores, NEW ps \in SUBSET Ports, Empties(Q, R, TxOf(c, ps)),
           NEW o, NEW o2, Leave(Q, c, ps, o, o2),
           NEW f, NEW w, Kept(w), NEW arr, InOrder(f, w, Q, o, arr)
    PROVE  InOrder(f, w, R, o2, arr)
<1>1. /\ \A p \in ps : R[TxAt(c, p)] = << >>
      /\ \A n \in Place : R[n] = Q[n] \/ R[n] = << >>
      /\ \A n \in Place : (\A p \in ps : n # TxAt(c, p)) => R[n] = Q[n]
      /\ Apart(R, 2)
      /\ \A p \in ps : Members(R, 2) \cap Part(Q[TxAt(c, p)], 2) = {}
    <2>1. Apart(Q, 2)
        BY DEF InOrder, Once
    <2> QED BY <2>1, EmptiedIs
<1>2. Thins(f, Q, R)
    BY <1>1, None, NoneIncreasing DEF Thins, InOrder, Line
<1>3. InOrder(f, w, R, o, arr)
    BY <1>1, <1>2, ThinnerLine, ThinnerFlows, ThinnerOnce DEF InOrder
<1>4. ASSUME NEW p \in ps
      PROVE  /\ TxAt(c, p) \in Place /\ Increasing(f, Q[TxAt(c, p)])
             /\ Before(f, Part(o[p], 2), Part(Q[TxAt(c, p)], 2))
             /\ NoTwice(Q[TxAt(c, p)], 2)
             /\ Part(Q[TxAt(c, p)], 2) \subseteq Members(Q, 2)
    <2>1. TxAt(c, p) \in Place /\ Reaches(TxAt(c, p), p) /\ p \in Ports
        BY PlacesDiffer DEF TxAt, Reaches
    <2> QED BY <2>1 DEF InOrder, Line, Once, Apart, Members
<1>5. ASSUME NEW p \in Ports
      PROVE  /\ Part(o2[p], 2) \subseteq
                    Part(o[p], 2) \cup (IF p \in ps THEN Part(Q[TxAt(c, p)], 2) ELSE {})
             /\ Increasing(f, o2[p]) /\ NoTwice(o2[p], 2)
    <2>1. Increasing(f, o[p]) /\ NoTwice(o[p], 2) /\ Part(o[p], 2) \cap Members(Q, 2) = {}
        BY DEF InOrder, Line, Once
    <2>2. CASE p \in ps
        <3>1. Extends(o[p], o2[p], Q[TxAt(c, p)])
            BY <2>2 DEF Leave
        <3>2. Part(o[p], 2) \cap Part(Q[TxAt(c, p)], 2) = {}
            BY <1>4, <2>1, <2>2
        <3> QED BY <1>4, <2>1, <2>2, <3>1, <3>2, ExtendsIs
    <2>3. CASE p \notin ps
        BY <2>1, <2>3 DEF Leave
    <2> QED BY <2>2, <2>3
<1>6. Line(f, R, o2)
    <2>1. ASSUME NEW p \in Ports, NEW n \in Place, Reaches(n, p)
          PROVE  Before(f, Part(o2[p], 2), Part(R[n], 2))
        <3>1. Before(f, Part(o[p], 2), Part(R[n], 2))
            BY <1>3, <2>1 DEF InOrder, Line
        <3>2. ASSUME p \in ps PROVE Before(f, Part(Q[TxAt(c, p)], 2), Part(R[n], 2))
            <4> DEFINE t == TxAt(c, p)
            <4>1. CASE n = t
                BY <1>1, <3>2, <4>1, None DEF Before
            <4>2. CASE \E d \in Cores \ {c}, r \in Ports : n = TxAt(d, r)
                <5>1. PICK d \in Cores \ {c}, r \in Ports : n = TxAt(d, r)
                    BY <4>2
                <5>2. \A y \in Part(R[n], 2) : f[y] \in w[d]
                    BY <1>3, <5>1 DEF InOrder, Flows, From
                <5>3. \A x \in Part(Q[t], 2) : f[x] \in w[c]
                    BY DEF InOrder, Flows, From
                <5>4. w[c] \cap w[d] = {}
                    BY DEF Kept
                <5> QED BY <5>2, <5>3, <5>4 DEF Before
            <4>3. CASE n[1] # "tx"
                <5>1. Earlier(t, n) /\ t \in Place
                    BY <1>4, <3>2, <4>3 DEF TxAt, Earlier
                <5>2. Before(f, Part(Q[t], 2), Part(Q[n], 2))
                    BY <5>1 DEF InOrder, Line
                <5>3. Part(R[n], 2) \subseteq Part(Q[n], 2)
                    BY <1>2 DEF Thins
                <5> QED BY <5>2, <5>3 DEF Before
            <4>4. n[1] = "tx" => n = t \/ \E d \in Cores \ {c}, r \in Ports : n = TxAt(d, r)
                <5>1. CASE \E d \in Cores, r \in Ports : n = TxAt(d, r)
                    BY <2>1, <5>1 DEF TxAt, Reaches
                <5> QED BY <5>1, PlaceCases DEF RxAt, BurstAt
            <4> QED BY <4>1, <4>2, <4>3, <4>4
        <3>3. CASE p \in ps
            BY <1>5, <3>1, <3>2, <3>3 DEF Before
        <3>4. CASE p \notin ps
            BY <1>5, <3>1, <3>4 DEF Before
        <3> QED BY <3>3, <3>4
    <2> QED BY <1>3, <1>5, <2>1 DEF InOrder, Line
<1>7. Once(R, o2, arr)
    <2>1. /\ Members(Q, 2) \subseteq 1 .. arr
          /\ \A p \in Ports : /\ Part(o[p], 2) \subseteq 1 .. arr
                              /\ Part(o[p], 2) \cap Members(Q, 2) = {}
                              /\ Part(o[p], 2) \cap Members(R, 2) = {}
          /\ \A p, r \in Ports : p # r => Part(o[p], 2) \cap Part(o[r], 2) = {}
        BY <1>3 DEF InOrder, Once
    <2>2. ASSUME NEW p \in Ports
          PROVE  Part(o2[p], 2) \subseteq 1 .. arr /\ Part(o2[p], 2) \cap Members(R, 2) = {}
        BY <1>1, <1>4, <1>5, <2>1
    <2>3. ASSUME NEW p \in ps, NEW r \in ps, p # r
          PROVE  Part(Q[TxAt(c, p)], 2) \cap Part(Q[TxAt(c, r)], 2) = {}
        <3>1. TxAt(c, p) # TxAt(c, r) /\ TxAt(c, p) \in Place /\ TxAt(c, r) \in Place
            BY <1>4, <2>3, PlacesDiffer
        <3> QED BY <3>1 DEF InOrder, Once, Apart
    <2>4. ASSUME NEW p \in Ports, NEW r \in Ports, p # r
          PROVE  Part(o2[p], 2) \cap Part(o2[r], 2) = {}
        <3> DEFINE U(x) == IF x \in ps THEN Part(Q[TxAt(c, x)], 2) ELSE {}
        <3>1. U(p) \cap U(r) = {}
            BY <2>3, <2>4
        <3>2. U(p) \subseteq Members(Q, 2) /\ U(r) \subseteq Members(Q, 2)
            BY <1>4
        <3>3. /\ Part(o2[p], 2) \subseteq Part(o[p], 2) \cup U(p)
              /\ Part(o2[r], 2) \subseteq Part(o[r], 2) \cup U(r)
            BY <1>5
        <3>4. /\ Part(o[p], 2) \cap Members(Q, 2) = {} /\ Part(o[r], 2) \cap Members(Q, 2) = {}
              /\ Part(o[p], 2) \cap Part(o[r], 2) = {}
            BY <2>1, <2>4
        <3> HIDE DEF U
        <3> QED BY <3>1, <3>2, <3>3, <3>4
    <2> QED BY <1>1, <1>3, <1>5, <2>2, <2>4 DEF InOrder, Once
<1> QED BY <1>3, <1>6, <1>7 DEF InOrder
-----------------------------------------------------------------------------
(* The steps of the cores.                                                   *)

(* What DPDK asks of lcore_params, and check_lcore_params does not check.    *)
OneCoreEach ==
    \A q, r \in Range(scenario.params) :
        q.port = r.port /\ q.queue = r.queue => q.lcore = r.lcore

FlowOf == [x \in DOMAIN scenario.packets |->
              <<scenario.packets[x].port, scenario.packets[x].queue>>]

Given == [c \in Cores |-> {<<q.port, q.queue>> :
                              q \in {r \in Range(scenario.params) : r.lcore = c}}]

LEMMA GivenKept == OneCoreEach => Kept(Given)
BY DEF OneCoreEach, Kept, Given

Sent == Cores \X Nat

OutSorts == out \in [Ports -> Seq(Sent)]

OrderInv ==
    /\ BuffersInv /\ OutSorts
    /\ OneCoreEach => InOrder(FlowOf, Given, Queues, out, arrived)

(* A port transmits the first n of a queue. *)
LEMMA SendsOne ==
    ASSUME NEW a \in Seq(Sent), NEW q \in Seq(Item), NEW n \in 0 .. Len(q), NEW c \in Cores,
           NEW b, b = a \o [i \in 1 .. n |-> <<c, q[i][2]>>]
    PROVE  Extends(a, b, q) /\ b \in Seq(Sent)
<1> DEFINE s == SubSeq(q, 1, n)
           t == SubSeq(q, n + 1, Len(q))
           u == [i \in 1 .. n |-> <<c, q[i][2]>>]
<1>1. Joined(q, s, t) /\ Len(s) = n
    BY JoinedSplit
<1>2. u \in Seq(Sent) /\ Len(u) = n /\ DOMAIN u = 1 .. n
    <2>1. \A i \in 1 .. n : q[i] \in Item
        OBVIOUS
    <2>2. \A i \in 1 .. n : <<c, q[i][2]>> \in Sent
        BY <2>1 DEF Sent, Item
    <2>3. n \in Nat
        OBVIOUS
    <2> QED BY <2>2, <2>3
<1>3. Joined(b, a, u) /\ b \in Seq(Sent)
    BY <1>2, JoinedConcat
<1>4. Twin(u, s)
    <2>1. IsSeq(s) /\ \A i \in 1 .. n : s[i] = q[i]
        BY <1>1 DEF Joined
    <2>2. DOMAIN s = 1 .. n
        BY <1>1, <2>1 DEF IsSeq
    <2>3. IsSeq(u)
        BY <1>2 DEF IsSeq
    <2> QED BY <1>1, <1>2, <2>1, <2>2, <2>3 DEF Twin
<1> HIDE DEF s, t, u
<1> QED BY <1>1, <1>3, <1>4 DEF Extends

LEMMA SendsLeave ==
    ASSUME OutSorts, NEW c \in Cores, NEW ps \in SUBSET Ports, NEW q, NEW ret,
           SendsOf(c, ps, q, ret), NEW Q \in [Place -> Seq(Item)],
           \A p \in ps : q[p] = Q[TxAt(c, p)]
    PROVE  Leave(Q, c, ps, out, out') /\ OutSorts'
<1>1. ASSUME NEW p \in ps PROVE Extends(out[p], out'[p], Q[TxAt(c, p)]) /\ out'[p] \in Seq(Sent)
    <2>1. /\ out[p] \in Seq(Sent) /\ Q[TxAt(c, p)] \in Seq(Item) /\ q[p] = Q[TxAt(c, p)]
          /\ p \in Ports
        BY PlacesDiffer DEF OutSorts
    <2>2. ret[p] \in 0 .. Burst /\ ret[p] <= Len(q[p]) /\ Burst \in Nat
        BY ConstAssumption DEF SendsOf
    <2>3. ret[p] \in 0 .. Len(q[p])
        BY <2>1, <2>2
    <2>4. out'[p] = out[p] \o [i \in 1 .. ret[p] |-> <<c, q[p][i][2]>>]
        BY <2>1 DEF SendsOf
    <2> QED BY <2>1, <2>3, <2>4, SendsOne
<1>2. ASSUME NEW p \in Ports, p \notin ps PROVE out'[p] = out[p] /\ out'[p] \in Seq(Sent)
    BY <1>2 DEF SendsOf, OutSorts
<1>3. out' = [p \in Ports |-> out'[p]]
    BY DEF SendsOf
<1>4. OutSorts'
    <2>1. \A p \in Ports : out'[p] \in Seq(Sent)
        BY <1>1, <1>2
    <2> QED BY <1>3, <2>1 DEF OutSorts
<1> QED BY <1>1, <1>2, <1>4 DEF Leave

(* The steps that move no packet. *)
LEMMA SameOrder ==
    ASSUME OrderInv, Queues' = Queues, UNCHANGED <<scenario, out, arrived>>
    PROVE  /\ OutSorts'
           /\ OneCoreEach' => InOrder(FlowOf, Given, Queues, out, arrived)'
<1>1. FlowOf' = FlowOf /\ Given' = Given /\ (OneCoreEach' <=> OneCoreEach)
    BY DEF FlowOf, Given, OneCoreEach
<1> QED BY <1>1 DEF OrderInv, OutSorts

LEMMA QueuesKnown ==
    ASSUME Control
    PROVE  /\ Queues \in [Place -> Seq(Item)]
           /\ \A c \in Cores, p \in Ports : Queues[TxAt(c, p)] = tx[c][p]
BY QueuesSort, QueuesOfAt DEF Queues, Control

(* A step that keeps the order keeps the invariant. *)
OrderKept ==
    /\ OutSorts'
    /\ OneCoreEach => InOrder(FlowOf, Given, Queues', out', arrived')

LEMMA KeptIs ==
    ASSUME OrderKept, UNCHANGED scenario
    PROVE  OutSorts' /\ (OneCoreEach => InOrder(FlowOf, Given, Queues, out, arrived))'
<1>1. FlowOf' = FlowOf /\ Given' = Given /\ (OneCoreEach' <=> OneCoreEach)
    BY DEF FlowOf, Given, OneCoreEach
<1> QED BY <1>1 DEF OrderKept

LEMMA ArriveKeeps ==
    ASSUME OrderInv, Arrive
    PROVE  OrderKept
<1>1. Control /\ ValuesInv /\ pool \subseteq Mbufs
    BY DEF OrderInv, BuffersInv, Ownership, Owned
<1>2. /\ arrived' = arrived + 1 /\ arrived' \in 1 .. Len(scenario.packets) /\ out' = out
      /\ \/ Queues' = Queues
         \/ \E m : Grows(Queues, Queues', RxAt(ArriveQueue), <<m, arrived'>>)
    BY <1>1, ArriveMoves
<1>3. arrived \in Nat
    BY <1>1 DEF Control
<1>4. CASE Queues' = Queues
    <2>1. ASSUME InOrder(FlowOf, Given, Queues, out, arrived)
          PROVE  InOrder(FlowOf, Given, Queues, out, arrived + 1)
        BY <1>3, <2>1 DEF InOrder, Once
    <2> QED BY <1>2, <1>4, <2>1 DEF OrderInv, OrderKept, OutSorts
<1>5. CASE \E m : Grows(Queues, Queues', RxAt(ArriveQueue), <<m, arrived'>>)
    <2>1. PICK m : Grows(Queues, Queues', RxAt(ArriveQueue), <<m, arrived + 1>>)
        BY <1>2, <1>5
    <2>2. arrived + 1 \in 1 .. Len(scenario.packets) /\ ArriveQueue \in RxQueue
        BY <1>1, <1>2, PacketQueue DEF ArriveQueue
    <2>3. FlowOf[arrived + 1] = ArriveQueue
        <3>1. DOMAIN scenario.packets = 1 .. Len(scenario.packets)
            BY <1>1, ScenarioAssumption DEF ValuesInv
        <3> QED BY <2>2, <3>1 DEF FlowOf, ArriveQueue
    <2>4. ASSUME InOrder(FlowOf, Given, Queues, out, arrived)
          PROVE  InOrder(FlowOf, Given, Queues', out, arrived + 1)
        <3> DEFINE x == <<m, arrived + 1>>
        <3>1. x[2] = arrived + 1
            OBVIOUS
        <3> HIDE DEF x
        <3>2. Grows(Queues, Queues', RxAt(ArriveQueue), x)
            BY <2>1 DEF x
        <3> QED BY <1>3, <2>2, <2>3, <2>4, <3>1, <3>2, ArriveOrder
    <2> QED BY <1>2, <2>4 DEF OrderInv, OrderKept, OutSorts
<1> QED BY <1>2, <1>4, <1>5

LEMMA ReceiveKeeps ==
    ASSUME OrderInv, NEW c \in Cores, do_rx(c)
    PROVE  OrderKept
<1>1. Control /\ ValuesInv /\ pc[c] = "rx"
    BY DEF OrderInv, BuffersInv, do_rx
<1>2. /\ Queue(c) \in RxQueue /\ UNCHANGED <<out, arrived>>
      /\ \E n : MovesFirst(Queues, Queues', RxAt(Queue(c)), BurstAt(c), n)
    BY <1>1, ReceiveMoves
<1>3. Queue(c) \in Given[c]
    <2>1. queue_idx[c] \in 1 .. Len(rx_queue_list(c))
        BY <1>1 DEF Control, CoreFits
    <2> DEFINE q == rx_queue_list(c)[queue_idx[c]]
    <2>2. q.lcore = c /\ q \in Range(scenario.params)
        BY <1>1, <2>1, ListLength
    <2>3. Queue(c) = <<q.port, q.queue>>
        BY DEF Queue
    <2> HIDE DEF q
    <2> QED BY <2>2, <2>3 DEF Given
<1>4. ASSUME InOrder(FlowOf, Given, Queues, out, arrived)
      PROVE  InOrder(FlowOf, Given, Queues', out, arrived)
    BY <1>2, <1>3, <1>4, ReceiveOrder
<1> QED BY <1>2, <1>4 DEF OrderInv, OrderKept, OutSorts

LEMMA DrainKeeps ==
    ASSUME OrderInv, NEW c \in Cores, main_loop_pre_rx(c)
    PROVE  OrderKept
<1>1. Control /\ ValuesInv /\ Owned(Queues, pool, nic, lost)
    BY DEF OrderInv, BuffersInv, Ownership
<1>2. /\ arrived' = arrived
      /\ \/ Queues' = Queues /\ UNCHANGED out
         \/ \E ret : /\ SendsOf(c, ToDrain(c), tx[c], ret)
                     /\ Empties(Queues, Queues', TxOf(c, ToDrain(c)))
    BY <1>1, DrainMoves
<1>3. CASE Queues' = Queues /\ UNCHANGED out
    BY <1>2, <1>3 DEF OrderInv, OrderKept, OutSorts
<1>4. CASE \E ret : /\ SendsOf(c, ToDrain(c), tx[c], ret)
                    /\ Empties(Queues, Queues', TxOf(c, ToDrain(c)))
    <2> DEFINE ps == ToDrain(c)
               q == tx[c]
    <2>1. ps \in SUBSET Ports
        BY DEF ToDrain
    <2>2. Queues \in [Place -> Seq(Item)] /\ \A p \in ps : q[p] = Queues[TxAt(c, p)]
        BY <1>1, <2>1, QueuesKnown
    <2>3. PICK ret : SendsOf(c, ps, q, ret) /\ Empties(Queues, Queues', TxOf(c, ps))
        BY <1>4
    <2> HIDE DEF ps, q
    <2>4. Leave(Queues, c, ps, out, out') /\ OutSorts'
        BY <2>1, <2>2, <2>3, SendsLeave DEF OrderInv
    <2>5. ASSUME OneCoreEach, InOrder(FlowOf, Given, Queues, out, arrived)
          PROVE  InOrder(FlowOf, Given, Queues', out', arrived)
        BY <2>1, <2>3, <2>4, <2>5, GivenKept, SendOrder
    <2> QED BY <1>2, <2>4, <2>5 DEF OrderInv, OrderKept
<1> QED BY <1>2, <1>3, <1>4

LEMMA TransmitKeeps ==
    ASSUME OrderInv, NEW c \in Cores, do_single_tx(c)
    PROVE  OrderKept
<1> DEFINE h == Head(burst[c])
<1>1. /\ arrived' = arrived
      /\ \/ UNCHANGED out /\ LosesHead(Queues, Queues', BurstAt(c), h)
         \/ \E p \in Ports : \E R : LosesHead(Queues, R, BurstAt(c), h) /\ SendsOn(c, p, R)
    BY TransmitBuffers DEF OrderInv
<1>2. CASE UNCHANGED out /\ LosesHead(Queues, Queues', BurstAt(c), h)
    <2>1. ASSUME InOrder(FlowOf, Given, Queues, out, arrived)
          PROVE  InOrder(FlowOf, Given, Queues', out, arrived)
        BY <1>2, <2>1, LoseOrder
    <2> QED BY <1>1, <1>2, <2>1 DEF OrderInv, OrderKept, OutSorts
<1>3. ASSUME NEW p \in Ports, NEW R, LosesHead(Queues, R, BurstAt(c), h), SendsOn(c, p, R)
      PROVE  OrderKept
    <2>1. PICK S : /\ Grows(R, S, TxAt(c, p), h)
                   /\ \/ Queues' = S /\ UNCHANGED out
                      \/ \E q, ret : /\ SendsOf(c, {p}, q, ret) /\ q[p] = S[TxAt(c, p)]
                                     /\ Empties(S, Queues', TxOf(c, {p}))
        BY <1>3 DEF SendsOn
    <2>2. ASSUME OneCoreEach, InOrder(FlowOf, Given, Queues, out, arrived)
          PROVE  InOrder(FlowOf, Given, S, out, arrived)
        BY <1>3, <2>1, <2>2, GivenKept, ShiftOrder
    <2>3. CASE Queues' = S /\ UNCHANGED out
        BY <1>1, <2>2, <2>3 DEF OrderInv, OrderKept, OutSorts
    <2>4. ASSUME NEW q, NEW ret, SendsOf(c, {p}, q, ret), q[p] = S[TxAt(c, p)],
                 Empties(S, Queues', TxOf(c, {p}))
          PROVE  OrderKept
        <3> DEFINE ps == {p}
        <3>1. ps \in SUBSET Ports /\ \A r \in ps : q[r] = S[TxAt(c, r)]
            BY <2>4
        <3>2. S \in [Place -> Seq(Item)]
            BY <2>4 DEF Empties
        <3>3. SendsOf(c, ps, q, ret) /\ Empties(S, Queues', TxOf(c, ps))
            BY <2>4
        <3> HIDE DEF ps
        <3>4. Leave(S, c, ps, out, out') /\ OutSorts'
            BY <3>1, <3>2, <3>3, SendsLeave DEF OrderInv
        <3>5. ASSUME OneCoreEach, InOrder(FlowOf, Given, S, out, arrived)
              PROVE  InOrder(FlowOf, Given, Queues', out', arrived)
            BY <3>1, <3>3, <3>4, <3>5, GivenKept, SendOrder
        <3> QED BY <1>1, <2>2, <3>4, <3>5 DEF OrderInv, OrderKept
    <2> QED BY <2>1, <2>3, <2>4
<1> QED BY <1>1, <1>2, <1>3

(* At the start nothing has come or gone. *)
LEMMA InitOrder == Init => OrderInv
<1> SUFFICES ASSUME Init PROVE OrderInv
    OBVIOUS
<1>1. BuffersInv
    BY InitBuffers
<1>2. /\ rx = [q \in RxQueue |-> << >>] /\ burst = [c \in Cores |-> << >>]
      /\ tx = [c \in Cores |-> [p \in Ports |-> << >>]]
      /\ out = [p \in Ports |-> << >>] /\ arrived = 0
    BY DEF Init
<1>3. ASSUME NEW n \in Place PROVE Queues[n] = << >>
    <2>1. CASE \E q \in RxQueue : n = RxAt(q)
        BY <1>2, <2>1, QueuesOfAt DEF Queues
    <2>2. CASE \E c \in Cores : n = BurstAt(c)
        BY <1>2, <2>2, QueuesOfAt DEF Queues
    <2>3. CASE \E c \in Cores, p \in Ports : n = TxAt(c, p)
        BY <1>2, <2>3, QueuesOfAt DEF Queues
    <2> QED BY <2>1, <2>2, <2>3, PlaceCases
<1>4. \A p \in Ports : out[p] = << >>
    BY <1>2
<1>5. /\ \A n \in Place : Part(Queues[n], 2) = {} /\ NoTwice(Queues[n], 2)
      /\ \A p \in Ports : Part(out[p], 2) = {} /\ NoTwice(out[p], 2)
    BY <1>3, <1>4, None
<1>6. Line(FlowOf, Queues, out)
    BY <1>3, <1>4, <1>5, NoneIncreasing DEF Line, Before
<1>7. Flows(FlowOf, Given, Queues)
    BY <1>5, PlacesDiffer DEF Flows, From
<1>8. Once(Queues, out, arrived)
    <2>1. Apart(Queues, 2) /\ Members(Queues, 2) = {}
        BY <1>5 DEF Apart, Members
    <2> QED BY <1>5, <2>1 DEF Once
<1>9. OutSorts
    BY <1>2 DEF OutSorts
<1> QED BY <1>1, <1>6, <1>7, <1>8, <1>9 DEF OrderInv, InOrder

(* No step takes a packet out of its order. *)
LEMMA NextOrder == OrderInv /\ [Next]_vars => OrderInv'
<1> SUFFICES ASSUME OrderInv, [Next]_vars PROVE OrderInv'
    OBVIOUS
<1>1. BuffersInv'
    BY NextBuffers DEF OrderInv
<1>2. ASSUME OrderKept, UNCHANGED scenario PROVE OrderInv'
    BY <1>1, <1>2, KeptIs DEF OrderInv
<1>3. ASSUME UNCHANGED <<scenario, arrived, rx, burst, tx, out>> PROVE OrderInv'
    <2>1. Queues' = Queues
        BY <1>3, QueuesNext DEF Queues
    <2>2. OrderKept
        BY <1>3, <2>1 DEF OrderInv, OrderKept, OutSorts
    <2> QED BY <1>2, <1>3, <2>2
<1>4. CASE Arrive
    BY <1>2, <1>4, ArriveKeeps DEF Arrive
<1>5. CASE NicFrees \/ Change \/ Relaunch \/ UNCHANGED vars
    <2>1. UNCHANGED <<scenario, arrived, rx, burst, tx, out>>
        BY <1>5 DEF NicFrees, Change, Relaunch, vars, portVars, coreVars
    <2> QED BY <1>3, <2>1
<1>6. ASSUME NEW c \in Cores, Tick(c) PROVE OrderInv'
    BY <1>3, <1>6 DEF Tick, portVars
<1>7. ASSUME NEW c \in Cores, dpdk_main_loop(c) PROVE OrderInv'
    <2>1. CASE main_loop_pre_rx(c)
        BY <1>2, <2>1, DrainKeeps DEF main_loop_pre_rx
    <2>2. CASE do_rx(c)
        BY <1>2, <2>2, ReceiveKeeps DEF do_rx
    <2>3. CASE do_single_tx(c)
        BY <1>2, <2>3, TransmitKeeps DEF do_single_tx
    <2>4. CASE receive_packet(c)
        BY <1>3, <2>4 DEF receive_packet, portVars
    <2>5. CASE table_key(c)
        BY <1>3, <2>5 DEF table_key, portVars
    <2>6. CASE apply(c)
        BY <1>3, <2>6 DEF apply, portVars
    <2>7. CASE extern_register_read(c) \/ extern_register_write(c)
        BY <1>3, <2>7 DEF extern_register_read, extern_register_write, portVars
    <2> QED BY <1>7, <2>1, <2>2, <2>3, <2>4, <2>5, <2>6, <2>7 DEF dpdk_main_loop
<1> QED BY <1>4, <1>5, <1>6, <1>7 DEF Next

(* What PortOrder says of the positions in what the ports transmitted. *)
LEMMA PortOrderIs ==
    ASSUME OrderInv, OneCoreEach
    PROVE  PortOrder
<1>1. Line(FlowOf, Queues, out) /\ Once(Queues, out, arrived)
    BY DEF OrderInv, InOrder
<1>2. arrived \in 0 .. Len(scenario.packets) /\ DOMAIN scenario.packets = 1 .. Len(scenario.packets)
    BY ScenarioAssumption DEF OrderInv, BuffersInv, Control, ValuesInv
<1>3. \A p \in Ports : \A i \in DOMAIN out[p] :
          out[p][i][2] \in Part(out[p], 2) /\ out[p][i][2] \in DOMAIN scenario.packets
    BY <1>1, <1>2, SMTT(30) DEF Once, Part
<1>4. ASSUME NEW o \in Ports, NEW p \in Ports, NEW i \in DOMAIN out[o], NEW j \in DOMAIN out[p],
             <<o, i>> # <<p, j>>
      PROVE  out[o][i][2] # out[p][j][2]
    <2>1. CASE o = p
        <3>1. NoTwice(out[p], 2) /\ i # j
            BY <1>1, <1>4, <2>1 DEF Once
        <3>2. i \in DOMAIN out[p]
            BY <2>1
        <3>3. out[p][i][2] = out[p][j][2] => i = j
            BY <3>1, <3>2 DEF NoTwice
        <3> QED BY <2>1, <3>1, <3>3
    <2>2. CASE o # p
        <3>1. Part(out[o], 2) \cap Part(out[p], 2) = {}
            BY <1>1, <2>2 DEF Once
        <3>2. out[o][i][2] \in Part(out[o], 2) /\ out[p][j][2] \in Part(out[p], 2)
            BY <1>3
        <3> QED BY <3>1, <3>2
    <2> QED BY <2>1, <2>2
<1>5. ASSUME NEW p \in Ports, NEW i \in DOMAIN out[p], NEW j \in DOMAIN out[p],
             i < j, SameFlow(out[p][i][2], out[p][j][2])
      PROVE  out[p][i][2] < out[p][j][2]
    <2>1. FlowOf[out[p][i][2]] = FlowOf[out[p][j][2]]
        BY <1>3, <1>5 DEF FlowOf, SameFlow
    <2> QED BY <1>1, <1>5, <2>1 DEF Line, Increasing
<1> QED BY <1>4, <1>5 DEF PortOrder

(* Whatever fills a transmit queue and whenever its time has come            *)
(* (dpdk_send_packet, tx_burst_queue_drain), no packet leaves twice and those *)
(* of a receive queue keep their order on each port.                         *)
THEOREM OrderCorrect == Spec => [](OneCoreEach => PortOrder)
<1>1. OrderInv => (OneCoreEach => PortOrder)
    BY PortOrderIs
<1> QED BY <1>1, InitOrder, NextOrder, PTL DEF Spec
-----------------------------------------------------------------------------
(* What a table has to do with the changes made to it.                       *)

(* The changes of a kind among the first n. *)
KindsTo(ch, n, kind) == {i \in 1 .. n : ch[i].kind = kind}

(* The entries that no later flush has removed. *)
StandingTo(ch, n) ==
    {i \in KindsTo(ch, n, "add") : \A f \in KindsTo(ch, n, "flush") : f < i}

Newest(S, i) == i \in S /\ \A j \in S : j <= i

(* The default is the one that was set last; a flush does not touch it.      *)
DefaultIs(t, ch, n) ==
    \/ KindsTo(ch, n, "default") = {} /\ t.default_val = NoEntry
    \/ \E i \in 1 .. n : /\ Newest(KindsTo(ch, n, "default"), i)
                         /\ t.default_val = [value |-> ch[i].value, valid |-> FALSE]

(* An exact table: rte_hash has a position for each key that stands, and the *)
(* content there is the newest entry for it.                                 *)
OfKey(ch, n, k) == {j \in StandingTo(ch, n) : ch[j].key = k}

SlotIs(t, ch, n, p, i) ==
    /\ Newest(OfKey(ch, n, t.hash[p]), i)
    /\ p - 1 \in DOMAIN t.content /\ t.content[p - 1] = make_table_entry(ch[i].value)

ExactIs(t, ch, n) ==
    /\ t.hash \in Seq(Seq(Nat))
    /\ \A p, q \in DOMAIN t.hash : t.hash[p] = t.hash[q] => p = q
    /\ \A i \in StandingTo(ch, n) : \E p \in DOMAIN t.hash : t.hash[p] = ch[i].key
    /\ \A p \in DOMAIN t.hash : \E i \in 1 .. n : SlotIs(t, ch, n, p, i)

(* An LPM table: rte_lpm has a rule for each prefix that stands.  Its index  *)
(* lies behind size, which the next addition takes, by as many as were added *)
(* since, itself included; while these are no more than there are indices,   *)
(* the content there is the newest entry for the prefix.                     *)
PrefixOf(c) == SubSeq(c.key, 1, c.depth)
OfPrefix(ch, n, p) == {j \in StandingTo(ch, n) : PrefixOf(ch[j]) = p}
Behind(ch, n, i) == Cardinality({a \in KindsTo(ch, n, "add") : i <= a})

RuleIs(t, ch, n, r, i) ==
    /\ Newest(OfPrefix(ch, n, r.prefix), i)
    /\ r.index \in 0 .. t.index_range - 1
    /\ Behind(ch, n, i) <= t.index_range =>
          /\ t.size = IF r.index + Behind(ch, n, i) < t.index_range
                      THEN r.index + Behind(ch, n, i)
                      ELSE r.index + Behind(ch, n, i) - t.index_range
          /\ r.index \in DOMAIN t.content /\ t.content[r.index] = make_table_entry(ch[i].value)

LpmIs(t, ch, n) ==
    /\ t.index_range \in Nat \ {0} /\ t.size \in 0 .. t.index_range - 1
    /\ \A r, q \in t.rules : r.prefix = q.prefix => r = q
    /\ \A i \in StandingTo(ch, n) : \E r \in t.rules : r.prefix = PrefixOf(ch[i])
    /\ \A r \in t.rules : \E i \in 1 .. n : RuleIs(t, ch, n, r, i)

(* A ternary table: its patterns are those that stand, in the order in which *)
(* they were added; the one at k is the f[k]-th change.                      *)
PatternIs(e, c) ==
    e = [key |-> c.key, mask |-> c.mask, entry |-> make_table_entry(c.value)]

PatternsAt(t, ch, n, f) ==
    /\ \A k \in 0 .. t.size - 1 : /\ f[k] \in StandingTo(ch, n)
                                  /\ k \in DOMAIN t.content /\ PatternIs(t.content[k], ch[f[k]])
    /\ \A i \in StandingTo(ch, n) : \E k \in 0 .. t.size - 1 : f[k] = i
    /\ \A k, l \in 0 .. t.size - 1 : k < l => f[k] < f[l]

TernaryIs(t, ch, n) ==
    t.size \in Nat /\ \E f \in [0 .. t.size - 1 -> 1 .. n] : PatternsAt(t, ch, n, f)

(* The table is as the first n changes say. *)
TableIs(t, ch, n) ==
    /\ DefaultIs(t, ch, n)
    /\ t.key_size # 0 => /\ t.type = "exact" => ExactIs(t, ch, n)
                         /\ t.type = "lpm" => LpmIs(t, ch, n)
                         /\ t.type = "ternary" => TernaryIs(t, ch, n)

-----------------------------------------------------------------------------
(* One change more.                                                          *)

(* What stands and what is the default after it.                             *)
LEMMA OneMore ==
    ASSUME NEW ch, NEW n \in Nat
    PROVE  /\ StandingTo(ch, n) \subseteq 1 .. n /\ KindsTo(ch, n, "default") \subseteq 1 .. n
           /\ ch[n + 1].kind = "add" =>
                 /\ StandingTo(ch, n + 1) = StandingTo(ch, n) \cup {n + 1}
                 /\ KindsTo(ch, n + 1, "default") = KindsTo(ch, n, "default")
           /\ ch[n + 1].kind = "default" =>
                 /\ StandingTo(ch, n + 1) = StandingTo(ch, n)
                 /\ KindsTo(ch, n + 1, "default") = KindsTo(ch, n, "default") \cup {n + 1}
           /\ ch[n + 1].kind = "flush" =>
                 /\ StandingTo(ch, n + 1) = {}
                 /\ KindsTo(ch, n + 1, "default") = KindsTo(ch, n, "default")
<1>1. 1 .. n + 1 = (1 .. n) \cup {n + 1} /\ \A i \in 1 .. n : i < n + 1 /\ ~(n + 1 < i)
    OBVIOUS
<1>2. \A kind : KindsTo(ch, n + 1, kind) =
                   KindsTo(ch, n, kind) \cup (IF ch[n + 1].kind = kind THEN {n + 1} ELSE {})
    BY <1>1 DEF KindsTo
<1>3. \A kind : KindsTo(ch, n, kind) \subseteq 1 .. n
    BY DEF KindsTo
<1>4. StandingTo(ch, n) \subseteq 1 .. n
    BY <1>3 DEF StandingTo
<1>5. CASE ch[n + 1].kind = "add"
    <2>1. /\ KindsTo(ch, n + 1, "add") = KindsTo(ch, n, "add") \cup {n + 1}
          /\ KindsTo(ch, n + 1, "flush") = KindsTo(ch, n, "flush")
          /\ KindsTo(ch, n + 1, "default") = KindsTo(ch, n, "default")
        BY <1>2, <1>5
    <2>2. \A f \in KindsTo(ch, n, "flush") : f < n + 1
        BY <1>1, <1>3
    <2>3. StandingTo(ch, n + 1) = StandingTo(ch, n) \cup {n + 1}
        BY <2>1, <2>2 DEF StandingTo
    <2> QED BY <1>3, <1>4, <1>5, <2>1, <2>3
<1>6. CASE ch[n + 1].kind = "default"
    <2>1. /\ KindsTo(ch, n + 1, "add") = KindsTo(ch, n, "add")
          /\ KindsTo(ch, n + 1, "flush") = KindsTo(ch, n, "flush")
          /\ KindsTo(ch, n + 1, "default") = KindsTo(ch, n, "default") \cup {n + 1}
        BY <1>2, <1>6
    <2>2. StandingTo(ch, n + 1) = StandingTo(ch, n)
        BY <2>1 DEF StandingTo
    <2> QED BY <1>3, <1>4, <1>6, <2>1, <2>2
<1>7. CASE ch[n + 1].kind = "flush"
    <2>1. /\ KindsTo(ch, n + 1, "add") = KindsTo(ch, n, "add")
          /\ n + 1 \in KindsTo(ch, n + 1, "flush")
          /\ KindsTo(ch, n + 1, "default") = KindsTo(ch, n, "default")
        BY <1>2, <1>7
    <2>2. \A i \in KindsTo(ch, n, "add") : ~(n + 1 < i)
        BY <1>1, <1>3
    <2>3. StandingTo(ch, n + 1) = {}
        BY <2>1, <2>2 DEF StandingTo
    <2> QED BY <1>3, <1>4, <1>7, <2>1, <2>3
<1>8. CASE ch[n + 1].kind \notin {"add", "default", "flush"}
    BY <1>3, <1>4, <1>8
<1> QED BY <1>5, <1>6, <1>7, <1>8

(* The number added last is the newest.                                      *)
LEMMA NewestLast ==
    ASSUME NEW n \in Nat, NEW S, S \subseteq 1 .. n
    PROVE  Newest(S \cup {n + 1}, n + 1)
BY DEF Newest

(* A default more. *)
LEMMA SetsDefault ==
    ASSUME NEW t, NEW ch, NEW n \in Nat, ch[n + 1].kind = "default",
           t.default_val = [value |-> ch[n + 1].value, valid |-> FALSE]
    PROVE  DefaultIs(t, ch, n + 1)
<1>1. Newest(KindsTo(ch, n + 1, "default"), n + 1)
    <2>1. /\ KindsTo(ch, n, "default") \subseteq 1 .. n
          /\ KindsTo(ch, n + 1, "default") = KindsTo(ch, n, "default") \cup {n + 1}
        BY OneMore
    <2> DEFINE S == KindsTo(ch, n, "default")
    <2>2. S \subseteq 1 .. n
        BY <2>1
    <2> HIDE DEF S
    <2>3. Newest(S \cup {n + 1}, n + 1)
        BY <2>2, NewestLast
    <2> QED BY <2>1, <2>3 DEF S
<1>2. n + 1 \in 1 .. n + 1
    OBVIOUS
<1> QED BY <1>1, <1>2 DEF DefaultIs

(* The default stays. *)
LEMMA KeepsDefault ==
    ASSUME NEW t, NEW u, NEW ch, NEW n \in Nat, DefaultIs(t, ch, n),
           ch[n + 1].kind \in {"add", "flush"}, u.default_val = t.default_val
    PROVE  DefaultIs(u, ch, n + 1)
<1>1. KindsTo(ch, n + 1, "default") = KindsTo(ch, n, "default")
    BY OneMore
<1>2. \A i \in 1 .. n : i \in 1 .. n + 1
    OBVIOUS
<1> QED BY <1>1, <1>2 DEF DefaultIs

(* The slots of an exact table when an entry is added.                       *)
LEMMA ExactGrows ==
    ASSUME NEW t, NEW ch, NEW n \in Nat, ExactIs(t, ch, n),
           ch[n + 1].kind = "add", ch[n + 1].key \in Seq(Nat), DOMAIN t = Fields,
           t.type = "exact",
           ~exact_add(t, ch[n + 1].key, ch[n + 1].value).exited
    PROVE  ExactIs(exact_add(t, ch[n + 1].key, ch[n + 1].value), ch, n + 1)
<1> DEFINE k == ch[n + 1].key
           v == ch[n + 1].value
           u == exact_add(t, k, v)
           hash  == IF k \in Range(t.hash) THEN t.hash ELSE Append(t.hash, k)
           index == (CHOOSE i \in DOMAIN hash : hash[i] = k) - 1
           e == make_table_entry(v)
<1>1. /\ u.hash = hash /\ u.content = Put(t.content, index, e)
    <2>1. CASE k \notin Range(t.hash) /\ Len(t.hash) = t.hash_entries
        <3>1. u = [t EXCEPT !.exited = TRUE]
            BY <2>1 DEF exact_add
        <3>2. u.exited
            BY <3>1 DEF Fields
        <3> QED BY <3>2
    <2>2. CASE ~(k \notin Range(t.hash) /\ Len(t.hash) = t.hash_entries)
        <3>1. u = [t EXCEPT !.hash = hash, !.content = Put(t.content, index, e)]
            BY <2>2 DEF exact_add
        <3> HIDE DEF hash, index, e
        <3> QED BY <3>1 DEF Fields
    <2> QED BY <2>1, <2>2
<1>0. t.hash \in Seq(Seq(Nat))
    BY DEF ExactIs
<1>2. Appended(t.hash, Append(t.hash, k), k)
    BY <1>0, AppendIs
<1>3. \E p \in DOMAIN hash :
         /\ hash[p] = k
         /\ \A q \in DOMAIN hash : q = p \/ (q \in DOMAIN t.hash /\ hash[q] = t.hash[q] /\ hash[q] # k)
         /\ \A q \in DOMAIN t.hash : q \in DOMAIN hash /\ hash[q] = t.hash[q]
    <2>1. CASE k \in Range(t.hash)
        <3>1. PICK p \in DOMAIN t.hash : t.hash[p] = k
            BY <2>1 DEF Range
        <3>2. \A q \in DOMAIN t.hash : q = p \/ t.hash[q] # k
            BY <3>1 DEF ExactIs
        <3>3. hash = t.hash
            BY <2>1
        <3> HIDE DEF hash
        <3> QED BY <3>1, <3>2, <3>3
    <2>2. CASE k \notin Range(t.hash)
        <3>1. hash = Append(t.hash, k) /\ \A q \in DOMAIN t.hash : t.hash[q] # k
            BY <2>2 DEF Range
        <3>2. \A q \in DOMAIN t.hash : q \in DOMAIN Append(t.hash, k)
                                       /\ Append(t.hash, k)[q] = t.hash[q]
            <4> DEFINE S == Seq(Nat)
            <4>1. t.hash \in Seq(S) /\ k \in S
                BY <1>0
            <4> HIDE DEF S, k
            <4> QED BY <4>1
        <3> HIDE DEF hash
        <3>3. Len(t.hash) + 1 \in DOMAIN hash /\ hash[Len(t.hash) + 1] = k
            BY <1>2, <3>1 DEF Appended
        <3>4. \A q \in DOMAIN hash : q = Len(t.hash) + 1 \/ (q \in DOMAIN t.hash /\ hash[q] = t.hash[q])
            BY <1>2, <3>1 DEF Appended
        <3>5. \A q \in DOMAIN hash :
                 q = Len(t.hash) + 1 \/ (q \in DOMAIN t.hash /\ hash[q] = t.hash[q] /\ hash[q] # k)
            BY <3>1, <3>4
        <3>6. \A q \in DOMAIN t.hash : q \in DOMAIN hash /\ hash[q] = t.hash[q]
            BY <3>1, <3>2
        <3> QED BY <3>3, <3>5, <3>6, Zenon
    <2> QED BY <2>1, <2>2
<1> HIDE DEF hash
<1>4. PICK p \in DOMAIN hash :
         /\ hash[p] = k
         /\ \A q \in DOMAIN hash : q = p \/ (q \in DOMAIN t.hash /\ hash[q] = t.hash[q] /\ hash[q] # k)
         /\ \A q \in DOMAIN t.hash : q \in DOMAIN hash /\ hash[q] = t.hash[q]
    BY <1>3
<1>5. index = p - 1
    BY <1>4
<1>6. hash \in Seq(Seq(Nat)) /\ DOMAIN hash \subseteq Nat
    <2>1. CASE k \in Range(t.hash)
        BY <1>0, <2>1 DEF hash
    <2>2. CASE k \notin Range(t.hash)
        BY <1>2, <2>2 DEF hash, Appended
    <2>3. hash \in Seq(Seq(Nat))
        BY <2>1, <2>2
    <2> QED BY <2>3
<1>7. IsPut(u.content, t.content, p - 1, e)
    BY <1>1, <1>5, PutAt
<1> HIDE DEF u, index, k, v, e
<1>8. StandingTo(ch, n + 1) = StandingTo(ch, n) \cup {n + 1} /\ StandingTo(ch, n) \subseteq 1 .. n
    BY OneMore
<1>9. \A q, r \in DOMAIN hash : hash[q] = hash[r] => q = r
    BY <1>4 DEF ExactIs
<1>10. \A i \in StandingTo(ch, n + 1) : \E q \in DOMAIN hash : hash[q] = ch[i].key
    <2> TAKE i \in StandingTo(ch, n + 1)
    <2>1. CASE i = n + 1
        BY <1>4, <2>1 DEF k
    <2>2. CASE i \in StandingTo(ch, n)
        <3>1. PICK q \in DOMAIN t.hash : t.hash[q] = ch[i].key
            BY <2>2 DEF ExactIs
        <3> QED BY <1>4, <3>1
    <2> QED BY <1>8, <2>1, <2>2
<1>11. ASSUME NEW q \in DOMAIN hash PROVE \E i \in 1 .. n + 1 : SlotIs(u, ch, n + 1, q, i)
    <2>1. CASE q = p
        <3>1. Newest(OfKey(ch, n + 1, k), n + 1)
            <4>1. OfKey(ch, n + 1, k) = OfKey(ch, n, k) \cup {n + 1}
                BY <1>8 DEF OfKey, k
            <4>2. OfKey(ch, n, k) \subseteq 1 .. n
                BY <1>8 DEF OfKey
            <4> QED BY <4>1, <4>2, NewestLast
        <3>2. SlotIs(u, ch, n + 1, p, n + 1)
            BY <1>1, <1>4, <1>7, <3>1 DEF SlotIs, IsPut, e, v
        <3>3. n + 1 \in 1 .. n + 1
            OBVIOUS
        <3> QED BY <2>1, <3>2, <3>3
    <2>2. CASE q # p
        <3>1. q \in DOMAIN t.hash /\ hash[q] = t.hash[q] /\ hash[q] # k
            BY <1>4, <2>2
        <3>2. PICK i \in 1 .. n : SlotIs(t, ch, n, q, i)
            BY <3>1 DEF ExactIs
        <3>3. OfKey(ch, n + 1, hash[q]) = OfKey(ch, n, hash[q])
            BY <1>8, <3>1 DEF OfKey, k
        <3>4. q - 1 # p - 1
            BY <1>6, <2>2
        <3>5. SlotIs(u, ch, n + 1, q, i)
            BY <1>1, <1>7, <3>1, <3>2, <3>3, <3>4 DEF SlotIs, IsPut
        <3>6. i \in 1 .. n + 1
            OBVIOUS
        <3> QED BY <3>5, <3>6
    <2> QED BY <2>1, <2>2
<1>12. ExactIs(u, ch, n + 1)
    BY <1>1, <1>6, <1>9, <1>10, <1>11 DEF ExactIs
<1> QED BY <1>12 DEF u, k, v

(* The index after one that a rule was given: % takes at most one turn off.  *)
LEMMA NextIndex ==
    ASSUME NEW r \in Nat \ {0}, NEW x \in 0 .. r - 1
    PROVE  (x + 1) % r = IF x + 1 < r THEN x + 1 ELSE 0
<1>1. CASE x + 1 < r
    BY <1>1, SMT
<1>2. CASE x + 1 = r
    BY <1>2, SMT
<1> QED BY <1>1, <1>2

(* Positions in a list are finitely many. *)
LEMMA PositionsFinite ==
    ASSUME NEW n \in Nat, NEW S, S \subseteq 1 .. n
    PROVE  IsFiniteSet(S)
<1>1. IsFiniteSet(1 .. n)
    BY FS_Interval
<1>2. S \in SUBSET (1 .. n)
    OBVIOUS
<1> QED BY <1>1, <1>2, FS_Subset

(* The entries from an older one on are one more, those from the new one one. *)
LEMMA OneMoreBehind ==
    ASSUME NEW ch, NEW n \in Nat, ch[n + 1].kind = "add"
    PROVE  /\ Behind(ch, n + 1, n + 1) = 1
           /\ \A i \in 1 .. n : /\ Behind(ch, n, i) \in Nat
                                /\ Behind(ch, n + 1, i) = Behind(ch, n, i) + 1
<1>1. KindsTo(ch, n + 1, "add") = KindsTo(ch, n, "add") \cup {n + 1}
    BY DEF KindsTo
<1>2. KindsTo(ch, n, "add") \subseteq 1 .. n
    BY DEF KindsTo
<1>3. Behind(ch, n + 1, n + 1) = 1
    <2>1. {a \in KindsTo(ch, n + 1, "add") : n + 1 <= a} = {n + 1}
        BY <1>1, <1>2
    <2> QED BY <2>1, FS_Singleton DEF Behind
<1>4. ASSUME NEW i \in 1 .. n
      PROVE  Behind(ch, n, i) \in Nat /\ Behind(ch, n + 1, i) = Behind(ch, n, i) + 1
    <2> DEFINE S == {a \in KindsTo(ch, n, "add") : i <= a}
    <2>1. {a \in KindsTo(ch, n + 1, "add") : i <= a} = S \cup {n + 1}
        BY <1>1
    <2>2. S \subseteq 1 .. n /\ n + 1 \notin S
        BY <1>2
    <2> HIDE DEF S
    <2>3. IsFiniteSet(S)
        BY <2>2, PositionsFinite
    <2>4. Cardinality(S) \in Nat /\ Cardinality(S \cup {n + 1}) = Cardinality(S) + 1
        BY <2>2, <2>3, FS_AddElement, FS_CardinalityType
    <2> QED BY <2>1, <2>4 DEF Behind, S
<1> QED BY <1>3, <1>4

(* The rules of an LPM table when an entry is added.                         *)
LEMMA LpmGrows ==
    ASSUME NEW t, NEW ch, NEW n \in Nat, LpmIs(t, ch, n), ch[n + 1].kind = "add",
           DOMAIN t = Fields, ch[n + 1].depth # 0
    PROVE  LpmIs(lpm_add(t, ch[n + 1].key, ch[n + 1].depth, ch[n + 1].value), ch, n + 1)
<1> DEFINE op == ch[n + 1]
           u == lpm_add(t, op.key, op.depth, op.value)
           prefix == PrefixOf(op)
           new == [prefix |-> prefix, index |-> t.size]
           e == make_table_entry(op.value)
<1>1. /\ u.rules = {r \in t.rules : r.prefix # prefix} \cup {new}
      /\ u.content = Put(t.content, t.size, e)
      /\ u.size = (t.size + 1) % t.index_range /\ u.index_range = t.index_range
    <2>1. u = [t EXCEPT !.content = Put(t.content, t.size, e),
                        !.rules = {r \in t.rules : r.prefix # prefix} \cup {new},
                        !.size = (t.size + 1) % t.index_range]
        BY DEF lpm_add, PrefixOf
    <2> HIDE DEF e, new, prefix
    <2> QED BY <2>1 DEF Fields
<1>2. IsPut(u.content, t.content, t.size, e)
    BY <1>1, PutAt
<1>3. new.prefix = prefix /\ new.index = t.size
    OBVIOUS
<1>4. t.index_range \in Nat \ {0} /\ t.size \in 0 .. t.index_range - 1
    BY DEF LpmIs
<1>5. u.size = IF t.size + 1 < t.index_range THEN t.size + 1 ELSE 0
    <2> DEFINE a == t.size
               b == t.index_range
    <2>1. a \in 0 .. b - 1 /\ b \in Nat \ {0} /\ u.size = (a + 1) % b
        BY <1>1, <1>4
    <2> HIDE DEF a, b, u
    <2>2. (a + 1) % b = IF a + 1 < b THEN a + 1 ELSE 0
        BY <2>1, NextIndex
    <2> QED BY <2>1, <2>2 DEF a, b
<1>6. StandingTo(ch, n + 1) = StandingTo(ch, n) \cup {n + 1} /\ StandingTo(ch, n) \subseteq 1 .. n
    BY OneMore
<1>7. /\ Behind(ch, n + 1, n + 1) = 1
      /\ \A i \in 1 .. n : /\ Behind(ch, n, i) \in Nat
                           /\ Behind(ch, n + 1, i) = Behind(ch, n, i) + 1
    BY OneMoreBehind
<1> HIDE DEF u, new, prefix, e
<1>8. u.index_range \in Nat \ {0} /\ u.size \in 0 .. u.index_range - 1
    BY <1>1, <1>4, <1>5
<1>9. \A r, q \in u.rules : r.prefix = q.prefix => r = q
    BY <1>1, <1>3 DEF LpmIs
<1>10. \A i \in StandingTo(ch, n + 1) : \E r \in u.rules : r.prefix = PrefixOf(ch[i])
    <2> TAKE i \in StandingTo(ch, n + 1)
    <2>1. CASE PrefixOf(ch[i]) = prefix
        BY <1>1, <1>3, <2>1
    <2>2. CASE PrefixOf(ch[i]) # prefix
        <3>1. i \in StandingTo(ch, n)
            BY <1>6, <2>2 DEF prefix
        <3>2. PICK r \in t.rules : r.prefix = PrefixOf(ch[i])
            BY <3>1 DEF LpmIs
        <3> QED BY <1>1, <2>2, <3>2
    <2> QED BY <2>1, <2>2
<1>11. ASSUME NEW r \in u.rules PROVE \E i \in 1 .. n + 1 : RuleIs(u, ch, n + 1, r, i)
    <2>1. CASE r = new
        <3>1. Newest(OfPrefix(ch, n + 1, prefix), n + 1)
            <4>1. OfPrefix(ch, n + 1, prefix) = OfPrefix(ch, n, prefix) \cup {n + 1}
                BY <1>6 DEF OfPrefix, prefix
            <4>2. OfPrefix(ch, n, prefix) \subseteq 1 .. n
                BY <1>6 DEF OfPrefix
            <4> QED BY <4>1, <4>2, NewestLast
        <3>2. r.index \in 0 .. u.index_range - 1
            BY <1>1, <1>3, <1>4, <2>1
        <3>3. u.size = IF r.index + 1 < u.index_range THEN r.index + 1
                       ELSE r.index + 1 - u.index_range
            BY <1>1, <1>3, <1>4, <1>5, <2>1
        <3>4. r.index \in DOMAIN u.content /\ u.content[r.index] = make_table_entry(ch[n + 1].value)
            BY <1>2, <1>3, <2>1 DEF IsPut, e
        <3>5. RuleIs(u, ch, n + 1, r, n + 1)
            BY <1>3, <1>7, <2>1, <3>1, <3>2, <3>3, <3>4 DEF RuleIs
        <3>6. n + 1 \in 1 .. n + 1
            OBVIOUS
        <3> QED BY <3>5, <3>6
    <2>2. CASE r # new
        <3>1. r \in t.rules /\ r.prefix # prefix
            BY <1>1, <2>2
        <3>2. PICK i \in 1 .. n : RuleIs(t, ch, n, r, i)
            BY <3>1 DEF LpmIs
        <3>3. OfPrefix(ch, n + 1, r.prefix) = OfPrefix(ch, n, r.prefix)
            BY <1>6, <3>1 DEF OfPrefix, prefix
        <3>4. r.index \in 0 .. t.index_range - 1
            BY <3>2 DEF RuleIs
        <3>5. ASSUME Behind(ch, n + 1, i) <= u.index_range
              PROVE  /\ u.size = IF r.index + Behind(ch, n + 1, i) < u.index_range
                                 THEN r.index + Behind(ch, n + 1, i)
                                 ELSE r.index + Behind(ch, n + 1, i) - u.index_range
                     /\ r.index \in DOMAIN u.content
                     /\ u.content[r.index] = make_table_entry(ch[i].value)
            <4> DEFINE b == Behind(ch, n, i)
            <4>1. b \in Nat /\ Behind(ch, n + 1, i) = b + 1 /\ b + 1 <= t.index_range
                BY <1>1, <1>7, <3>5
            <4>2. b >= 1
                <5>1. i \in KindsTo(ch, n, "add") /\ i <= i
                    BY <3>2 DEF RuleIs, Newest, OfPrefix, StandingTo
                <5> DEFINE S == {a \in KindsTo(ch, n, "add") : i <= a}
                <5>2. i \in S /\ S \subseteq 1 .. n
                    BY <5>1 DEF KindsTo
                <5> HIDE DEF S
                <5>3. IsFiniteSet(S)
                    BY <5>2, PositionsFinite
                <5>4. Cardinality(S) # 0
                    BY <5>2, <5>3, FS_EmptySet
                <5> QED BY <4>1, <5>4 DEF S, Behind
            <4>3. b <= t.index_range
                BY <1>4, <4>1
            <4>4. /\ t.size = IF r.index + b < t.index_range THEN r.index + b
                              ELSE r.index + b - t.index_range
                  /\ r.index \in DOMAIN t.content
                  /\ t.content[r.index] = make_table_entry(ch[i].value)
                BY <3>2, <4>3 DEF RuleIs
            <4> HIDE DEF b
            <4>5. r.index # t.size
                BY <1>4, <3>4, <4>1, <4>2, <4>4
            <4>6. r.index \in DOMAIN u.content
                  /\ u.content[r.index] = make_table_entry(ch[i].value)
                BY <1>2, <4>4, <4>5 DEF IsPut
            <4>7. u.size = IF r.index + (b + 1) < t.index_range THEN r.index + (b + 1)
                           ELSE r.index + (b + 1) - t.index_range
                BY <1>4, <1>5, <3>4, <4>1, <4>2, <4>4
            <4> QED BY <1>1, <4>1, <4>6, <4>7
        <3>6. RuleIs(u, ch, n + 1, r, i)
            BY <1>1, <3>2, <3>3, <3>5 DEF RuleIs
        <3>7. i \in 1 .. n + 1
            OBVIOUS
        <3> QED BY <3>6, <3>7
    <2> QED BY <2>1, <2>2
<1>12. LpmIs(u, ch, n + 1)
    BY <1>8, <1>9, <1>10, <1>11 DEF LpmIs
<1> QED BY <1>12 DEF u

(* The patterns of a ternary table when one is added at the end.             *)
LEMMA TernaryGrows ==
    ASSUME NEW t, NEW ch, NEW n \in Nat, TernaryIs(t, ch, n), ch[n + 1].kind = "add",
           DOMAIN t = Fields
    PROVE  TernaryIs(ternary_add(t, ch[n + 1].key, ch[n + 1].mask, ch[n + 1].value), ch, n + 1)
<1> DEFINE op == ch[n + 1]
           u == ternary_add(t, op.key, op.mask, op.value)
           e == [key |-> op.key, mask |-> op.mask, entry |-> make_table_entry(op.value)]
<1>1. u.content = Put(t.content, t.size, e) /\ u.size = t.size + 1
    <2>1. u = [t EXCEPT !.content = Put(t.content, t.size, e), !.size = t.size + 1]
        BY DEF ternary_add
    <2> HIDE DEF e
    <2> QED BY <2>1 DEF Fields
<1>2. IsPut(u.content, t.content, t.size, e)
    BY <1>1, PutAt
<1>3. PatternIs(e, op)
    BY DEF PatternIs
<1>4. t.size \in Nat
    BY DEF TernaryIs
<1>5. PICK f \in [0 .. t.size - 1 -> 1 .. n] : PatternsAt(t, ch, n, f)
    BY DEF TernaryIs
<1>6. StandingTo(ch, n + 1) = StandingTo(ch, n) \cup {n + 1} /\ StandingTo(ch, n) \subseteq 1 .. n
    BY OneMore
<1> DEFINE g == [k \in 0 .. u.size - 1 |-> IF k = t.size THEN n + 1 ELSE f[k]]
<1>7. \A k \in 0 .. u.size - 1 : k = t.size \/ k \in 0 .. t.size - 1
    BY <1>1, <1>4
<1>8. /\ t.size \in 0 .. u.size - 1 /\ u.size \in Nat
      /\ \A k \in 0 .. t.size - 1 : k \in 0 .. u.size - 1 /\ k # t.size
    BY <1>1, <1>4
<1>9. g[t.size] = n + 1 /\ \A k \in 0 .. t.size - 1 : g[k] = f[k]
    BY <1>8
<1>10. \A k \in 0 .. t.size - 1 : f[k] \in 1 .. n
    BY <1>5
<1>11. g \in [0 .. u.size - 1 -> 1 .. n + 1]
    <2>1. ASSUME NEW k \in 0 .. u.size - 1 PROVE g[k] \in 1 .. n + 1
        BY <1>7, <1>9, <1>10
    <2> QED BY <2>1
<1> HIDE DEF u, e, g
<1>12. ASSUME NEW k \in 0 .. u.size - 1
       PROVE  /\ g[k] \in StandingTo(ch, n + 1)
              /\ k \in DOMAIN u.content /\ PatternIs(u.content[k], ch[g[k]])
    <2>1. CASE k = t.size
        BY <1>2, <1>3, <1>6, <1>9, <2>1 DEF IsPut
    <2>2. CASE k # t.size
        <3>1. k \in 0 .. t.size - 1
            BY <1>7, <2>2
        <3>2. f[k] \in StandingTo(ch, n) /\ k \in DOMAIN t.content
              /\ PatternIs(t.content[k], ch[f[k]])
            BY <1>5, <3>1 DEF PatternsAt
        <3> QED BY <1>2, <1>6, <1>9, <2>2, <3>1, <3>2 DEF IsPut
    <2> QED BY <2>1, <2>2
<1>13. \A i \in StandingTo(ch, n + 1) : \E k \in 0 .. u.size - 1 : g[k] = i
    <2> TAKE i \in StandingTo(ch, n + 1)
    <2>1. CASE i = n + 1
        BY <1>8, <1>9, <2>1
    <2>2. CASE i \in StandingTo(ch, n)
        <3>1. PICK k \in 0 .. t.size - 1 : f[k] = i
            BY <1>5, <2>2 DEF PatternsAt
        <3> QED BY <1>8, <1>9, <3>1
    <2> QED BY <1>6, <2>1, <2>2
<1>14. ASSUME NEW k \in 0 .. u.size - 1, NEW l \in 0 .. u.size - 1, k < l PROVE g[k] < g[l]
    <2>1. k \in 0 .. t.size - 1
        BY <1>1, <1>4, <1>14
    <2>2. CASE l = t.size
        BY <1>9, <1>10, <2>1, <2>2
    <2>3. CASE l \in 0 .. t.size - 1
        <3>1. f[k] < f[l]
            BY <1>5, <1>14, <2>1, <2>3 DEF PatternsAt
        <3> QED BY <1>9, <2>1, <2>3, <3>1
    <2> QED BY <1>7, <2>2, <2>3
<1>15. PatternsAt(u, ch, n + 1, g)
    BY <1>12, <1>13, <1>14 DEF PatternsAt
<1>16. TernaryIs(u, ch, n + 1)
    BY <1>8, <1>11, <1>15 DEF TernaryIs
<1> QED BY <1>16 DEF u

(* The entries of a table when only its default is set.                      *)
LEMMA EntriesKept ==
    ASSUME NEW t, NEW u, NEW ch, NEW n \in Nat, ch[n + 1].kind = "default",
           u.hash = t.hash, u.rules = t.rules, u.content = t.content, u.size = t.size,
           u.index_range = t.index_range
    PROVE  /\ ExactIs(t, ch, n) => ExactIs(u, ch, n + 1)
           /\ LpmIs(t, ch, n) => LpmIs(u, ch, n + 1)
           /\ TernaryIs(t, ch, n) => TernaryIs(u, ch, n + 1)
<1>1. StandingTo(ch, n + 1) = StandingTo(ch, n) /\ \A i \in 1 .. n : i \in 1 .. n + 1
    BY OneMore
<1>2. KindsTo(ch, n + 1, "add") = KindsTo(ch, n, "add")
    BY DEF KindsTo
<1>3. \A k : OfKey(ch, n + 1, k) = OfKey(ch, n, k)
    BY <1>1 DEF OfKey
<1>4. \A p : OfPrefix(ch, n + 1, p) = OfPrefix(ch, n, p)
    BY <1>1 DEF OfPrefix
<1>5. \A i : Behind(ch, n + 1, i) = Behind(ch, n, i)
    BY <1>2 DEF Behind
<1>6. \A p, i : SlotIs(t, ch, n, p, i) => SlotIs(u, ch, n + 1, p, i)
    BY <1>3 DEF SlotIs
<1>7. \A r, i : RuleIs(t, ch, n, r, i) => RuleIs(u, ch, n + 1, r, i)
    BY <1>4, <1>5 DEF RuleIs
<1>8. ASSUME ExactIs(t, ch, n) PROVE ExactIs(u, ch, n + 1)
    BY <1>1, <1>6, <1>8 DEF ExactIs
<1>9. ASSUME LpmIs(t, ch, n) PROVE LpmIs(u, ch, n + 1)
    BY <1>1, <1>7, <1>9 DEF LpmIs
<1>10. ASSUME TernaryIs(t, ch, n) PROVE TernaryIs(u, ch, n + 1)
    <2>1. PICK f \in [0 .. t.size - 1 -> 1 .. n] : PatternsAt(t, ch, n, f)
        BY <1>10 DEF TernaryIs
    <2>2. PatternsAt(u, ch, n + 1, f)
        BY <1>1, <2>1 DEF PatternsAt
    <2>3. f \in [0 .. u.size - 1 -> 1 .. n + 1] /\ u.size \in Nat
        BY <1>1, <1>10, <2>1 DEF TernaryIs
    <2> QED BY <2>2, <2>3 DEF TernaryIs
<1> QED BY <1>8, <1>9, <1>10

(* A table without entries, of which none stands. *)
LEMMA EmptyIs ==
    ASSUME NEW t, NEW ch, NEW n \in Nat, StandingTo(ch, n) = {}
    PROVE  /\ t.hash = << >> => ExactIs(t, ch, n)
           /\ t.rules = {} /\ t.index_range \in Nat \ {0} /\ t.size \in 0 .. t.index_range - 1
              => LpmIs(t, ch, n)
           /\ t.size = 0 => TernaryIs(t, ch, n)
<1>1. t.hash = << >> => ExactIs(t, ch, n)
    BY DEF ExactIs
<1>2. t.rules = {} /\ t.index_range \in Nat \ {0} /\ t.size \in 0 .. t.index_range - 1
      => LpmIs(t, ch, n)
    BY DEF LpmIs
<1>3. ASSUME t.size = 0 PROVE TernaryIs(t, ch, n)
    <2>1. 0 .. t.size - 1 = {}
        BY <1>3
    <2> DEFINE f == [k \in {} |-> 1]
    <2>2. f \in [0 .. t.size - 1 -> 1 .. n]
        BY <2>1
    <2>3. PatternsAt(t, ch, n, f)
        <3> HIDE DEF f
        <3> QED BY <2>1 DEF PatternsAt
    <2> HIDE DEF f
    <2>4. \E g \in [0 .. t.size - 1 -> 1 .. n] : PatternsAt(t, ch, n, g)
        BY <2>2, <2>3
    <2>5. t.size \in Nat
        BY <1>3
    <2> QED BY <2>4, <2>5, Zenon DEF TernaryIs
<1> QED BY <1>1, <1>2, <1>3

(* A change leaves alone what kind of table it is; a program that has exited *)
(* does not come back.                                                       *)
SameKind(t, u) ==
    /\ DOMAIN u = Fields
    /\ u.type = t.type /\ u.key_size = t.key_size /\ u.index_range = t.index_range

StaysExited(t, u) == t.exited = TRUE => u.exited = TRUE

IsChange(op) == op.kind \in {"add", "default", "flush"}

LEMMA AddKeepsKind ==
    ASSUME NEW t, DOMAIN t = Fields, t.type \in {"exact", "lpm", "ternary"}, NEW op
    PROVE  SameKind(t, Add(t, op)) /\ StaysExited(t, Add(t, op))
<1>1. CASE t.key_size = 0
    <2>1. Add(t, op) = t
        BY <1>1 DEF Add
    <2> QED BY <2>1 DEF SameKind, StaysExited
<1>2. CASE t.key_size # 0 /\ t.type = "exact"
    <2> DEFINE full == op.key \notin Range(t.hash) /\ Len(t.hash) = t.hash_entries
               hash  == IF op.key \in Range(t.hash) THEN t.hash ELSE Append(t.hash, op.key)
               index == (CHOOSE i \in DOMAIN hash : hash[i] = op.key) - 1
               content == Put(t.content, index, make_table_entry(op.value))
    <2>1. Add(t, op) = IF full THEN [t EXCEPT !.exited = TRUE]
                       ELSE [t EXCEPT !.hash = hash, !.content = content]
        BY <1>2 DEF Add, exact_add
    <2> HIDE DEF full, hash, content
    <2>2. CASE full
        BY <2>1, <2>2 DEF SameKind, StaysExited, Fields
    <2>3. CASE ~full
        BY <2>1, <2>3 DEF SameKind, StaysExited, Fields
    <2> QED BY <2>2, <2>3
<1>3. CASE t.key_size # 0 /\ t.type = "lpm"
    <2> DEFINE new == [prefix |-> SubSeq(op.key, 1, op.depth), index |-> t.size]
               content == Put(t.content, t.size, make_table_entry(op.value))
               rules == {r \in t.rules : r.prefix # SubSeq(op.key, 1, op.depth)} \cup {new}
               next == (t.size + 1) % t.index_range
    <2>1. Add(t, op) = IF op.depth = 0 THEN [t EXCEPT !.exited = TRUE]
                       ELSE [t EXCEPT !.content = content, !.rules = rules, !.size = next]
        BY <1>3 DEF Add, lpm_add
    <2> HIDE DEF content, rules, next
    <2>2. CASE op.depth = 0
        BY <2>1, <2>2 DEF SameKind, StaysExited, Fields
    <2>3. CASE op.depth # 0
        BY <2>1, <2>3 DEF SameKind, StaysExited, Fields
    <2> QED BY <2>2, <2>3
<1>4. CASE t.key_size # 0 /\ t.type = "ternary"
    <2> DEFINE e == [key |-> op.key, mask |-> op.mask, entry |-> make_table_entry(op.value)]
               content == Put(t.content, t.size, e)
    <2>1. Add(t, op) = [t EXCEPT !.content = content, !.size = t.size + 1]
        BY <1>4 DEF Add, ternary_add
    <2> HIDE DEF content
    <2> QED BY <2>1 DEF SameKind, StaysExited, Fields
<1> QED BY <1>1, <1>2, <1>3, <1>4

(* exited is a truth value. *)
LEMMA AddExited ==
    ASSUME NEW t, DOMAIN t = Fields, t.type \in {"exact", "lpm", "ternary"}, NEW op,
           t.exited \in BOOLEAN
    PROVE  Add(t, op).exited \in BOOLEAN
<1>1. CASE t.key_size = 0
    BY <1>1 DEF Add
<1>2. CASE t.key_size # 0 /\ t.type = "exact"
    <2> DEFINE full == op.key \notin Range(t.hash) /\ Len(t.hash) = t.hash_entries
               hash  == IF op.key \in Range(t.hash) THEN t.hash ELSE Append(t.hash, op.key)
               index == (CHOOSE i \in DOMAIN hash : hash[i] = op.key) - 1
               content == Put(t.content, index, make_table_entry(op.value))
    <2>1. Add(t, op) = IF full THEN [t EXCEPT !.exited = TRUE]
                       ELSE [t EXCEPT !.hash = hash, !.content = content]
        BY <1>2 DEF Add, exact_add
    <2> HIDE DEF full, hash, content
    <2>2. Add(t, op).exited = IF full THEN TRUE ELSE t.exited
        BY <2>1 DEF Fields
    <2> QED BY <2>2
<1>3. CASE t.key_size # 0 /\ t.type = "lpm"
    <2> DEFINE new == [prefix |-> SubSeq(op.key, 1, op.depth), index |-> t.size]
               content == Put(t.content, t.size, make_table_entry(op.value))
               rules == {r \in t.rules : r.prefix # SubSeq(op.key, 1, op.depth)} \cup {new}
               next == (t.size + 1) % t.index_range
    <2>1. Add(t, op) = IF op.depth = 0 THEN [t EXCEPT !.exited = TRUE]
                       ELSE [t EXCEPT !.content = content, !.rules = rules, !.size = next]
        BY <1>3 DEF Add, lpm_add
    <2> HIDE DEF content, rules, next
    <2>2. Add(t, op).exited = IF op.depth = 0 THEN TRUE ELSE t.exited
        BY <2>1 DEF Fields
    <2> QED BY <2>2
<1>4. CASE t.key_size # 0 /\ t.type = "ternary"
    <2> DEFINE e == [key |-> op.key, mask |-> op.mask, entry |-> make_table_entry(op.value)]
               content == Put(t.content, t.size, e)
    <2>1. Add(t, op) = [t EXCEPT !.content = content, !.size = t.size + 1]
        BY <1>4 DEF Add, ternary_add
    <2> HIDE DEF content
    <2> QED BY <2>1 DEF Fields
<1> QED BY <1>1, <1>2, <1>3, <1>4

(* The three kinds of change. *)
LEMMA ChangeKeepsKind ==
    ASSUME NEW t, DOMAIN t = Fields, t.type \in {"exact", "lpm", "ternary"}, NEW op,
           IsChange(op)
    PROVE  SameKind(t, ApplyChange(t, op)) /\ StaysExited(t, ApplyChange(t, op))
<1>1. CASE op.kind = "add"
    <2>1. ApplyChange(t, op) = Add(t, op)
        BY <1>1 DEF ApplyChange
    <2> QED BY <2>1, AddKeepsKind
<1>2. CASE op.kind = "default"
    <2> DEFINE e == [make_table_entry(op.value) EXCEPT !.valid = FALSE]
    <2>1. ApplyChange(t, op) = [t EXCEPT !.default_val = e]
        BY <1>2 DEF ApplyChange, table_set_default_action
    <2> HIDE DEF e
    <2> QED BY <2>1 DEF SameKind, StaysExited, Fields
<1>3. CASE op.kind = "flush"
    <2>1. ApplyChange(t, op) = flush_table(t)
        BY <1>3 DEF ApplyChange
    <2>2. CASE t.key_size = 0
        <3>1. flush_table(t) = t
            BY <2>2 DEF flush_table
        <3> QED BY <2>1, <3>1 DEF SameKind, StaysExited
    <2>3. CASE t.key_size # 0
        <3> DEFINE size == IF t.type = "ternary" THEN 0 ELSE t.size
        <3>1. flush_table(t) = [t EXCEPT !.hash = << >>, !.rules = {}, !.size = size]
            BY <2>3 DEF flush_table
        <3> HIDE DEF size
        <3> QED BY <2>1, <3>1 DEF SameKind, StaysExited, Fields
    <2> QED BY <2>2, <2>3
<1> QED BY <1>1, <1>2, <1>3 DEF IsChange

(* What ScenarioAssumption says of a change, and Relaunch's flush.           *)
ChangeFits(s, op) == MayBeChanged(s, op) \/ op = [kind |-> "flush"]

(* The table is as the first n changes say, unless the program has exited.   *)
Row(s, t, ch, n) ==
    /\ DOMAIN t = Fields
    /\ t.type = s.type /\ t.key_size = s.key_size /\ t.index_range = s.index_range
    /\ t.exited \in BOOLEAN
    /\ t.exited = FALSE => TableIs(t, ch, n)

(* A table of each kind after an entry was added. *)
LEMMA AddRow ==
    ASSUME NEW s, NEW t, NEW ch, NEW n \in Nat, DOMAIN t = Fields, t.type = s.type,
           t.type \in {"exact", "lpm", "ternary"},
           TableIs(t, ch, n), ch[n + 1].kind = "add", MayBeChanged(s, ch[n + 1]),
           Add(t, ch[n + 1]).exited = FALSE
    PROVE  TableIs(Add(t, ch[n + 1]), ch, n + 1)
<1> DEFINE op == ch[n + 1]
           u == Add(t, op)
<1>1. DefaultIs(t, ch, n)
    BY DEF TableIs
<1>2. op.key \in Seq(Nat)
    BY DEF MayBeChanged
<1>3. SameKind(t, u)
    BY AddKeepsKind
<1>4. CASE t.key_size = 0
    <2>1. u = t
        BY <1>4 DEF Add
    <2>2. DefaultIs(u, ch, n + 1)
        BY <1>1, <2>1, KeepsDefault
    <2> QED BY <1>4, <2>1, <2>2 DEF TableIs
<1>5. CASE t.key_size # 0 /\ t.type = "exact"
    <2>1. u = exact_add(t, op.key, op.value)
        BY <1>5 DEF Add
    <2>2. ExactIs(t, ch, n)
        BY <1>5 DEF TableIs
    <2>3. ~exact_add(t, op.key, op.value).exited
        BY <2>1
    <2>4. ExactIs(u, ch, n + 1)
        BY <1>2, <1>5, <2>1, <2>2, <2>3, ExactGrows
    <2>5. u.default_val = t.default_val
        <3>1. op.key \in Range(t.hash) \/ Len(t.hash) # t.hash_entries
            <4> SUFFICES ASSUME op.key \notin Range(t.hash) /\ Len(t.hash) = t.hash_entries
                         PROVE  FALSE
                OBVIOUS
            <4>1. u = [t EXCEPT !.exited = TRUE]
                BY <2>1 DEF exact_add
            <4> QED BY <4>1 DEF Fields
        <3> DEFINE hash  == IF op.key \in Range(t.hash) THEN t.hash ELSE Append(t.hash, op.key)
                   index == (CHOOSE i \in DOMAIN hash : hash[i] = op.key) - 1
                   content == Put(t.content, index, make_table_entry(op.value))
        <3>2. u = [t EXCEPT !.hash = hash, !.content = content]
            BY <2>1, <3>1 DEF exact_add
        <3> HIDE DEF hash, content, u
        <3> QED BY <3>2 DEF Fields
    <2>6. DefaultIs(u, ch, n + 1)
        BY <1>1, <2>5, KeepsDefault
    <2> HIDE DEF u
    <2>7. TableIs(u, ch, n + 1)
        BY <1>3, <1>5, <2>4, <2>6 DEF TableIs, SameKind
    <2> QED BY <2>7 DEF u
<1>6. CASE t.key_size # 0 /\ t.type = "lpm"
    <2>1. u = lpm_add(t, op.key, op.depth, op.value)
        BY <1>6 DEF Add
    <2>2. op.depth # 0
        <3> SUFFICES ASSUME op.depth = 0 PROVE FALSE
            OBVIOUS
        <3>1. u = [t EXCEPT !.exited = TRUE]
            BY <2>1 DEF lpm_add
        <3> QED BY <3>1 DEF Fields
    <2>3. LpmIs(t, ch, n)
        BY <1>6 DEF TableIs
    <2>4. LpmIs(u, ch, n + 1)
        BY <2>1, <2>2, <2>3, LpmGrows
    <2>5. u.default_val = t.default_val
        <3> DEFINE new == [prefix |-> SubSeq(op.key, 1, op.depth), index |-> t.size]
                   content == Put(t.content, t.size, make_table_entry(op.value))
                   rules == {r \in t.rules : r.prefix # SubSeq(op.key, 1, op.depth)} \cup {new}
                   next == (t.size + 1) % t.index_range
        <3>1. u = [t EXCEPT !.content = content, !.rules = rules, !.size = next]
            BY <2>1, <2>2 DEF lpm_add
        <3> HIDE DEF content, rules, next, u
        <3> QED BY <3>1 DEF Fields
    <2>6. DefaultIs(u, ch, n + 1)
        BY <1>1, <2>5, KeepsDefault
    <2> HIDE DEF u
    <2>7. TableIs(u, ch, n + 1)
        BY <1>3, <1>6, <2>4, <2>6 DEF TableIs, SameKind
    <2> QED BY <2>7 DEF u
<1>7. CASE t.key_size # 0 /\ t.type = "ternary"
    <2>1. u = ternary_add(t, op.key, op.mask, op.value)
        BY <1>7 DEF Add
    <2>2. TernaryIs(t, ch, n)
        BY <1>7 DEF TableIs
    <2>3. TernaryIs(u, ch, n + 1)
        BY <2>1, <2>2, TernaryGrows
    <2>4. u.default_val = t.default_val
        <3> DEFINE e == [key |-> op.key, mask |-> op.mask, entry |-> make_table_entry(op.value)]
                   content == Put(t.content, t.size, e)
        <3>1. u = [t EXCEPT !.content = content, !.size = t.size + 1]
            BY <2>1 DEF ternary_add
        <3> HIDE DEF content, u
        <3> QED BY <3>1 DEF Fields
    <2>5. DefaultIs(u, ch, n + 1)
        BY <1>1, <2>4, KeepsDefault
    <2> HIDE DEF u
    <2>6. TableIs(u, ch, n + 1)
        BY <1>3, <1>7, <2>3, <2>5 DEF TableIs, SameKind
    <2> QED BY <2>6 DEF u
<1> QED BY <1>4, <1>5, <1>6, <1>7

(* flush forgets the entries, in an LPM table all but the next index. *)
LEMMA FlushRow ==
    ASSUME NEW t, NEW ch, NEW n \in Nat, DOMAIN t = Fields, TableIs(t, ch, n),
           t.type \in {"exact", "lpm", "ternary"}, ch[n + 1].kind = "flush"
    PROVE  TableIs(flush_table(t), ch, n + 1)
<1> DEFINE u == flush_table(t)
<1>1. DefaultIs(t, ch, n) /\ StandingTo(ch, n + 1) = {}
    BY OneMore DEF TableIs
<1>2. CASE t.key_size = 0
    <2>1. u = t
        BY <1>2 DEF flush_table
    <2>2. DefaultIs(u, ch, n + 1)
        BY <1>1, <2>1, KeepsDefault
    <2> QED BY <1>2, <2>1, <2>2 DEF TableIs
<1>3. CASE t.key_size # 0
    <2> DEFINE size == IF t.type = "ternary" THEN 0 ELSE t.size
    <2>1. u = [t EXCEPT !.hash = << >>, !.rules = {}, !.size = size]
        BY <1>3 DEF flush_table
    <2> HIDE DEF u
    <2>2. /\ u.hash = << >> /\ u.rules = {} /\ u.default_val = t.default_val
          /\ u.type = t.type /\ u.index_range = t.index_range
          /\ (t.type = "ternary" => u.size = 0) /\ (t.type # "ternary" => u.size = t.size)
        BY <2>1 DEF Fields
    <2>3. DefaultIs(u, ch, n + 1)
        BY <1>1, <2>2, KeepsDefault
    <2>4. n + 1 \in Nat
        OBVIOUS
    <2>5. ExactIs(u, ch, n + 1) /\ (t.type = "ternary" => TernaryIs(u, ch, n + 1))
        BY <1>1, <2>2, <2>4, EmptyIs
    <2>6. ASSUME t.type = "lpm" PROVE LpmIs(u, ch, n + 1)
        <3>1. t.index_range \in Nat \ {0} /\ t.size \in 0 .. t.index_range - 1
            BY <1>3, <2>6 DEF TableIs, LpmIs
        <3>2. u.index_range \in Nat \ {0} /\ u.size \in 0 .. u.index_range - 1
            BY <2>2, <2>6, <3>1
        <3> QED BY <1>1, <2>2, <2>4, <3>2, EmptyIs
    <2>7. TableIs(u, ch, n + 1)
        BY <2>2, <2>3, <2>5, <2>6 DEF TableIs
    <2> QED BY <2>7 DEF u
<1> QED BY <1>2, <1>3

(* The byte after a default is not set. *)
LEMMA Invalid ==
    ASSUME NEW v
    PROVE  [[value |-> v, valid |-> TRUE] EXCEPT !.valid = FALSE] = [value |-> v, valid |-> FALSE]
<1> DEFINE e == [[value |-> v, valid |-> TRUE] EXCEPT !.valid = FALSE]
           g == [value |-> v, valid |-> FALSE]
<1>1. e = [x \in {"value", "valid"} |-> e[x]] /\ e.value = v /\ e.valid = FALSE
    OBVIOUS
<1>2. g = [x \in {"value", "valid"} |-> g[x]] /\ g.value = v /\ g.valid = FALSE
    OBVIOUS
<1> HIDE DEF e, g
<1>3. \A x \in {"value", "valid"} : e[x] = g[x]
    BY <1>1, <1>2
<1>4. e = g
    BY <1>1, <1>2, <1>3
<1> QED BY <1>4 DEF e, g

(* table_set_default_action changes no entry. *)
LEMMA DefaultRow ==
    ASSUME NEW t, NEW ch, NEW n \in Nat, DOMAIN t = Fields, TableIs(t, ch, n),
           ch[n + 1].kind = "default"
    PROVE  TableIs(table_set_default_action(t, ch[n + 1].value), ch, n + 1)
<1> DEFINE v == ch[n + 1].value
           u == table_set_default_action(t, v)
           e == [make_table_entry(v) EXCEPT !.valid = FALSE]
<1>1. e = [value |-> v, valid |-> FALSE]
    <2> HIDE DEF v
    <2>1. e = [[value |-> v, valid |-> TRUE] EXCEPT !.valid = FALSE]
        BY DEF make_table_entry
    <2> QED BY <2>1, Invalid
<1>2. u = [t EXCEPT !.default_val = e]
    BY DEF table_set_default_action
<1> HIDE DEF u, e
<1>3. /\ u.hash = t.hash /\ u.rules = t.rules /\ u.content = t.content /\ u.size = t.size
      /\ u.index_range = t.index_range /\ u.type = t.type /\ u.key_size = t.key_size
      /\ u.default_val = e
    BY <1>2 DEF Fields
<1>4. DefaultIs(u, ch, n + 1)
    BY <1>1, <1>3, SetsDefault
<1>5. /\ ExactIs(t, ch, n) => ExactIs(u, ch, n + 1)
      /\ LpmIs(t, ch, n) => LpmIs(u, ch, n + 1)
      /\ TernaryIs(t, ch, n) => TernaryIs(u, ch, n + 1)
    BY <1>3, EntriesKept
<1>6. TableIs(u, ch, n + 1)
    BY <1>3, <1>4, <1>5 DEF TableIs
<1> QED BY <1>6 DEF u

(* Any change: the table is then as the changes up to it say.                *)
LEMMA ChangeRow ==
    ASSUME NEW s, s.type \in {"exact", "lpm", "ternary"}, NEW t, NEW ch, NEW n \in Nat,
           Row(s, t, ch, n), ChangeFits(s, ch[n + 1])
    PROVE  Row(s, ApplyChange(t, ch[n + 1]), ch, n + 1)
<1> DEFINE op == ch[n + 1]
           u == ApplyChange(t, op)
<1>1. /\ DOMAIN t = Fields /\ t.type = s.type /\ t.key_size = s.key_size
      /\ t.index_range = s.index_range /\ t.exited \in BOOLEAN
      /\ (t.exited = FALSE => TableIs(t, ch, n))
    BY DEF Row
<1>2. op.kind \in {"add", "default", "flush"}
    BY DEF ChangeFits, MayBeChanged
<1>3. SameKind(t, u) /\ StaysExited(t, u)
    <2>1. DOMAIN t = Fields /\ t.type \in {"exact", "lpm", "ternary"}
        BY <1>1
    <2> HIDE DEF op
    <2> QED BY <1>2, <2>1, ChangeKeepsKind DEF IsChange
<1>4. u.exited \in BOOLEAN
    <2>1. CASE op.kind = "add"
        <3>1. u = Add(t, op)
            BY <2>1 DEF ApplyChange
        <3>2. Add(t, op).exited \in BOOLEAN
            BY <1>1, AddExited
        <3> QED BY <3>1, <3>2
    <2>2. CASE op.kind = "default"
        <3> DEFINE e == [make_table_entry(op.value) EXCEPT !.valid = FALSE]
        <3>1. u = [t EXCEPT !.default_val = e]
            BY <2>2 DEF ApplyChange, table_set_default_action
        <3> HIDE DEF e, u
        <3> QED BY <1>1, <3>1 DEF Fields
    <2>3. CASE op.kind = "flush"
        <3>1. u = flush_table(t)
            BY <2>3 DEF ApplyChange
        <3>2. CASE t.key_size = 0
            BY <1>1, <3>1, <3>2 DEF flush_table
        <3>3. CASE t.key_size # 0
            <4> DEFINE size == IF t.type = "ternary" THEN 0 ELSE t.size
            <4>1. u = [t EXCEPT !.hash = << >>, !.rules = {}, !.size = size]
                BY <3>1, <3>3 DEF flush_table
            <4> HIDE DEF size, u
            <4> QED BY <1>1, <4>1 DEF Fields
        <3> QED BY <3>2, <3>3
    <2> QED BY <1>2, <2>1, <2>2, <2>3
<1>5. ASSUME u.exited = FALSE PROVE TableIs(u, ch, n + 1)
    <2>1. TableIs(t, ch, n)
        BY <1>1, <1>3, <1>5 DEF StaysExited
    <2>2. CASE op.kind = "add"
        <3>1. u = Add(t, op) /\ MayBeChanged(s, op)
            BY <2>2 DEF ApplyChange, ChangeFits
        <3> QED BY <1>1, <1>5, <2>1, <2>2, <3>1, AddRow
    <2>3. CASE op.kind = "default"
        <3>1. u = table_set_default_action(t, op.value)
            BY <2>3 DEF ApplyChange
        <3> QED BY <1>1, <2>1, <2>3, <3>1, DefaultRow
    <2>4. CASE op.kind = "flush"
        <3>1. u = flush_table(t)
            BY <2>4 DEF ApplyChange
        <3> QED BY <1>1, <2>1, <2>4, <3>1, FlushRow
    <2> QED BY <1>2, <2>2, <2>3, <2>4
<1> HIDE DEF u
<1>6. Row(s, u, ch, n + 1)
    BY <1>1, <1>3, <1>4, <1>5 DEF Row, SameKind
<1> QED BY <1>6 DEF u

(* What two lists of changes say alike to a point.                           *)
LEMMA SameRow ==
    ASSUME NEW s, NEW t, NEW n \in Nat, NEW ch, NEW dh, \A i \in 1 .. n : dh[i] = ch[i],
           Row(s, t, ch, n)
    PROVE  Row(s, t, dh, n)
<1>1. \A kind : KindsTo(dh, n, kind) = KindsTo(ch, n, kind)
    BY DEF KindsTo
<1>2. StandingTo(dh, n) = StandingTo(ch, n) /\ StandingTo(ch, n) \subseteq 1 .. n
    BY <1>1, OneMore DEF StandingTo
<1>3. \A k : OfKey(dh, n, k) = OfKey(ch, n, k)
    BY <1>2 DEF OfKey
<1>4. \A p : OfPrefix(dh, n, p) = OfPrefix(ch, n, p)
    BY <1>2 DEF OfPrefix
<1>5. \A i : Behind(dh, n, i) = Behind(ch, n, i)
    BY <1>1 DEF Behind
<1>6. DefaultIs(t, ch, n) => DefaultIs(t, dh, n)
    BY <1>1 DEF DefaultIs
<1>7. \A p : \A i \in 1 .. n : SlotIs(t, ch, n, p, i) => SlotIs(t, dh, n, p, i)
    BY <1>3 DEF SlotIs
<1>8. \A r : \A i \in 1 .. n : RuleIs(t, ch, n, r, i) => RuleIs(t, dh, n, r, i)
    BY <1>4, <1>5 DEF RuleIs
<1>9. ASSUME ExactIs(t, ch, n) PROVE ExactIs(t, dh, n)
    BY <1>2, <1>7, <1>9 DEF ExactIs
<1>10. ASSUME LpmIs(t, ch, n) PROVE LpmIs(t, dh, n)
    BY <1>2, <1>8, <1>10 DEF LpmIs
<1>11. ASSUME TernaryIs(t, ch, n) PROVE TernaryIs(t, dh, n)
    <2>1. PICK f \in [0 .. t.size - 1 -> 1 .. n] : PatternsAt(t, ch, n, f)
        BY <1>11 DEF TernaryIs
    <2>2. PatternsAt(t, dh, n, f)
        BY <1>2, <2>1 DEF PatternsAt
    <2> QED BY <1>11, <2>2 DEF TernaryIs
<1>12. TableIs(t, ch, n) => TableIs(t, dh, n)
    BY <1>6, <1>9, <1>10, <1>11 DEF TableIs
<1> QED BY <1>12 DEF Row

(* A new table has no entry. *)
LEMMA CreateRow ==
    ASSUME NEW s, s.index_range \in Nat \ {0}, NEW ch
    PROVE  Row(s, create_table(s.type, s.key_size, s.hash_entries, s.index_range), ch, 0)
<1> DEFINE t == create_table(s.type, s.key_size, s.hash_entries, s.index_range)
           exited == s.type = "lpm" /\ s.key_size > 16
<1>1. /\ DOMAIN t = Fields /\ t.type = s.type /\ t.key_size = s.key_size
      /\ t.index_range = s.index_range /\ t.default_val = NoEntry /\ t.size = 0
      /\ t.hash = << >> /\ t.rules = {} /\ t.exited = exited
    <2> HIDE DEF exited, NoEntry
    <2> QED BY DEF create_table, Fields, exited
<1>2. exited \in BOOLEAN
    OBVIOUS
<1> HIDE DEF t, exited
<1>3. StandingTo(ch, 0) = {} /\ KindsTo(ch, 0, "default") = {}
    BY DEF StandingTo, KindsTo
<1>4. 0 \in 0 .. s.index_range - 1
    OBVIOUS
<1>5. ExactIs(t, ch, 0) /\ LpmIs(t, ch, 0) /\ TernaryIs(t, ch, 0)
    BY <1>1, <1>3, <1>4, EmptyIs
<1>6. DefaultIs(t, ch, 0)
    BY <1>1, <1>3 DEF DefaultIs
<1>7. Row(s, t, ch, 0)
    BY <1>1, <1>2, <1>5, <1>6 DEF Row, TableIs
<1> QED BY <1>7 DEF t

(* The table with which the cores start is as the changes made before say.   *)
LEMMA CreateTablesRow ==
    ASSUME NEW s \in Scenarios
    PROVE  Row(s, create_tables(s), s.preset, Len(s.preset))
<1> DEFINE L == Len(s.preset)
           f == CHOOSE g : Created(s, L, g)
           z == create_table(s.type, s.key_size, s.hash_entries, s.index_range)
           T == {n \in Nat : n <= L => Row(s, f[n], s.preset, n)}
<1>1. /\ s.preset \in Seq(Range(s.preset)) /\ s.type \in {"exact", "lpm", "ternary"}
      /\ \A op \in Range(s.preset) : MayBeChanged(s, op)
      /\ s.index_range \in Nat \ {0}
    BY ScenarioAssumption
<1>2. L \in Nat /\ \A i \in 1 .. L : s.preset[i] \in Range(s.preset)
    <2> DEFINE R == Range(s.preset)
    <2>1. s.preset \in Seq(R)
        BY <1>1
    <2> HIDE DEF R
    <2>2. L \in Nat /\ \A i \in 1 .. L : s.preset[i] \in R
        BY <2>1
    <2> QED BY <2>2 DEF R
<1>3. Created(s, L, f)
    BY <1>2, CreatedExists
<1>4. create_tables(s) = f[L]
    BY DEF create_tables, Created
<1> HIDE DEF f, L
<1>5. \A i \in 0 .. L : f[i] = IF i = 0 THEN z ELSE ApplyChange(f[i - 1], s.preset[i])
    BY <1>3 DEF Created
<1>6. 0 \in T
    <2>1. 0 \in 0 .. L /\ f[0] = z
        BY <1>2, <1>5
    <2>2. Row(s, z, s.preset, 0)
        BY <1>1, CreateRow
    <2> HIDE DEF z
    <2> QED BY <2>1, <2>2
<1>7. ASSUME NEW n \in Nat, n \in T PROVE n + 1 \in T
    <2> SUFFICES ASSUME n + 1 <= L PROVE Row(s, f[n + 1], s.preset, n + 1)
        OBVIOUS
    <2>1. n + 1 \in 0 .. L /\ n + 1 # 0 /\ (n + 1) - 1 = n /\ n + 1 \in 1 .. L /\ n <= L
        BY <1>2
    <2>2. Row(s, f[n], s.preset, n)
        BY <1>7, <2>1
    <2>3. f[n + 1] = ApplyChange(f[n], s.preset[n + 1])
        BY <1>5, <2>1
    <2>4. ChangeFits(s, s.preset[n + 1])
        BY <1>1, <1>2, <2>1 DEF ChangeFits
    <2> DEFINE ch == s.preset
               t == f[n]
    <2>5. Row(s, t, ch, n) /\ ChangeFits(s, ch[n + 1]) /\ f[n + 1] = ApplyChange(t, ch[n + 1])
        BY <2>2, <2>3, <2>4
    <2> HIDE DEF t, ch
    <2>6. Row(s, ApplyChange(t, ch[n + 1]), ch, n + 1)
        BY <1>1, <2>5, ChangeRow
    <2>7. Row(s, f[n + 1], ch, n + 1)
        BY <2>5, <2>6
    <2> QED BY <2>7 DEF ch
<1>8. Nat \subseteq T
    <2> HIDE DEF T
    <2> QED BY <1>6, <1>7, FromZero
<1> QED BY <1>2, <1>4, <1>8 DEF L
-----------------------------------------------------------------------------
(* What a lookup finds, and what the changes promise.                        *)

(* The changes up to the last are all of them. *)
Complete(ch, n) == n \in Nat /\ DOMAIN ch = 1 .. n

Matching(type, ch, k) == {i \in Standing(ch) : MatchesKey(type, ch[i], k)}

LEMMA AllChanges ==
    ASSUME NEW ch, NEW n, Complete(ch, n)
    PROVE  /\ \A kind : Kinds(ch, kind) = KindsTo(ch, n, kind)
           /\ Standing(ch) = StandingTo(ch, n) /\ Standing(ch) \subseteq 1 .. n
<1>1. \A kind : Kinds(ch, kind) = KindsTo(ch, n, kind)
    BY DEF Complete, Kinds, KindsTo
<1>2. Standing(ch) = StandingTo(ch, n)
    BY <1>1 DEF Standing, StandingTo
<1>3. StandingTo(ch, n) \subseteq 1 .. n
    BY DEF StandingTo, KindsTo
<1> QED BY <1>1, <1>2, <1>3

(* Where nothing matches, the default that was set last.                     *)
LEMMA PromisedDefault ==
    ASSUME NEW ch, NEW n, Complete(ch, n), NEW t, DefaultIs(t, ch, n), NEW type,
           NEW keyless \in BOOLEAN, NEW k, keyless \/ Matching(type, ch, k) = {}
    PROVE  Promised(type, keyless, ch, k) = t.default_val
<1> DEFINE S == Kinds(ch, "default")
           found == IF keyless THEN {} ELSE Matching(type, ch, k)
           winner == CHOOSE i \in found : \A j \in found : Wins(type, ch, i, j)
<1>1. S = KindsTo(ch, n, "default") /\ S \subseteq 1 .. n
    <2>1. S = KindsTo(ch, n, "default")
        BY AllChanges
    <2>2. KindsTo(ch, n, "default") \subseteq 1 .. n
        BY DEF KindsTo
    <2> QED BY <2>1, <2>2
<1>2. found = {}
    OBVIOUS
<1>3. Promised(type, keyless, ch, k) =
         IF found # {} THEN [value |-> ch[winner].value, valid |-> TRUE]
         ELSE IF S # {} THEN [value |-> ch[Max(S)].value, valid |-> FALSE] ELSE NoEntry
    BY DEF Promised, Matching
<1> HIDE DEF S, found
<1>4. CASE S = {}
    <2>1. t.default_val = NoEntry
        BY <1>1, <1>4 DEF DefaultIs, Newest
    <2> QED BY <1>2, <1>3, <1>4, <2>1
<1>5. CASE S # {}
    <2>1. PICK i \in 1 .. n : /\ Newest(S, i)
                              /\ t.default_val = [value |-> ch[i].value, valid |-> FALSE]
        BY <1>1, <1>5 DEF DefaultIs
    <2>2. i \in S /\ (\A j \in S : i >= j) /\ n \in Nat
        BY <1>1, <2>1 DEF Newest, Complete
    <2>3. \A j \in S : (\A m \in S : j >= m) => j = i
        BY <1>1, <2>2
    <2>4. Max(S) = i
        BY <2>2, <2>3 DEF Max
    <2> QED BY <1>2, <1>3, <1>5, <2>1, <2>4
<1> QED BY <1>4, <1>5

(* Where some match, the entry that wins against all of them.                *)
LEMMA PromisedWinner ==
    ASSUME NEW ch, NEW n, Complete(ch, n), NEW type \in {"exact", "lpm", "ternary"}, NEW k,
           type = "lpm" => \A i \in Standing(ch) : ch[i].depth \in Nat,
           NEW w \in Matching(type, ch, k),
           \A j \in Matching(type, ch, k) : Wins(type, ch, w, j)
    PROVE  Promised(type, FALSE, ch, k) = make_table_entry(ch[w].value)
<1> DEFINE found == Matching(type, ch, k)
           winner == CHOOSE i \in found : \A j \in found : Wins(type, ch, i, j)
           S == Kinds(ch, "default")
<1>1. found \subseteq 1 .. n /\ found \subseteq Standing(ch) /\ n \in Nat
    BY AllChanges DEF Matching, Complete
<1>2. \A i \in found : (\A j \in found : Wins(type, ch, i, j)) => i = w
    <2> SUFFICES ASSUME NEW i \in found, \A j \in found : Wins(type, ch, i, j) PROVE i = w
        OBVIOUS
    <2>1. Wins(type, ch, i, w) /\ Wins(type, ch, w, i) /\ i \in found /\ w \in found
        OBVIOUS
    <2> HIDE DEF found
    <2>2. i \in Nat /\ w \in Nat
        BY <1>1, <2>1
    <2>3. CASE type = "exact"
        BY <2>1, <2>2, <2>3 DEF Wins
    <2>4. CASE type = "ternary"
        BY <2>1, <2>2, <2>4 DEF Wins
    <2>5. CASE type = "lpm"
        <3>1. ch[i].depth \in Nat /\ ch[w].depth \in Nat
            BY <1>1, <2>1, <2>5
        <3> QED BY <2>1, <2>2, <2>5, <3>1 DEF Wins
    <2> QED BY <2>3, <2>4, <2>5
<1>3. Promised(type, FALSE, ch, k) =
         IF found # {} THEN [value |-> ch[winner].value, valid |-> TRUE]
         ELSE IF S # {} THEN [value |-> ch[Max(S)].value, valid |-> FALSE] ELSE NoEntry
    BY DEF Promised, Matching
<1> HIDE DEF found, S
<1>4. winner = w /\ found # {}
    BY <1>2 DEF found
<1> HIDE DEF winner
<1> QED BY <1>3, <1>4 DEF make_table_entry

(* exact_lookup finds the last entry added for the key. *)
LEMMA ExactFinds ==
    ASSUME NEW ch, NEW n, Complete(ch, n), NEW t, ExactIs(t, ch, n), DefaultIs(t, ch, n), NEW k
    PROVE  exact_lookup(t, k) = Promised("exact", FALSE, ch, k)
<1>1. Standing(ch) = StandingTo(ch, n) /\ Standing(ch) \subseteq 1 .. n
    BY AllChanges
<1>2. Matching("exact", ch, k) = OfKey(ch, n, k)
    BY <1>1 DEF Matching, MatchesKey, OfKey
<1>3. CASE k \in Range(t.hash)
    <2>1. PICK p \in DOMAIN t.hash : t.hash[p] = k
        BY <1>3 DEF Range
    <2>2. \A q \in DOMAIN t.hash : t.hash[q] = k => q = p
        BY <2>1 DEF ExactIs
    <2>3. (CHOOSE q \in DOMAIN t.hash : t.hash[q] = k) = p
        BY <2>1, <2>2
    <2>4. PICK i \in 1 .. n : SlotIs(t, ch, n, p, i)
        BY <2>1 DEF ExactIs
    <2>5. exact_lookup(t, k) = make_table_entry(ch[i].value)
        BY <1>3, <2>3, <2>4 DEF exact_lookup, SlotIs
    <2>6. i \in Matching("exact", ch, k) /\ \A j \in Matching("exact", ch, k) : j <= i
        BY <1>2, <2>1, <2>4 DEF SlotIs, Newest
    <2>7. \A j \in Matching("exact", ch, k) : Wins("exact", ch, i, j)
        BY <2>6 DEF Wins
    <2>8. Promised("exact", FALSE, ch, k) = make_table_entry(ch[i].value)
        BY <2>6, <2>7, PromisedWinner
    <2> QED BY <2>5, <2>8
<1>4. CASE k \notin Range(t.hash)
    <2>1. exact_lookup(t, k) = t.default_val
        BY <1>4 DEF exact_lookup
    <2>2. Matching("exact", ch, k) = {}
        <3> SUFFICES ASSUME NEW i \in OfKey(ch, n, k) PROVE FALSE
            BY <1>2
        <3>1. PICK p \in DOMAIN t.hash : t.hash[p] = ch[i].key
            BY DEF ExactIs, OfKey
        <3>2. t.hash[p] = k
            BY <3>1 DEF OfKey
        <3> QED BY <1>4, <3>2 DEF Range
    <2>3. Promised("exact", FALSE, ch, k) = t.default_val
        BY <2>2, PromisedDefault
    <2> QED BY <2>1, <2>3
<1> QED BY <1>3, <1>4

(* What ScenarioAssumption says of the entries that stand. *)
PrefixesFit(ch) ==
    \A i \in Standing(ch) : ch[i].key \in Seq(Nat) /\ ch[i].depth \in 0 .. Len(ch[i].key)

PatternsFit(ch, k) ==
    \A i \in Standing(ch) : /\ ch[i].key \in Seq(Nat) /\ ch[i].mask \in Seq({0, 1})
                            /\ Len(ch[i].key) = Len(k) /\ Len(ch[i].mask) = Len(k)

(* Two prefixes of a key that are as long as each other are the same.        *)
LEMMA PrefixLength ==
    ASSUME NEW k \in Seq(Nat), NEW d \in 0 .. Len(k)
    PROVE  /\ SubSeq(k, 1, d) \in Seq(Nat) /\ Len(SubSeq(k, 1, d)) = d
           /\ SubSeq(SubSeq(k, 1, d), 1, d) = SubSeq(k, 1, d)
<1>1. Len(k) \in Nat /\ d \in Nat /\ d <= Len(k)
    OBVIOUS
<1>2. 1 \in 1 .. Len(k) + 1 /\ d \in 1 - 1 .. Len(k)
    BY <1>1
<1> DEFINE p == SubSeq(k, 1, d)
<1>3. p \in Seq(Nat) /\ Len(p) = d /\ \A i \in 1 .. d : p[i] = k[i]
    <2>1. /\ p \in Seq(Nat) /\ Len(p) = d - 1 + 1
          /\ \A i \in 1 .. d - 1 + 1 : p[i] = k[1 + i - 1]
        BY <1>2, SubSeqProperties
    <2>2. d - 1 + 1 = d /\ \A i \in 1 .. d : 1 + i - 1 = i
        BY <1>1
    <2> QED BY <2>1, <2>2
<1> HIDE DEF p
<1>4. SubSeq(p, 1, d) = p
    <2>1. 1 \in 1 .. Len(p) + 1 /\ d \in 1 - 1 .. Len(p)
        BY <1>1, <1>3
    <2> DEFINE q == SubSeq(p, 1, d)
    <2>2. /\ q \in Seq(Nat) /\ Len(q) = d - 1 + 1
          /\ \A i \in 1 .. d - 1 + 1 : q[i] = p[1 + i - 1]
        BY <1>3, <2>1, SubSeqProperties
    <2>3. d - 1 + 1 = d /\ \A i \in 1 .. d : 1 + i - 1 = i
        BY <1>1
    <2> HIDE DEF q
    <2>4. Len(q) = Len(p) /\ \A i \in 1 .. Len(p) : q[i] = p[i]
        BY <1>3, <2>2, <2>3
    <2>5. q = p
        BY <1>3, <2>2, <2>4, SeqEqual
    <2> QED BY <2>5 DEF q
<1> QED BY <1>3, <1>4 DEF p

(* Those that stand are at most as many as were added since one of them.     *)
LEMMA BehindStanding ==
    ASSUME NEW ch, NEW n, Complete(ch, n), NEW i \in Standing(ch)
    PROVE  Behind(ch, n, i) <= Cardinality(Standing(ch)) /\ Behind(ch, n, i) \in Nat
           /\ Cardinality(Standing(ch)) \in Nat
<1> DEFINE S == {a \in KindsTo(ch, n, "add") : i <= a}
<1>1. Standing(ch) = StandingTo(ch, n) /\ Standing(ch) \subseteq 1 .. n /\ n \in Nat
    BY AllChanges DEF Complete
<1>2. S \subseteq StandingTo(ch, n)
    <2> SUFFICES ASSUME NEW a \in S, NEW f \in KindsTo(ch, n, "flush") PROVE f < a
        BY DEF StandingTo
    <2>1. f < i /\ i <= a
        BY <1>1 DEF StandingTo
    <2>2. f \in Nat /\ i \in Nat /\ a \in Nat
        BY <1>1 DEF KindsTo
    <2> QED BY <2>1, <2>2
<1>3. IsFiniteSet(Standing(ch))
    BY <1>1, PositionsFinite
<1>4. S \in SUBSET Standing(ch)
    BY <1>1, <1>2
<1> HIDE DEF S
<1>5. Cardinality(S) <= Cardinality(Standing(ch)) /\ IsFiniteSet(S)
    BY <1>3, <1>4, FS_Subset
<1>6. Cardinality(S) \in Nat /\ Cardinality(Standing(ch)) \in Nat
    BY <1>3, <1>5, FS_CardinalityType
<1> QED BY <1>5, <1>6 DEF S, Behind

(* lpm_lookup finds the last entry added for the longest prefix.             *)
LEMMA LpmFinds ==
    ASSUME NEW ch, NEW n, Complete(ch, n), NEW t, LpmIs(t, ch, n), DefaultIs(t, ch, n),
           NEW k \in Seq(Nat), PrefixesFit(ch),
           Cardinality(Standing(ch)) <= t.index_range
    PROVE  lpm_lookup(t, k) = Promised("lpm", FALSE, ch, k)
<1> DEFINE F == {r \in t.rules : IsPrefix(r.prefix, k)}
           best == CHOOSE r \in F : \A q \in F : Len(q.prefix) <= Len(r.prefix)
           M == Matching("lpm", ch, k)
<1>1. Standing(ch) = StandingTo(ch, n) /\ Standing(ch) \subseteq 1 .. n
    BY AllChanges
<1>2. \A i \in Standing(ch) : /\ ch[i].depth \in Nat /\ Len(PrefixOf(ch[i])) = ch[i].depth
                              /\ SubSeq(PrefixOf(ch[i]), 1, ch[i].depth) = PrefixOf(ch[i])
    <2> TAKE i \in Standing(ch)
    <2> DEFINE a == ch[i].key
               d == ch[i].depth
    <2>1. a \in Seq(Nat) /\ d \in 0 .. Len(a)
        BY DEF PrefixesFit
    <2> HIDE DEF a, d
    <2>2. Len(SubSeq(a, 1, d)) = d /\ SubSeq(SubSeq(a, 1, d), 1, d) = SubSeq(a, 1, d)
        BY <2>1, PrefixLength
    <2> QED BY <2>1, <2>2 DEF a, d, PrefixOf
<1>3. \A i : i \in M <=> i \in Standing(ch) /\ IsPrefix(PrefixOf(ch[i]), k)
    BY DEF Matching, MatchesKey, PrefixOf
<1>4. \A i \in M : \E r \in F : r.prefix = PrefixOf(ch[i])
    BY <1>1, <1>3 DEF LpmIs
<1>5. \A r \in t.rules : \E i \in 1 .. n : RuleIs(t, ch, n, r, i) /\ i \in Standing(ch)
                                           /\ r.prefix = PrefixOf(ch[i])
    <2> TAKE r \in t.rules
    <2>1. PICK i \in 1 .. n : RuleIs(t, ch, n, r, i)
        BY DEF LpmIs
    <2>2. i \in StandingTo(ch, n) /\ PrefixOf(ch[i]) = r.prefix
        BY <2>1 DEF RuleIs, Newest, OfPrefix
    <2> QED BY <1>1, <2>1, <2>2
<1>6. Len(k) \in Nat /\ \A r \in F : Len(r.prefix) \in Nat /\ Len(r.prefix) <= Len(k)
    BY <1>2, <1>5 DEF IsPrefix
<1>7. lpm_lookup(t, k) = IF F # {} THEN t.content[best.index] ELSE t.default_val
    BY DEF lpm_lookup
<1>8. \A r \in F : r \in t.rules /\ IsPrefix(r.prefix, k)
    OBVIOUS
<1> HIDE DEF M, F
<1>9. CASE F = {}
    <2>1. M = {}
        BY <1>4, <1>9
    <2>2. Promised("lpm", FALSE, ch, k) = t.default_val
        BY <2>1, PromisedDefault DEF M
    <2> QED BY <1>7, <1>9, <2>2
<1>10. CASE F # {}
    <2> DEFINE L == {Len(k) - Len(r.prefix) : r \in F}
    <2>1. L \subseteq Nat /\ L # {}
        BY <1>6, <1>10
    <2>2. PICK l \in L : \A m \in L : l <= m
        <3> HIDE DEF L
        <3> QED BY <2>1, LeastIn
    <2>3. PICK r \in F : l = Len(k) - Len(r.prefix)
        BY <2>2
    <2>4. ASSUME NEW q \in F PROVE Len(q.prefix) <= Len(r.prefix)
        <3>1. Len(k) - Len(q.prefix) \in L
            OBVIOUS
        <3>2. Len(k) - Len(r.prefix) <= Len(k) - Len(q.prefix)
            BY <2>2, <2>3, <3>1
        <3> QED BY <1>6, <2>3, <3>2
    <2>5. best \in F /\ \A q \in F : Len(q.prefix) <= Len(best.prefix)
        BY <2>3, <2>4
    <2> HIDE DEF best
    <2>6. PICK i \in 1 .. n : /\ RuleIs(t, ch, n, best, i) /\ i \in Standing(ch)
                              /\ best.prefix = PrefixOf(ch[i])
        BY <1>5, <1>8, <2>5
    <2>7. i \in M
        BY <1>3, <1>8, <2>5, <2>6
    <2>8. ASSUME NEW j \in M PROVE Wins("lpm", ch, i, j)
        <3>1. j \in Standing(ch) /\ IsPrefix(PrefixOf(ch[j]), k)
            BY <1>3
        <3>2. PICK q \in F : q.prefix = PrefixOf(ch[j])
            BY <1>4
        <3>3. ch[j].depth <= ch[i].depth
            BY <1>2, <2>5, <2>6, <3>1, <3>2
        <3>4. ASSUME ch[j].depth = ch[i].depth PROVE j <= i
            <4>1. IsPrefix(PrefixOf(ch[i]), k)
                BY <1>8, <2>5, <2>6
            <4>2. PrefixOf(ch[j]) = PrefixOf(ch[i])
                BY <1>2, <2>6, <3>1, <3>4, <4>1 DEF IsPrefix
            <4>3. j \in OfPrefix(ch, n, best.prefix)
                BY <1>1, <2>6, <3>1, <4>2 DEF OfPrefix
            <4> QED BY <2>6, <4>3 DEF RuleIs, Newest
        <3>5. ch[i].depth \in Nat /\ ch[j].depth \in Nat /\ i \in Nat /\ j \in Nat
            BY <1>1, <1>2, <2>6, <3>1
        <3> QED BY <3>3, <3>4, <3>5 DEF Wins
    <2>9. Promised("lpm", FALSE, ch, k) = make_table_entry(ch[i].value)
        BY <1>2, <2>7, <2>8, PromisedWinner DEF M
    <2>10. Behind(ch, n, i) <= t.index_range
        <3>1. /\ Behind(ch, n, i) <= Cardinality(Standing(ch)) /\ Behind(ch, n, i) \in Nat
              /\ Cardinality(Standing(ch)) \in Nat
            BY <2>6, BehindStanding
        <3>2. t.index_range \in Nat
            BY DEF LpmIs
        <3> QED BY <3>1, <3>2
    <2>11. t.content[best.index] = make_table_entry(ch[i].value)
        BY <2>6, <2>10 DEF RuleIs
    <2> QED BY <1>7, <1>10, <2>9, <2>11
<1> QED BY <1>9, <1>10

(* An entry with no unit outside its mask matches the keys that agree with   *)
(* it where its mask is 1.                                                   *)
LEMMA PatternMatches ==
    ASSUME NEW a \in Seq(Nat), NEW m \in Seq({0, 1}), NEW k \in Seq(Nat),
           Len(a) = Len(k), Len(m) = Len(k), \A j \in DOMAIN k : a[j] <= m[j]
    PROVE  (\A j \in DOMAIN k : a[j] = k[j] * m[j]) <=> (\A j \in DOMAIN k : m[j] = 1 => a[j] = k[j])
<1>1. DOMAIN k = 1 .. Len(k) /\ Len(k) \in Nat
    OBVIOUS
<1>2. ASSUME NEW j \in DOMAIN k
      PROVE  a[j] = k[j] * m[j] <=> (m[j] = 1 => a[j] = k[j])
    <2>1. a[j] \in Nat /\ k[j] \in Nat /\ a[j] <= m[j]
        BY <1>1
    <2>2. m[j] \in {0, 1}
        <3> DEFINE B == {0, 1}
        <3>1. m \in Seq(B) /\ j \in 1 .. Len(m)
            BY <1>1
        <3> HIDE DEF B
        <3>2. m[j] \in B
            BY <3>1
        <3> QED BY <3>2 DEF B
    <2>3. CASE m[j] = 0
        <3>1. k[j] * m[j] = 0 /\ a[j] = 0
            BY <2>1, <2>3
        <3> QED BY <2>3, <3>1
    <2>4. CASE m[j] = 1
        <3>1. k[j] * m[j] = k[j]
            BY <2>1, <2>4
        <3> QED BY <2>4, <3>1
    <2> QED BY <2>2, <2>3, <2>4
<1> QED BY <1>2

(* ternary_lookup finds the first entry that matches. *)
LEMMA TernaryFinds ==
    ASSUME NEW ch, NEW n, Complete(ch, n), NEW t, TernaryIs(t, ch, n), DefaultIs(t, ch, n),
           NEW k \in Seq(Nat), PatternsFit(ch, k),
           \A i \in Standing(ch) : \A j \in DOMAIN k : ch[i].key[j] <= ch[i].mask[j]
    PROVE  ternary_lookup(t, k) = Promised("ternary", FALSE, ch, k)
<1> DEFINE Matches(e) == \A j \in DOMAIN k : e.key[j] = k[j] * e.mask[j]
           F == {x \in 0 .. t.size - 1 : Matches(t.content[x])}
           M == Matching("ternary", ch, k)
<1>1. Standing(ch) = StandingTo(ch, n) /\ Standing(ch) \subseteq 1 .. n
    BY AllChanges
<1>2. PICK f \in [0 .. t.size - 1 -> 1 .. n] : PatternsAt(t, ch, n, f)
    BY DEF TernaryIs
<1>3. ASSUME NEW x \in 0 .. t.size - 1
      PROVE  /\ f[x] \in Standing(ch) /\ PatternIs(t.content[x], ch[f[x]])
             /\ x \in F <=> f[x] \in M
    <2> DEFINE c == ch[f[x]]
               e == t.content[x]
    <2>1. f[x] \in Standing(ch) /\ PatternIs(e, c)
        BY <1>1, <1>2 DEF PatternsAt
    <2>2. e.key = c.key /\ e.mask = c.mask
        BY <2>1 DEF PatternIs
    <2>3. /\ c.key \in Seq(Nat) /\ c.mask \in Seq({0, 1})
          /\ Len(c.key) = Len(k) /\ Len(c.mask) = Len(k)
          /\ \A j \in DOMAIN k : c.key[j] <= c.mask[j]
        BY <2>1 DEF PatternsFit
    <2>4. x \in F <=> \A j \in DOMAIN k : e.key[j] = k[j] * e.mask[j]
        OBVIOUS
    <2>5. f[x] \in M <=> \A j \in DOMAIN k : c.mask[j] = 1 => c.key[j] = k[j]
        BY <2>1 DEF Matching, MatchesKey
    <2> DEFINE a == c.key
               m == c.mask
    <2>6. /\ a \in Seq(Nat) /\ m \in Seq({0, 1}) /\ Len(a) = Len(k) /\ Len(m) = Len(k)
          /\ \A j \in DOMAIN k : a[j] <= m[j]
        BY <2>3
    <2>7. /\ x \in F <=> \A j \in DOMAIN k : a[j] = k[j] * m[j]
          /\ f[x] \in M <=> \A j \in DOMAIN k : m[j] = 1 => a[j] = k[j]
        BY <2>2, <2>4, <2>5
    <2> HIDE DEF a, m, F, M, Matches
    <2>8. (\A j \in DOMAIN k : a[j] = k[j] * m[j]) <=> (\A j \in DOMAIN k : m[j] = 1 => a[j] = k[j])
        BY <2>6, PatternMatches
    <2> QED BY <2>1, <2>7, <2>8
<1>4. \A i \in M : \E x \in F : f[x] = i
    <2> TAKE i \in M
    <2>1. i \in StandingTo(ch, n)
        BY <1>1 DEF Matching
    <2>2. PICK x \in 0 .. t.size - 1 : f[x] = i
        BY <1>2, <2>1 DEF PatternsAt
    <2> HIDE DEF F, M
    <2> QED BY <1>3, <2>2
<1>5. ternary_lookup(t, k) = IF F # {} THEN t.content[Min(F)].entry ELSE t.default_val
    BY DEF ternary_lookup
<1>6. F \subseteq 0 .. t.size - 1
    OBVIOUS
<1> HIDE DEF F, M, Matches
<1>7. CASE F = {}
    <2>1. M = {}
        BY <1>4, <1>7
    <2>2. Promised("ternary", FALSE, ch, k) = t.default_val
        BY <2>1, PromisedDefault DEF M
    <2> QED BY <1>5, <1>7, <2>2
<1>8. CASE F # {}
    <2> DEFINE x == Min(F)
    <2>1. x \in F /\ \A y \in F : x <= y
        <3>1. F \subseteq Nat
            BY <1>6
        <3> QED BY <1>8, <3>1, MinIn
    <2> HIDE DEF x
    <2>2. x \in 0 .. t.size - 1 /\ f[x] \in M
        BY <1>3, <1>6, <2>1
    <2>3. ASSUME NEW i \in M PROVE Wins("ternary", ch, f[x], i)
        <3>1. PICK y \in F : f[y] = i
            BY <1>4
        <3>2. x <= y /\ y \in 0 .. t.size - 1
            BY <1>6, <2>1
        <3>3. x < y => f[x] < f[y]
            BY <1>2, <2>2, <3>2 DEF PatternsAt
        <3>4. f[x] \in 1 .. n /\ f[y] \in 1 .. n /\ n \in Nat
            BY <1>2, <2>2, <3>2 DEF Complete
        <3>5. f[x] <= i
            BY <2>2, <3>1, <3>2, <3>3, <3>4
        <3> QED BY <3>5 DEF Wins
    <2> DEFINE w == f[x]
    <2>4. w \in Matching("ternary", ch, k) /\ \A i \in Matching("ternary", ch, k) : Wins("ternary", ch, w, i)
        BY <2>2, <2>3 DEF M
    <2> HIDE DEF w
    <2>5. Promised("ternary", FALSE, ch, k) = make_table_entry(ch[w].value)
        BY <2>4, PromisedWinner
    <2>6. t.content[x].entry = make_table_entry(ch[w].value)
        <3>1. PatternIs(t.content[x], ch[w])
            BY <1>3, <2>2 DEF w
        <3> DEFINE e == t.content[x]
                   v == make_table_entry(ch[w].value)
        <3>2. e = [key |-> ch[w].key, mask |-> ch[w].mask, entry |-> v]
            BY <3>1 DEF PatternIs
        <3> HIDE DEF e, v
        <3>3. e.entry = v
            BY <3>2
        <3> QED BY <3>3 DEF e, v
    <2> QED BY <1>5, <1>8, <2>5, <2>6 DEF x
<1> QED BY <1>7, <1>8

(* What a table can hold, as WithinLimits has it. *)
Holdable(t, ch, k) ==
    /\ t.type = "lpm" => Cardinality(Standing(ch)) <= t.index_range
    /\ t.type = "ternary" => \A i \in Standing(ch) : \A j \in DOMAIN k : ch[i].key[j] <= ch[i].mask[j]

(* Any lookup finds what the changes promise.                                *)
LEMMA LookupFinds ==
    ASSUME NEW ch, NEW n, Complete(ch, n), NEW t, TableIs(t, ch, n),
           t.type \in {"exact", "lpm", "ternary"}, NEW k \in Seq(Nat),
           t.type = "lpm" => PrefixesFit(ch), t.type = "ternary" => PatternsFit(ch, k),
           Holdable(t, ch, k)
    PROVE  Lookup(t, k) = Promised(t.type, t.key_size = 0, ch, k)
<1>1. DefaultIs(t, ch, n)
    BY DEF TableIs
<1>2. CASE t.key_size = 0
    <2>1. Lookup(t, k) = t.default_val
        BY <1>2 DEF Lookup
    <2>2. (t.key_size = 0) = TRUE
        BY <1>2
    <2>3. Promised(t.type, TRUE, ch, k) = t.default_val
        BY <1>1, PromisedDefault
    <2> QED BY <2>1, <2>2, <2>3
<1>3. CASE t.key_size # 0
    <2>0. (t.key_size = 0) = FALSE
        BY <1>3
    <2>1. CASE t.type = "exact"
        <3>1. Lookup(t, k) = exact_lookup(t, k) /\ ExactIs(t, ch, n)
            BY <1>3, <2>1 DEF Lookup, TableIs
        <3>2. exact_lookup(t, k) = Promised("exact", FALSE, ch, k)
            BY <1>1, <3>1, ExactFinds
        <3> QED BY <2>0, <2>1, <3>1, <3>2
    <2>2. CASE t.type = "lpm"
        <3>1. Lookup(t, k) = lpm_lookup(t, k) /\ LpmIs(t, ch, n)
            BY <1>3, <2>2 DEF Lookup, TableIs
        <3>2. Cardinality(Standing(ch)) <= t.index_range /\ PrefixesFit(ch)
            BY <2>2 DEF Holdable
        <3>3. lpm_lookup(t, k) = Promised("lpm", FALSE, ch, k)
            BY <1>1, <3>1, <3>2, LpmFinds
        <3> QED BY <2>0, <2>2, <3>1, <3>3
    <2>3. CASE t.type = "ternary"
        <3>1. Lookup(t, k) = ternary_lookup(t, k) /\ TernaryIs(t, ch, n)
            BY <1>3, <2>3 DEF Lookup, TableIs
        <3>2. PatternsFit(ch, k)
              /\ \A i \in Standing(ch) : \A j \in DOMAIN k : ch[i].key[j] <= ch[i].mask[j]
            BY <2>3 DEF Holdable
        <3>3. ternary_lookup(t, k) = Promised("ternary", FALSE, ch, k)
            BY <1>1, <3>1, <3>2, TernaryFinds
        <3> QED BY <2>0, <2>3, <3>1, <3>3
    <2> QED BY <2>1, <2>2, <2>3
<1> QED BY <1>2, <1>3
-----------------------------------------------------------------------------
(* The packets in hand.                                                      *)

(* Only packets that have arrived are received and handled.                  *)
Numbers(q, a) == \A i \in DOMAIN q : q[i][2] \in 1 .. a

NumberInv ==
    /\ \A q \in RxQueue : Numbers(rx[q], arrived)
    /\ \A c \in Cores : Numbers(burst[c], arrived)

LEMMA NumbersPart ==
    ASSUME NEW q \in Seq(Item), NEW a \in Nat, Numbers(q, a),
           NEW i \in 1 .. Len(q) + 1, NEW j \in i - 1 .. Len(q)
    PROVE  Numbers(SubSeq(q, i, j), a)
<1> DEFINE s == SubSeq(q, i, j)
<1>1. Len(q) \in Nat
    OBVIOUS
<1>2. /\ s \in Seq(Item) /\ Len(s) = j - i + 1
      /\ \A k \in 1 .. j - i + 1 : s[k] = q[i + k - 1]
    BY SubSeqProperties
<1> HIDE DEF s
<1>3. DOMAIN s = 1 .. j - i + 1
    BY <1>2
<1>4. \A k \in 1 .. j - i + 1 : i + k - 1 \in 1 .. Len(q)
    BY <1>1
<1>5. \A k \in DOMAIN s : s[k] = q[i + k - 1] /\ i + k - 1 \in DOMAIN q
    BY <1>2, <1>3, <1>4
<1>6. Numbers(s, a)
    BY <1>5 DEF Numbers
<1> QED BY <1>6 DEF s

LEMMA NumbersTail ==
    ASSUME NEW q \in Seq(Item), NEW a \in Nat, Numbers(q, a), q # << >>
    PROVE  Numbers(Tail(q), a)
<1>1. /\ Len(q) \in Nat /\ Tail(q) \in Seq(Item)
      /\ \A k \in DOMAIN Tail(q) : k + 1 \in DOMAIN q /\ Tail(q)[k] = q[k + 1]
    OBVIOUS
<1> QED BY <1>1 DEF Numbers

LEMMA NumbersAppend ==
    ASSUME NEW q \in Seq(Item), NEW a \in Nat, Numbers(q, a), NEW m
    PROVE  Numbers(Append(q, <<m, a + 1>>), a + 1)
<1> DEFINE x == <<m, a + 1>>
           r == Append(q, x)
<1>1. x[2] = a + 1
    OBVIOUS
<1> HIDE DEF x
<1>2. /\ Len(q) \in Nat /\ DOMAIN r = 1 .. Len(q) + 1 /\ DOMAIN q = 1 .. Len(q)
      /\ r[Len(q) + 1] = x /\ \A k \in 1 .. Len(q) : r[k] = q[k]
    OBVIOUS
<1> HIDE DEF r
<1>3. \A k \in DOMAIN r : k = Len(q) + 1 \/ k \in 1 .. Len(q)
    BY <1>2
<1>4. Numbers(r, a + 1)
    <2> SUFFICES ASSUME NEW k \in DOMAIN r PROVE r[k][2] \in 1 .. a + 1
        BY DEF Numbers
    <2>1. CASE k = Len(q) + 1
        BY <1>1, <1>2, <2>1
    <2>2. CASE k \in 1 .. Len(q)
        <3>1. q[k][2] \in 1 .. a
            BY <1>2, <2>2 DEF Numbers
        <3> QED BY <1>2, <2>2, <3>1
    <2> QED BY <1>3, <2>1, <2>2
<1> QED BY <1>4 DEF r, x

LEMMA NumbersMore ==
    ASSUME NEW q, NEW a \in Nat, Numbers(q, a)
    PROVE  Numbers(q, a + 1)
BY DEF Numbers

(* Cores receive what arrived, and hand it on. *)
LEMMA NextNumbers ==
    ASSUME BuffersInv, NumberInv, [Next]_vars
    PROVE  NumberInv'
<1>1. /\ arrived \in Nat /\ RxQueue' = RxQueue
      /\ rx \in [RxQueue -> Seq(Item)] /\ burst \in [Cores -> Seq(Item)]
    <2>1. arrived \in Nat
        BY DEF BuffersInv, Control
    <2> QED BY <2>1 DEF BuffersInv, Control, QueueSorts, RxQueue
<1>2. ASSUME UNCHANGED <<rx, burst, arrived>> PROVE NumberInv'
    BY <1>1, <1>2 DEF NumberInv
<1>3. CASE Arrive
    <2>1. arrived' = arrived + 1 /\ UNCHANGED burst
        BY <1>3 DEF Arrive, coreVars
    <2>2. \/ UNCHANGED rx
          \/ rx' = [rx EXCEPT ![ArriveQueue] = Append(rx[ArriveQueue], <<Least(pool), arrived + 1>>)]
        BY <1>3 DEF Arrive, ArriveQueue
    <2>3. \A c \in Cores : Numbers(burst'[c], arrived')
        BY <1>1, <2>1, NumbersMore DEF NumberInv
    <2>4. ASSUME NEW q \in RxQueue PROVE Numbers(rx'[q], arrived')
        <3> DEFINE r == rx[q]
        <3>1. Numbers(r, arrived) /\ r \in Seq(Item)
            BY <1>1 DEF NumberInv
        <3>2. rx'[q] = r \/ rx'[q] = Append(r, <<Least(pool), arrived + 1>>)
            BY <1>1, <2>2
        <3> HIDE DEF r
        <3>3. Numbers(r, arrived + 1) /\ Numbers(Append(r, <<Least(pool), arrived + 1>>), arrived + 1)
            BY <1>1, <3>1, NumbersMore, NumbersAppend
        <3> QED BY <2>1, <3>2, <3>3
    <2> QED BY <1>1, <2>3, <2>4 DEF NumberInv
<1>4. ASSUME NEW c \in Cores, do_rx(c) PROVE NumberInv'
    <2> DEFINE q == rx[Queue(c)]
               n == Min({Burst, Len(q)})
    <2>1. /\ burst' = [burst EXCEPT ![c] = SubSeq(q, 1, n)]
          /\ rx' = [rx EXCEPT ![Queue(c)] = SubSeq(q, n + 1, Len(q))] /\ UNCHANGED arrived
        BY <1>4 DEF do_rx
    <2>2. Queue(c) \in RxQueue
        BY <1>4, ReceiveMoves DEF BuffersInv
    <2>3. q \in Seq(Item) /\ Numbers(q, arrived)
        BY <1>1, <2>2 DEF NumberInv
    <2>4. n \in 0 .. Len(q) /\ Len(q) \in Nat
        <3>1. Len(q) \in Nat /\ Burst \in Nat
            BY <2>3, ConstAssumption
        <3> HIDE DEF q
        <3> QED BY <3>1, MinOfTwo
    <2> HIDE DEF q, n
    <2>5. 1 \in 1 .. Len(q) + 1 /\ n \in 1 - 1 .. Len(q) /\ n + 1 \in 1 .. Len(q) + 1
          /\ Len(q) \in (n + 1) - 1 .. Len(q)
        BY <2>4
    <2>6. Numbers(SubSeq(q, 1, n), arrived) /\ Numbers(SubSeq(q, n + 1, Len(q)), arrived)
        BY <1>1, <2>3, <2>5, NumbersPart
    <2> QED BY <1>1, <2>1, <2>6 DEF NumberInv
<1>5. ASSUME NEW c \in Cores, do_single_tx(c) PROVE NumberInv'
    <2>1. burst' = [burst EXCEPT ![c] = Tail(burst[c])] /\ UNCHANGED <<rx, arrived>>
        BY <1>5 DEF do_single_tx, NextPacket
    <2>2. burst[c] # << >>
        BY <1>5 DEF do_single_tx, BuffersInv, Control, CoreFits, Handling
    <2> DEFINE b == burst[c]
    <2>3. b \in Seq(Item) /\ Numbers(b, arrived) /\ b # << >>
        BY <1>1, <2>2 DEF NumberInv
    <2> HIDE DEF b
    <2>4. Numbers(Tail(b), arrived)
        BY <1>1, <2>3, NumbersTail
    <2> QED BY <1>1, <2>1, <2>4 DEF NumberInv, b
<1>6. CASE NicFrees
    BY <1>2, <1>6 DEF NicFrees, coreVars
<1>7. CASE Change \/ Relaunch
    BY <1>2, <1>7 DEF Change, Relaunch, portVars, coreVars
<1>8. ASSUME NEW c \in Cores, Tick(c) PROVE NumberInv'
    BY <1>2, <1>8 DEF Tick, portVars
<1>9. ASSUME NEW c \in Cores, dpdk_main_loop(c) PROVE NumberInv'
    <2>1. CASE main_loop_pre_rx(c)
        BY <1>2, <2>1 DEF main_loop_pre_rx
    <2>2. CASE receive_packet(c) \/ table_key(c)
        BY <1>2, <2>2 DEF receive_packet, table_key, portVars
    <2>3. CASE apply(c)
        BY <1>2, <2>3 DEF apply, portVars
    <2>4. CASE extern_register_read(c) \/ extern_register_write(c)
        BY <1>2, <2>4 DEF extern_register_read, extern_register_write, portVars
    <2> QED BY <1>4, <1>5, <1>9, <2>1, <2>2, <2>3, <2>4 DEF dpdk_main_loop
<1>10. CASE UNCHANGED vars
    BY <1>2, <1>10 DEF vars, portVars, coreVars
<1> QED BY <1>3, <1>6, <1>7, <1>8, <1>9, <1>10 DEF Next

(* The key of the packet in hand is as long as the program says.             *)
InHand(c) == scenario.packets[Head(burst[c])[2]].key

LEMMA KeyInHand ==
    ASSUME BuffersInv, NumberInv, NEW c \in Cores, burst[c] # << >>
    PROVE  /\ InHand(c) \in Seq(Nat) /\ Width \in Nat /\ Len(InHand(c)) = Width
           /\ \E p \in Range(scenario.packets) : p.key = InHand(c)
<1> DEFINE P == [port : Nat, queue : Nat, key : Seq(Nat)]
           ps == scenario.packets
           x == Head(burst[c])[2]
<1>1. scenario \in Scenarios /\ ps \in Seq(P) /\ arrived \in 0 .. Len(ps)
    BY ScenarioAssumption DEF BuffersInv, ValuesInv, Control
<1>2. \A p, q \in Range(ps) : Len(p.key) = Len(q.key)
    BY <1>1, ScenarioAssumption
<1>3. x \in 1 .. arrived
    <2> DEFINE b == burst[c]
    <2>1. b \in Seq(Item) /\ b # << >>
        BY DEF BuffersInv, Control, QueueSorts
    <2>2. Numbers(b, arrived)
        BY DEF NumberInv
    <2> HIDE DEF b
    <2>3. 1 \in DOMAIN b /\ Head(b) = b[1]
        BY <2>1
    <2>4. Head(b)[2] \in 1 .. arrived
        BY <2>2, <2>3 DEF Numbers
    <2> QED BY <2>4 DEF b
<1> HIDE DEF P, ps, x
<1>4. Len(ps) \in Nat /\ 1 \in 1 .. Len(ps) /\ x \in 1 .. Len(ps) /\ DOMAIN ps = 1 .. Len(ps)
    BY <1>1, <1>3
<1>5. ps[1] \in P /\ ps[x] \in P /\ ps[1] \in Range(ps) /\ ps[x] \in Range(ps)
    BY <1>1, <1>4 DEF Range
<1>6. ps[1].key \in Seq(Nat) /\ ps[x].key \in Seq(Nat)
    BY <1>5 DEF P
<1>7. Len(ps[x].key) = Len(ps[1].key) /\ Len(ps[1].key) \in Nat
    BY <1>2, <1>5, <1>6
<1>8. InHand(c) = ps[x].key /\ Width = Len(ps[1].key)
    BY DEF InHand, Width, ps, x
<1> QED BY <1>5, <1>6, <1>7, <1>8 DEF ps

-----------------------------------------------------------------------------
(* The table that the cores use.                                             *)

(* It is as the changes say as long as the process runs.                     *)
TableInv ==
    /\ Row(scenario, table, changes, Len(changes))
    /\ alive => table.exited = FALSE

LEMMA InitTable == Init => TableInv
<1> SUFFICES ASSUME Init PROVE TableInv
    OBVIOUS
<1>1. /\ scenario \in Scenarios /\ changes = scenario.preset
      /\ table = create_tables(scenario) /\ (alive => ~table.exited)
    BY DEF Init
<1>2. Row(scenario, table, changes, Len(changes))
    BY <1>1, CreateTablesRow
<1>3. table.exited \in BOOLEAN
    BY <1>2 DEF Row
<1> QED BY <1>1, <1>2, <1>3 DEF TableInv

LEMMA SameTable ==
    ASSUME TableInv, alive \/ ~alive', UNCHANGED <<scenario, changes, table>>
    PROVE  TableInv'
BY DEF TableInv

(* A change more, in the list and in the table.                              *)
LEMMA ChangedRow ==
    ASSUME ValuesInv, TableInv, NEW op \in Ops(scenario) \cup {[kind |-> "flush"]},
           changes' = Append(changes, op), table' = ApplyChange(table, op), UNCHANGED scenario
    PROVE  Row(scenario', table', changes', Len(changes'))
<1> DEFINE S == Ops(scenario) \cup {[kind |-> "flush"]}
           n == Len(changes)
           dh == Append(changes, op)
<1>1. changes \in Seq(S) /\ op \in S /\ scenario \in Scenarios
    BY DEF ValuesInv
<1>2. ChangeFits(scenario, op)
    BY <1>1, OpsFit DEF ChangeFits
<1> HIDE DEF S
<1>3. n \in Nat /\ Len(dh) = n + 1 /\ dh[n + 1] = op /\ \A i \in 1 .. n : dh[i] = changes[i]
    BY <1>1
<1>4. Row(scenario, table, changes, n)
    BY DEF TableInv
<1>5. scenario.type \in {"exact", "lpm", "ternary"}
    BY <1>1, ScenarioAssumption
<1> HIDE DEF n, dh
<1>6. Row(scenario, table, dh, n)
    BY <1>3, <1>4, SameRow
<1>7. Row(scenario, ApplyChange(table, dh[n + 1]), dh, n + 1)
    BY <1>2, <1>3, <1>5, <1>6, ChangeRow
<1> QED BY <1>3, <1>7 DEF dh

(* A flush ends no program by itself. *)
LEMMA FlushStays ==
    ASSUME NEW t, DOMAIN t = Fields
    PROVE  flush_table(t).exited = t.exited
<1>1. CASE t.key_size = 0
    BY <1>1 DEF flush_table
<1>2. CASE t.key_size # 0
    <2> DEFINE size == IF t.type = "ternary" THEN 0 ELSE t.size
    <2>1. flush_table(t) = [t EXCEPT !.hash = << >>, !.rules = {}, !.size = size]
        BY <1>2 DEF flush_table
    <2> HIDE DEF size
    <2> QED BY <2>1 DEF Fields
<1> QED BY <1>1, <1>2

(* input_processor and main change the table; the cores do not.              *)
LEMMA NextTable ==
    ASSUME ValuesInv, TableInv, [Next]_vars
    PROVE  TableInv'
<1>1. CASE Change
    <2>1. PICK op \in scenario.ops :
             /\ changes' = Append(changes, op) /\ table' = ApplyChange(table, op)
             /\ alive' = ~table'.exited
        BY <1>1 DEF Change
    <2>2. UNCHANGED scenario /\ op \in Ops(scenario) \cup {[kind |-> "flush"]}
        BY <1>1 DEF Change, Ops
    <2>3. Row(scenario', table', changes', Len(changes'))
        BY <2>1, <2>2, ChangedRow
    <2>4. table'.exited \in BOOLEAN
        BY <2>3 DEF Row
    <2> QED BY <2>1, <2>3, <2>4 DEF TableInv
<1>2. CASE Relaunch
    <2> DEFINE op == [kind |-> "flush"]
    <2>1. /\ changes' = Append(changes, op) /\ table' = ApplyChange(table, op)
          /\ UNCHANGED scenario /\ op \in Ops(scenario) \cup {[kind |-> "flush"]} /\ alive
        BY <1>2 DEF Relaunch
    <2>2. Row(scenario', table', changes', Len(changes'))
        BY <2>1, ChangedRow
    <2>3. table' = flush_table(table)
        BY <2>1 DEF ApplyChange
    <2>4. table'.exited = FALSE
        BY <2>1, <2>3, FlushStays DEF TableInv, Row
    <2> QED BY <2>2, <2>4 DEF TableInv
<1>3. CASE Arrive \/ NicFrees
    <2>1. alive /\ UNCHANGED <<scenario, changes, table>>
        BY <1>3 DEF Arrive, NicFrees, tableVars
    <2> QED BY <2>1, SameTable
<1>4. ASSUME NEW c \in Cores, Tick(c) \/ dpdk_main_loop(c) PROVE TableInv'
    <2>1. alive /\ UNCHANGED <<scenario, changes, table>>
        BY <1>4 DEF Tick, dpdk_main_loop, main_loop_pre_rx, do_rx, receive_packet, table_key,
               apply, extern_register_read, extern_register_write, do_single_tx, tableVars
    <2> QED BY <2>1, SameTable
<1>5. CASE UNCHANGED vars
    <2>1. UNCHANGED <<alive, scenario, changes, table>>
        BY <1>5 DEF vars, tableVars
    <2> QED BY <2>1, SameTable
<1> QED BY <1>1, <1>2, <1>3, <1>4, <1>5 DEF Next

(* What a core finds in it while the process runs.                           *)
LEMMA FindsPromised ==
    ASSUME BuffersInv, NumberInv, TableInv, alive, NEW c \in Cores, burst[c] # << >>, WithinLimits
    PROVE  Lookup(table, InHand(c)) = Promised(table.type, table.key_size = 0, changes, InHand(c))
<1> DEFINE S == Ops(scenario) \cup {[kind |-> "flush"]}
           n == Len(changes)
           k == InHand(c)
<1>1. /\ k \in Seq(Nat) /\ Width \in Nat /\ Len(k) = Width
      /\ \E p \in Range(scenario.packets) : p.key = k
    BY KeyInHand
<1>2. changes \in Seq(S) /\ scenario \in Scenarios
    BY DEF BuffersInv, ValuesInv
<1>3. Complete(changes, n)
    <2> HIDE DEF S
    <2> QED BY <1>2 DEF Complete
<1>4. ASSUME NEW i \in Standing(changes)
      PROVE  changes[i].kind = "add" /\ MayBeChanged(scenario, changes[i])
    <2>1. i \in DOMAIN changes /\ changes[i].kind = "add"
        BY DEF Standing, Kinds
    <2>2. changes[i] \in S
        <3> HIDE DEF S
        <3> QED BY <1>2, <2>1
    <2>3. changes[i] \in Ops(scenario)
        BY <2>1, <2>2
    <2> QED BY <1>2, <2>1, <2>3, OpsFit
<1>5. /\ TableIs(table, changes, n) /\ table.type = scenario.type
      /\ table.type \in {"exact", "lpm", "ternary"}
    BY <1>2, ScenarioAssumption DEF TableInv, Row
<1>6. table.type = "lpm" => PrefixesFit(changes)
    BY <1>4, <1>5 DEF PrefixesFit, MayBeChanged
<1>7. table.type = "ternary" => PatternsFit(changes, k)
    BY <1>1, <1>4, <1>5 DEF PatternsFit, MayBeChanged
<1>8. Holdable(table, changes, k)
    <2>1. table.type = "lpm" => Cardinality(Standing(changes)) <= table.index_range
        BY DEF WithinLimits
    <2>2. DOMAIN k = 1 .. Width
        <3> HIDE DEF k
        <3> QED BY <1>1
    <2>3. table.type = "ternary" =>
             \A i \in Standing(changes) : \A j \in 1 .. Width :
                changes[i].key[j] <= changes[i].mask[j]
        BY DEF WithinLimits
    <2> HIDE DEF k
    <2> QED BY <2>1, <2>2, <2>3 DEF Holdable
<1> HIDE DEF k, n
<1>9. Lookup(table, k) = Promised(table.type, table.key_size = 0, changes, k)
    BY <1>1, <1>3, <1>5, <1>6, <1>7, <1>8, LookupFinds
<1> QED BY <1>9 DEF k

-----------------------------------------------------------------------------
(* The keys that the cores compute.                                          *)

(* The n-th step of the computation of a key with w units.                   *)
StepIs(s, n, w) ==
    \/ n \in 1 .. w /\ s = <<"put", "reverse_buffer", n>>
    \/ n - w \in 1 .. w /\ s = <<"get", "reverse_buffer", n - w>>
    \/ n - 2 * w \in 1 .. w /\ s = <<"zero", "key128", n - 2 * w>>
    \/ n - 3 * w \in 1 .. w /\ s = <<"put", "key128", n - 3 * w>>
    \/ n - 4 * w \in 1 .. w /\ s = <<"get", "key128", n - 4 * w>>

(* A concatenation, by its indices. *)
Joins(r, a, b) ==
    /\ Len(r) = Len(a) + Len(b)
    /\ \A n \in 1 .. Len(r) : IF n <= Len(a) THEN n \in 1 .. Len(a) /\ r[n] = a[n]
                              ELSE n - Len(a) \in 1 .. Len(b) /\ r[n] = b[n - Len(a)]

LEMMA ConcatAt ==
    ASSUME NEW S, NEW a \in Seq(S), NEW b \in Seq(S)
    PROVE  a \o b \in Seq(S) /\ Joins(a \o b, a, b)
BY DEF Joins

(* The steps are a list, however long the key. *)
LEMMA KeyStepsLength ==
    ASSUME Width \in Nat
    PROVE  Len(KeySteps) \in Nat /\ (KeySteps = << >> <=> Len(KeySteps) = 0)
<1> DEFINE S == {"put", "get", "zero"} \X {"reverse_buffer", "key128"} \X Nat
<1>1. \A op \in {"put", "get", "zero"}, b \in {"reverse_buffer", "key128"} :
         Each(op, b) \in Seq(S)
    BY DEF Each
<1>2. << >> \in Seq(S)
    OBVIOUS
<1> HIDE DEF S
<1>3. KeySteps \in Seq(S)
    BY <1>1, <1>2 DEF KeySteps
<1> QED BY <1>3

LEMMA KeyStep ==
    ASSUME Width \in Nat, NEW n \in 1 .. Len(KeySteps)
    PROVE  StepIs(KeySteps[n], n, Width)
<1> DEFINE w == Width
           S == {"put", "get", "zero"} \X {"reverse_buffer", "key128"} \X Nat
           pr == Each("put", "reverse_buffer")
           gr == Each("get", "reverse_buffer")
           zk == Each("zero", "key128")
           pk == Each("put", "key128")
           gk == Each("get", "key128")
           rev == pr \o gr
           zp == zk \o pk
           zpg == zp \o gk
<1>1. \A op \in {"put", "get", "zero"}, b \in {"reverse_buffer", "key128"} :
         /\ Each(op, b) \in Seq(S) /\ Len(Each(op, b)) = w
         /\ \A i \in 1 .. w : Each(op, b)[i] = <<op, b, i>>
    BY DEF Each
<1>2. /\ pr \in Seq(S) /\ gr \in Seq(S) /\ zk \in Seq(S) /\ pk \in Seq(S) /\ gk \in Seq(S)
      /\ Len(pr) = w /\ Len(gr) = w /\ Len(zk) = w /\ Len(pk) = w /\ Len(gk) = w
      /\ \A i \in 1 .. w : /\ pr[i] = <<"put", "reverse_buffer", i>>
                           /\ gr[i] = <<"get", "reverse_buffer", i>>
                           /\ zk[i] = <<"zero", "key128", i>>
                           /\ pk[i] = <<"put", "key128", i>>
                           /\ gk[i] = <<"get", "key128", i>>
    BY <1>1
<1>0. w \in Nat
    OBVIOUS
<1> HIDE DEF S, w, pr, gr, zk, pk, gk
<1>a. rev \in Seq(S) /\ Joins(rev, pr, gr) /\ zp \in Seq(S) /\ Joins(zp, zk, pk)
    BY <1>2, ConcatAt
<1> HIDE DEF rev, zp
<1>b. zpg \in Seq(S) /\ Joins(zpg, zp, gk)
    BY <1>2, <1>a, ConcatAt
<1> HIDE DEF zpg
<1>c. Len(rev) = w + w /\ Len(zp) = w + w /\ Len(zpg) = w + w + w
    BY <1>2, <1>a, <1>b DEF Joins
<1>3. ASSUME NEW i \in 1 .. w + w
      PROVE  \/ i \in 1 .. w /\ rev[i] = <<"put", "reverse_buffer", i>>
             \/ i - w \in 1 .. w /\ rev[i] = <<"get", "reverse_buffer", i - w>>
    <2>1. IF i <= w THEN i \in 1 .. w /\ rev[i] = pr[i] ELSE i - w \in 1 .. w /\ rev[i] = gr[i - w]
        BY <1>2, <1>a, <1>c DEF Joins
    <2> QED BY <1>2, <2>1
<1>4. ASSUME NEW i \in 1 .. w + w + w
      PROVE  \/ i \in 1 .. w /\ zpg[i] = <<"zero", "key128", i>>
             \/ i - w \in 1 .. w /\ zpg[i] = <<"put", "key128", i - w>>
             \/ i - (w + w) \in 1 .. w /\ zpg[i] = <<"get", "key128", i - (w + w)>>
    <2>1. IF i <= w + w THEN i \in 1 .. w + w /\ zpg[i] = zp[i]
          ELSE i - (w + w) \in 1 .. w /\ zpg[i] = gk[i - (w + w)]
        BY <1>2, <1>b, <1>c DEF Joins
    <2>2. ASSUME i \in 1 .. w + w
          PROVE  IF i <= w THEN i \in 1 .. w /\ zp[i] = zk[i]
                 ELSE i - w \in 1 .. w /\ zp[i] = pk[i - w]
        BY <1>2, <1>a, <1>c, <2>2 DEF Joins
    <2> QED BY <1>2, <2>1, <2>2
<1>5. KeySteps = << >> \/ KeySteps = rev \o << >> \/ KeySteps = rev \o zpg
    BY DEF KeySteps, rev, zpg, zp, pr, gr, zk, pk, gk
<1>6. CASE KeySteps = << >>
    BY <1>6
<1>7. CASE KeySteps = rev \o << >>
    <2>1. rev \o << >> = rev
        BY <1>a
    <2>2. n \in 1 .. w + w /\ KeySteps[n] = rev[n]
        BY <1>c, <1>7, <2>1
    <2> QED BY <1>3, <2>2 DEF StepIs, w
<1>8. CASE KeySteps = rev \o zpg
    <2>1. Joins(KeySteps, rev, zpg)
        BY <1>a, <1>b, <1>8, ConcatAt
    <2>2. IF n <= w + w THEN n \in 1 .. w + w /\ KeySteps[n] = rev[n]
          ELSE n - (w + w) \in 1 .. w + w + w /\ KeySteps[n] = zpg[n - (w + w)]
        BY <1>c, <2>1 DEF Joins
    <2>3. CASE n <= w + w
        BY <1>3, <2>2, <2>3 DEF StepIs, w
    <2>4. CASE ~(n <= w + w)
        <3> DEFINE i == n - (w + w)
        <3>1. i \in 1 .. w + w + w /\ KeySteps[n] = zpg[i]
            BY <2>2, <2>4
        <3>2. i = n - 2 * w /\ i - w = n - 3 * w /\ i - (w + w) = n - 4 * w
            BY <1>0
        <3> HIDE DEF i
        <3>3. \/ i \in 1 .. w /\ zpg[i] = <<"zero", "key128", i>>
              \/ i - w \in 1 .. w /\ zpg[i] = <<"put", "key128", i - w>>
              \/ i - (w + w) \in 1 .. w /\ zpg[i] = <<"get", "key128", i - (w + w)>>
            BY <1>4, <3>1
        <3> QED BY <3>1, <3>2, <3>3 DEF StepIs, w
    <2> QED BY <2>3, <2>4
<1> QED BY <1>5, <1>6, <1>7, <1>8

(* A core whose computation no other ran into has the key of its packet, and *)
(* in the shared buffers the units that it has put there itself; a core that *)
(* has done its lookup has the entry that the changes promise.               *)
KeyIs(c) ==
    pc[c] = "key" /\ ~raced[c] =>
        /\ key[c] = InHand(c)
        /\ \A i \in 1 .. Width :
              /\ i <= step[c] => /\ i \in DOMAIN buffer["reverse_buffer"]
                                 /\ buffer["reverse_buffer"][i] = InHand(c)[i]
              /\ i + 3 * Width <= step[c] => /\ i \in DOMAIN buffer["key128"]
                                             /\ buffer["key128"][i] = InHand(c)[i]

EntryIs(c) ==
    pc[c] \in {"read", "write", "tx"} /\ ~raced[c] /\ WithinLimits =>
        entry[c] = Promised(table.type, table.key_size = 0, changes, InHand(c))

CoreKey(c) ==
    /\ pc[c] \in {"off", "pre", "rx", "next"} => step[c] = 0
    /\ KeyIs(c) /\ EntryIs(c)

KeysShape ==
    /\ step \in [Cores -> Nat] /\ DOMAIN key = Cores /\ DOMAIN raced = Cores
    /\ DOMAIN entry = Cores /\ DOMAIN buffer = {"reverse_buffer", "key128"}

(* Of two cores that compute at the same time, both know.                    *)
BothRaced ==
    \A c, d \in Cores : c # d /\ Computing(c) /\ Computing(d) /\ KeySteps # << >> => raced[c]

KeysInv == KeysShape /\ BothRaced /\ \A c \in Cores : CoreKey(c)

(* A core of which nothing changes, whose computation nobody disturbs.       *)
SameCore(d) ==
    /\ UNCHANGED <<scenario, changes, table>>
    /\ pc'[d] = pc[d] /\ step'[d] = step[d] /\ key'[d] = key[d] /\ entry'[d] = entry[d]
    /\ burst'[d] = burst[d] /\ (raced[d] => raced'[d])
    /\ UNCHANGED buffer \/ (pc[d] = "key" => raced[d])

LEMMA CoreKeyKept ==
    ASSUME NEW d, CoreKey(d), SameCore(d)
    PROVE  CoreKey(d)'
<1>1. InHand(d)' = InHand(d) /\ Width' = Width
    BY DEF SameCore, InHand, Width
<1>2. WithinLimits' <=> WithinLimits
    BY <1>1 DEF SameCore, WithinLimits
<1>3. KeyIs(d)'
    <2> SUFFICES ASSUME pc'[d] = "key", ~raced'[d]
                 PROVE  /\ key'[d] = InHand(d)'
                        /\ \A i \in 1 .. Width' :
                              /\ i <= step'[d] => /\ i \in DOMAIN buffer'["reverse_buffer"]
                                                  /\ buffer'["reverse_buffer"][i] = InHand(d)'[i]
                              /\ i + 3 * Width' <= step'[d] =>
                                    /\ i \in DOMAIN buffer'["key128"]
                                    /\ buffer'["key128"][i] = InHand(d)'[i]
        BY DEF KeyIs
    <2>1. UNCHANGED buffer /\ pc[d] = "key" /\ ~raced[d]
        BY DEF SameCore
    <2>2. /\ key[d] = InHand(d)
          /\ \A i \in 1 .. Width :
                /\ i <= step[d] => /\ i \in DOMAIN buffer["reverse_buffer"]
                                   /\ buffer["reverse_buffer"][i] = InHand(d)[i]
                /\ i + 3 * Width <= step[d] => /\ i \in DOMAIN buffer["key128"]
                                               /\ buffer["key128"][i] = InHand(d)[i]
        BY <2>1 DEF CoreKey, KeyIs
    <2>3. key'[d] = key[d] /\ step'[d] = step[d] /\ buffer' = buffer
        BY <2>1 DEF SameCore
    <2> QED BY <1>1, <2>2, <2>3
<1>4. EntryIs(d)'
    BY <1>1, <1>2 DEF SameCore, CoreKey, EntryIs
<1> QED BY <1>3, <1>4 DEF CoreKey, SameCore

(* A core that has no packet, or only unread ones.                           *)
LEMMA IdleCore ==
    ASSUME NEW d, pc'[d] \in {"off", "pre", "rx", "next"}, step'[d] = 0
    PROVE  CoreKey(d)'
BY DEF CoreKey, KeyIs, EntryIs

(* A core after its lookup. *)
LEMMA LookedUpCore ==
    ASSUME NEW d, CoreKey(d), pc[d] \in {"read", "write", "tx"}, pc'[d] \in {"read", "write", "tx"},
           UNCHANGED <<scenario, changes, table>>, entry'[d] = entry[d], burst'[d] = burst[d],
           raced'[d] = raced[d]
    PROVE  CoreKey(d)'
<1>1. InHand(d)' = InHand(d) /\ Width' = Width
    BY DEF InHand, Width
<1>2. WithinLimits' <=> WithinLimits
    BY <1>1 DEF WithinLimits
<1> QED BY <1>1, <1>2 DEF CoreKey, KeyIs, EntryIs

(* No core begins to compute, or forgets that it is not alone.               *)
LEMMA SameBothRaced ==
    ASSUME BothRaced, UNCHANGED <<scenario, table, raced>>,
           \A c \in Cores : pc'[c] = "key" => pc[c] = "key"
    PROVE  BothRaced'
<1>1. KeySteps' = KeySteps
    BY DEF KeySteps, Each, Width
<1> QED BY <1>1 DEF BothRaced, Computing

LEMMA InitKeys == Init => KeysInv
<1> SUFFICES ASSUME Init PROVE KeysInv
    OBVIOUS
<1>1. /\ step = [c \in Cores |-> 0] /\ key = [c \in Cores |-> << >>]
      /\ raced = [c \in Cores |-> FALSE] /\ entry = [c \in Cores |-> NoEntry]
      /\ buffer = [b \in {"reverse_buffer", "key128"} |-> << >>]
      /\ \A c \in Cores : pc[c] \in {"off", "pre"}
    BY DEF Init
<1>2. KeysShape /\ BothRaced
    BY <1>1 DEF KeysShape, BothRaced, Computing
<1>3. \A c \in Cores : CoreKey(c)
    BY <1>1 DEF CoreKey, KeyIs, EntryIs
<1> QED BY <1>2, <1>3 DEF KeysInv

(* A core begins to compute: it has its key, and those that compute already  *)
(* learn of it.                                                              *)
LEMMA ReceiveKeys ==
    ASSUME BuffersInv, NumberInv, KeysInv, NEW c \in Cores, receive_packet(c)
    PROVE  KeysInv'
<1>1. /\ pc[c] = "next" /\ pc' = [pc EXCEPT ![c] = "key"]
      /\ key' = [key EXCEPT ![c] = InHand(c)]
      /\ UNCHANGED <<scenario, changes, table, burst, step, entry, buffer>>
    BY DEF receive_packet, tableVars, InHand
<1>2. raced' = [d \in Cores |->
                  IF d = c THEN KeySteps # << >> /\ \E e \in Cores \ {c} : Computing(e)
                  ELSE raced[d] \/ (KeySteps # << >> /\ Computing(d))]
    BY DEF receive_packet
<1>3. pc \in [Cores -> PcValues] /\ burst[c] # << >>
    BY <1>1 DEF BuffersInv, Control, CoreFits, Handling
<1>4. Width \in Nat /\ InHand(c)' = InHand(c) /\ Width' = Width /\ KeySteps' = KeySteps
    <2>1. Width \in Nat
        BY <1>3, KeyInHand
    <2> QED BY <1>1, <2>1 DEF InHand, Width, KeySteps, Each
<1>5. KeysShape'
    BY <1>1, <1>2 DEF KeysInv, KeysShape
<1>6. BothRaced'
    <2> SUFFICES ASSUME NEW d \in Cores, NEW e \in Cores, d # e, Computing(d)', Computing(e)',
                        KeySteps' # << >>
                 PROVE  raced'[d]
        BY DEF BothRaced
    <2>1. KeySteps # << >>
        BY <1>4
    <2>2. CASE d = c
        <3>1. Computing(e)
            BY <1>1, <1>3, <2>2 DEF Computing
        <3> QED BY <1>2, <2>1, <2>2, <3>1
    <2>3. CASE d # c
        <3>1. Computing(d)
            BY <1>1, <1>3, <2>3 DEF Computing
        <3> QED BY <1>2, <2>1, <2>3, <3>1
    <2> QED BY <2>2, <2>3
<1>7. ASSUME NEW d \in Cores PROVE CoreKey(d)'
    <2>1. CASE d = c
        <3>1. step[c] = 0 /\ step'[c] = 0 /\ pc'[c] = "key" /\ key'[c] = InHand(c)
            BY <1>1, <1>3 DEF KeysInv, KeysShape, CoreKey
        <3>2. \A i \in 1 .. Width : ~(i <= 0) /\ ~(i + 3 * Width <= 0)
            BY <1>4
        <3>3. KeyIs(c)'
            BY <1>4, <3>1, <3>2 DEF KeyIs
        <3> QED BY <2>1, <3>1, <3>3 DEF CoreKey, EntryIs
    <2>2. CASE d # c
        <3>1. raced[d] => raced'[d]
            BY <1>2, <2>2
        <3>2. SameCore(d)
            BY <1>1, <1>3, <2>2, <3>1 DEF SameCore, KeysInv, KeysShape
        <3> QED BY <3>2, CoreKeyKept DEF KeysInv
    <2> QED BY <2>1, <2>2
<1> QED BY <1>5, <1>6, <1>7 DEF KeysInv

(* One step of a computation. *)
LEMMA TableKeyKeys ==
    ASSUME BuffersInv, NumberInv, KeysInv, NEW c \in Cores, table_key(c)
    PROVE  KeysInv'
<1> DEFINE n == step[c] + 1
           s == KeySteps[n]
           b == s[2]
           i == s[3]
<1>1. /\ pc[c] = "key" /\ step[c] < Len(KeySteps)
      /\ step' = [step EXCEPT ![c] = n]
      /\ UNCHANGED <<scenario, changes, table, pc, burst, raced, entry>>
    BY DEF table_key, tableVars
<1>2. IF s[1] = "get"
      THEN key' = [key EXCEPT ![c] = [key[c] EXCEPT ![i] = buffer[b][i]]] /\ UNCHANGED buffer
      ELSE /\ buffer' = [buffer EXCEPT ![b] =
                            [j \in DOMAIN buffer[b] \cup {i} |->
                               IF j # i THEN buffer[b][j]
                               ELSE IF s[1] = "put" THEN key[c][i] ELSE 0]]
           /\ UNCHANGED key
    BY DEF table_key
<1>3. burst[c] # << >>
    BY <1>1 DEF BuffersInv, Control, CoreFits, Handling
<1> DEFINE w == Width
           k == InHand(c)
<1>4. k \in Seq(Nat) /\ w \in Nat /\ Len(k) = w
    BY <1>3, KeyInHand
<1>5. k' = k /\ w' = w
    BY <1>1 DEF InHand, Width
<1>6. step[c] \in Nat /\ step \in [Cores -> Nat]
    BY DEF KeysInv, KeysShape
<1>7. StepIs(s, n, w)
    <2>1. KeySteps = << >> => Len(KeySteps) = 0
        OBVIOUS
    <2>2. Len(KeySteps) \in Nat
        BY <1>4, KeyStepsLength
    <2>3. n \in 1 .. Len(KeySteps)
        BY <1>1, <1>6, <2>2
    <2> HIDE DEF n
    <2> QED BY <1>4, <2>3, KeyStep
<1>8. KeySteps # << >>
    BY <1>1, <1>6
<1>9. ASSUME NEW d \in Cores, d # c PROVE CoreKey(d)'
    <2>1. pc[d] = "key" => raced[d]
        BY <1>1, <1>8, <1>9 DEF KeysInv, BothRaced, Computing
    <2>2. key'[d] = key[d]
        BY <1>2, <1>9 DEF KeysInv, KeysShape
    <2>3. SameCore(d)
        BY <1>1, <1>6, <1>9, <2>1, <2>2 DEF SameCore
    <2> QED BY <2>3, CoreKeyKept DEF KeysInv
<1>10. KeysShape'
    <2>1. step' \in [Cores -> Nat]
        BY <1>1, <1>6
    <2>2. DOMAIN key' = Cores /\ DOMAIN buffer' = DOMAIN buffer
        BY <1>2 DEF KeysInv, KeysShape
    <2> QED BY <1>1, <2>1, <2>2 DEF KeysInv, KeysShape
<1>11. BothRaced'
    BY <1>1, SameBothRaced DEF KeysInv
<1>12. KeyIs(c)'
    <2> SUFFICES ASSUME ~raced[c]
                 PROVE  /\ key'[c] = k
                        /\ \A j \in 1 .. w :
                              /\ j <= n => /\ j \in DOMAIN buffer'["reverse_buffer"]
                                           /\ buffer'["reverse_buffer"][j] = k[j]
                              /\ j + 3 * w <= n => /\ j \in DOMAIN buffer'["key128"]
                                                   /\ buffer'["key128"][j] = k[j]
        BY <1>1, <1>5, <1>6 DEF KeyIs
    <2> DEFINE r == buffer["reverse_buffer"]
               l == buffer["key128"]
    <2>1. /\ key[c] = k
          /\ \A j \in 1 .. w : /\ j <= step[c] => j \in DOMAIN r /\ r[j] = k[j]
                               /\ j + 3 * w <= step[c] => j \in DOMAIN l /\ l[j] = k[j]
        BY <1>1 DEF KeysInv, CoreKey, KeyIs
    <2>2. DOMAIN key = Cores /\ DOMAIN buffer = {"reverse_buffer", "key128"}
        BY DEF KeysInv, KeysShape
    <2>3. n = step[c] + 1
        OBVIOUS
    <2> HIDE DEF n, s, k, w
    <2>4. CASE n \in 1 .. w /\ s = <<"put", "reverse_buffer", n>>
        <3>1. i = n /\ b = "reverse_buffer" /\ s[1] = "put"
            BY <2>4
        <3> HIDE DEF i, b
        <3>2. /\ UNCHANGED key /\ buffer'["key128"] = l
              /\ DOMAIN buffer'["reverse_buffer"] = DOMAIN r \cup {n}
              /\ buffer'["reverse_buffer"][n] = k[n]
              /\ \A j \in DOMAIN r : j # n => buffer'["reverse_buffer"][j] = r[j]
            BY <1>2, <2>1, <2>2, <3>1
        <3>3. \A j \in 1 .. w : (j <= n => j = n \/ j <= step[c]) /\ ~(j + 3 * w <= n)
            BY <1>4, <1>6, <2>3, <2>4
        <3> QED BY <2>1, <3>2, <3>3
    <2>5. CASE n - w \in 1 .. w /\ s = <<"get", "reverse_buffer", n - w>>
        <3>1. i = n - w /\ b = "reverse_buffer" /\ s[1] = "get" /\ i \in 1 .. w
            BY <2>5
        <3> HIDE DEF i, b
        <3>2. \A j \in 1 .. w : j <= step[c] /\ ~(j + 3 * w <= n)
            BY <1>4, <1>6, <2>3, <2>5
        <3>3. r[i] = k[i]
            BY <2>1, <3>1, <3>2
        <3>4. key'[c] = [k EXCEPT ![i] = k[i]] /\ UNCHANGED buffer
            BY <1>2, <2>1, <2>2, <3>1, <3>3
        <3>5. [k EXCEPT ![i] = k[i]] = k
            BY <1>4
        <3> QED BY <2>1, <3>2, <3>4, <3>5
    <2>6. CASE n - 2 * w \in 1 .. w /\ s = <<"zero", "key128", n - 2 * w>>
        <3>1. i = n - 2 * w /\ b = "key128" /\ s[1] = "zero"
            BY <2>6
        <3> HIDE DEF i, b
        <3>2. UNCHANGED key /\ buffer'["reverse_buffer"] = r
            BY <1>2, <2>2, <3>1
        <3>3. \A j \in 1 .. w : j <= step[c] /\ ~(j + 3 * w <= n)
            BY <1>4, <1>6, <2>3, <2>6
        <3> QED BY <2>1, <3>2, <3>3
    <2>7. CASE n - 3 * w \in 1 .. w /\ s = <<"put", "key128", n - 3 * w>>
        <3>1. i = n - 3 * w /\ b = "key128" /\ s[1] = "put"
            BY <2>7
        <3> HIDE DEF i, b
        <3>2. /\ UNCHANGED key /\ buffer'["reverse_buffer"] = r
              /\ DOMAIN buffer'["key128"] = DOMAIN l \cup {i}
              /\ buffer'["key128"][i] = k[i]
              /\ \A j \in DOMAIN l : j # i => buffer'["key128"][j] = l[j]
            BY <1>2, <2>1, <2>2, <3>1
        <3>3. \A j \in 1 .. w : j <= step[c] /\ (j + 3 * w <= n => j = i \/ j + 3 * w <= step[c])
            BY <1>4, <1>6, <2>3, <2>7, <3>1
        <3> QED BY <2>1, <3>2, <3>3
    <2>8. CASE n - 4 * w \in 1 .. w /\ s = <<"get", "key128", n - 4 * w>>
        <3>1. i = n - 4 * w /\ b = "key128" /\ s[1] = "get" /\ i \in 1 .. w
            BY <2>8
        <3> HIDE DEF i, b
        <3>2. \A j \in 1 .. w : j <= step[c] /\ j + 3 * w <= step[c]
            BY <1>4, <1>6, <2>3, <2>8
        <3>3. l[i] = k[i]
            BY <2>1, <3>1, <3>2
        <3>4. key'[c] = [k EXCEPT ![i] = k[i]] /\ UNCHANGED buffer
            BY <1>2, <2>1, <2>2, <3>1, <3>3
        <3>5. [k EXCEPT ![i] = k[i]] = k
            BY <1>4
        <3> QED BY <2>1, <3>2, <3>4, <3>5
    <2> QED BY <1>7, <2>4, <2>5, <2>6, <2>7, <2>8 DEF StepIs
<1>13. CoreKey(c)'
    BY <1>1, <1>12 DEF CoreKey, EntryIs
<1> QED BY <1>9, <1>10, <1>11, <1>13 DEF KeysInv

(* The lookup is made with the key of the packet, unless another core ran    *)
(* into its computation.                                                     *)
LEMMA ApplyKeys ==
    ASSUME BuffersInv, NumberInv, TableInv, KeysInv, NEW c \in Cores, apply(c)
    PROVE  KeysInv'
<1>1. /\ pc[c] = "key" /\ alive
      /\ UNCHANGED <<scenario, changes, table, burst, step, key, raced, buffer>>
    BY DEF apply, tableVars, portVars
<1>2. pc \in [Cores -> PcValues] /\ burst[c] # << >> /\ DOMAIN entry = Cores
    BY <1>1 DEF BuffersInv, Control, CoreFits, Handling, KeysInv, KeysShape
<1>3. CASE TernaryCrashes(table)
    <2>1. UNCHANGED <<entry, pc>>
        BY <1>3 DEF apply
    <2>2. \A d \in Cores : SameCore(d)
        BY <1>1, <2>1 DEF SameCore
    <2>3. \A d \in Cores : CoreKey(d)'
        BY <2>2, CoreKeyKept DEF KeysInv
    <2>4. BothRaced'
        BY <1>1, <2>1, SameBothRaced DEF KeysInv
    <2> QED BY <1>1, <2>1, <2>3, <2>4 DEF KeysInv, KeysShape
<1>4. CASE ~TernaryCrashes(table)
    <2>1. /\ entry' = [entry EXCEPT ![c] = Lookup(table, key[c])]
          /\ \E v \in {"tx", "read"} : pc' = [pc EXCEPT ![c] = v]
        BY <1>4 DEF apply
    <2>2. /\ entry'[c] = Lookup(table, key[c]) /\ pc'[c] \in {"tx", "read"}
          /\ \A d \in Cores : d # c => entry'[d] = entry[d] /\ pc'[d] = pc[d]
        BY <1>2, <2>1
    <2>3. BothRaced'
        BY <1>1, <2>2, SameBothRaced DEF KeysInv
    <2>4. ASSUME NEW d \in Cores, d # c PROVE CoreKey(d)'
        <3>1. SameCore(d)
            BY <1>1, <2>2, <2>4 DEF SameCore
        <3> QED BY <3>1, CoreKeyKept DEF KeysInv
    <2>5. InHand(c)' = InHand(c) /\ Width' = Width
        BY <1>1 DEF InHand, Width
    <2>6. WithinLimits' <=> WithinLimits
        BY <1>1, <2>5 DEF WithinLimits
    <2>7. EntryIs(c)'
        <3>1. SUFFICES ASSUME ~raced[c], WithinLimits
                       PROVE  entry'[c] = Promised(table.type, table.key_size = 0, changes, InHand(c))
            BY <1>1, <2>5, <2>6 DEF EntryIs
        <3>2. key[c] = InHand(c)
            BY <1>1, <3>1 DEF KeysInv, CoreKey, KeyIs
        <3> QED BY <1>1, <1>2, <2>2, <3>1, <3>2, FindsPromised
    <2>8. CoreKey(c)'
        BY <2>2, <2>7 DEF CoreKey, KeyIs
    <2>9. KeysShape'
        BY <1>1, <2>1 DEF KeysInv, KeysShape
    <2> QED BY <2>3, <2>4, <2>8, <2>9 DEF KeysInv
<1> QED BY <1>3, <1>4

(* A core goes on from what it has done, or begins with another packet; the  *)
(* others do not notice.                                                     *)
LEMMA OneGoesOn ==
    ASSUME KeysInv, NEW c \in Cores,
           UNCHANGED <<scenario, changes, table, key, raced, buffer>>,
           pc'[c] # "key", step' \in [Cores -> Nat], DOMAIN entry' = Cores,
           CoreKey(c)',
           \A d \in Cores \ {c} : /\ pc'[d] = pc[d] /\ step'[d] = step[d]
                                  /\ entry'[d] = entry[d] /\ burst'[d] = burst[d]
    PROVE  KeysInv'
<1>1. KeysShape'
    BY DEF KeysInv, KeysShape
<1>2. BothRaced'
    BY SameBothRaced DEF KeysInv
<1>3. ASSUME NEW d \in Cores, d # c PROVE CoreKey(d)'
    <2>1. SameCore(d)
        BY <1>3 DEF SameCore
    <2> QED BY <2>1, CoreKeyKept DEF KeysInv
<1> QED BY <1>1, <1>2, <1>3 DEF KeysInv

LEMMA IdleGoesOn ==
    ASSUME KeysInv, NEW c \in Cores,
           UNCHANGED <<scenario, changes, table, key, raced, buffer>>,
           pc'[c] \in {"pre", "rx", "next"}, step' \in [Cores -> Nat], DOMAIN entry' = Cores,
           step'[c] = 0,
           \A d \in Cores \ {c} : /\ pc'[d] = pc[d] /\ step'[d] = step[d]
                                  /\ entry'[d] = entry[d] /\ burst'[d] = burst[d]
    PROVE  KeysInv'
<1>1. CoreKey(c)'
    BY IdleCore
<1> QED BY <1>1, OneGoesOn

LEMMA CoreKeys ==
    ASSUME BuffersInv, NumberInv, TableInv, KeysInv, NEW c \in Cores, dpdk_main_loop(c)
    PROVE  KeysInv'
<1>1. /\ pc \in [Cores -> PcValues] /\ step \in [Cores -> Nat] /\ DOMAIN entry = Cores
      /\ DOMAIN burst = Cores /\ CoreKey(c)
    <2>1. DOMAIN burst = Cores
        BY DEF BuffersInv, Control, QueueSorts
    <2> QED BY <2>1 DEF BuffersInv, Control, KeysInv, KeysShape
<1>2. CASE main_loop_pre_rx(c)
    <2>1. /\ pc[c] = "pre" /\ pc' = [pc EXCEPT ![c] = "rx"]
          /\ UNCHANGED <<scenario, changes, table, key, raced, buffer, step, entry, burst>>
        BY <1>2 DEF main_loop_pre_rx, tableVars
    <2>2. step'[c] = 0 /\ pc'[c] = "rx" /\ \A d \in Cores \ {c} : pc'[d] = pc[d]
        BY <1>1, <2>1 DEF CoreKey
    <2> QED BY <1>1, <2>1, <2>2, IdleGoesOn
<1>3. CASE do_rx(c)
    <2>1. /\ pc[c] = "rx" /\ \E v \in {"pre", "rx", "next"} : pc' = [pc EXCEPT ![c] = v]
          /\ \E v : burst' = [burst EXCEPT ![c] = v]
          /\ UNCHANGED <<scenario, changes, table, key, raced, buffer, step, entry>>
        BY <1>3 DEF do_rx, NextQueue, tableVars
    <2>2. /\ step'[c] = 0 /\ pc'[c] \in {"pre", "rx", "next"}
          /\ \A d \in Cores \ {c} : pc'[d] = pc[d] /\ burst'[d] = burst[d]
        BY <1>1, <2>1 DEF CoreKey
    <2> QED BY <1>1, <2>1, <2>2, IdleGoesOn
<1>4. CASE do_single_tx(c)
    <2>1. /\ \E v \in {"pre", "rx", "next"} : pc' = [pc EXCEPT ![c] = v]
          /\ \E v : burst' = [burst EXCEPT ![c] = v]
          /\ step' = [step EXCEPT ![c] = 0] /\ entry' = [entry EXCEPT ![c] = NoEntry]
          /\ UNCHANGED <<scenario, changes, table, key, raced, buffer>>
        BY <1>4 DEF do_single_tx, NextPacket, NextQueue, tableVars
    <2>2. /\ step'[c] = 0 /\ pc'[c] \in {"pre", "rx", "next"}
          /\ step' \in [Cores -> Nat] /\ DOMAIN entry' = Cores
          /\ \A d \in Cores \ {c} : /\ pc'[d] = pc[d] /\ burst'[d] = burst[d]
                                    /\ step'[d] = step[d] /\ entry'[d] = entry[d]
        BY <1>1, <2>1
    <2> QED BY <2>1, <2>2, IdleGoesOn
<1>5. CASE extern_register_read(c) \/ extern_register_write(c)
    <2>1. /\ pc[c] \in {"read", "write"} /\ \E v \in {"write", "tx"} : pc' = [pc EXCEPT ![c] = v]
          /\ UNCHANGED <<scenario, changes, table, key, raced, buffer, step, entry, burst>>
        BY <1>5 DEF extern_register_read, extern_register_write, tableVars, portVars
    <2>2. pc'[c] \in {"write", "tx"} /\ \A d \in Cores \ {c} : pc'[d] = pc[d]
        BY <1>1, <2>1
    <2>3. CoreKey(c)'
        BY <1>1, <2>1, <2>2, LookedUpCore
    <2> QED BY <1>1, <2>1, <2>2, <2>3, OneGoesOn
<1> QED BY <1>2, <1>3, <1>4, <1>5, ReceiveKeys, TableKeyKeys, ApplyKeys DEF dpdk_main_loop

LEMMA NextKeys ==
    ASSUME BuffersInv, NumberInv, TableInv, KeysInv, [Next]_vars
    PROVE  KeysInv'
<1>1. pc \in [Cores -> PcValues] /\ KeysShape /\ BothRaced
    BY DEF BuffersInv, Control, KeysInv
<1>2. ASSUME UNCHANGED <<scenario, changes, table, pc, step, key, entry, burst, raced, buffer>>
      PROVE  KeysInv'
    <2>1. \A d \in Cores : SameCore(d)
        BY <1>2 DEF SameCore
    <2>2. \A d \in Cores : CoreKey(d)'
        BY <2>1, CoreKeyKept DEF KeysInv
    <2>3. BothRaced'
        BY <1>1, <1>2, SameBothRaced
    <2> QED BY <1>1, <1>2, <2>2, <2>3 DEF KeysInv, KeysShape
<1>3. ASSUME \A c \in Cores : pc[c] \in {"off", "pre", "rx", "next"},
             UNCHANGED <<pc, step, key, entry, raced, buffer>>
      PROVE  KeysInv'
    <2>1. \A c \in Cores : step'[c] = 0 /\ pc'[c] \in {"off", "pre", "rx", "next"}
        BY <1>3 DEF KeysInv, CoreKey
    <2>2. \A c \in Cores : CoreKey(c)'
        BY <2>1, IdleCore
    <2>3. BothRaced'
        BY <2>1 DEF BothRaced, Computing
    <2> QED BY <1>1, <1>3, <2>2, <2>3 DEF KeysInv, KeysShape
<1>4. CASE Arrive \/ NicFrees
    BY <1>2, <1>4 DEF Arrive, NicFrees, coreVars, tableVars
<1>5. CASE Change \/ Relaunch
    BY <1>3, <1>5 DEF Change, Relaunch, coreVars
<1>6. ASSUME NEW c \in Cores, Tick(c) PROVE KeysInv'
    BY <1>2, <1>6 DEF Tick, portVars, tableVars
<1>7. ASSUME NEW c \in Cores, dpdk_main_loop(c) PROVE KeysInv'
    BY <1>7, CoreKeys
<1>8. CASE UNCHANGED vars
    BY <1>2, <1>8 DEF vars, coreVars, tableVars
<1> QED BY <1>4, <1>5, <1>6, <1>7, <1>8 DEF Next

-----------------------------------------------------------------------------
LookupInv == BuffersInv /\ NumberInv /\ TableInv /\ KeysInv

LEMMA InitLookup == Init => LookupInv
<1> SUFFICES ASSUME Init PROVE LookupInv
    OBVIOUS
<1>1. NumberInv
    BY DEF Init, NumberInv, Numbers
<1> QED BY <1>1, InitBuffers, InitTable, InitKeys DEF LookupInv

LEMMA NextLookup == LookupInv /\ [Next]_vars => LookupInv'
<1> SUFFICES ASSUME LookupInv, [Next]_vars PROVE LookupInv'
    OBVIOUS
<1>1. BuffersInv /\ NumberInv /\ TableInv /\ KeysInv /\ ValuesInv
    BY DEF LookupInv, BuffersInv
<1> QED BY <1>1, NextBuffers, NextNumbers, NextTable, NextKeys DEF LookupInv

(* Every packet is handled by the entry that the changes made to the table   *)
(* call for, whatever the keys, prefixes and patterns, however many changes  *)
(* and flushes came before, and however the cores take turns, unless another *)
(* core ran into the computation of its LPM key: what exact_lookup,          *)
(* lpm_lookup and ternary_lookup find in what exact_add, lpm_add,            *)
(* ternary_add and flush_table have left (dpdk_tables.c, ternary_naive.c).   *)
THEOREM LookupCorrect == Spec => []LookupAgrees
<1>1. LookupInv => LookupAgrees
    BY DEF LookupInv, KeysInv, CoreKey, EntryIs, LookupAgrees, InHand
<1> QED BY <1>1, InitLookup, NextLookup, PTL DEF Spec
=============================================================================
