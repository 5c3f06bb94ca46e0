----------------------------- MODULE FifoProofs -----------------------------
(***************************************************************************)
(* Proofs about fifo.c for every ring size N, set of messages and finite   *)
(* set of consumers: the indices stay in range and agree, the ring is a    *)
(* bounded queue, and no wakeup is lost.                                   *)
(***************************************************************************)
EXTENDS Fifo, FiniteSetTheorems, SequenceTheorems, TLAPS

(* The ring indices are at most one turn ahead, and then % takes one N off. *)
LEMMA ModOneTurn ==
    ASSUME NEW x \in Nat, x < N + N
    PROVE  /\ x % N = IF x < N THEN x ELSE x - N
           /\ x % N \in Slots
BY NAssumption, SMT DEF Slots

(* Every state of the ring and of its consumers is well typed: head, tail   *)
(* and size never leave their ranges.                                       *)
THEOREM TypeCorrect == Spec => []TypeOK
<1>1. Init => TypeOK
    BY NAssumption DEF Init, TypeOK, Slots
<1>2. TypeOK /\ [Next]_vars => TypeOK'
    <2> SUFFICES ASSUME TypeOK, [Next]_vars PROVE TypeOK'
        OBVIOUS
    <2> USE DEF TypeOK
    <2>1. ASSUME NEW m \in Msgs, fifo_add_msg(m) PROVE TypeOK'
        <3>1. CASE size < N
            <4>1. (tail + 1) % N \in Slots
                BY ModOneTurn, NAssumption DEF Slots
            <4>2. tail' \in Slots /\ size' \in 0 .. N
                BY <2>1, <3>1, <4>1, NAssumption DEF fifo_add_msg
            <4>3. queue' \in [Slots -> Msgs \cup {Unset}] /\ head' \in Slots
                BY <2>1, <3>1, <4>2 DEF fifo_add_msg, ringVars
            <4>4. waiting' \subseteq Consumers
                BY <2>1, <3>1 DEF fifo_add_msg, SignalNotEmpty
            <4>5. /\ pc' \in [Consumers -> {"wait", "remove"}]
                  /\ toAdd' \subseteq Msgs /\ dropped' \subseteq Msgs
                  /\ taken' \in Seq(Msgs \cup {Unset})
                BY <2>1, <3>1 DEF fifo_add_msg
            <4> QED BY <4>2, <4>3, <4>4, <4>5, NAssumption DEF Slots
        <3>2. CASE ~(size < N)
            BY <2>1, <3>2 DEF fifo_add_msg, ringVars
        <3> QED BY <3>1, <3>2
    <2>2. ASSUME NEW c \in Consumers, fifo_wait(c) PROVE TypeOK'
        BY <2>2 DEF fifo_wait, ringVars
    <2>3. ASSUME NEW c \in Consumers, fifo_remove_msg(c) PROVE TypeOK'
        <3>1. (head + 1) % N \in Slots
            BY ModOneTurn, NAssumption DEF Slots
        <3>2. head' \in Slots /\ size' \in 0 .. N
            BY <2>3, <3>1, NAssumption DEF fifo_remove_msg
        <3>3. taken' \in Seq(Msgs \cup {Unset})
            BY <2>3 DEF fifo_remove_msg
        <3> QED BY <2>3, <3>2, <3>3 DEF fifo_remove_msg
    <2>4. ASSUME NEW c \in Consumers, SpuriousWakeup(c) PROVE TypeOK'
        BY <2>4 DEF SpuriousWakeup, ringVars
    <2>5. CASE UNCHANGED vars
        BY <2>5 DEF vars, ringVars
    <2> QED BY <2>1, <2>2, <2>3, <2>4, <2>5 DEF Next
<1> QED BY <1>1, <1>2, PTL DEF Spec

(* A step leaves the ring alone, adds at tail + 1, or removes at head.      *)
LEMMA RingSteps ==
    ASSUME TypeOK, [Next]_vars
    PROVE  \/ UNCHANGED ringVars
           \/ /\ size < N /\ size' = size + 1 /\ head' = head
              /\ tail' = (tail + 1) % N
              /\ \E m \in Msgs : queue' = [queue EXCEPT ![tail'] = m]
           \/ /\ size > 0 /\ size' = size - 1
              /\ head' = (head + 1) % N
              /\ UNCHANGED <<tail, queue>>
<1>1. ASSUME NEW m \in Msgs, fifo_add_msg(m), size < N
      PROVE  /\ size' = size + 1 /\ head' = head
             /\ tail' = (tail + 1) % N
             /\ queue' = [queue EXCEPT ![tail'] = m]
    BY <1>1 DEF fifo_add_msg
<1>2. ASSUME NEW m \in Msgs, fifo_add_msg(m), ~(size < N)
      PROVE  UNCHANGED ringVars
    BY <1>2 DEF fifo_add_msg
<1>3. ASSUME NEW c \in Consumers, fifo_remove_msg(c)
      PROVE  \/ UNCHANGED ringVars
             \/ /\ size > 0 /\ size' = size - 1
                /\ head' = (head + 1) % N
                /\ UNCHANGED <<tail, queue>>
    BY <1>3 DEF fifo_remove_msg, ringVars
<1>4. ASSUME NEW c \in Consumers, fifo_wait(c) \/ SpuriousWakeup(c)
      PROVE  UNCHANGED ringVars
    BY <1>4 DEF fifo_wait, SpuriousWakeup
<1>5. UNCHANGED vars => UNCHANGED ringVars
    BY DEF vars
<1> QED BY <1>1, <1>2, <1>3, <1>4, <1>5 DEF Next

(* head + size and tail + 1 name the same slot, for every N: the slot that  *)
(* fifo_add_msg writes is the one after the last message still queued.      *)
LEMMA RingStep == TypeOK /\ RingConsistent /\ [Next]_vars => RingConsistent'
<1> SUFFICES ASSUME TypeOK, RingConsistent, [Next]_vars PROVE RingConsistent'
    OBVIOUS
<1> USE NAssumption
<1>0. /\ head \in 0 .. N - 1 /\ size \in 0 .. N /\ tail \in -1 .. N - 1
      /\ (tail + 1) % N = (head + size) % N
    BY DEF TypeOK, Slots, RingConsistent
<1>1. CASE UNCHANGED ringVars
    BY <1>1 DEF ringVars, RingConsistent
<1>2. CASE /\ size < N /\ size' = size + 1 /\ head' = head
           /\ tail' = (tail + 1) % N
    <2>1. tail' \in 0 .. N - 1 /\ tail' = (head + size) % N
        BY <1>0, <1>2, ModOneTurn DEF Slots
    <2>2. (head + size) % N = IF head + size < N THEN head + size
                                                 ELSE head + size - N
        BY <1>0, ModOneTurn
    <2>3. (tail' + 1) % N = IF tail' + 1 < N THEN tail' + 1 ELSE tail' + 1 - N
        BY <2>1, ModOneTurn
    <2>4. (head + (size + 1)) % N = IF head + (size + 1) < N THEN head + (size + 1)
                                    ELSE head + (size + 1) - N
        BY <1>0, <1>2, ModOneTurn
    <2> QED BY <1>0, <1>2, <2>1, <2>2, <2>3, <2>4 DEF RingConsistent
<1>3. CASE /\ size > 0 /\ size' = size - 1
           /\ head' = (head + 1) % N
           /\ UNCHANGED <<tail, queue>>
    <2>1. head' = IF head + 1 < N THEN head + 1 ELSE head + 1 - N
        BY <1>0, <1>3, ModOneTurn
    <2>2. (head + size) % N = IF head + size < N THEN head + size
                                                 ELSE head + size - N
        BY <1>0, ModOneTurn
    <2>3. (head' + size') % N = IF head' + size' < N THEN head' + size'
                                                     ELSE head' + size' - N
        BY <1>0, <1>3, <2>1, ModOneTurn
    <2> QED BY <1>0, <1>3, <2>1, <2>2, <2>3 DEF RingConsistent
<1> QED BY <1>1, <1>2, <1>3, RingSteps

(* The three indices of the ring agree in every reachable state.            *)
THEOREM RingCorrect == Spec => []RingConsistent
<1>1. Init => RingConsistent
    BY NAssumption, ModOneTurn DEF Init, RingConsistent
<1> QED BY <1>1, RingStep, TypeCorrect, PTL DEF Spec
-----------------------------------------------------------------------------
(* A wakeup is never lost, however many consumers share the fifo.           *)
THEOREM NoLostWakeup == Spec => []AwakeEnough
<1>1. Init => AwakeEnough
    BY DEF Init, AwakeEnough
<1>2. TypeOK /\ AwakeEnough /\ [Next]_vars => AwakeEnough'
    <2> SUFFICES ASSUME TypeOK, AwakeEnough, [Next]_vars PROVE AwakeEnough'
        OBVIOUS
    <2> DEFINE Awake == Consumers \ waiting
    <2>0. /\ IsFiniteSet(Awake) /\ Cardinality(Awake) \in Nat
          /\ size \in 0 .. N /\ waiting \subseteq Consumers
        BY ConsumerAssumption, FS_Subset, FS_CardinalityType DEF TypeOK
    <2>a. ASSUME NEW c \in waiting
          PROVE  Cardinality(Consumers \ (waiting \ {c})) = Cardinality(Awake) + 1
        <3>1. Consumers \ (waiting \ {c}) = Awake \cup {c} /\ c \notin Awake
            BY <2>0
        <3> QED BY <2>0, <3>1, FS_AddElement
    <2>1. ASSUME NEW m \in Msgs, fifo_add_msg(m) PROVE AwakeEnough'
        <3>1. CASE size < N /\ waiting # {}
            <4>1. PICK c \in waiting : waiting' = waiting \ {c} /\ size' = size + 1
                BY <2>1, <3>1 DEF fifo_add_msg, SignalNotEmpty
            <4> QED BY <2>0, <2>a, <3>1, <4>1, NAssumption DEF AwakeEnough
        <3>2. CASE ~(size < N) \/ waiting = {}
            BY <2>1, <3>2 DEF fifo_add_msg, SignalNotEmpty, AwakeEnough, ringVars
        <3> QED BY <3>1, <3>2
    <2>2. ASSUME NEW c \in Consumers, fifo_wait(c) PROVE AwakeEnough'
        <3>1. IsFiniteSet(Consumers \ (waiting \cup {c}))
            BY ConsumerAssumption, FS_Subset
        <3>2. Cardinality(Consumers \ (waiting \cup {c})) >= 0
            BY <3>1, FS_CardinalityType
        <3> QED BY <2>0, <2>2, <3>2 DEF fifo_wait, AwakeEnough, ringVars
    <2>3. ASSUME NEW c \in Consumers, fifo_remove_msg(c) PROVE AwakeEnough'
        BY <2>0, <2>3, NAssumption DEF fifo_remove_msg, AwakeEnough
    <2>4. ASSUME NEW c \in Consumers, SpuriousWakeup(c) PROVE AwakeEnough'
        BY <2>0, <2>4, <2>a, NAssumption DEF SpuriousWakeup, AwakeEnough, ringVars
    <2>5. CASE UNCHANGED vars
        BY <2>5 DEF vars, ringVars, AwakeEnough
    <2> QED BY <2>1, <2>2, <2>3, <2>4, <2>5 DEF Next
<1> QED BY <1>1, <1>2, TypeCorrect, PTL DEF Spec
-----------------------------------------------------------------------------
(* A function on 1 .. n is a sequence. *)
LEMMA FunctionIsSeq ==
    ASSUME NEW S, NEW n \in Nat, NEW f \in [1 .. n -> S]
    PROVE  f \in Seq(S) /\ Len(f) = n
OBVIOUS

(* What a reader of the ring sees is a sequence of size elements. *)
LEMMA ContentsShape ==
    ASSUME TypeOK
    PROVE  /\ Contents \in Seq(Msgs \cup {Unset})
           /\ Len(Contents) = size
           /\ \A i \in 1 .. size : Contents[i] = queue[(head + i - 1) % N]
<1>1. /\ head \in 0 .. N - 1 /\ size \in 0 .. N
      /\ queue \in [Slots -> Msgs \cup {Unset}]
    BY NAssumption DEF TypeOK, Slots
<1>2. ASSUME NEW i \in 1 .. size
      PROVE  (head + i - 1) % N \in Slots
    BY <1>1, <1>2, ModOneTurn, NAssumption
<1>3. Contents \in [1 .. size -> Msgs \cup {Unset}]
    BY <1>1, <1>2 DEF Contents
<1>4. Contents \in Seq(Msgs \cup {Unset}) /\ Len(Contents) = size
    <2>1. size \in Nat
        BY <1>1
    <2> QED BY <1>3, <2>1, FunctionIsSeq
<1>5. \A i \in 1 .. size : Contents[i] = queue[(head + i - 1) % N]
    BY DEF Contents
<1> QED BY <1>4, <1>5

(* fifo_add_msg, when there is room, appends to the contents: the slot it   *)
(* writes is none of those that hold a message.                             *)
LEMMA AddAppends ==
    ASSUME TypeOK, TypeOK', RingConsistent,
           size < N, size' = size + 1, head' = head,
           tail' = (tail + 1) % N,
           NEW m \in Msgs, queue' = [queue EXCEPT ![tail'] = m]
    PROVE  Contents' = Append(Contents, m)
<1> USE NAssumption
<1>0. /\ head \in 0 .. N - 1 /\ size \in 0 .. N
      /\ tail' = (head + size) % N
      /\ queue \in [Slots -> Msgs \cup {Unset}]
    BY DEF TypeOK, Slots, RingConsistent
<1>1. tail' = IF head + size < N THEN head + size ELSE head + size - N
    BY <1>0, ModOneTurn
<1>2. ASSUME NEW i \in 1 .. size'
      PROVE  /\ (head + i - 1) % N = IF head + i - 1 < N THEN head + i - 1
                                                        ELSE head + i - 1 - N
             /\ (head + i - 1) % N \in Slots
    BY <1>0, <1>2, ModOneTurn
<1>3. ASSUME NEW i \in 1 .. size
      PROVE  queue'[(head + i - 1) % N] = queue[(head + i - 1) % N]
    <2>1. i \in 1 .. size'
        BY <1>0
    <2>2. (head + i - 1) % N # tail'
        BY <1>0, <1>1, <1>2, <2>1
    <2> QED BY <1>0, <1>2, <2>1, <2>2
<1>4. queue'[(head + size' - 1) % N] = m
    <2>1. tail' \in Slots /\ (head + size' - 1) % N = tail'
        BY <1>0, <1>1 DEF Slots
    <2> QED BY <1>0, <2>1
<1>5. /\ Contents' \in Seq(Msgs \cup {Unset})
      /\ Len(Contents') = size'
      /\ \A i \in 1 .. size' : Contents'[i] = queue'[(head + i - 1) % N]
    <2>1. /\ Contents' = [i \in 1 .. size' |-> queue'[(head + i - 1) % N]]
        BY DEF Contents
    <2>2. queue' \in [Slots -> Msgs \cup {Unset}]
        BY DEF TypeOK
    <2>3. Contents' \in [1 .. size' -> Msgs \cup {Unset}]
        BY <1>2, <2>1, <2>2
    <2>4. size' \in Nat /\ \A i \in 1 .. size' : Contents'[i] = queue'[(head + i - 1) % N]
        BY <1>0, <2>1
    <2>5. Contents' \in Seq(Msgs \cup {Unset}) /\ Len(Contents') = size'
        BY <2>3, <2>4, FunctionIsSeq
    <2> QED BY <2>4, <2>5
<1>6. /\ Append(Contents, m) \in Seq(Msgs \cup {Unset})
      /\ Len(Append(Contents, m)) = size'
      /\ \A i \in 1 .. size : Append(Contents, m)[i] = Contents[i]
      /\ Append(Contents, m)[size'] = m
    BY ContentsShape
<1>7. \A i \in 1 .. size' : Contents'[i] = Append(Contents, m)[i]
    <2> TAKE i \in 1 .. size'
    <2>1. CASE i \in 1 .. size
        BY <1>3, <1>5, <1>6, <2>1, ContentsShape
    <2>2. CASE i = size'
        BY <1>4, <1>5, <1>6, <2>2
    <2>3. i \in 1 .. size \/ i = size'
        BY <1>0
    <2> QED BY <2>1, <2>2, <2>3
<1> QED BY <1>5, <1>6, <1>7, SeqEqual

(* fifo_remove_msg, when there is a message, removes the first. *)
LEMMA RemoveTakesFirst ==
    ASSUME TypeOK, TypeOK',
           size > 0, size' = size - 1, head' = (head + 1) % N,
           UNCHANGED <<tail, queue>>
    PROVE  Contents # <<>> /\ Contents' = Tail(Contents)
<1> USE NAssumption
<1>0. /\ head \in 0 .. N - 1 /\ size \in 0 .. N
      /\ queue \in [Slots -> Msgs \cup {Unset}]
    BY DEF TypeOK, Slots
<1>1. head' = IF head + 1 < N THEN head + 1 ELSE head + 1 - N
    BY <1>0, ModOneTurn
<1>2. ASSUME NEW i \in 1 .. size'
      PROVE  (head' + i - 1) % N = (head + (i + 1) - 1) % N
    <2>1. (head' + i - 1) % N = IF head' + i - 1 < N THEN head' + i - 1
                                                     ELSE head' + i - 1 - N
        BY <1>0, <1>1, <1>2, ModOneTurn
    <2>2. (head + (i + 1) - 1) % N = IF head + i < N THEN head + i
                                                     ELSE head + i - N
        BY <1>0, <1>2, ModOneTurn
    <2> QED BY <1>0, <1>1, <2>1, <2>2
<1>3. /\ Contents' = [i \in 1 .. size' |-> queue[(head' + i - 1) % N]]
      /\ Contents' \in Seq(Msgs \cup {Unset})
      /\ Len(Contents') = size'
    <2>1. Contents' = [i \in 1 .. size' |-> queue[(head' + i - 1) % N]]
        BY DEF Contents
    <2>2. \A i \in 1 .. size' : (head' + i - 1) % N \in Slots
        BY <1>0, <1>1, ModOneTurn DEF Slots
    <2>3. Contents' \in [1 .. size' -> Msgs \cup {Unset}]
        BY <1>0, <2>1, <2>2
    <2>4. size' \in Nat
        BY <1>0
    <2>5. Contents' \in Seq(Msgs \cup {Unset}) /\ Len(Contents') = size'
        BY <2>3, <2>4, FunctionIsSeq
    <2> QED BY <2>1, <2>5
<1>4. /\ Contents # <<>>
      /\ Tail(Contents) \in Seq(Msgs \cup {Unset})
      /\ Len(Tail(Contents)) = size'
      /\ \A i \in 1 .. size' : Tail(Contents)[i] = Contents[i + 1]
    BY <1>0, ContentsShape
<1>5. \A i \in 1 .. size' : Contents'[i] = Tail(Contents)[i]
    BY <1>0, <1>2, <1>3, <1>4, ContentsShape
<1>6. Contents' = Tail(Contents)
    BY <1>3, <1>4, <1>5, SeqEqual
<1> QED BY <1>4, <1>6

(* The ring with its three indices is a bounded queue, whatever its size:   *)
(* messages leave in the order in which they came, and never more than N    *)
(* wait.                                                                    *)
THEOREM RingIsQueue == Spec => ImplementsQueue
<1>1. Init => Abstract!Init
    <2> SUFFICES ASSUME Init PROVE Contents = <<>>
        BY DEF Abstract!Init
    <2> QED BY DEF Init, Contents
<1>2. TypeOK /\ TypeOK' /\ RingConsistent /\ [Next]_vars
        => [Abstract!Add \/ Abstract!Remove]_Contents
    <2> SUFFICES ASSUME TypeOK, TypeOK', RingConsistent, [Next]_vars
                 PROVE  Abstract!Add \/ Abstract!Remove \/ UNCHANGED Contents
        OBVIOUS
    <2>1. CASE UNCHANGED ringVars
        BY <2>1 DEF ringVars, Contents
    <2>2. CASE /\ size < N /\ size' = size + 1 /\ head' = head
               /\ tail' = (tail + 1) % N
               /\ \E m \in Msgs : queue' = [queue EXCEPT ![tail'] = m]
        <3>1. PICK m \in Msgs : queue' = [queue EXCEPT ![tail'] = m]
            BY <2>2
        <3>2. Contents' = Append(Contents, m)
            BY <2>2, <3>1, AddAppends
        <3> QED BY <2>2, <3>2, ContentsShape DEF Abstract!Add
    <2>3. CASE /\ size > 0 /\ size' = size - 1
               /\ head' = (head + 1) % N
               /\ UNCHANGED <<tail, queue>>
        BY <2>3, RemoveTakesFirst DEF Abstract!Remove
    <2> QED BY <2>1, <2>2, <2>3, RingSteps
<1> QED BY <1>1, <1>2, TypeCorrect, RingCorrect, PTL
        DEF Spec, ImplementsQueue, Abstract!Spec
=============================================================================
