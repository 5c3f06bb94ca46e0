-------------------------------- MODULE Fifo --------------------------------
(***************************************************************************)
(* shared/ctrl_plane/fifo.c: a ring of N slots under one mutex, with a     *)
(* condition variable on which consumers wait.  Each function holds the    *)
(* lock from its first to its last statement, so each is one step, except  *)
(* fifo_wait: pthread_cond_wait releases the lock and blocks, and the      *)
(* waiting consumer goes on after a signal (or without one).               *)
(*                                                                         *)
(* Consumers run the loop of input_processor and output_processor:         *)
(* fifo_wait, fifo_remove_msg, start again when it returned null.          *)
(***************************************************************************)
EXTENDS Integers, Sequences, FiniteSets

CONSTANTS
    N,          \* P4_BG_QUEUE_SIZE
    Msgs,       \* the messages added during a run, each at most once
    Consumers,  \* the threads that remove messages
    Unset       \* the contents of a slot that was never written

ASSUME NAssumption       == N \in Nat \ {0}
ASSUME ConsumerAssumption == IsFiniteSet(Consumers)

VARIABLES
    head, size, tail,  \* as in fifo_t; tail starts at -1
    queue,             \* the ring
    waiting,           \* consumers blocked on not_empty
    pc,                \* where each consumer is in its loop
    toAdd,             \* messages no producer has added yet
    dropped,           \* messages fifo_add_msg found no room for
    taken              \* history: what fifo_remove_msg returned, in order

ringVars == <<head, size, tail, queue>>
vars == <<ringVars, waiting, pc, toAdd, dropped, taken>>

Slots == 0 .. N - 1

(* Mutant: tail starts at the first slot. *)
InitTailZero ==
    /\ head = 0 /\ size = 0 /\ tail = 0
    /\ queue = [i \in Slots |-> Unset]
    /\ waiting = {}
    /\ pc = [c \in Consumers |-> "wait"]
    /\ toAdd = Msgs /\ dropped = {} /\ taken = <<>>

Init ==
    /\ head = 0 /\ size = 0 /\ tail = -1
    /\ queue = [i \in Slots |-> Unset]
    /\ waiting = {}
    /\ pc = [c \in Consumers |-> "wait"]
    /\ toAdd = Msgs /\ dropped = {} /\ taken = <<>>

(* Mutant: only the first message is signalled. *)
SignalFirstOnly ==
    IF waiting = {} \/ size # 0 THEN UNCHANGED waiting
    ELSE \E c \in waiting : waiting' = waiting \ {c}

(* pthread_cond_signal(&not_empty) *)
SignalNotEmpty ==
    IF waiting = {} THEN UNCHANGED waiting
    ELSE \E c \in waiting : waiting' = waiting \ {c}

fifo_add_msg(m) ==
    /\ m \in toAdd
    /\ toAdd' = toAdd \ {m}
    /\ IF size < N
       THEN /\ tail' = (tail + 1) % N
            /\ size' = size + 1
            /\ queue' = [queue EXCEPT ![tail'] = m]
            /\ SignalNotEmpty
            /\ UNCHANGED <<head, dropped>>
       ELSE /\ dropped' = dropped \cup {m}
            /\ UNCHANGED <<ringVars, waiting>>
    /\ UNCHANGED <<pc, taken>>

(* Mutant: wait without looking at size. *)
FifoWaitAlways(c) ==
    /\ pc[c] = "wait"
    /\ pc' = [pc EXCEPT ![c] = "remove"]
    /\ waiting' = waiting \cup {c}
    /\ UNCHANGED <<ringVars, toAdd, dropped, taken>>

fifo_wait(c) ==
    /\ pc[c] = "wait"
    /\ pc' = [pc EXCEPT ![c] = "remove"]
    /\ waiting' = IF size = 0 THEN waiting \cup {c} ELSE waiting
    /\ UNCHANGED <<ringVars, toAdd, dropped, taken>>

(* pthread_cond_wait may return without a signal *)
SpuriousWakeup(c) ==
    /\ c \in waiting
    /\ waiting' = waiting \ {c}
    /\ UNCHANGED <<ringVars, pc, toAdd, dropped, taken>>

(* Mutant: the latest message is taken instead of the first. *)
FifoRemoveAtTail(c) ==
    /\ pc[c] = "remove" /\ c \notin waiting
    /\ pc' = [pc EXCEPT ![c] = "wait"]
    /\ IF size > 0
       THEN /\ taken' = Append(taken, queue[tail])
            /\ tail' = (tail + N - 1) % N
            /\ size' = size - 1
       ELSE UNCHANGED <<taken, tail, size>>
    /\ UNCHANGED <<head, queue, waiting, toAdd, dropped>>

fifo_remove_msg(c) ==
    /\ pc[c] = "remove" /\ c \notin waiting
    /\ pc' = [pc EXCEPT ![c] = "wait"]
    /\ IF size > 0
       THEN /\ taken' = Append(taken, queue[head])
            /\ head' = (head + 1) % N
            /\ size' = size - 1
       ELSE UNCHANGED <<taken, head, size>>
    /\ UNCHANGED <<tail, queue, waiting, toAdd, dropped>>

Next ==
    \/ \E m \in Msgs : fifo_add_msg(m)
    \/ \E c \in Consumers :
          fifo_wait(c) \/ fifo_remove_msg(c) \/ SpuriousWakeup(c)

Spec == Init /\ [][Next]_vars

(* Each consumer thread is scheduled; nothing is assumed of spurious        *)
(* wakeups or of the producers.                                             *)
FairSpec ==
    Spec /\ \A c \in Consumers : WF_vars(fifo_wait(c) \/ fifo_remove_msg(c))
-----------------------------------------------------------------------------
(* Every variable keeps its type. *)
TypeOK ==
    /\ head \in Slots /\ size \in 0 .. N /\ tail \in -1 .. N - 1
    /\ queue \in [Slots -> Msgs \cup {Unset}]
    /\ waiting \subseteq Consumers
    /\ pc \in [Consumers -> {"wait", "remove"}]
    /\ toAdd \subseteq Msgs /\ dropped \subseteq Msgs
    /\ taken \in Seq(Msgs \cup {Unset})

(* The three indices agree: head and size say where the next message goes,  *)
(* and tail, which fifo_add_msg uses instead, says the same, also after     *)
(* the ring has wrapped round and when it starts from -1.                   *)
RingConsistent == (tail + 1) % N = (head + size) % N

(* No wakeup is lost, with any number of consumers on one fifo (the         *)
(* controller has one output_processor per connected switch on the same     *)
(* queue): as many consumers are awake as there are messages, or all are.   *)
(* fifo_wait's if instead of while, and a signal that wakes one consumer,   *)
(* are enough because every add signals.                                    *)
AwakeEnough ==
    \/ waiting = {}
    \/ Cardinality(Consumers \ waiting) >= size

(* The ring, read from head, is a bounded queue. *)
Contents == [i \in 1 .. size |-> queue[(head + i - 1) % N]]
Abstract == INSTANCE BoundedQueue WITH contents <- Contents, Capacity <- N
ImplementsQueue == Abstract!Spec

(* Every message that was not dropped is handed to some consumer.           *)
EveryMessageTaken ==
    \A m \in Msgs :
        m \notin toAdd \cup dropped ~> \E i \in DOMAIN taken : taken[i] = m
=============================================================================
