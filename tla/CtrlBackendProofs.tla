------------------------- MODULE CtrlBackendProofs -------------------------
(***************************************************************************)
(* Proofs about ctrl_plane_backend.c, for any pool of cells, any set of    *)
(* cores and any capacity of the two fifos, with every fault allowed.      *)
(*                                                                         *)
(* TypeOK is not inductive: that handle_p4_msg is given a message of the   *)
(* controller depends on the cell not having been handed out a second time *)
(* while it was queued, and that depends on who owns each cell.  So type   *)
(* correctness, ownership and the contents of the cells are proved as one  *)
(* invariant, IInv.  Ownership is preserved by six kinds of move of a cell *)
(* (CellMoves), which every action is shown to be one of; the other parts  *)
(* follow action by action.                                                *)
(*                                                                         *)
(* The second part proves that no cell is lost while the connection is up  *)
(* and nobody stops the backend, if the cells are no more than a fifo has  *)
(* room for, and that a lost connection or a stop costs no more than four. *)
(* NoLeak is not inductive: that fifo_add_msg always finds room follows    *)
(* from the cells in a queue being different ones (CellsOwnedOnce) and the *)
(* one to be added not being among them, and that a thread does not        *)
(* overwrite its mem_cell with another cell from its having none then      *)
(* (EmptyHanded).                                                          *)
(*                                                                         *)
(* The third part proves that both directions of the control connection    *)
(* are channels: messages of the controller are handled, and digests       *)
(* written, in the order sent, none skipped, none twice and none changed   *)
(* on the way; and that main goes on only once what came before            *)
(* CTRL_INITIALIZED was handled.  Its invariant says what is on its way,   *)
(* place by place: the n messages handled are the first n sent, the next   *)
(* ones are in the cells pending for input_processor, then comes the one   *)
(* backend_processor is adding, then those on the wire; likewise for       *)
(* digests.                                                                *)
(***************************************************************************)
EXTENDS CtrlBackend, FiniteSetTheorems, SequenceTheorems, TLAPS

IInv == TypeOK /\ MessagesIntact /\ CellsOwnedOnce

(* What may happen to the pool, the fifos and the cells in hand in one step *)
Untouched == UNCHANGED <<unused, queue, mem_cell>>

Takes(t) == \E c \in unused :
    /\ unused' = unused \ {c} /\ SetCell(t, c) /\ UNCHANGED queue

Drops(t) == SetCell(t, NoCell) /\ UNCHANGED <<unused, queue>>

Queues(t, q) ==
    /\ mem_cell[t] \in Cells
    /\ queue' = [queue EXCEPT ![q] = Append(@, mem_cell[t])]
    /\ SetCell(t, NoCell) /\ UNCHANGED unused

Removes(t) ==
    /\ queue[t] # <<>>
    /\ queue' = [queue EXCEPT ![t] = Tail(@)]
    /\ SetCell(t, Head(queue[t])) /\ UNCHANGED unused

GivesBack(t) ==
    /\ mem_cell[t] \in Cells
    /\ unused' = unused \cup {mem_cell[t]}
    /\ SetCell(t, NoCell) /\ UNCHANGED queue

CellMove ==
    \/ Untouched
    \/ \E t \in Threads : Takes(t) \/ Drops(t) \/ GivesBack(t)
    \/ \E t \in Threads, q \in Consumers : Queues(t, q)
    \/ \E t \in Consumers : Removes(t)

(* The three pool threads differ from each other and from the cores.        *)
LEMMA ThreadsDistinct ==
    /\ BP \in Threads /\ IP \in Threads /\ OP \in Threads
    /\ Consumers \subseteq Threads /\ Lcores \subseteq Threads
    /\ BP # IP /\ BP # OP /\ IP # OP /\ BP \notin Consumers
    /\ \A l \in Lcores : l # BP /\ l \notin Consumers
BY LcoreAssumption DEF Threads, Consumers, BP, IP, OP

(* A queue's cells after one is appended, and after the first is removed.   *)
LEMMA RangeAppend ==
    ASSUME NEW q \in Seq(Cells), NEW c \in Cells
    PROVE  /\ RangeOf(Append(q, c)) = RangeOf(q) \cup {c}
           /\ \A i \in DOMAIN Append(q, c) :
                 \/ i = Len(q) + 1 /\ Append(q, c)[i] = c
                 \/ i \in DOMAIN q /\ Append(q, c)[i] = q[i]
<1>1. /\ Append(q, c) \in Seq(Cells) /\ Len(Append(q, c)) = Len(q) + 1
      /\ \A i \in 1 .. Len(q) : Append(q, c)[i] = q[i]
      /\ Append(q, c)[Len(q) + 1] = c
    BY AppendProperties
<1>2. /\ DOMAIN q = 1 .. Len(q) /\ Len(q) \in Nat
      /\ DOMAIN Append(q, c) = 1 .. Len(q) + 1
    BY <1>1
<1>3. \A i \in DOMAIN Append(q, c) :
        \/ i = Len(q) + 1 /\ Append(q, c)[i] = c
        \/ i \in DOMAIN q /\ Append(q, c)[i] = q[i]
    BY <1>1, <1>2
<1>4. RangeOf(Append(q, c)) \subseteq RangeOf(q) \cup {c}
    BY <1>3 DEF RangeOf
<1>5. c \in RangeOf(Append(q, c))
    BY <1>1, <1>2 DEF RangeOf
<1>6. RangeOf(q) \subseteq RangeOf(Append(q, c))
    BY <1>1, <1>2 DEF RangeOf
<1> QED BY <1>3, <1>4, <1>5, <1>6

(* Likewise for the removal of the first cell.                              *)
LEMMA RangeTail ==
    ASSUME NEW q \in Seq(Cells), q # <<>>
    PROVE  /\ Head(q) \in RangeOf(q) /\ Head(q) \in Cells
           /\ Tail(q) \in Seq(Cells) /\ Len(Tail(q)) = Len(q) - 1
           /\ RangeOf(Tail(q)) \subseteq RangeOf(q)
           /\ \A i \in DOMAIN Tail(q) : i + 1 \in DOMAIN q /\ Tail(q)[i] = q[i + 1]
           /\ 1 \in DOMAIN q /\ q[1] = Head(q) /\ 0 \notin DOMAIN Tail(q)
           /\ Len(q) \in Nat /\ DOMAIN q = 1 .. Len(q)
           /\ DOMAIN Tail(q) = 1 .. Len(q) - 1
<1>1. /\ Head(q) \in Cells /\ Tail(q) \in Seq(Cells)
      /\ Len(Tail(q)) = Len(q) - 1
      /\ \A i \in 1 .. Len(Tail(q)) : Tail(q)[i] = q[i + 1]
    BY HeadTailProperties
<1>2. /\ DOMAIN q = 1 .. Len(q) /\ Len(q) \in Nat /\ Len(q) # 0
      /\ DOMAIN Tail(q) = 1 .. Len(q) - 1
      /\ Head(q) = q[1]
    BY <1>1, EmptySeq
<1>3. \A i \in DOMAIN Tail(q) : i + 1 \in DOMAIN q /\ Tail(q)[i] = q[i + 1]
    BY <1>1, <1>2
<1>4. 1 \in DOMAIN q
    BY <1>2
<1> QED BY <1>1, <1>2, <1>3, <1>4 DEF RangeOf
-----------------------------------------------------------------------------
(* Each kind of move keeps every cell in one place. *)
CellTypes ==
    /\ unused \subseteq Cells
    /\ queue \in [Consumers -> Seq(Cells)]
    /\ mem_cell \in [Threads -> Cells \cup {NoCell}]

(* A queue is made of cells.                                                *)
LEMMA RangeOfQueue ==
    ASSUME CellTypes, NEW t \in Consumers
    PROVE  RangeOf(queue[t]) \subseteq Cells
BY DEF CellTypes, RangeOf

(* A cell that is taken, dropped, queued, removed or given back still has   *)
(* at most one owner afterwards.                                            *)
LEMMA OwnershipMoves ==
    ASSUME CellTypes, CellsOwnedOnce, CellMove
    PROVE  CellsOwnedOnce'
<1> USE CellsAssumption, ThreadsDistinct
<1> USE DEF CellTypes, CellsOwnedOnce, FreeCellsUnreachable, HoldersDisjoint,
            QueuedOnce, QueuesDisjoint, Reachable, Held
<1>0. \A t \in Consumers : RangeOf(queue[t]) \subseteq Cells
    BY RangeOfQueue
<1>1. CASE Untouched
    BY <1>1 DEF Untouched
<1>2. ASSUME NEW t \in Threads, Takes(t) PROVE CellsOwnedOnce'
    <2>1. PICK c \in unused : unused' = unused \ {c} /\ SetCell(t, c) /\ UNCHANGED queue
        BY <1>2 DEF Takes
    <2>2. /\ mem_cell' = [mem_cell EXCEPT ![t] = c]
          /\ c \in Cells /\ c # NoCell /\ c \notin Held
          /\ \A q \in Consumers : c \notin RangeOf(queue[q])
        BY <2>1 DEF SetCell, Consumers
    <2> QED BY <2>1, <2>2
<1>3. ASSUME NEW t \in Threads, Drops(t) PROVE CellsOwnedOnce'
    <2>1. mem_cell' = [mem_cell EXCEPT ![t] = NoCell] /\ UNCHANGED <<unused, queue>>
        BY <1>3 DEF Drops, SetCell
    <2> QED BY <1>0, <2>1 DEF Consumers
<1>4. ASSUME NEW t \in Threads, GivesBack(t) PROVE CellsOwnedOnce'
    <2>1. /\ mem_cell' = [mem_cell EXCEPT ![t] = NoCell] /\ UNCHANGED queue
          /\ unused' = unused \cup {mem_cell[t]} /\ mem_cell[t] \in Cells
        BY <1>4 DEF GivesBack, SetCell
    <2>2. /\ \A s \in Threads : s # t => mem_cell[s] # mem_cell[t]
          /\ \A q \in Consumers : mem_cell[t] \notin RangeOf(queue[q])
        BY <2>1
    <2> QED BY <1>0, <2>1, <2>2 DEF Consumers
<1>5. ASSUME NEW t \in Threads, NEW q \in Consumers, Queues(t, q)
      PROVE CellsOwnedOnce'
    <2>1. /\ mem_cell' = [mem_cell EXCEPT ![t] = NoCell] /\ UNCHANGED unused
          /\ mem_cell[t] \in Cells
          /\ queue' = [queue EXCEPT ![q] = Append(queue[q], mem_cell[t])]
        BY <1>5 DEF Queues, SetCell
    <2>2. /\ \A s \in Threads : s # t => mem_cell[s] # mem_cell[t]
          /\ \A r \in Consumers : mem_cell[t] \notin RangeOf(queue[r])
          /\ mem_cell[t] \notin unused
        BY <2>1
    <2>3. /\ RangeOf(queue'[q]) = RangeOf(queue[q]) \cup {mem_cell[t]}
          /\ \A i \in DOMAIN queue'[q] :
               \/ i = Len(queue[q]) + 1 /\ queue'[q][i] = mem_cell[t]
               \/ i \in DOMAIN queue[q] /\ queue'[q][i] = queue[q][i]
          /\ \A r \in Consumers : r # q => queue'[r] = queue[r]
        BY <2>1, RangeAppend
    <2>4. QueuedOnce'
        BY <2>2, <2>3 DEF RangeOf
    <2>5. Held' \subseteq (Held \ {mem_cell[t]}) \cup {NoCell}
        BY <2>1, <2>2
    <2>6. \A r \in Consumers : RangeOf(queue'[r]) \cap Held' = {}
        BY <1>0, <2>1, <2>3, <2>5
    <2>7. RangeOf(queue'[IP]) \cap RangeOf(queue'[OP]) = {}
        BY <2>2, <2>3 DEF Consumers
    <2>8. unused' \cap Reachable' = {}
        BY <2>1, <2>2, <2>3, <2>5 DEF Consumers
    <2>9. HoldersDisjoint'
        BY <2>1
    <2> QED BY <2>4, <2>6, <2>7, <2>8, <2>9
<1>6. ASSUME NEW t \in Consumers, Removes(t) PROVE CellsOwnedOnce'
    <2> DEFINE c == Head(queue[t])
    <2>1. /\ mem_cell' = [mem_cell EXCEPT ![t] = c] /\ UNCHANGED unused
          /\ queue' = [queue EXCEPT ![t] = Tail(queue[t])]
          /\ queue[t] # <<>>
        BY <1>6 DEF Removes, SetCell
    <2>2. /\ c \in RangeOf(queue[t]) /\ c \in Cells
          /\ RangeOf(queue'[t]) \subseteq RangeOf(queue[t])
          /\ \A i \in DOMAIN queue'[t] : i + 1 \in DOMAIN queue[t] /\ queue'[t][i] = queue[t][i + 1]
          /\ 1 \in DOMAIN queue[t] /\ queue[t][1] = c /\ 0 \notin DOMAIN queue'[t]
          /\ Len(queue[t]) \in Nat /\ DOMAIN queue[t] = 1 .. Len(queue[t])
          /\ DOMAIN queue'[t] = 1 .. Len(queue[t]) - 1
          /\ \A r \in Consumers : r # t => queue'[r] = queue[r]
        BY <2>1, RangeTail
    <2>3. c \notin RangeOf(queue'[t])
        BY <2>2, SMTT(30) DEF RangeOf
    <2>4. \A r \in Consumers : r # t => c \notin RangeOf(queue[r])
        BY <2>2 DEF Consumers
    <2>5. c \notin Held /\ c \notin unused
        BY <2>2 DEF Consumers
    <2>6. Held' \subseteq Held \cup {c}
        BY <2>1
    <2>7. QueuedOnce'
        <3>1. ASSUME NEW i \in DOMAIN queue'[t], NEW j \in DOMAIN queue'[t],
                     queue'[t][i] = queue'[t][j]
              PROVE  i = j
            <4>1. i + 1 = j + 1
                BY <2>2, <3>1
            <4> QED BY <2>2, <4>1
        <3> QED BY <2>2, <3>1
    <2>8. HoldersDisjoint'
        BY <2>1, <2>5
    <2>9. QueuesDisjoint'
        <3>1. \A r \in Consumers : RangeOf(queue'[r]) \subseteq RangeOf(queue[r])
            BY <2>2
        <3>2. \A r \in Consumers : c \notin RangeOf(queue'[r])
            BY <2>2, <2>3, <2>4
        <3>3. ASSUME NEW r \in Consumers, NEW e \in RangeOf(queue'[r])
              PROVE  e \notin Held'
            <4>1. e \in RangeOf(queue[r]) /\ e # c
                BY <3>1, <3>2
            <4>2. e \notin Held
                BY <4>1
            <4> HIDE DEF Held, c
            <4> QED BY <2>6, <4>1, <4>2
        <3>4. RangeOf(queue'[IP]) \cap RangeOf(queue'[OP]) = {}
            BY <3>1 DEF Consumers
        <3>5. \A r \in Consumers : RangeOf(queue'[r]) \cap Held' = {}
            BY <3>3
        <3> QED BY <3>4, <3>5
    <2>10. FreeCellsUnreachable'
        BY <2>1, <2>2, <2>5, <2>6 DEF Consumers
    <2> QED BY <2>7, <2>8, <2>9, <2>10
<1> QED BY <1>1, <1>2, <1>3, <1>4, <1>5, <1>6 DEF CellMove
-----------------------------------------------------------------------------
(* Every action is one of the moves. *)
LEMMA ActionsMoveCells ==
    ASSUME TypeOK, CellInHand, [Next]_vars
    PROVE  CellMove
<1> USE ThreadsDistinct DEF fifoVars, poolVars
<1>1. CASE Main
    <2>1. Untouched
        BY <1>1 DEF Main, Connect, ConnectFails, CtrlInitialized, StopBackend,
                    KillThreads, Untouched
    <2> QED BY <2>1 DEF CellMove
<1>2. CASE BackendProcessor
    <2>1. CASE BpSelect \/ BpRead \/ BpClose
        BY <2>1 DEF BpSelect, BpRead, BpClose, CellMove, Untouched
    <2>2. CASE BpTouch
        BY <2>2 DEF BpTouch, CellMove, Takes
    <2>3. CASE BpReadEof \/ BpReadError
        BY <2>3 DEF BpReadEof, BpReadError, CellMove, Drops
    <2>4. CASE BpAdd
        <3>1. mem_cell[BP] \in Cells
            BY <2>4 DEF BpAdd, At, CellInHand, TypeOK
        <3>2. Queues(BP, IP) \/ Drops(BP)
            BY <2>4, <3>1 DEF BpAdd, FifoAdd, Queues, Drops
        <3> QED BY <3>2 DEF CellMove, Consumers
    <2> QED BY <1>2, <2>1, <2>2, <2>3, <2>4 DEF BackendProcessor
<1>3. ASSUME NEW t \in Consumers, Consume(t) \/ SpuriousWakeup(t)
      PROVE  CellMove
    <2>1. CASE FifoWait(t) \/ SpuriousWakeup(t)
        BY <2>1 DEF FifoWait, SpuriousWakeup, CellMove, Untouched
    <2>2. CASE FifoRemove(t)
        <3>1. Removes(t) \/ Drops(t)
            BY <2>2 DEF FifoRemove, Removes, Drops
        <3> QED BY <3>1 DEF CellMove
    <2>3. CASE CheckCell(t)
        <3>1. Drops(t) \/ Untouched
            BY <2>3 DEF CheckCell, Drops, Untouched
        <3> QED BY <3>1 DEF CellMove
    <2>4. CASE Detouch(t)
        <3>1. mem_cell[t] \in Cells
            BY <2>4 DEF Detouch, At, CellInHand, TypeOK
        <3> QED BY <2>4, <3>1 DEF Detouch, CellMove, GivesBack
    <2> QED BY <1>3, <2>1, <2>2, <2>3, <2>4 DEF Consume
<1>4. CASE HandleMsg \/ WriteMsg
    BY <1>4 DEF HandleMsg, WriteMsg, CellMove, Untouched
<1>5. ASSUME NEW l \in Lcores, Lcore(l) PROVE CellMove
    <2>1. CASE CreateDigest(l)
        <3>1. Takes(l)
            BY <2>1 DEF CreateDigest, Takes
        <3> QED BY <3>1 DEF CellMove
    <2>2. CASE CreateDigestNull(l) \/ AddDigestFields(l)
        BY <2>2 DEF CreateDigestNull, AddDigestFields, CellMove, Untouched
    <2>3. CASE SendDigest(l)
        <3>1. mem_cell[l] \in Cells
            BY <2>3 DEF SendDigest, At, CellInHand, TypeOK
        <3>2. Queues(l, OP) \/ Drops(l)
            BY <2>3, <3>1 DEF SendDigest, FifoAdd, Queues, Drops
        <3> QED BY <3>2 DEF CellMove, Consumers
    <2> QED BY <1>5, <2>1, <2>2, <2>3 DEF Lcore
<1>6. CASE ControllerCloses \/ ConnectionReset \/ WriteSigpipe
    BY <1>6 DEF ControllerCloses, ConnectionReset, WriteSigpipe, CellMove, Untouched
<1>7. ASSUME NEW k \in Kinds, ControllerSend(k) PROVE CellMove
    BY <1>7 DEF ControllerSend, CellMove, Untouched
<1>8. CASE UNCHANGED vars
    BY <1>8 DEF vars, CellMove, Untouched
<1>9. CASE Pool
    BY <1>9 DEF Pool, StartJob, CellMove, Untouched
<1> QED BY <1>1, <1>2, <1>3, <1>4, <1>5, <1>6, <1>7, <1>8, <1>9
        DEF Next, InputProcessor, OutputProcessor, Environment, Consumers
-----------------------------------------------------------------------------
(* The main thread and the controller do not touch any cell. *)
LEMMA MainKeepsTypes ==
    ASSUME IInv, Main PROVE TypeOK' /\ MessagesIntact'
<1> USE ThreadsDistinct DEF poolVars, fifoVars, netVars, histVars
<1>1. CASE Connect
    BY <1>1 DEF Connect, IInv, TypeOK, MessagesIntact, CellInHand, RightContents,
                MessageFor
<1>2. CASE ConnectFails \/ CtrlInitialized \/ StopBackend \/ KillThreads
    <2>1. UNCHANGED <<poolVars, fifoVars, pc, mem_cell, netVars, histVars,
                      ctrl_is_initialized>>
        BY <1>2 DEF ConnectFails, CtrlInitialized, StopBackend, KillThreads
    <2>2. /\ main_pc' \in {"connect", "spin", "running", "stopping"}
          /\ shutdown' \in BOOLEAN /\ alive' \in BOOLEAN
        BY <1>2 DEF ConnectFails, CtrlInitialized, StopBackend, KillThreads,
                    IInv, TypeOK
    <2>3. TypeOK'
        BY <2>1, <2>2 DEF IInv, TypeOK
    <2> QED BY <2>1, <2>3 DEF IInv, MessagesIntact, CellInHand, RightContents,
                              MessageFor
<1> QED BY <1>1, <1>2 DEF Main

(* A job that is started has no cell yet.                                   *)
LEMMA PoolKeepsTypes ==
    ASSUME IInv, Pool PROVE TypeOK' /\ MessagesIntact'
<1> USE ThreadsDistinct DEF poolVars, fifoVars, mainVars, netVars, histVars
<1>1. PICK t \in {BP, IP, OP} : StartJob(t)
    BY DEF Pool
<1>2. /\ \A s \in Threads : s # t => pc'[s] = pc[s]
      /\ pc'[t] \in {"select", "wait"}
      /\ pc' \in [Threads -> {"unborn", "idle", "fill", "send", "select", "touch",
                           "read", "add", "close", "wait", "remove", "check",
                           "use", "detouch", "done"}]
    BY <1>1 DEF StartJob, Goto, IInv, TypeOK
<1>3. TypeOK'
    BY <1>1, <1>2 DEF StartJob, IInv, TypeOK
<1>4. CellInHand'
    BY <1>1, <1>2 DEF StartJob, IInv, MessagesIntact, CellInHand
<1>5. RightContents'
    BY <1>1, <1>2 DEF StartJob, IInv, MessagesIntact, RightContents, MessageFor, Consumers
<1> QED BY <1>3, <1>4, <1>5 DEF MessagesIntact

(* Nor do the controller, a spurious wakeup and SIGPIPE.                    *)
LEMMA EnvironmentKeepsTypes ==
    ASSUME IInv, Environment PROVE TypeOK' /\ MessagesIntact'
<1> USE DEF poolVars, fifoVars, mainVars, netVars, histVars
<1>1. ASSUME NEW k \in Kinds, ControllerSend(k) PROVE TypeOK' /\ MessagesIntact'
    <2>1. [kind |-> k, seq |-> Len(sent) + 1] \in CtrlMsg
        BY BoundsAssumption DEF IInv, TypeOK, CtrlMsg
    <2>2. sent' \in Seq(CtrlMsg) /\ wire' \in Seq(CtrlMsg)
        BY <1>1, <2>1 DEF ControllerSend, IInv, TypeOK
    <2> QED BY <1>1, <2>2 DEF ControllerSend, IInv, TypeOK, MessagesIntact,
                              CellInHand, RightContents, MessageFor
<1>2. CASE ControllerCloses
    BY <1>2 DEF ControllerCloses, IInv, TypeOK, MessagesIntact, CellInHand,
                RightContents, MessageFor
<1>3. CASE ConnectionReset
    <2>1. wire' \in Seq(CtrlMsg)
        BY <1>3, EmptySeq DEF ConnectionReset
    <2> QED BY <1>3, <2>1 DEF ConnectionReset, IInv, TypeOK, MessagesIntact, CellInHand,
                RightContents, MessageFor
<1>4. ASSUME NEW t \in Consumers, SpuriousWakeup(t) PROVE TypeOK' /\ MessagesIntact'
    BY <1>4 DEF SpuriousWakeup, IInv, TypeOK, MessagesIntact, CellInHand,
                RightContents, MessageFor
<1>5. CASE WriteSigpipe
    BY <1>5 DEF WriteSigpipe, IInv, TypeOK, MessagesIntact, CellInHand,
                RightContents, MessageFor
<1> QED BY <1>1, <1>2, <1>3, <1>4, <1>5 DEF Environment
-----------------------------------------------------------------------------
(* fifo_add_msg keeps the queues short, and of messages of one direction.   *)
LEMMA FifoAddKeepsQueues ==
    ASSUME TypeOK, RightContents, NEW q \in Consumers, NEW c \in Cells,
           FifoAdd(q, c), data[c] \in MessageFor(q)
    PROVE  /\ queue' \in [Consumers -> Seq(Cells)]
           /\ \A t \in Consumers : Len(queue'[t]) <= QueueCap
           /\ waiting' \subseteq Consumers
           /\ \A t \in Consumers : \A d \in RangeOf(queue'[t]) : data[d] \in MessageFor(t)
<1>1. CASE Len(queue[q]) < QueueCap
    <2>1. queue' = [queue EXCEPT ![q] = Append(queue[q], c)] /\ waiting' = waiting \ {q}
        BY <1>1 DEF FifoAdd
    <2>2. /\ Append(queue[q], c) \in Seq(Cells)
          /\ Len(Append(queue[q], c)) = Len(queue[q]) + 1
          /\ Len(queue[q]) \in Nat
        BY DEF TypeOK
    <2>3. RangeOf(Append(queue[q], c)) = RangeOf(queue[q]) \cup {c}
        BY RangeAppend DEF TypeOK
    <2>4. /\ queue'[q] = Append(queue[q], c)
          /\ \A t \in Consumers : t # q => queue'[t] = queue[t]
          /\ queue' \in [Consumers -> Seq(Cells)]
        BY <2>1, <2>2 DEF TypeOK
    <2>5. \A t \in Consumers : Len(queue'[t]) <= QueueCap
        <3>1. Len(queue'[q]) <= QueueCap
            BY <1>1, <2>2, <2>4, BoundsAssumption
        <3> QED BY <2>4, <3>1 DEF TypeOK
    <2>6. \A t \in Consumers : \A d \in RangeOf(queue'[t]) : data[d] \in MessageFor(t)
        BY <2>3, <2>4 DEF RightContents
    <2> QED BY <2>1, <2>4, <2>5, <2>6 DEF TypeOK
<1>2. CASE ~(Len(queue[q]) < QueueCap)
    BY <1>2 DEF FifoAdd, fifoVars, TypeOK, RightContents
<1> QED BY <1>1, <1>2

(* backend_processor writes only to a cell that nobody else can reach, and  *)
(* queues it once it holds a message of the controller.                     *)
LEMMA BackendProcessorKeepsTypes ==
    ASSUME IInv, BackendProcessor PROVE TypeOK' /\ MessagesIntact'
<1> USE CellsAssumption, ThreadsDistinct
        DEF poolVars, fifoVars, mainVars, netVars, histVars
<1>0. /\ TypeOK /\ CellInHand /\ RightContents
      /\ FreeCellsUnreachable /\ HoldersDisjoint /\ QueuesDisjoint
    BY DEF IInv, MessagesIntact, CellsOwnedOnce
<1>1. CASE BpSelect
    BY <1>0, <1>1 DEF BpSelect, At, Goto, TypeOK, MessagesIntact, CellInHand,
                RightContents, MessageFor
<1>2. CASE BpTouch
    <2>1. TypeOK'
        BY <1>0, <1>2 DEF BpTouch, At, Goto, SetCell, TypeOK
    <2>2. PICK c \in unused : mem_cell' = [mem_cell EXCEPT ![BP] = c]
        BY <1>2 DEF BpTouch, SetCell
    <2>3. /\ pc' = [pc EXCEPT ![BP] = "read"] /\ UNCHANGED <<data, queue>>
          /\ DOMAIN pc = Threads /\ DOMAIN mem_cell = Threads /\ c # NoCell
        BY <1>0, <1>2, <2>2 DEF BpTouch, Goto, TypeOK
    <2>4. CellInHand'
        BY <1>0, <2>2, <2>3 DEF CellInHand
    <2>5. RightContents'
        BY <1>0, <2>2, <2>3 DEF RightContents, MessageFor
    <2> QED BY <2>1, <2>4, <2>5 DEF MessagesIntact
<1>3. CASE BpRead
    <2> DEFINE c == mem_cell[BP]
    <2>1. c \in Cells /\ c # NoCell
        BY <1>0, <1>3 DEF BpRead, At, TypeOK, CellInHand
    <2>2. /\ Head(wire) \in CtrlMsg /\ wire' \in Seq(CtrlMsg)
          /\ data' = [data EXCEPT ![c] = Head(wire)]
        BY <1>0, <1>3 DEF BpRead, TypeOK
    <2>3. TypeOK'
        BY <1>0, <1>3, <2>1, <2>2 DEF BpRead, At, Goto, TypeOK
    <2>4. CellInHand'
        BY <1>0, <1>3, <2>1 DEF BpRead, At, Goto, TypeOK, CellInHand
    <2>5. /\ \A t \in Consumers : c \notin RangeOf(queue[t])
          /\ \A t \in Threads : t # BP => mem_cell[t] # c
        BY <1>0, <2>1 DEF HoldersDisjoint, QueuesDisjoint, Held
    <2>6. /\ data'[c] \in CtrlMsg
          /\ \A d \in Cells : d # c => data'[d] = data[d]
        BY <1>0, <2>1, <2>2 DEF TypeOK
    <2>7. UNCHANGED <<queue, mem_cell>> /\ \A t \in Threads : t # BP => pc'[t] = pc[t]
        BY <1>0, <1>3 DEF BpRead, Goto, TypeOK
    <2>8. \A t \in Consumers : RangeOf(queue[t]) \subseteq Cells
        BY <1>0, RangeOfQueue DEF CellTypes, TypeOK
    <2>9. \A t \in Threads : mem_cell[t] \in Cells \cup {NoCell}
        BY <1>0 DEF TypeOK
    <2>10. \A t \in Consumers : \A d \in RangeOf(queue'[t]) : data'[d] \in MessageFor(t)
        BY <1>0, <2>5, <2>6, <2>7, <2>8 DEF RightContents
    <2>11. \A t \in Consumers :
             pc'[t] \in {"check", "use"} /\ mem_cell'[t] # NoCell =>
                data'[mem_cell'[t]] \in MessageFor(t)
        BY <1>0, <2>5, <2>6, <2>7, <2>9 DEF RightContents
    <2>12. \A l \in Lcores :
             /\ pc'[l] = "fill" => data'[mem_cell'[l]] \in Digest
             /\ pc'[l] = "send" => data'[mem_cell'[l]] \in MessageFor(OP)
        BY <1>0, <2>5, <2>6, <2>7, <2>9 DEF RightContents, CellInHand
    <2> QED BY <2>3, <2>4, <2>6, <2>7, <2>10, <2>11, <2>12
            DEF MessagesIntact, RightContents, MessageFor
<1>4. CASE BpReadEof
    BY <1>0, <1>4 DEF BpReadEof, At, Goto, SetCell, TypeOK, MessagesIntact,
                CellInHand, RightContents, MessageFor
<1>5. CASE BpReadError
    BY <1>0, <1>5 DEF BpReadError, At, Goto, SetCell, TypeOK, MessagesIntact,
                CellInHand, RightContents, MessageFor
<1>6. CASE BpAdd
    <2>1. mem_cell[BP] \in Cells /\ data[mem_cell[BP]] \in MessageFor(IP)
        BY <1>0, <1>6 DEF BpAdd, At, TypeOK, CellInHand, RightContents, MessageFor
    <2>2. /\ queue' \in [Consumers -> Seq(Cells)]
          /\ \A t \in Consumers : Len(queue'[t]) <= QueueCap
          /\ waiting' \subseteq Consumers
          /\ \A t \in Consumers : \A d \in RangeOf(queue'[t]) : data[d] \in MessageFor(t)
        BY <1>0, <1>6, <2>1, FifoAddKeepsQueues DEF BpAdd, Consumers
    <2>3. TypeOK'
        BY <1>0, <1>6, <2>2 DEF BpAdd, Goto, SetCell, TypeOK
    <2>4. CellInHand' /\ RightContents'
        BY <1>0, <1>6, <2>2 DEF BpAdd, Goto, SetCell, TypeOK, CellInHand,
                                RightContents, MessageFor
    <2> QED BY <2>3, <2>4 DEF MessagesIntact
<1>7. CASE BpClose
    BY <1>0, <1>7 DEF BpClose, At, Goto, TypeOK, MessagesIntact, CellInHand,
                RightContents, MessageFor
<1> QED BY <1>1, <1>2, <1>3, <1>4, <1>5, <1>6, <1>7 DEF BackendProcessor
(* The consumers find in a cell what was put there when it was queued.      *)
LEMMA ConsumersKeepTypes ==
    ASSUME IInv, InputProcessor \/ OutputProcessor
    PROVE  TypeOK' /\ MessagesIntact'
<1> USE CellsAssumption, ThreadsDistinct
        DEF poolVars, fifoVars, mainVars, netVars, histVars
<1>0. /\ TypeOK /\ CellInHand /\ RightContents
    BY DEF IInv, MessagesIntact
<1>1. ASSUME NEW t \in Consumers, FifoWait(t) PROVE TypeOK' /\ MessagesIntact'
    BY <1>0, <1>1 DEF FifoWait, At, Goto, TypeOK, MessagesIntact, CellInHand,
                RightContents, MessageFor
<1>2. ASSUME NEW t \in Consumers, FifoRemove(t) PROVE TypeOK' /\ MessagesIntact'
    <2>1. CASE queue[t] = <<>>
        BY <1>0, <1>2, <2>1 DEF FifoRemove, At, Goto, SetCell, TypeOK,
                MessagesIntact, CellInHand, RightContents, MessageFor
    <2>2. CASE queue[t] # <<>>
        <3>1. /\ Head(queue[t]) \in RangeOf(queue[t]) /\ Head(queue[t]) \in Cells
              /\ Tail(queue[t]) \in Seq(Cells)
              /\ Len(Tail(queue[t])) = Len(queue[t]) - 1
              /\ RangeOf(Tail(queue[t])) \subseteq RangeOf(queue[t])
            BY <1>0, <2>2, RangeTail DEF TypeOK
        <3>2. /\ queue' = [queue EXCEPT ![t] = Tail(queue[t])]
              /\ mem_cell' = [mem_cell EXCEPT ![t] = Head(queue[t])]
              /\ pc' = [pc EXCEPT ![t] = "check"]
              /\ UNCHANGED <<data, unused, waiting>>
            BY <1>2, <2>2 DEF FifoRemove, SetCell, Goto
        <3>3. TypeOK'
            BY <1>0, <1>2, <3>1, <3>2, BoundsAssumption DEF FifoRemove, TypeOK
        <3>4. CellInHand'
            BY <1>0, <3>1, <3>2 DEF TypeOK, CellInHand
        <3>5. \A s \in Consumers : RangeOf(queue'[s]) \subseteq RangeOf(queue[s])
            BY <1>0, <3>1, <3>2 DEF TypeOK
        <3>6. RightContents'
            BY <1>0, <3>1, <3>2, <3>5 DEF TypeOK, RightContents, MessageFor
        <3> QED BY <3>3, <3>4, <3>6 DEF MessagesIntact
    <2> QED BY <2>1, <2>2
<1>3. ASSUME NEW t \in Consumers, CheckCell(t) PROVE TypeOK' /\ MessagesIntact'
    <2> DEFINE label == IF shutdown THEN "done"
                        ELSE IF mem_cell[t] = NoCell THEN "wait" ELSE "use"
    <2>1. /\ pc' = [pc EXCEPT ![t] = label]
          /\ label = "use" => pc[t] = "check" /\ mem_cell[t] # NoCell
          /\ mem_cell' = mem_cell
                \/ (label # "use" /\ mem_cell' = [mem_cell EXCEPT ![t] = NoCell])
          /\ label \in {"done", "wait", "use"}
        BY <1>3 DEF CheckCell, At, Goto, SetCell
    <2> HIDE DEF label
    <2>2. TypeOK'
        BY <1>0, <1>3, <2>1 DEF CheckCell, TypeOK
    <2>3. CellInHand'
        BY <1>0, <2>1 DEF TypeOK, CellInHand
    <2>4. RightContents'
        BY <1>0, <1>3, <2>1 DEF CheckCell, TypeOK, RightContents, MessageFor
    <2> QED BY <2>2, <2>3, <2>4 DEF MessagesIntact
<1>4. ASSUME NEW t \in Consumers, Detouch(t) PROVE TypeOK' /\ MessagesIntact'
    <2>1. mem_cell[t] \in Cells
        BY <1>0, <1>4 DEF Detouch, At, TypeOK, CellInHand
    <2> QED BY <1>0, <1>4, <2>1 DEF Detouch, At, Goto, SetCell, TypeOK,
                MessagesIntact, CellInHand, RightContents, MessageFor
<1>5. CASE HandleMsg
    <2> DEFINE m == data[mem_cell[IP]]
    <2>1. m \in CtrlMsg
        BY <1>0, <1>5 DEF HandleMsg, At, CellInHand, RightContents, MessageFor,
                          Consumers
    <2>2. processed' \in Seq(CtrlMsg)
        BY <1>0, <1>5, <2>1 DEF HandleMsg, TypeOK
    <2>3. ctrl_is_initialized' \in BOOLEAN /\ alive' \in BOOLEAN
        BY <1>5, <1>0 DEF HandleMsg, TypeOK
    <2>4. UNCHANGED <<poolVars, fifoVars, mem_cell, main_pc, shutdown,
                      netVars, queued, written>>
          /\ Goto(IP, "detouch") /\ At(IP, "use")
        BY <1>5 DEF HandleMsg
    <2> QED BY <1>0, <2>2, <2>3, <2>4 DEF At, Goto, TypeOK,
                MessagesIntact, CellInHand, RightContents, MessageFor
<1>6. CASE WriteMsg
    <2>1. data[mem_cell[OP]] \in Digest
        BY <1>0, <1>6 DEF WriteMsg, At, CellInHand, RightContents, MessageFor,
                          Consumers
    <2>2. written' \in Seq(Digest)
        BY <1>0, <1>6, <2>1 DEF WriteMsg, TypeOK
    <2> QED BY <1>0, <1>6, <2>2 DEF WriteMsg, At, Goto, TypeOK,
                MessagesIntact, CellInHand, RightContents, MessageFor
<1> QED BY <1>1, <1>2, <1>3, <1>4, <1>5, <1>6
        DEF InputProcessor, OutputProcessor, Consume, Consumers

(* The number DigestsOf gives is one: digests are numbered by core.         *)
LEMMA DigestsOfType ==
    ASSUME TypeOK, NEW l \in Lcores PROVE DigestsOf(l) \in Nat
<1>1. Len(queued) \in Nat /\ DOMAIN queued = 1 .. Len(queued)
    BY DEF TypeOK
<1>2. IsFiniteSet({i \in DOMAIN queued : queued[i].core = l})
    <2>1. IsFiniteSet(1 .. Len(queued))
        BY <1>1, FS_Interval
    <2> QED BY <1>1, <2>1, FS_Subset
<1> QED BY <1>2, FS_CardinalityType DEF DigestsOf
(* A core fills a cell that nobody else can reach, and queues it when its   *)
(* digest is complete.                                                      *)
LEMMA LcoresKeepTypes ==
    ASSUME IInv, NEW l \in Lcores, Lcore(l) PROVE TypeOK' /\ MessagesIntact'
<1> USE CellsAssumption, ThreadsDistinct
        DEF poolVars, fifoVars, mainVars, netVars, histVars
<1>0. /\ TypeOK /\ CellInHand /\ RightContents
      /\ FreeCellsUnreachable /\ HoldersDisjoint /\ QueuesDisjoint
    BY DEF IInv, MessagesIntact, CellsOwnedOnce
<1>a. /\ \A t \in Consumers : RangeOf(queue[t]) \subseteq Cells
      /\ \A t \in Threads : mem_cell[t] \in Cells \cup {NoCell}
    BY <1>0, RangeOfQueue DEF CellTypes, TypeOK
(* A cell that only core l holds may be written without anybody noticing.  *)
<1>b. ASSUME NEW c \in Cells, NEW d, NEW label,
             \A t \in Consumers : c \notin RangeOf(queue[t]),
             \A t \in Threads : t # l => mem_cell[t] # c,
             data' = [data EXCEPT ![c] = d], d \in Digest,
             mem_cell' = [mem_cell EXCEPT ![l] = c],
             pc' = [pc EXCEPT ![l] = label],
             label = "fill" \/ (label = "send" /\ d.complete),
             UNCHANGED queue
      PROVE  RightContents'
    <2>1. /\ data'[c] = d /\ \A e \in Cells : e # c => data'[e] = data[e]
          /\ mem_cell'[l] = c /\ pc'[l] = label
          /\ \A t \in Threads : t # l => mem_cell'[t] = mem_cell[t] /\ pc'[t] = pc[t]
        BY <1>0, <1>b DEF TypeOK
    <2>2. \A t \in Consumers : \A e \in RangeOf(queue'[t]) : data'[e] \in MessageFor(t)
        BY <1>0, <1>a, <1>b, <2>1 DEF RightContents
    <2>3. \A t \in Consumers :
             pc'[t] \in {"check", "use"} /\ mem_cell'[t] # NoCell =>
                data'[mem_cell'[t]] \in MessageFor(t)
        BY <1>0, <1>a, <1>b, <2>1 DEF RightContents
    <2>4. pc'[BP] = "add" => data'[mem_cell'[BP]] \in CtrlMsg
        BY <1>0, <1>a, <1>b, <2>1 DEF RightContents, CellInHand
    <2>5. \A k \in Lcores :
             /\ pc'[k] = "fill" => data'[mem_cell'[k]] \in Digest
             /\ pc'[k] = "send" => data'[mem_cell'[k]] \in MessageFor(OP)
        <3>1. ASSUME NEW k \in Lcores, k # l
              PROVE  /\ pc'[k] = "fill" => data'[mem_cell'[k]] \in Digest
                     /\ pc'[k] = "send" => data'[mem_cell'[k]] \in MessageFor(OP)
            BY <1>0, <1>a, <1>b, <2>1, <3>1 DEF RightContents, CellInHand
        <3> QED BY <1>b, <2>1, <3>1 DEF MessageFor
    <2> QED BY <2>2, <2>3, <2>4, <2>5 DEF RightContents, MessageFor
<1>1. CASE CreateDigest(l)
    <2> DEFINE d == [core |-> l, seq |-> DigestsOf(l) + 1, complete |-> FALSE]
    <2>1. PICK c \in unused : /\ unused' = unused \ {c} /\ SetCell(l, c)
                              /\ data' = [data EXCEPT ![c] = d]
        BY <1>1 DEF CreateDigest
    <2>2. d \in Digest
        BY <1>0, DigestsOfType DEF Digest
    <2>3. /\ c \in Cells /\ c # NoCell
          /\ \A t \in Consumers : c \notin RangeOf(queue[t])
          /\ \A t \in Threads : t # l => mem_cell[t] # c
        BY <1>0 DEF TypeOK, FreeCellsUnreachable, Reachable, Held, Consumers
    <2>4. TypeOK'
        BY <1>0, <1>1, <2>1, <2>2, <2>3 DEF CreateDigest, Goto, SetCell, TypeOK
    <2>5. CellInHand'
        BY <1>0, <1>1, <2>1, <2>3 DEF CreateDigest, Goto, SetCell, TypeOK, CellInHand
    <2>6. RightContents'
        BY <1>1, <1>b, <2>1, <2>2, <2>3 DEF CreateDigest, Goto, SetCell
    <2> QED BY <2>4, <2>5, <2>6 DEF MessagesIntact
<1>2. CASE CreateDigestNull(l)
    BY <1>0, <1>2 DEF CreateDigestNull, TypeOK, MessagesIntact, CellInHand,
                RightContents, MessageFor
<1>3. CASE AddDigestFields(l)
    <2> DEFINE c == mem_cell[l]
               d == [core |-> data[c].core, seq |-> data[c].seq, complete |-> TRUE]
    <2>1. c \in Cells /\ c # NoCell /\ data[c] \in Digest
        BY <1>0, <1>3 DEF AddDigestFields, At, TypeOK, CellInHand, RightContents
    <2>2. d \in Digest /\ d.complete
        BY <2>1 DEF Digest
    <2>3. data' = [data EXCEPT ![c] = d] /\ pc' = [pc EXCEPT ![l] = "send"]
        BY <1>0, <1>3, <2>1 DEF AddDigestFields, Goto, TypeOK
    <2>4. /\ \A t \in Consumers : c \notin RangeOf(queue[t])
          /\ \A t \in Threads : t # l => mem_cell[t] # c
        BY <1>0, <2>1 DEF HoldersDisjoint, QueuesDisjoint, Held
    <2>5. mem_cell' = [mem_cell EXCEPT ![l] = c] /\ UNCHANGED queue
        BY <1>0, <1>3 DEF AddDigestFields, TypeOK
    <2>6. TypeOK'
        BY <1>0, <1>3, <2>1, <2>2, <2>3 DEF AddDigestFields, TypeOK
    <2>7. CellInHand'
        BY <1>0, <1>3, <2>1, <2>3 DEF AddDigestFields, TypeOK, CellInHand
    <2>8. RightContents'
        BY <1>b, <2>1, <2>2, <2>3, <2>4, <2>5
    <2> QED BY <2>6, <2>7, <2>8 DEF MessagesIntact
<1>4. CASE SendDigest(l)
    <2>1. mem_cell[l] \in Cells /\ data[mem_cell[l]] \in MessageFor(OP)
        BY <1>0, <1>4 DEF SendDigest, At, TypeOK, CellInHand, RightContents
    <2>2. /\ queue' \in [Consumers -> Seq(Cells)]
          /\ \A t \in Consumers : Len(queue'[t]) <= QueueCap
          /\ waiting' \subseteq Consumers
          /\ \A t \in Consumers : \A d \in RangeOf(queue'[t]) : data[d] \in MessageFor(t)
        BY <1>0, <1>4, <2>1, FifoAddKeepsQueues DEF SendDigest, Consumers
    <2>3. queued' \in Seq(Digest)
        <3>1. data[mem_cell[l]] \in Digest
            BY <2>1 DEF MessageFor, OP, IP
        <3> QED BY <1>0, <1>4, <3>1 DEF SendDigest, TypeOK
    <2>4. TypeOK'
        BY <1>0, <1>4, <2>2, <2>3 DEF SendDigest, Goto, SetCell, TypeOK
    <2>5. CellInHand' /\ RightContents'
        BY <1>0, <1>4, <2>2 DEF SendDigest, Goto, SetCell, TypeOK, CellInHand,
                                RightContents, MessageFor
    <2> QED BY <2>4, <2>5 DEF MessagesIntact
<1> QED BY <1>1, <1>2, <1>3, <1>4 DEF Lcore
-----------------------------------------------------------------------------
(* create_backend establishes the invariant.                                *)
LEMMA InitInvariant == Init => IInv
<1> SUFFICES ASSUME Init PROVE IInv
    OBVIOUS
<1> USE CellsAssumption, BoundsAssumption, ThreadsDistinct DEF Init
<1>1. TypeOK
    <2>1. /\ \A S : <<>> \in Seq(S)
          /\ Len(<<>>) = 0
        OBVIOUS
    <2>2. queue \in [Consumers -> Seq(Cells)] /\ \A t \in Consumers : Len(queue[t]) <= QueueCap
        BY <2>1
    <2>3. /\ wire \in Seq(CtrlMsg) /\ sent \in Seq(CtrlMsg) /\ processed \in Seq(CtrlMsg)
          /\ queued \in Seq(Digest) /\ written \in Seq(Digest)
        BY <2>1
    <2>4. /\ pc \in [Threads -> {"unborn", "idle", "fill", "send", "select", "touch",
                                 "read", "add", "close", "wait", "remove", "check",
                                 "use", "detouch", "done"}]
          /\ data \in [Cells -> CtrlMsg \cup Digest \cup {Blank}]
          /\ mem_cell \in [Threads -> Cells \cup {NoCell}]
        OBVIOUS
    <2> QED BY <2>2, <2>3, <2>4 DEF TypeOK
<1>2. \A t \in Consumers : RangeOf(queue[t]) = {}
    BY DEF RangeOf
<1>3. MessagesIntact
    BY <1>2 DEF MessagesIntact, CellInHand, RightContents
<1>4. Held \subseteq {NoCell}
    BY DEF Held
<1>5. CellsOwnedOnce
    BY <1>2, <1>4 DEF CellsOwnedOnce, FreeCellsUnreachable, HoldersDisjoint,
                QueuedOnce, QueuesDisjoint, Reachable, Consumers
<1> QED BY <1>1, <1>3, <1>5 DEF IInv

(* Every step of every thread, and of the environment, preserves it.        *)
LEMMA StepInvariant == IInv /\ [Next]_vars => IInv'
<1> SUFFICES ASSUME IInv, [Next]_vars PROVE IInv'
    OBVIOUS
<1>1. CellsOwnedOnce'
    BY ActionsMoveCells, OwnershipMoves DEF IInv, MessagesIntact, TypeOK, CellTypes
<1>2. TypeOK' /\ MessagesIntact'
    <2>1. CASE UNCHANGED vars
        BY <2>1 DEF vars, poolVars, fifoVars, mainVars, netVars, histVars, IInv,
                    TypeOK, MessagesIntact, CellInHand, RightContents, MessageFor
    <2> QED BY <2>1, MainKeepsTypes, PoolKeepsTypes, BackendProcessorKeepsTypes,
               ConsumersKeepTypes, LcoresKeepTypes, EnvironmentKeepsTypes DEF Next
<1> QED BY <1>1, <1>2 DEF IInv

(* The inductive invariant of the backend.                                  *)
THEOREM Invariant == Spec => []IInv
BY InitInvariant, StepInvariant, PTL DEF Spec

(* Every variable of the backend keeps its type, and neither fifo ever      *)
(* holds more than its ring has room for.                                   *)
THEOREM TypeCorrect == Spec => []TypeOK
BY Invariant, PTL DEF IInv

(* No two threads ever own the same cell, no cell is in two queues or twice *)
(* in one, and no cell on the unused list can be reached by a thread:       *)
(* whatever fails, whenever, with any number of cells and cores.            *)
THEOREM OwnershipCorrect == Spec => []CellsOwnedOnce
BY Invariant, PTL DEF IInv

(* input_processor only ever looks at messages of the controller, and       *)
(* output_processor at digests whose fields are all there.                  *)
THEOREM ContentsCorrect == Spec => []MessagesIntact
BY Invariant, PTL DEF IInv
-----------------------------------------------------------------------------
EmptyHanded ==
    \A t \in Threads :
        pc[t] \in {"unborn", "idle", "select", "touch", "wait", "remove",
                   "close", "done"} => mem_cell[t] = NoCell

(* Before connect returns there is no connection, and without one no job.   *)
BeforeConnect ==
    /\ main_pc = "connect" => sock = "none"
    /\ sock = "none" => pc[BP] = "unborn" /\ pc[IP] = "unborn" /\ pc[OP] = "unborn"

LeakInv == EmptyHanded /\ BeforeConnect /\ NoLeak

Roomy == IsFiniteSet(Cells) /\ Cardinality(Cells) <= QueueCap

(* The moves of CellMove that lose no cell: a thread takes a cell, or gets  *)
(* one from a queue, only when it has none.                                 *)
CarefulMove ==
    \/ Untouched
    \/ \E t \in Threads : mem_cell[t] = NoCell /\ (Takes(t) \/ Drops(t))
    \/ \E t \in Threads : GivesBack(t)
    \/ \E t \in Threads, q \in Consumers : Queues(t, q)
    \/ \E t \in Consumers : mem_cell[t] = NoCell /\ Removes(t)

(* A cell still has some owner after such a move if it had one before.      *)
LEMMA CarefulMovesLoseNothing ==
    ASSUME CellTypes, CarefulMove
    PROVE  Leaked' \subseteq Leaked
<1> USE CellsAssumption, ThreadsDistinct
<1>1. SUFFICES ASSUME NEW c \in Cells, c \notin unused', c \notin Leaked
               PROVE  \/ \E t \in Threads : mem_cell'[t] = c
                      \/ \E q \in Consumers : c \in RangeOf(queue'[q])
    BY DEF Leaked, Reachable, Held, Consumers
<1>0. /\ \/ c \in unused
         \/ \E t \in Threads : mem_cell[t] = c
         \/ \E q \in Consumers : c \in RangeOf(queue[q])
      /\ \A q \in Consumers : queue[q] \in Seq(Cells)
    BY <1>1 DEF Leaked, Reachable, Held, Consumers, CellTypes
<1>2. CASE Untouched
    BY <1>0, <1>1, <1>2 DEF Untouched
<1>3. ASSUME NEW t \in Threads, mem_cell[t] = NoCell, Takes(t) \/ Drops(t)
      PROVE  \/ \E s \in Threads : mem_cell'[s] = c
             \/ \E q \in Consumers : c \in RangeOf(queue'[q])
    BY <1>0, <1>1, <1>3 DEF Takes, Drops, SetCell, CellTypes
<1>4. ASSUME NEW t \in Threads, GivesBack(t)
      PROVE  \/ \E s \in Threads : mem_cell'[s] = c
             \/ \E q \in Consumers : c \in RangeOf(queue'[q])
    <2>1. /\ mem_cell' = [mem_cell EXCEPT ![t] = NoCell] /\ UNCHANGED queue
          /\ c # mem_cell[t] /\ c \notin unused
        BY <1>1, <1>4 DEF GivesBack, SetCell
    <2> QED BY <1>0, <2>1 DEF CellTypes
<1>5. ASSUME NEW t \in Threads, NEW q \in Consumers, Queues(t, q)
      PROVE  \/ \E s \in Threads : mem_cell'[s] = c
             \/ \E r \in Consumers : c \in RangeOf(queue'[r])
    <2>1. /\ mem_cell' = [mem_cell EXCEPT ![t] = NoCell] /\ UNCHANGED unused
          /\ mem_cell[t] \in Cells
          /\ queue' = [queue EXCEPT ![q] = Append(queue[q], mem_cell[t])]
        BY <1>5 DEF Queues, SetCell
    <2>2. /\ RangeOf(queue'[q]) = RangeOf(queue[q]) \cup {mem_cell[t]}
          /\ \A r \in Consumers : r # q => queue'[r] = queue[r]
        BY <1>0, <2>1, RangeAppend DEF CellTypes
    <2>3. \A s \in Threads : s # t => mem_cell'[s] = mem_cell[s]
        BY <2>1 DEF CellTypes
    <2> QED BY <1>0, <1>1, <2>1, <2>2, <2>3
<1>6. ASSUME NEW t \in Consumers, mem_cell[t] = NoCell, Removes(t)
      PROVE  \/ \E s \in Threads : mem_cell'[s] = c
             \/ \E r \in Consumers : c \in RangeOf(queue'[r])
    <2>1. /\ mem_cell' = [mem_cell EXCEPT ![t] = Head(queue[t])] /\ UNCHANGED unused
          /\ queue' = [queue EXCEPT ![t] = Tail(queue[t])]
          /\ queue[t] # <<>>
        BY <1>6 DEF Removes, SetCell
    <2>2. /\ mem_cell'[t] = Head(queue[t])
          /\ \A s \in Threads : s # t => mem_cell'[s] = mem_cell[s]
          /\ queue'[t] = Tail(queue[t])
          /\ \A r \in Consumers : r # t => queue'[r] = queue[r]
        BY <2>1 DEF CellTypes
    <2>3. ASSUME c \in RangeOf(queue[t])
          PROVE  c = Head(queue[t]) \/ c \in RangeOf(Tail(queue[t]))
        <3>1. PICK i \in DOMAIN queue[t] : queue[t][i] = c
            BY <2>3 DEF RangeOf
        <3>2. /\ queue[t] \in Seq(Cells) /\ queue[t] # <<>>
              /\ DOMAIN queue[t] = 1 .. Len(queue[t]) /\ Len(queue[t]) \in Nat
            BY <1>0, <2>1, RangeTail
        <3>3. /\ DOMAIN Tail(queue[t]) = 1 .. Len(queue[t]) - 1
              /\ queue[t][1] = Head(queue[t])
              /\ \A j \in DOMAIN Tail(queue[t]) : Tail(queue[t])[j] = queue[t][j + 1]
            BY <3>2, RangeTail
        <3>4. CASE i = 1
            BY <3>1, <3>3, <3>4
        <3>5. CASE i # 1
            <4>1. i - 1 \in DOMAIN Tail(queue[t]) /\ (i - 1) + 1 = i
                BY <3>1, <3>2, <3>3, <3>5
            <4>2. Tail(queue[t])[i - 1] = c
                BY <3>1, <3>3, <4>1
            <4> QED BY <4>1, <4>2 DEF RangeOf
        <3> QED BY <3>4, <3>5
    <2> QED BY <1>0, <1>1, <1>6, <2>1, <2>2, <2>3
<1> QED BY <1>2, <1>3, <1>4, <1>5, <1>6 DEF CarefulMove

(* A thread with a cell in hand finds room for it in either fifo: the cells *)
(* already there are different ones.                                        *)
LEMMA RoomForCell ==
    ASSUME Roomy, TypeOK, CellsOwnedOnce, NEW t \in Threads, NEW q \in Consumers,
           mem_cell[t] \in Cells
    PROVE  Len(queue[q]) < QueueCap
<1> DEFINE n == Len(queue[q])
           Others == Cells \ {mem_cell[t]}
<1>1. /\ queue[q] \in Seq(Cells) /\ n \in Nat /\ DOMAIN queue[q] = 1 .. n
    BY DEF TypeOK
<1>2. \A i \in 1 .. n : queue[q][i] \in Others
    <2> SUFFICES ASSUME NEW i \in 1 .. n PROVE queue[q][i] \in Others
        OBVIOUS
    <2>1. queue[q][i] \in Cells /\ queue[q][i] \in RangeOf(queue[q])
        BY <1>1 DEF RangeOf
    <2>2. mem_cell[t] \in Held
        BY DEF Held
    <2>3. queue[q][i] # mem_cell[t]
        BY <2>1, <2>2 DEF CellsOwnedOnce, QueuesDisjoint
    <2> QED BY <2>1, <2>3
<1>3. /\ IsFiniteSet(Others) /\ Cardinality(Others) = Cardinality(Cells) - 1
      /\ Cardinality(Others) \in Nat /\ Cardinality(Cells) \in Nat
    BY FS_RemoveElement, FS_CardinalityType DEF Roomy
<1>4. IsFiniteSet(1 .. n) /\ Cardinality(1 .. n) = n
    BY <1>1, FS_Interval
<1>5. queue[q] \in [1 .. n -> Others]
    <2>1. queue[q] \in [1 .. n -> Cells]
        BY <1>1
    <2> QED BY <1>2, <2>1
<1>6. \A i, j \in 1 .. n : queue[q][i] = queue[q][j] => i = j
    BY <1>1 DEF CellsOwnedOnce, QueuedOnce
<1>7. ~(Cardinality(Others) < n)
    <2> SUFFICES ASSUME Cardinality(Others) < n PROVE FALSE
        OBVIOUS
    <2>1. \E i, j \in 1 .. n : i # j /\ queue[q][i] = queue[q][j]
        <3> HIDE DEF Others, n
        <3> QED BY <1>3, <1>4, <1>5, FS_PigeonHole, ZenonT(30)
    <2> QED BY <1>6, <2>1
<1>8. QueueCap \in Nat
    BY BoundsAssumption
<1> QED BY <1>1, <1>3, <1>7, <1>8 DEF Roomy
-----------------------------------------------------------------------------
(* Every step is careful (fifo_add_msg has room, and fifo_remove_msg's null *)
(* pointer does not overwrite a cell) but a failed read and the last round  *)
(* of a consumer after stop_backend.                                        *)
Losing == BpReadEof \/ BpReadError \/ \E t \in Consumers : shutdown /\ CheckCell(t)

LEMMA CarefulActions ==
    ASSUME IInv, EmptyHanded, Roomy, Next
    PROVE  CarefulMove \/ Losing
<1> USE ThreadsDistinct DEF fifoVars, poolVars, netVars
<1>0. TypeOK /\ CellInHand /\ CellsOwnedOnce
    BY DEF IInv, MessagesIntact
<1>1. CASE Main
    BY <1>1 DEF Main, Connect, ConnectFails, CtrlInitialized, StopBackend,
                KillThreads, Untouched, CarefulMove
<1>2. CASE BackendProcessor
    <2>1. CASE BpSelect \/ BpRead \/ BpClose
        BY <2>1 DEF BpSelect, BpRead, BpClose, CarefulMove, Untouched
    <2>2. CASE BpTouch
        <3>1. mem_cell[BP] = NoCell /\ Takes(BP)
            BY <2>2 DEF BpTouch, Takes, At, EmptyHanded
        <3> QED BY <3>1 DEF CarefulMove
    <2>3. CASE BpReadEof \/ BpReadError
        BY <2>3 DEF Losing
    <2>4. CASE BpAdd
        <3>1. mem_cell[BP] \in Cells
            BY <1>0, <2>4 DEF BpAdd, At, CellInHand, TypeOK
        <3>2. IP \in Consumers /\ Len(queue[IP]) < QueueCap
            BY <1>0, <3>1, RoomForCell DEF Consumers
        <3>3. Queues(BP, IP)
            BY <2>4, <3>1, <3>2 DEF BpAdd, FifoAdd, Queues
        <3> QED BY <3>2, <3>3 DEF CarefulMove
    <2> QED BY <1>2, <2>1, <2>2, <2>3, <2>4 DEF BackendProcessor
<1>3. ASSUME NEW t \in Consumers, Consume(t) \/ SpuriousWakeup(t)
      PROVE  CarefulMove \/ Losing
    <2>1. CASE FifoWait(t) \/ SpuriousWakeup(t)
        BY <2>1 DEF FifoWait, SpuriousWakeup, CarefulMove, Untouched
    <2>2. CASE FifoRemove(t)
        <3>1. mem_cell[t] = NoCell
            BY <2>2 DEF FifoRemove, At, EmptyHanded
        <3>2. Removes(t) \/ Drops(t)
            BY <2>2 DEF FifoRemove, Removes, Drops
        <3> QED BY <3>1, <3>2 DEF CarefulMove
    <2>3. CASE CheckCell(t)
        BY <2>3 DEF CheckCell, CarefulMove, Untouched, Losing
    <2>4. CASE Detouch(t)
        <3>1. mem_cell[t] \in Cells
            BY <1>0, <2>4 DEF Detouch, At, CellInHand, TypeOK
        <3>2. GivesBack(t)
            BY <2>4, <3>1 DEF Detouch, GivesBack
        <3> QED BY <3>2 DEF CarefulMove
    <2> QED BY <1>3, <2>1, <2>2, <2>3, <2>4 DEF Consume
<1>4. CASE HandleMsg \/ WriteMsg
    BY <1>4 DEF HandleMsg, WriteMsg, CarefulMove, Untouched
<1>5. ASSUME NEW l \in Lcores, Lcore(l) PROVE CarefulMove
    <2>1. CASE CreateDigest(l)
        <3>1. mem_cell[l] = NoCell /\ Takes(l)
            BY <2>1 DEF CreateDigest, Takes, At, EmptyHanded
        <3> QED BY <3>1 DEF CarefulMove
    <2>2. CASE CreateDigestNull(l) \/ AddDigestFields(l)
        BY <2>2 DEF CreateDigestNull, AddDigestFields, CarefulMove, Untouched
    <2>3. CASE SendDigest(l)
        <3>1. mem_cell[l] \in Cells
            BY <1>0, <2>3 DEF SendDigest, At, CellInHand, TypeOK
        <3>2. OP \in Consumers /\ Len(queue[OP]) < QueueCap
            BY <1>0, <3>1, RoomForCell DEF Consumers
        <3>3. Queues(l, OP)
            BY <2>3, <3>1, <3>2 DEF SendDigest, FifoAdd, Queues
        <3> QED BY <3>2, <3>3 DEF CarefulMove
    <2> QED BY <1>5, <2>1, <2>2, <2>3 DEF Lcore
<1>6. CASE ControllerCloses \/ ConnectionReset \/ WriteSigpipe
    BY <1>6 DEF ControllerCloses, ConnectionReset, WriteSigpipe, CarefulMove, Untouched
<1>7. ASSUME NEW k \in Kinds, ControllerSend(k) PROVE CarefulMove
    BY <1>7 DEF ControllerSend, CarefulMove, Untouched
<1>8. CASE Pool
    BY <1>8 DEF Pool, StartJob, CarefulMove, Untouched
<1> QED BY <1>1, <1>2, <1>3, <1>4, <1>5, <1>6, <1>7, <1>8
        DEF Next, InputProcessor, OutputProcessor, Environment, Consumers

(* No step opens a connection but connect, and none takes back a stop.      *)
LEMMA NoReturn ==
    ASSUME Next, BeforeConnect
    PROVE  /\ sock' \in {"none", "open"} => sock \in {"none", "open"}
           /\ shutdown => shutdown'
<1> USE DEF netVars, mainVars
<1>1. CASE Main
    BY <1>1 DEF Main, Connect, ConnectFails, CtrlInitialized, StopBackend,
                KillThreads, BeforeConnect
<1>2. CASE BackendProcessor
    <2>1. CASE BpSelect \/ BpTouch \/ BpRead \/ BpReadEof \/ BpAdd
        BY <2>1 DEF BpSelect, BpTouch, BpRead, BpReadEof, BpAdd
    <2>2. CASE BpReadError \/ BpClose
        BY <2>2 DEF BpReadError, BpClose
    <2> QED BY <1>2, <2>1, <2>2 DEF BackendProcessor
<1>3. CASE InputProcessor \/ OutputProcessor
    BY <1>3 DEF InputProcessor, OutputProcessor, Consume, FifoWait, FifoRemove,
                CheckCell, Detouch, HandleMsg, WriteMsg
<1>4. CASE \E l \in Lcores : Lcore(l)
    BY <1>4 DEF Lcore, CreateDigest, CreateDigestNull, AddDigestFields, SendDigest
<1>5. CASE Environment
    <2>1. UNCHANGED shutdown /\ (sock = sock' \/ sock = "open")
        BY <1>5 DEF Environment, ControllerSend, ControllerCloses,
                    ConnectionReset, SpuriousWakeup, WriteSigpipe
    <2> QED BY <2>1
<1>6. CASE Pool
    BY <1>6 DEF Pool, StartJob
<1> QED BY <1>1, <1>2, <1>3, <1>4, <1>5, <1>6 DEF Next

(* A thread that goes back to where it has no cell has just parted with it. *)
LEMMA HandsStayEmpty ==
    ASSUME TypeOK, EmptyHanded, BeforeConnect, Next
    PROVE  EmptyHanded' /\ BeforeConnect'
<1> USE ThreadsDistinct DEF mainVars, netVars
<1>0. /\ pc = [t \in Threads |-> pc[t]] /\ mem_cell = [t \in Threads |-> mem_cell[t]]
      /\ BP \notin Lcores /\ IP \notin Lcores /\ OP \notin Lcores
    BY DEF TypeOK, Consumers
(* The actions of one thread that move only its own pc and mem_cell.        *)
<1>a. ASSUME NEW t \in Threads, NEW label, NEW c,
             pc' = [pc EXCEPT ![t] = label], mem_cell' = [mem_cell EXCEPT ![t] = c],
             label \in {"unborn", "idle", "select", "touch", "wait", "remove",
                        "close", "done"} => c = NoCell,
             \/ (pc[t] # "unborn" \/ t \in Lcores) /\ UNCHANGED <<main_pc, sock>>
             \/ main_pc # "connect" /\ UNCHANGED main_pc /\ sock' # "none"
      PROVE  EmptyHanded' /\ BeforeConnect'
    <2>1. \A s \in Threads : pc'[s] = (IF s = t THEN label ELSE pc[s])
                          /\ mem_cell'[s] = (IF s = t THEN c ELSE mem_cell[s])
        BY <1>0, <1>a
    <2>2. EmptyHanded'
        BY <1>a, <2>1 DEF EmptyHanded
    <2>3. BeforeConnect'
        BY <1>0, <1>a, <2>1 DEF BeforeConnect, Consumers
    <2> QED BY <2>2, <2>3
<1>1. CASE Main
    BY <1>1 DEF Main, Connect, ConnectFails, CtrlInitialized, StopBackend,
                KillThreads, EmptyHanded, BeforeConnect
<1>2. CASE BackendProcessor
    <2>0. BP \in Threads /\ mem_cell = [mem_cell EXCEPT ![BP] = mem_cell[BP]]
        BY <1>0
    <2>1. CASE BpSelect
        BY <1>a, <2>0, <2>1 DEF BpSelect, At, Goto, EmptyHanded
    <2>2. CASE BpTouch
        <3>1. PICK c \in unused : SetCell(BP, c)
            BY <2>2 DEF BpTouch
        <3> QED BY <1>a, <2>2, <3>1 DEF BpTouch, At, Goto, SetCell
    <2>3. CASE BpRead
        BY <1>a, <2>0, <2>3 DEF BpRead, At, Goto
    <2>4. CASE BpReadEof \/ BpAdd
        BY <1>a, <2>4 DEF BpReadEof, BpAdd, At, Goto, SetCell
    <2>5. CASE BpReadError \/ BpClose
        <3>1. main_pc # "connect" /\ UNCHANGED main_pc /\ sock' # "none"
            BY <2>5 DEF BpReadError, BpClose, At, BeforeConnect
        <3>2. CASE BpReadError
            BY <1>a, <2>0, <3>1, <3>2 DEF BpReadError, Goto, SetCell
        <3>3. CASE BpClose
            <4>1. mem_cell[BP] = NoCell
                BY <2>0, <3>3 DEF BpClose, At, EmptyHanded
            <4> QED BY <1>a, <2>0, <3>1, <3>3, <4>1 DEF BpClose, Goto
        <3> QED BY <2>5, <3>2, <3>3
    <2> QED BY <1>2, <2>1, <2>2, <2>3, <2>4, <2>5 DEF BackendProcessor
<1>3. ASSUME NEW t \in Consumers, Consume(t) PROVE EmptyHanded' /\ BeforeConnect'
    <2>0. t \in Threads /\ mem_cell = [mem_cell EXCEPT ![t] = mem_cell[t]]
        BY <1>0
    <2>1. CASE FifoWait(t)
        BY <1>a, <2>0, <2>1 DEF FifoWait, At, Goto, EmptyHanded
    <2>2. CASE FifoRemove(t)
        BY <1>a, <2>0, <2>2 DEF FifoRemove, At, Goto, SetCell
    <2>3. CASE CheckCell(t)
        <3>1. CASE shutdown
            BY <1>a, <2>0, <2>3, <3>1 DEF CheckCell, At, Goto, SetCell
        <3>2. CASE ~shutdown
            BY <1>a, <2>0, <2>3, <3>2 DEF CheckCell, At, Goto
        <3> QED BY <3>1, <3>2
    <2>4. CASE Detouch(t)
        BY <1>a, <2>0, <2>4 DEF Detouch, At, Goto, SetCell
    <2> QED BY <1>3, <2>1, <2>2, <2>3, <2>4 DEF Consume
<1>4. CASE HandleMsg
    <2>1. mem_cell' = [mem_cell EXCEPT ![IP] = mem_cell[IP]] /\ IP \in Threads
        BY <1>0, <1>4 DEF HandleMsg
    <2> QED BY <1>a, <1>4, <2>1 DEF HandleMsg, At, Goto
<1>5. CASE WriteMsg
    <2>1. mem_cell' = [mem_cell EXCEPT ![OP] = mem_cell[OP]] /\ OP \in Threads
        BY <1>0, <1>5 DEF WriteMsg
    <2> QED BY <1>a, <1>5, <2>1 DEF WriteMsg, At, Goto
<1>6. ASSUME NEW l \in Lcores, Lcore(l) PROVE EmptyHanded' /\ BeforeConnect'
    <2>0. l \in Threads /\ mem_cell = [mem_cell EXCEPT ![l] = mem_cell[l]]
        BY <1>0
    <2>1. CASE CreateDigest(l)
        <3>1. PICK c \in unused : SetCell(l, c)
            BY <2>1 DEF CreateDigest
        <3> QED BY <1>a, <2>0, <2>1, <3>1 DEF CreateDigest, Goto, SetCell
    <2>2. CASE CreateDigestNull(l)
        BY <2>2 DEF CreateDigestNull, EmptyHanded, BeforeConnect
    <2>3. CASE AddDigestFields(l)
        BY <1>a, <2>0, <2>3 DEF AddDigestFields, Goto
    <2>4. CASE SendDigest(l)
        BY <1>a, <2>0, <2>4 DEF SendDigest, Goto, SetCell
    <2> QED BY <1>6, <2>1, <2>2, <2>3, <2>4 DEF Lcore
<1>7. CASE Environment
    <2>1. UNCHANGED <<pc, mem_cell, main_pc>> /\ (sock = "none" <=> sock' = "none")
        BY <1>7 DEF Environment, ControllerSend, ControllerCloses,
                    ConnectionReset, SpuriousWakeup, WriteSigpipe
    <2> QED BY <2>1 DEF EmptyHanded, BeforeConnect
<1>8. ASSUME NEW t \in {BP, IP, OP}, StartJob(t) PROVE EmptyHanded' /\ BeforeConnect'
    <2>1. t \in Threads /\ mem_cell' = [mem_cell EXCEPT ![t] = mem_cell[t]]
        BY <1>0, <1>8 DEF StartJob
    <2>2. /\ mem_cell[t] = NoCell
          /\ main_pc # "connect" /\ UNCHANGED main_pc /\ sock' # "none"
        BY <1>8, <2>1 DEF StartJob, At, EmptyHanded, BeforeConnect
    <2> QED BY <1>a, <1>8, <2>1, <2>2 DEF StartJob, Goto
<1> QED BY <1>1, <1>2, <1>3, <1>4, <1>5, <1>6, <1>7, <1>8
        DEF Next, Pool, InputProcessor, OutputProcessor, Consumers

(* No cell is lost at first, and no step loses one.                         *)
LEMMA LeakInvariant ==
    ASSUME Roomy
    PROVE  /\ Init => LeakInv
           /\ IInv /\ LeakInv /\ [Next]_vars => LeakInv'
<1>1. Init => LeakInv
    <2> SUFFICES ASSUME Init PROVE LeakInv
        OBVIOUS
    <2>1. EmptyHanded /\ Leaked = {}
        BY DEF Init, EmptyHanded, Leaked
    <2>2. BeforeConnect
        BY ThreadsDistinct, LcoreAssumption DEF Init, BeforeConnect
    <2> QED BY <2>1, <2>2 DEF LeakInv, NoLeak
<1>2. ASSUME IInv, LeakInv, Next PROVE LeakInv'
    <2>1. EmptyHanded' /\ BeforeConnect'
        BY <1>2, HandsStayEmpty DEF IInv, LeakInv
    <2>2. ASSUME sock' \in {"none", "open"}, ~shutdown' PROVE Leaked' = {}
        <3>1. ~shutdown /\ Leaked = {}
            BY <1>2, <2>2, NoReturn DEF LeakInv, NoLeak
        <3>2. ~Losing
            BY <2>2, <3>1 DEF Losing, BpReadEof, BpReadError, netVars
        <3>3. CarefulMove
            BY <1>2, <3>2, CarefulActions DEF LeakInv
        <3> QED BY <1>2, <3>1, <3>3, CarefulMovesLoseNothing
                DEF IInv, TypeOK, CellTypes
    <2> QED BY <2>1, <2>2 DEF LeakInv, NoLeak
<1>3. ASSUME IInv, LeakInv, UNCHANGED vars PROVE LeakInv'
    BY <1>3 DEF LeakInv, EmptyHanded, BeforeConnect, NoLeak, Leaked, Reachable,
                Held, RangeOf, vars, poolVars, fifoVars, mainVars, netVars
<1> QED BY <1>1, <1>2, <1>3

(* If the cells are no more than a fifo has room for, as the 1000 cells of  *)
(* init_control_plane are no more than the 1024 of P4_BG_QUEUE_SIZE, every  *)
(* cell that leaves the unused list can be reached, and so be given back,   *)
(* until the connection ends or stop_backend is called.                     *)
THEOREM NoCellLost ==
    ASSUME Roomy
    PROVE  Spec => []NoLeak
<1>1. (Init => LeakInv) /\ (IInv /\ LeakInv /\ [Next]_vars => LeakInv')
    BY LeakInvariant
<1>2. LeakInv => NoLeak
    BY DEF LeakInv
<1> QED BY <1>1, <1>2, Invariant, PTL DEF Spec
-----------------------------------------------------------------------------
(* LeakBound is not inductive either: it has to say that the one cell which *)
(* no finished thread accounts for went with a failed read, and that there  *)
(* is only one such read, as the socket is at its end from then on.         *)
Ended == {t \in {BP, IP, OP} : pc[t] \in {"close", "done"}}
Late  == IF sock \in {"eof", "closed"} THEN 1 ELSE 0

LeakCount == Cardinality(Leaked) <= Late + Cardinality(Ended)

BoundInv == EmptyHanded /\ BeforeConnect /\ LeakCount

(* A thread that has left its loop never enters it again, and a connection  *)
(* at its end stays so.                                                     *)
LEMMA EndsAreFinal ==
    ASSUME TypeOK, BeforeConnect, Next
    PROVE  Ended \subseteq Ended' /\ Late <= Late'
<1> USE ThreadsDistinct DEF mainVars, netVars
<1>0. /\ pc = [t \in Threads |-> pc[t]]
      /\ BP \notin Lcores /\ IP \notin Lcores /\ OP \notin Lcores
    BY DEF TypeOK, Consumers
(* A step of one thread that is not at its end, or stays there.             *)
<1>a. ASSUME NEW t \in Threads, NEW label, Goto(t, label),
             \/ t \in Lcores \/ pc[t] \notin {"close", "done"}
             \/ label \in {"close", "done"}
      PROVE  Ended \subseteq Ended'
    <2>1. \A s \in Threads : pc'[s] = IF s = t THEN label ELSE pc[s]
        BY <1>0, <1>a DEF Goto
    <2> QED BY <1>0, <1>a, <2>1 DEF Ended
<1>b. ASSUME UNCHANGED pc PROVE Ended \subseteq Ended'
    BY <1>b DEF Ended
<1>c. ASSUME UNCHANGED sock PROVE Late <= Late'
    BY <1>c DEF Late
<1>1. CASE Main
    <2>1. CASE Connect
        <3>1. UNCHANGED pc /\ Late = 0
            BY <2>1 DEF Connect, BeforeConnect, Late
        <3> QED BY <1>b, <3>1 DEF Late
    <2>2. CASE ConnectFails \/ CtrlInitialized \/ StopBackend \/ KillThreads
        <3>1. UNCHANGED <<pc, sock>>
            BY <2>2 DEF ConnectFails, CtrlInitialized, StopBackend, KillThreads
        <3> QED BY <1>b, <1>c, <3>1
    <2> QED BY <1>1, <2>1, <2>2 DEF Main
<1>2. CASE BackendProcessor
    <2>1. CASE BpSelect \/ BpTouch \/ BpRead \/ BpReadEof \/ BpAdd
        <3>1. UNCHANGED sock
            BY <2>1 DEF BpSelect, BpTouch, BpRead, BpReadEof, BpAdd
        <3>2. pc[BP] \notin {"close", "done"} /\ \E label : Goto(BP, label)
            BY <2>1 DEF BpSelect, BpTouch, BpRead, BpReadEof, BpAdd, At
        <3> QED BY <1>a, <1>c, <3>1, <3>2
    <2>2. CASE BpReadError
        <3>1. pc[BP] \notin {"close", "done"} /\ Goto(BP, "select") /\ sock' = "eof"
            BY <2>2 DEF BpReadError, At
        <3> QED BY <1>a, <3>1 DEF Late
    <2>3. CASE BpClose
        <3>1. Goto(BP, "done") /\ sock' = "closed"
            BY <2>3 DEF BpClose
        <3> QED BY <1>a, <3>1 DEF Late
    <2> QED BY <1>2, <2>1, <2>2, <2>3 DEF BackendProcessor
<1>3. ASSUME NEW t \in Consumers, Consume(t) PROVE Ended \subseteq Ended' /\ Late <= Late'
    <2>1. UNCHANGED sock
        BY <1>3 DEF Consume, FifoWait, FifoRemove, CheckCell, Detouch
    <2>2. /\ t \in Threads /\ pc[t] \notin {"close", "done"}
          /\ \E label : Goto(t, label)
        BY <1>3 DEF Consume, FifoWait, FifoRemove, CheckCell, Detouch, At
    <2> QED BY <1>a, <1>c, <2>1, <2>2
<1>4. CASE HandleMsg
    <2>1. UNCHANGED sock /\ pc[IP] \notin {"close", "done"} /\ Goto(IP, "detouch")
        BY <1>4 DEF HandleMsg, At
    <2> QED BY <1>a, <1>c, <2>1
<1>5. CASE WriteMsg
    <2>1. UNCHANGED sock /\ pc[OP] \notin {"close", "done"} /\ Goto(OP, "detouch")
        BY <1>5 DEF WriteMsg, At
    <2> QED BY <1>a, <1>c, <2>1
<1>6. ASSUME NEW l \in Lcores, Lcore(l) PROVE Ended \subseteq Ended' /\ Late <= Late'
    <2>1. UNCHANGED sock /\ (UNCHANGED pc \/ \E label : Goto(l, label))
        BY <1>6 DEF Lcore, CreateDigest, CreateDigestNull, AddDigestFields, SendDigest
    <2> QED BY <1>a, <1>b, <1>c, <2>1
<1>7. CASE Environment
    <2>1. UNCHANGED pc /\ (sock = sock' \/ sock = "open")
        BY <1>7 DEF Environment, ControllerSend, ControllerCloses,
                    ConnectionReset, SpuriousWakeup, WriteSigpipe
    <2> QED BY <1>b, <2>1 DEF Late
<1>8. ASSUME NEW t \in {BP, IP, OP}, StartJob(t)
      PROVE  Ended \subseteq Ended' /\ Late <= Late'
    <2>1. UNCHANGED sock /\ pc[t] \notin {"close", "done"} /\ \E label : Goto(t, label)
        BY <1>8 DEF StartJob, At
    <2> QED BY <1>a, <1>c, <2>1
<1> QED BY <1>1, <1>2, <1>3, <1>4, <1>5, <1>6, <1>7, <1>8
        DEF Pool, Next, InputProcessor, OutputProcessor, Consumers

(* A losing step loses the one cell its thread has in hand, and either      *)
(* finds the connection at its end for the first time or is the thread's    *)
(* last.                                                                    *)
LEMMA LossesAreCounted ==
    ASSUME CellTypes, TypeOK, Losing
    PROVE  /\ \E c : Leaked' \subseteq Leaked \cup {c}
           /\ \/ Late = 0 /\ Late' = 1
              \/ \E t \in {BP, IP, OP} : t \notin Ended /\ t \in Ended'
<1> USE ThreadsDistinct DEF poolVars, fifoVars
<1>1. PICK t \in {BP, IP, OP} : /\ UNCHANGED <<unused, queue>> /\ SetCell(t, NoCell)
                                /\ \/ t = BP /\ BpReadEof
                                   \/ t = BP /\ BpReadError
                                   \/ t \in Consumers /\ shutdown /\ CheckCell(t)
    BY DEF Losing, BpReadEof, BpReadError, CheckCell, Consumers
<1>2. t \in Threads /\ pc = [s \in Threads |-> pc[s]]
    BY DEF TypeOK, Consumers
<1>3. \A s \in Threads : s # t => mem_cell'[s] = mem_cell[s]
    BY <1>1 DEF SetCell, CellTypes
<1>4. Leaked' \subseteq Leaked \cup {mem_cell[t]}
    BY <1>1, <1>3 DEF Leaked, Reachable, Held
<1>5. \/ Late = 0 /\ Late' = 1
      \/ t \notin Ended /\ t \in Ended'
    <2>1. CASE BpReadError
        BY <2>1 DEF BpReadError, Late
    <2>2. CASE t = BP /\ BpReadEof
        BY <1>2, <2>2 DEF BpReadEof, At, Goto, Ended
    <2>3. CASE shutdown /\ CheckCell(t)
        BY <1>2, <2>3 DEF CheckCell, At, Goto, Ended
    <2> QED BY <1>1, <2>1, <2>2, <2>3
<1> QED BY <1>4, <1>5

(* The sets whose sizes are compared are parts of finite ones.              *)
LEMMA ThreePlusCells ==
    ASSUME Roomy
    PROVE  IsFiniteSet({BP, IP, OP}) /\ IsFiniteSet(Cells) /\ Cardinality({}) = 0
<1>1. IsFiniteSet({}) /\ IsFiniteSet({} \cup {BP})
    BY FS_EmptySet, FS_AddElement
<1>2. IsFiniteSet(({} \cup {BP}) \cup {IP})
    BY <1>1, FS_AddElement
<1>3. IsFiniteSet((({} \cup {BP}) \cup {IP}) \cup {OP})
    BY <1>2, FS_AddElement
<1>4. (({} \cup {BP}) \cup {IP}) \cup {OP} = {BP, IP, OP}
    OBVIOUS
<1> QED BY <1>3, <1>4, FS_EmptySet DEF Roomy

(* A losing step raises the right-hand side by as much as the left one.     *)
LEMMA BoundInvariant ==
    ASSUME Roomy
    PROVE  /\ Init => BoundInv
           /\ IInv /\ BoundInv /\ [Next]_vars => BoundInv'
<1>0. IsFiniteSet({BP, IP, OP}) /\ IsFiniteSet(Cells) /\ Cardinality({}) = 0
    BY ThreePlusCells
<1>1. Init => BoundInv
    <2> SUFFICES ASSUME Init PROVE BoundInv
        OBVIOUS
    <2>1. EmptyHanded /\ Leaked = {}
        BY DEF Init, EmptyHanded, Leaked
    <2>2. BeforeConnect /\ Late = 0
        BY ThreadsDistinct, LcoreAssumption DEF Init, BeforeConnect, Late
    <2>3. Ended = {}
        BY ThreadsDistinct, LcoreAssumption DEF Init, Ended
    <2> QED BY <1>0, <2>1, <2>2, <2>3 DEF BoundInv, LeakCount
<1>2. ASSUME IInv, BoundInv, Next PROVE BoundInv'
    <2>0. EmptyHanded /\ BeforeConnect /\ LeakCount /\ TypeOK /\ CellTypes
        BY <1>2 DEF BoundInv, IInv, TypeOK, CellTypes
    <2>1. EmptyHanded' /\ BeforeConnect'
        BY <1>2, <2>0, HandsStayEmpty
    <2>2. Ended \subseteq Ended' /\ Late <= Late'
        BY <1>2, <2>0, EndsAreFinal
    <2>3. IsFiniteSet(Leaked) /\ IsFiniteSet(Ended')
        <3>1. Leaked \in SUBSET Cells /\ Ended' \in SUBSET {BP, IP, OP}
            BY DEF Leaked, Ended
        <3> QED BY <1>0, <3>1, FS_Subset
    <2>4. IsFiniteSet(Ended) /\ Cardinality(Ended) <= Cardinality(Ended')
        BY <2>2, <2>3, FS_Subset
    <2>5. /\ Cardinality(Leaked) \in Nat /\ Cardinality(Ended) \in Nat
          /\ Cardinality(Ended') \in Nat /\ Late \in {0, 1} /\ Late' \in {0, 1}
        BY <2>3, <2>4, FS_CardinalityType DEF Late
    <2>6. LeakCount'
        <3>1. CASE CarefulMove
            <4>1. Leaked' \in SUBSET Leaked
                BY <2>0, <3>1, CarefulMovesLoseNothing
            <4>2. IsFiniteSet(Leaked') /\ Cardinality(Leaked') <= Cardinality(Leaked)
                BY <2>3, <4>1, FS_Subset
            <4>3. Cardinality(Leaked') \in Nat
                BY <4>2, FS_CardinalityType
            <4> QED BY <2>0, <2>2, <2>4, <2>5, <4>2, <4>3 DEF LeakCount
        <3>2. CASE Losing
            <4>1. PICK c : Leaked' \subseteq Leaked \cup {c}
                BY <2>0, <3>2, LossesAreCounted
            <4>2. /\ IsFiniteSet(Leaked \cup {c})
                  /\ Cardinality(Leaked \cup {c}) <= Cardinality(Leaked) + 1
                  /\ Cardinality(Leaked \cup {c}) \in Nat
                <5>1. /\ IsFiniteSet(Leaked \cup {c})
                      /\ \/ Cardinality(Leaked \cup {c}) = Cardinality(Leaked)
                         \/ Cardinality(Leaked \cup {c}) = Cardinality(Leaked) + 1
                    BY <2>3, FS_AddElement
                <5> QED BY <2>5, <5>1
            <4>3. /\ IsFiniteSet(Leaked')
                  /\ Cardinality(Leaked') <= Cardinality(Leaked \cup {c})
                BY <4>1, <4>2, FS_Subset
            <4>4. Cardinality(Leaked') \in Nat
                BY <4>3, FS_CardinalityType
            <4>5. CASE Late = 0 /\ Late' = 1
                BY <2>0, <2>4, <2>5, <4>2, <4>3, <4>4, <4>5 DEF LeakCount
            <4>6. CASE \E t \in {BP, IP, OP} : t \notin Ended /\ t \in Ended'
                <5>1. Ended # Ended'
                    BY <4>6
                <5>2. Cardinality(Ended) # Cardinality(Ended')
                    BY <2>2, <2>3, <5>1, FS_Subset
                <5> QED BY <2>0, <2>2, <2>4, <2>5, <4>2, <4>3, <4>4, <5>2 DEF LeakCount
            <4> QED BY <2>0, <3>2, <4>5, <4>6, LossesAreCounted
        <3> QED BY <1>2, <2>0, <3>1, <3>2, CarefulActions
    <2> QED BY <2>1, <2>6 DEF BoundInv
<1>3. ASSUME IInv, BoundInv, UNCHANGED vars PROVE BoundInv'
    BY <1>3 DEF BoundInv, EmptyHanded, BeforeConnect, LeakCount, Leaked, Reachable,
                Held, RangeOf, Ended, Late, vars, poolVars, fifoVars, mainVars, netVars
<1> QED BY <1>1, <1>2, <1>3

(* Whatever fails, and whenever: the failed read of a connection that was   *)
(* reset and the last round of each of the three threads are the only steps *)
(* that lose a cell, so never more than four of the 1000 are lost.          *)
THEOREM LeakBoundCorrect ==
    ASSUME Roomy
    PROVE  Spec => []LeakBound
<1>1. (Init => BoundInv) /\ (IInv /\ BoundInv /\ [Next]_vars => BoundInv')
    BY BoundInvariant
<1>2. IInv /\ BoundInv => LeakBound
    <2> SUFFICES ASSUME BoundInv PROVE LeakBound
        OBVIOUS
    <2>1. Cardinality(Leaked) <= Late + Cardinality(Ended) /\ Late \in {0, 1}
        BY DEF BoundInv, LeakCount, Late
    <2>2. Leaked \in SUBSET Cells /\ Ended \in SUBSET {BP, IP, OP}
        BY DEF Leaked, Ended
    <2>3. Cardinality(Leaked) \in Nat /\ Cardinality(Ended) \in Nat
        BY <2>2, ThreePlusCells, FS_Subset, FS_CardinalityType
    <2>4. Cardinality(Leaked) <= 1 + Cardinality(Ended)
        BY <2>1, <2>3
    <2> QED BY <2>4 DEF LeakBound, Ended
<1> QED BY <1>1, <1>2, Invariant, PTL DEF Spec
-----------------------------------------------------------------------------
(* The order of messages and digests.                                       *)

(* The cell consumer t has removed and not used yet, and those in its queue *)
InHand(t) == pc[t] \in {"check", "use"} /\ mem_cell[t] # NoCell

Pending(t) == IF InHand(t) THEN <<mem_cell[t]>> \o queue[t] ELSE queue[t]

(* One cell in front of a queue.                                            *)
LEMMA OneAhead ==
    ASSUME NEW q \in Seq(Cells), NEW c \in Cells
    PROVE  /\ <<c>> \o q \in Seq(Cells)
           /\ Len(<<c>> \o q) = Len(q) + 1
           /\ (<<c>> \o q)[1] = c
           /\ \A k \in 1 .. Len(q) : (<<c>> \o q)[k + 1] = q[k]
           /\ Tail(<<c>> \o q) = q
           /\ \A d \in Cells : <<c>> \o Append(q, d) = Append(<<c>> \o q, d)
<1> DEFINE p == <<c>> \o q
<1>0. <<c>> \in Seq(Cells) /\ Len(<<c>>) = 1 /\ <<c>>[1] = c /\ Len(q) \in Nat
    OBVIOUS
<1>1. /\ p \in Seq(Cells) /\ Len(p) = Len(q) + 1
      /\ \A i \in 1 .. Len(q) + 1 : p[i] = IF i <= 1 THEN c ELSE q[i - 1]
    BY <1>0, ConcatProperties
<1>2. p[1] = c /\ \A k \in 1 .. Len(q) : p[k + 1] = q[k]
    <2> HIDE DEF p
    <2>1. p[1] = c
        BY <1>0, <1>1
    <2>2. ASSUME NEW k \in 1 .. Len(q) PROVE p[k + 1] = q[k]
        <3>1. k + 1 \in 1 .. Len(q) + 1 /\ ~(k + 1 <= 1) /\ (k + 1) - 1 = k
            BY <1>0
        <3> QED BY <1>1, <3>1
    <2> QED BY <2>1, <2>2
<1>3. Tail(p) = q
    <2> HIDE DEF p
    <2>1. p # <<>>
        BY <1>0, <1>1, EmptySeq
    <2>2. Tail(p) \in Seq(Cells) /\ Len(Tail(p)) = Len(q)
          /\ \A i \in 1 .. Len(q) : Tail(p)[i] = p[i + 1]
        BY <1>0, <1>1, <2>1, HeadTailProperties
    <2> QED BY <1>2, <2>2, SeqEqual
<1>4. ASSUME NEW d \in Cells PROVE <<c>> \o Append(q, d) = Append(p, d)
    <2>1. Append(q, d) = q \o <<d>> /\ Append(p, d) = p \o <<d>> /\ <<d>> \in Seq(Cells)
        BY <1>1, AppendIsConcat
    <2>2. (<<c>> \o q) \o <<d>> = <<c>> \o (q \o <<d>>)
        BY <1>0, <2>1, ConcatAssociative
    <2> QED BY <2>1, <2>2
<1> QED BY <1>1, <1>2, <1>3, <1>4

(* Removing the first cell and keeping it in hand.                          *)
LEMMA HeadAhead ==
    ASSUME NEW q \in Seq(Cells), q # <<>>
    PROVE  <<Head(q)>> \o Tail(q) = q
<1> DEFINE p == <<Head(q)>> \o Tail(q)
<1>1. /\ Head(q) \in Cells /\ Tail(q) \in Seq(Cells) /\ Len(Tail(q)) = Len(q) - 1
      /\ \A i \in DOMAIN Tail(q) : i + 1 \in DOMAIN q /\ Tail(q)[i] = q[i + 1]
      /\ q[1] = Head(q) /\ Len(q) \in Nat /\ DOMAIN Tail(q) = 1 .. Len(q) - 1
      /\ DOMAIN q = 1 .. Len(q) /\ 1 \in DOMAIN q
    BY RangeTail
<1>2. /\ p \in Seq(Cells) /\ Len(p) = Len(q) /\ p[1] = Head(q)
      /\ \A k \in 1 .. Len(q) - 1 : p[k + 1] = Tail(q)[k]
    BY <1>1, OneAhead
<1> HIDE DEF p
<1>3. ASSUME NEW i \in 1 .. Len(p) PROVE p[i] = q[i]
    <2>1. CASE i = 1
        BY <1>1, <1>2, <2>1
    <2>2. CASE i # 1
        <3>1. i - 1 \in 1 .. Len(q) - 1 /\ (i - 1) + 1 = i
            BY <1>1, <1>2, <2>2
        <3> QED BY <1>1, <1>2, <3>1
    <2> QED BY <2>1, <2>2
<1>4. p = q
    BY <1>2, <1>3, SeqEqual
<1> QED BY <1>4 DEF p

(* What is pending for a consumer is cells, and they are its own.           *)
LEMMA PendingCells ==
    ASSUME TypeOK, NEW t \in Consumers
    PROVE  /\ Pending(t) \in Seq(Cells) /\ Len(Pending(t)) \in Nat
           /\ \A k \in 1 .. Len(Pending(t)) :
                 \/ Pending(t)[k] \in RangeOf(queue[t])
                 \/ InHand(t) /\ Pending(t)[k] = mem_cell[t]
           /\ InHand(t) => /\ mem_cell[t] \in Cells /\ Len(Pending(t)) >= 1
                           /\ Pending(t)[1] = mem_cell[t]
                           /\ Tail(Pending(t)) = queue[t]
<1> DEFINE q == queue[t]
<1>1. q \in Seq(Cells) /\ Len(q) \in Nat /\ DOMAIN q = 1 .. Len(q)
    BY DEF TypeOK
<1>2. \A k \in 1 .. Len(q) : q[k] \in RangeOf(q)
    BY <1>1 DEF RangeOf
<1>3. CASE ~InHand(t)
    BY <1>1, <1>2, <1>3 DEF Pending
<1>4. CASE InHand(t)
    <2> DEFINE p == <<mem_cell[t]>> \o q
    <2>1. mem_cell[t] \in Cells
        BY <1>4, ThreadsDistinct DEF TypeOK, InHand
    <2>2. /\ p \in Seq(Cells) /\ Len(p) = Len(q) + 1 /\ p[1] = mem_cell[t]
          /\ \A k \in 1 .. Len(q) : p[k + 1] = q[k]
          /\ Tail(p) = q
        BY <1>1, <2>1, OneAhead
    <2>3. Pending(t) = p
        BY <1>4 DEF Pending
    <2> HIDE DEF p
    <2>4. ASSUME NEW k \in 1 .. Len(p) PROVE p[k] \in RangeOf(q) \/ p[k] = mem_cell[t]
        <3>1. CASE k = 1
            BY <2>2, <3>1
        <3>2. CASE k # 1
            <4>1. k - 1 \in 1 .. Len(q) /\ (k - 1) + 1 = k
                BY <1>1, <2>2, <3>2
            <4>2. p[k] = q[k - 1]
                BY <2>2, <4>1
            <4> QED BY <1>2, <4>1, <4>2
        <3> QED BY <3>1, <3>2
    <2> QED BY <1>1, <1>4, <2>1, <2>2, <2>3, <2>4
<1> QED BY <1>3, <1>4
-----------------------------------------------------------------------------
(* What each action does to what is pending for a consumer. *)

(* Nothing, if the queue, the place and the cell of the consumer stay.      *)
LEMMA StaysPending ==
    ASSUME NEW t \in Consumers, queue'[t] = queue[t], InHand(t)' = InHand(t),
           InHand(t) => mem_cell'[t] = mem_cell[t]
    PROVE  Pending(t)' = Pending(t)
BY DEF Pending

(* fifo_add_msg puts the cell behind the others: there is room for it.      *)
LEMMA AddedLast ==
    ASSUME IInv, Roomy, NEW s \in Threads \ Consumers, NEW t \in Consumers,
           NEW label, mem_cell[s] \in Cells,
           FifoAdd(t, mem_cell[s]), SetCell(s, NoCell), Goto(s, label)
    PROVE  /\ Pending(t)' = Append(Pending(t), mem_cell[s])
           /\ \A r \in Consumers \ {t} : Pending(r)' = Pending(r)
           /\ \A r \in Consumers : pc'[r] = pc[r]
<1> DEFINE c == mem_cell[s]
<1>0. TypeOK /\ CellsOwnedOnce
    BY DEF IInv
<1>1. queue' = [queue EXCEPT ![t] = Append(queue[t], c)]
    BY <1>0, RoomForCell DEF FifoAdd
<1>2. /\ \A r \in Consumers : pc'[r] = pc[r] /\ mem_cell'[r] = mem_cell[r]
      /\ queue'[t] = Append(queue[t], c) /\ queue[t] \in Seq(Cells)
      /\ \A r \in Consumers \ {t} : queue'[r] = queue[r]
    BY <1>0, <1>1, ThreadsDistinct DEF TypeOK, SetCell, Goto
<1>3. \A r \in Consumers : InHand(r)' = InHand(r)
    BY <1>2 DEF InHand
<1>4. \A r \in Consumers \ {t} : Pending(r)' = Pending(r)
    BY <1>2, <1>3, StaysPending
<1>5. Pending(t)' = Append(Pending(t), c)
    <2>1. CASE ~InHand(t)
        BY <1>2, <1>3, <2>1 DEF Pending
    <2>2. CASE InHand(t)
        <3>1. mem_cell[t] \in Cells
            BY <1>0, <2>2, PendingCells
        <3>2. <<mem_cell[t]>> \o Append(queue[t], c) = Append(<<mem_cell[t]>> \o queue[t], c)
            BY <1>2, <3>1, OneAhead
        <3> QED BY <1>2, <1>3, <2>2, <3>2 DEF Pending
    <2> QED BY <2>1, <2>2
<1> QED BY <1>2, <1>4, <1>5

(* A consumer that uses the cell in hand uses the first one pending.        *)
LEMMA FirstUsed ==
    ASSUME IInv, NEW t \in Consumers, At(t, "use"), Goto(t, "detouch"),
           UNCHANGED <<queue, mem_cell>>
    PROVE  /\ InHand(t) /\ Pending(t)' = Tail(Pending(t))
           /\ \A r \in Consumers \ {t} : Pending(r)' = Pending(r)
           /\ \A r \in Threads \ {t} : pc'[r] = pc[r]
<1>0. TypeOK /\ CellInHand /\ t \in Threads
    BY ThreadsDistinct DEF IInv, MessagesIntact
<1>1. InHand(t)
    BY <1>0 DEF At, CellInHand, InHand
<1>2. pc'[t] = "detouch" /\ \A r \in Threads \ {t} : pc'[r] = pc[r]
    BY <1>0 DEF TypeOK, Goto
<1>3. Pending(t)' = queue[t]
    BY <1>2 DEF Pending, InHand
<1>4. \A r \in Consumers \ {t} : InHand(r)' = InHand(r)
    BY <1>2, ThreadsDistinct DEF InHand
<1> QED BY <1>0, <1>1, <1>2, <1>3, <1>4, PendingCells, StaysPending

(* The actions that do neither.                                             *)
Quiet ==
    \/ Main
    \/ Pool
    \/ BpSelect \/ BpTouch \/ BpRead \/ BpReadEof \/ BpReadError \/ BpClose
    \/ \E t \in Consumers : Consume(t)
    \/ \E l \in Lcores : CreateDigest(l) \/ CreateDigestNull(l) \/ AddDigestFields(l)
    \/ Environment

(* Every action is quiet, adds a cell or uses one.                          *)
LEMMA Actions ==
    Next => \/ Quiet \/ BpAdd \/ HandleMsg \/ WriteMsg
            \/ \E l \in Lcores : SendDigest(l)
BY DEF Next, Quiet, BackendProcessor, InputProcessor, OutputProcessor, Lcore,
       Consumers

(* The quiet ones leave what is pending as it is, unless the consumer ends. *)
LEMMA QuietKeepsPending ==
    ASSUME IInv, BeforeConnect, Quiet, NEW t \in Consumers, pc'[t] # "done"
    PROVE  pc[t] # "done" /\ Pending(t)' = Pending(t)
<1> USE ThreadsDistinct DEF poolVars, fifoVars, netVars, mainVars
<1>0. TypeOK /\ CellInHand /\ t \in Threads
    BY DEF IInv, MessagesIntact
(* Another thread's step.                                                   *)
<1>a. ASSUME UNCHANGED queue, pc'[t] = pc[t], mem_cell'[t] = mem_cell[t]
      PROVE  pc[t] # "done" /\ Pending(t)' = Pending(t)
    BY <1>a, StaysPending DEF InHand
<1>1. CASE Main
    BY <1>a, <1>1 DEF Main, Connect, ConnectFails, CtrlInitialized, StopBackend,
                      KillThreads
<1>2. CASE BpSelect \/ BpTouch \/ BpRead \/ BpReadEof \/ BpReadError \/ BpClose
    <2>1. UNCHANGED queue /\ pc'[t] = pc[t] /\ mem_cell'[t] = mem_cell[t]
        BY <1>0, <1>2 DEF BpSelect, BpTouch, BpRead, BpReadEof, BpReadError,
                          BpClose, Goto, SetCell, TypeOK
    <2> QED BY <1>a, <2>1
<1>3. ASSUME NEW s \in Consumers, Consume(s) PROVE pc[t] # "done" /\ Pending(t)' = Pending(t)
    <2>1. CASE s # t
        <3>1. queue'[t] = queue[t] /\ pc'[t] = pc[t] /\ mem_cell'[t] = mem_cell[t]
            <4>1. CASE FifoWait(s)
                BY <1>0, <2>1, <4>1 DEF FifoWait, Goto, TypeOK
            <4>2. CASE FifoRemove(s)
                BY <1>0, <2>1, <4>2 DEF FifoRemove, Goto, SetCell, TypeOK
            <4>3. CASE CheckCell(s)
                BY <1>0, <2>1, <4>3 DEF CheckCell, Goto, SetCell, TypeOK
            <4>4. CASE Detouch(s)
                BY <1>0, <2>1, <4>4 DEF Detouch, Goto, SetCell, TypeOK
            <4> QED BY <1>3, <4>1, <4>2, <4>3, <4>4 DEF Consume
        <3>2. InHand(t)' = InHand(t)
            BY <3>1 DEF InHand
        <3> QED BY <3>1, <3>2, StaysPending
    <2>2. CASE FifoWait(t)
        <3>1. UNCHANGED <<queue, mem_cell>> /\ pc[t] = "wait" /\ pc'[t] = "remove"
            BY <1>0, <2>2 DEF FifoWait, At, Goto, TypeOK
        <3> QED BY <3>1, StaysPending DEF InHand
    <2>3. CASE FifoRemove(t)
        <3>1. pc[t] = "remove" /\ pc'[t] = "check" /\ queue[t] \in Seq(Cells)
            BY <1>0, <2>3 DEF FifoRemove, At, Goto, TypeOK
        <3>2. Pending(t) = queue[t]
            BY <3>1 DEF Pending, InHand
        <3>3. CASE queue[t] = <<>>
            <4>1. queue' = queue /\ mem_cell'[t] = NoCell
                BY <1>0, <2>3, <3>3 DEF FifoRemove, SetCell, TypeOK
            <4> QED BY <3>1, <3>2, <4>1 DEF Pending, InHand
        <3>4. CASE queue[t] # <<>>
            <4>1. /\ queue'[t] = Tail(queue[t]) /\ mem_cell'[t] = Head(queue[t])
                  /\ Head(queue[t]) \in Cells
                BY <1>0, <2>3, <3>1, <3>4, RangeTail DEF FifoRemove, SetCell, TypeOK
            <4>2. InHand(t)'
                BY <3>1, <4>1, CellsAssumption DEF InHand
            <4>3. Pending(t)' = <<Head(queue[t])>> \o Tail(queue[t])
                BY <4>1, <4>2 DEF Pending
            <4> QED BY <3>1, <3>2, <3>4, <4>3, HeadAhead
        <3> QED BY <3>3, <3>4
    <2>4. CASE CheckCell(t)
        <3>1. ~shutdown
            BY <1>0, <2>4 DEF CheckCell, Goto, TypeOK
        <3>2. /\ UNCHANGED <<queue, mem_cell>> /\ pc[t] = "check"
              /\ pc'[t] = IF mem_cell[t] = NoCell THEN "wait" ELSE "use"
            BY <1>0, <2>4, <3>1 DEF CheckCell, At, Goto, TypeOK
        <3>3. InHand(t)' = InHand(t)
            BY <3>2 DEF InHand
        <3> QED BY <3>2, <3>3, StaysPending
    <2>5. CASE Detouch(t)
        <3>1. UNCHANGED queue /\ pc[t] = "detouch" /\ pc'[t] = "wait"
            BY <1>0, <2>5 DEF Detouch, At, Goto, TypeOK
        <3> QED BY <3>1, StaysPending DEF InHand
    <2> QED BY <1>3, <2>1, <2>2, <2>3, <2>4, <2>5 DEF Consume
<1>4. ASSUME NEW l \in Lcores,
             CreateDigest(l) \/ CreateDigestNull(l) \/ AddDigestFields(l)
      PROVE  pc[t] # "done" /\ Pending(t)' = Pending(t)
    <2>1. UNCHANGED queue /\ pc'[t] = pc[t] /\ mem_cell'[t] = mem_cell[t]
        BY <1>0, <1>4 DEF CreateDigest, CreateDigestNull, AddDigestFields,
                          Goto, SetCell, TypeOK
    <2> QED BY <1>a, <2>1
<1>5. CASE Environment
    BY <1>a, <1>5 DEF Environment, ControllerSend, ControllerCloses,
                      ConnectionReset, SpuriousWakeup, WriteSigpipe
<1>6. ASSUME NEW s \in {BP, IP, OP}, StartJob(s)
      PROVE  pc[t] # "done" /\ Pending(t)' = Pending(t)
    <2>1. UNCHANGED <<queue, mem_cell>> /\ (s # t => pc'[t] = pc[t])
        BY <1>0, <1>6 DEF StartJob, Goto, TypeOK
    <2>2. s = t => pc[t] = "unborn" /\ pc'[t] \in {"select", "wait"}
        BY <1>0, <1>6 DEF StartJob, At, Goto, TypeOK
    <2> QED BY <1>a, <2>1, <2>2, StaysPending DEF InHand
<1> QED BY <1>1, <1>2, <1>3, <1>4, <1>5, <1>6 DEF Quiet, Pool
-----------------------------------------------------------------------------
(* A cell somebody has is written only by the thread that has it, while it  *)
(* reads a message into it or fills in a digest.                            *)
LEMMA ContentsStay ==
    ASSUME IInv, Next, NEW c \in Cells, c \notin unused,
           \A s \in Threads : pc[s] \in {"read", "fill"} => mem_cell[s] # c
    PROVE  data'[c] = data[c]
<1> USE ThreadsDistinct DEF poolVars
<1>0. data = [d \in Cells |-> data[d]]
    BY DEF IInv, TypeOK
<1>1. CASE UNCHANGED data
    BY <1>1
<1>2. CASE BpRead
    BY <1>0, <1>2 DEF BpRead, At
<1>3. ASSUME NEW l \in Lcores, CreateDigest(l) PROVE data'[c] = data[c]
    <2>1. PICK d \in unused : \E m : data' = [data EXCEPT ![d] = m]
        BY <1>3 DEF CreateDigest
    <2> QED BY <1>0, <2>1
<1>4. ASSUME NEW l \in Lcores, AddDigestFields(l) PROVE data'[c] = data[c]
    <2>1. pc[l] = "fill" /\ \E m : data' = [data EXCEPT ![mem_cell[l]] = m]
        BY <1>4 DEF AddDigestFields, At
    <2> QED BY <1>0, <2>1
<1>5. \/ UNCHANGED data \/ BpRead
      \/ \E l \in Lcores : CreateDigest(l) \/ AddDigestFields(l)
    <2>1. CASE Main
        BY <2>1 DEF Main, Connect, ConnectFails, CtrlInitialized, StopBackend,
                    KillThreads
    <2>2. CASE BackendProcessor
        BY <2>2 DEF BackendProcessor, BpSelect, BpTouch, BpReadEof, BpReadError,
                    BpAdd, BpClose
    <2>3. CASE InputProcessor \/ OutputProcessor
        BY <2>3 DEF InputProcessor, OutputProcessor, Consume, FifoWait,
                    FifoRemove, CheckCell, Detouch, HandleMsg, WriteMsg
    <2>4. CASE \E l \in Lcores : Lcore(l)
        BY <2>4 DEF Lcore, CreateDigestNull, SendDigest
    <2>5. CASE Environment
        BY <2>5 DEF Environment, ControllerSend, ControllerCloses,
                    ConnectionReset, SpuriousWakeup, WriteSigpipe
    <2>6. CASE Pool
        BY <2>6 DEF Pool, StartJob
    <2> QED BY <2>1, <2>2, <2>3, <2>4, <2>5, <2>6 DEF Next
<1> QED BY <1>1, <1>2, <1>3, <1>4, <1>5

(* So what is pending keeps its contents.                                   *)
LEMMA PendingContentsStay ==
    ASSUME IInv, Next, NEW t \in Consumers, NEW k \in 1 .. Len(Pending(t))
    PROVE  data'[Pending(t)[k]] = data[Pending(t)[k]]
<1> DEFINE c == Pending(t)[k]
<1>0. TypeOK /\ CellsOwnedOnce /\ t \in Threads
    BY ThreadsDistinct DEF IInv
<1>1. c \in Cells /\ (c \in RangeOf(queue[t]) \/ (InHand(t) /\ c = mem_cell[t]))
    BY <1>0, PendingCells
<1>2. c \in RangeOf(queue[t]) => c \notin unused /\ c \notin Held
    BY <1>0 DEF CellsOwnedOnce, FreeCellsUnreachable, QueuesDisjoint, Reachable,
                Consumers
<1>3. InHand(t) /\ c = mem_cell[t] =>
        /\ c \notin unused /\ pc[t] \notin {"read", "fill"}
        /\ \A s \in Threads : s # t => mem_cell[s] # c
    BY <1>0 DEF InHand, CellsOwnedOnce, FreeCellsUnreachable, HoldersDisjoint,
                Reachable, Held
<1>4. c \notin unused /\ \A s \in Threads : pc[s] \in {"read", "fill"} => mem_cell[s] # c
    <2> HIDE DEF c
    <2>1. \A s \in Threads : mem_cell[s] \in Held
        BY DEF Held
    <2> QED BY <1>1, <1>2, <1>3, <2>1
<1> QED BY <1>1, <1>4, ContentsStay

(* The cell backend_processor is about to add keeps its contents too.       *)
LEMMA ReadContentsStay ==
    ASSUME IInv, Next, pc[BP] = "add"
    PROVE  data'[mem_cell[BP]] = data[mem_cell[BP]]
<1>1. TypeOK /\ CellInHand /\ CellsOwnedOnce /\ BP \in Threads
    BY ThreadsDistinct DEF IInv, MessagesIntact
<1>2. mem_cell[BP] \in Cells
    BY <1>1 DEF CellInHand, TypeOK
<1>3. mem_cell[BP] \notin unused
    BY <1>1, <1>2 DEF CellsOwnedOnce, FreeCellsUnreachable, Reachable, Held
<1>4. \A s \in Threads : s # BP => mem_cell[s] # mem_cell[BP]
    BY <1>1, <1>2, CellsAssumption DEF CellsOwnedOnce, HoldersDisjoint
<1> QED BY <1>2, <1>3, <1>4, ContentsStay
-----------------------------------------------------------------------------
(* From the controller to handle_p4_msg.                                    *)

(* How many messages backend_processor has read and not dropped.            *)
Added     == IF pc[BP] = "add" THEN 1 ELSE 0
ReadSoFar == Len(processed) + Len(Pending(IP)) + Added

HandledInOrder ==
    /\ Len(processed) <= Len(sent)
    /\ \A i \in 1 .. Len(processed) : processed[i] = sent[i]

OnTheWay ==
    /\ \A k \in 1 .. Len(Pending(IP)) : data[Pending(IP)[k]] = sent[Len(processed) + k]
    /\ pc[BP] = "add" => data[mem_cell[BP]] = sent[ReadSoFar]
    /\ \A k \in 1 .. Len(wire) : wire[k] = sent[ReadSoFar + k]
    /\ ReadSoFar + Len(wire) <= Len(sent)
    /\ sock \in {"none", "open"} => ReadSoFar + Len(wire) = Len(sent)

InInv == HandledInOrder /\ (pc[IP] # "done" => OnTheWay)

(* The lengths are numbers.                                                 *)
LEMMA Lengths ==
    ASSUME TypeOK
    PROVE  /\ Len(processed) \in Nat /\ Len(sent) \in Nat /\ Len(wire) \in Nat
           /\ Len(queued) \in Nat /\ Len(written) \in Nat
           /\ Added \in {0, 1}
           /\ \A t \in Consumers : Len(Pending(t)) \in Nat
           /\ ReadSoFar \in Nat
<1>1. /\ Len(processed) \in Nat /\ Len(sent) \in Nat /\ Len(wire) \in Nat
      /\ Len(queued) \in Nat /\ Len(written) \in Nat
    BY DEF TypeOK
<1>2. \A t \in Consumers : Len(Pending(t)) \in Nat
    BY PendingCells
<1> QED BY <1>1, <1>2 DEF Added, ReadSoFar, Consumers

(* Nothing is put on the wire or taken from it, and no connection is made.  *)
WireRests ==
    /\ UNCHANGED <<wire, sent>>
    /\ pc'[BP] = "add" <=> pc[BP] = "add"
    /\ pc[BP] = "add" => mem_cell'[BP] = mem_cell[BP]
    /\ sock' \in {"none", "open"} => sock \in {"none", "open"}

(* A quiet action that does not touch the wire leaves what was read as it is. *)
LEMMA QuietWire ==
    ASSUME TypeOK, BeforeConnect, Quiet
    PROVE  /\ UNCHANGED processed
           /\ BpRead \/ ConnectionReset \/ (\E k \in Kinds : ControllerSend(k)) \/ WireRests
<1> USE ThreadsDistinct DEF netVars, histVars, mainVars
<1>1. CASE Main
    <2>1. CASE Connect
        <3>1. UNCHANGED pc /\ sock = "none"
            BY <2>1 DEF Connect, BeforeConnect
        <3> QED BY <2>1, <3>1 DEF Connect, WireRests
    <2>2. CASE ConnectFails \/ CtrlInitialized \/ StopBackend \/ KillThreads
        BY <2>2 DEF ConnectFails, CtrlInitialized, StopBackend, KillThreads, WireRests
    <2> QED BY <1>1, <2>1, <2>2 DEF Main
<1>2. CASE BpSelect \/ BpTouch
    BY <1>2 DEF BpSelect, BpTouch, At, Goto, TypeOK, WireRests
<1>3. CASE BpRead
    BY <1>3 DEF BpRead
<1>4. CASE BpReadEof \/ BpReadError \/ BpClose
    BY <1>4 DEF BpReadEof, BpReadError, BpClose, At, Goto, TypeOK, WireRests
<1>5. ASSUME NEW t \in Consumers, Consume(t) PROVE UNCHANGED processed /\ WireRests
    <2>1. pc'[BP] = pc[BP] /\ mem_cell'[BP] = mem_cell[BP]
        BY <1>5 DEF Consume, FifoWait, FifoRemove, CheckCell, Detouch, Goto,
                    SetCell, TypeOK
    <2>2. UNCHANGED <<wire, sent, sock, processed>>
        BY <1>5 DEF Consume, FifoWait, FifoRemove, CheckCell, Detouch
    <2> QED BY <2>1, <2>2 DEF WireRests
<1>6. ASSUME NEW l \in Lcores,
             CreateDigest(l) \/ CreateDigestNull(l) \/ AddDigestFields(l)
      PROVE  UNCHANGED processed /\ WireRests
    <2>1. pc'[BP] = pc[BP] /\ mem_cell'[BP] = mem_cell[BP]
        BY <1>6 DEF CreateDigest, CreateDigestNull, AddDigestFields, Goto,
                    SetCell, TypeOK
    <2>2. UNCHANGED <<wire, sent, sock, processed>>
        BY <1>6 DEF CreateDigest, CreateDigestNull, AddDigestFields
    <2> QED BY <2>1, <2>2 DEF WireRests
<1>7. CASE Environment
    <2>1. CASE ControllerCloses \/ WriteSigpipe \/ \E t \in Consumers : SpuriousWakeup(t)
        BY <2>1 DEF ControllerCloses, WriteSigpipe, SpuriousWakeup, WireRests
    <2>2. CASE ConnectionReset \/ \E k \in Kinds : ControllerSend(k)
        BY <2>2 DEF ConnectionReset, ControllerSend
    <2> QED BY <1>7, <2>1, <2>2 DEF Environment
<1>8. ASSUME NEW t \in {BP, IP, OP}, StartJob(t) PROVE UNCHANGED processed /\ WireRests
    BY <1>8 DEF StartJob, At, Goto, TypeOK, WireRests
<1> QED BY <1>1, <1>2, <1>3, <1>4, <1>5, <1>6, <1>7, <1>8 DEF Quiet, Pool

(* A message sent goes to the end of the history and of the wire.           *)
LEMMA Sends ==
    ASSUME TypeOK, NEW k \in Kinds, ControllerSend(k)
    PROVE  /\ sock = "open" /\ UNCHANGED <<pc, mem_cell, queue, data, processed, sock>>
           /\ Len(sent') = Len(sent) + 1 /\ Len(wire') = Len(wire) + 1
           /\ \A i \in 1 .. Len(sent) : sent'[i] = sent[i]
           /\ \A i \in 1 .. Len(wire) : wire'[i] = wire[i]
           /\ sent'[Len(sent) + 1] = wire'[Len(wire) + 1]
           /\ sent'[Len(sent) + 1].kind = k
<1> DEFINE m == [kind |-> k, seq |-> Len(sent) + 1]
<1>1. m \in CtrlMsg /\ sent \in Seq(CtrlMsg) /\ wire \in Seq(CtrlMsg)
    BY BoundsAssumption DEF CtrlMsg, TypeOK
<1>2. sent' = Append(sent, m) /\ wire' = Append(wire, m) /\ sock = "open"
      /\ UNCHANGED <<pc, mem_cell, queue, data, processed, sock>>
    BY DEF ControllerSend, poolVars, fifoVars, histVars
<1>3. m.kind = k
    OBVIOUS
<1> HIDE DEF m
<1> QED BY <1>1, <1>2, <1>3, AppendProperties

(* A quiet action keeps the order: reading moves the first message of the   *)
(* wire into the cell being read into, sending puts one behind.             *)
LEMMA QuietKeepsInput ==
    ASSUME IInv, IInv', BeforeConnect, Quiet, InInv
    PROVE  InInv'
<1> USE ThreadsDistinct
<1> DEFINE p == Pending(IP)
<1>0. /\ TypeOK /\ TypeOK' /\ Next
      /\ Len(processed) \in Nat /\ Len(sent) \in Nat /\ Len(wire) \in Nat
      /\ Added \in {0, 1} /\ Len(p) \in Nat /\ ReadSoFar \in Nat
      /\ ReadSoFar = Len(processed) + Len(p) + Added
      /\ UNCHANGED processed /\ IP \in Consumers
    <2>1. Next
        BY DEF Quiet, Next, BackendProcessor, InputProcessor, OutputProcessor,
               Lcore, Consumers
    <2> QED BY <2>1, Lengths, QuietWire DEF IInv, ReadSoFar, Consumers
<1>1. HandledInOrder'
    <2>1. CASE UNCHANGED sent
        BY <1>0, <2>1 DEF InInv, HandledInOrder
    <2>2. ASSUME NEW k \in Kinds, ControllerSend(k) PROVE HandledInOrder'
        BY <1>0, <2>2, Sends DEF InInv, HandledInOrder
    <2> QED BY <1>0, <2>1, <2>2, QuietWire DEF BpRead, ConnectionReset, WireRests
<1>2. ASSUME pc'[IP] # "done" PROVE OnTheWay'
    <2>0. OnTheWay /\ Pending(IP)' = p
        BY <1>0, <1>2, QuietKeepsPending DEF InInv
    <2>1. \A k \in 1 .. Len(p) : data'[p[k]] = sent[Len(processed) + k]
        BY <1>0, <2>0, PendingContentsStay DEF OnTheWay
    <2>2. pc[BP] = "add" => data'[mem_cell[BP]] = sent[ReadSoFar]
        BY <1>0, <2>0, ReadContentsStay DEF OnTheWay
    <2> HIDE DEF p
    <2>3. CASE WireRests
        <3>1. Added' = Added /\ ReadSoFar' = ReadSoFar
            BY <1>0, <2>0, <2>3 DEF WireRests, Added, ReadSoFar
        <3> QED BY <1>0, <2>0, <2>1, <2>2, <2>3, <3>1 DEF WireRests, OnTheWay
    <2>4. CASE ConnectionReset
        <3>1. /\ UNCHANGED <<pc, mem_cell, sent>> /\ wire' = <<>> /\ sock' = "reset"
              /\ ReadSoFar' = ReadSoFar
            BY <1>0, <2>0, <2>4 DEF ConnectionReset, ReadSoFar, Added
        <3> QED BY <1>0, <2>0, <2>1, <2>2, <3>1 DEF OnTheWay
    <2>5. CASE BpRead
        <3>1. /\ UNCHANGED <<sent, sock, mem_cell>> /\ pc[BP] = "read" /\ pc'[BP] = "add"
              /\ mem_cell[BP] \in Cells
              /\ wire # <<>> /\ wire' = Tail(wire) /\ data'[mem_cell[BP]] = Head(wire)
            BY <1>0, <2>5 DEF BpRead, At, Goto, IInv, TypeOK, MessagesIntact, CellInHand
        <3>2. /\ Head(wire) = wire[1] /\ Len(wire) \in Nat \ {0}
              /\ Len(Tail(wire)) = Len(wire) - 1
              /\ \A i \in 1 .. Len(wire) - 1 : Tail(wire)[i] = wire[i + 1]
            BY <1>0, <3>1, HeadTailProperties, EmptySeq DEF TypeOK
        <3>3. Added = 0 /\ ReadSoFar' = ReadSoFar + 1
            BY <1>0, <2>0, <3>1 DEF Added, ReadSoFar
        <3>4. \A i \in 1 .. Len(wire') : wire'[i] = sent[ReadSoFar' + i]
            <4> TAKE i \in 1 .. Len(wire')
            <4>1. i + 1 \in 1 .. Len(wire) /\ ReadSoFar' + i = ReadSoFar + (i + 1)
                BY <1>0, <3>1, <3>2, <3>3
            <4> QED BY <1>0, <2>0, <3>1, <3>2, <4>1 DEF OnTheWay
        <3>5. data'[mem_cell'[BP]] = sent[ReadSoFar']
            BY <1>0, <2>0, <3>1, <3>2, <3>3 DEF OnTheWay
        <3>6. /\ ReadSoFar' + Len(wire') = ReadSoFar + Len(wire)
              /\ Len(processed') = Len(processed)
            BY <1>0, <3>1, <3>2, <3>3
        <3> QED BY <1>0, <2>0, <2>1, <3>1, <3>4, <3>5, <3>6 DEF OnTheWay
    <2>6. ASSUME NEW k \in Kinds, ControllerSend(k) PROVE OnTheWay'
        <3>1. /\ sock = "open" /\ UNCHANGED <<pc, mem_cell, queue, data, processed, sock>>
              /\ Len(sent') = Len(sent) + 1 /\ Len(wire') = Len(wire) + 1
              /\ \A i \in 1 .. Len(sent) : sent'[i] = sent[i]
              /\ \A i \in 1 .. Len(wire) : wire'[i] = wire[i]
              /\ sent'[Len(sent) + 1] = wire'[Len(wire) + 1]
            BY <1>0, <2>6, Sends
        <3>2. ReadSoFar' = ReadSoFar /\ ReadSoFar + Len(wire) = Len(sent)
            BY <1>0, <2>0, <3>1 DEF ReadSoFar, Added, OnTheWay
        <3>3. \A i \in 1 .. Len(p) : data'[p[i]] = sent'[Len(processed) + i]
            <4> TAKE i \in 1 .. Len(p)
            <4>1. Len(processed) + i \in 1 .. Len(sent)
                BY <1>0, <3>2
            <4> QED BY <2>1, <3>1, <4>1
        <3>4. pc[BP] = "add" => data'[mem_cell[BP]] = sent'[ReadSoFar]
            <4>1. pc[BP] = "add" => ReadSoFar \in 1 .. Len(sent)
                BY <1>0, <3>2 DEF Added
            <4> QED BY <2>2, <3>1, <4>1
        <3>5. \A i \in 1 .. Len(wire) + 1 : wire'[i] = sent'[ReadSoFar + i]
            <4> TAKE i \in 1 .. Len(wire) + 1
            <4>1. CASE i = Len(wire) + 1
                BY <1>0, <3>1, <3>2, <4>1
            <4>2. CASE i \in 1 .. Len(wire)
                <5>1. ReadSoFar + i \in 1 .. Len(sent)
                    BY <1>0, <3>2, <4>2
                <5> QED BY <2>0, <3>1, <4>2, <5>1 DEF OnTheWay
            <4> QED BY <1>0, <4>1, <4>2
        <3>6. ReadSoFar' + Len(wire') = Len(sent')
            BY <1>0, <3>1, <3>2
        <3> QED BY <1>0, <2>0, <3>1, <3>2, <3>3, <3>4, <3>5, <3>6, SMTT(30) DEF OnTheWay
    <2> QED BY <1>0, <2>3, <2>4, <2>5, <2>6, QuietWire
<1> QED BY <1>1, <1>2 DEF InInv

(* A step of output_processor or of a core leaves this direction alone.     *)
LEMMA OthersKeepInput ==
    ASSUME IInv, Roomy, InInv, Next,
           WriteMsg \/ \E l \in Lcores : SendDigest(l)
    PROVE  InInv'
<1> USE ThreadsDistinct
<1>0. TypeOK /\ CellInHand /\ IP \in Consumers /\ OP \in Consumers /\ IP # OP
    BY DEF IInv, MessagesIntact, Consumers
<1>1. /\ UNCHANGED <<processed, sent, wire, sock>>
      /\ pc'[IP] = pc[IP] /\ pc'[BP] = pc[BP] /\ mem_cell'[BP] = mem_cell[BP]
    BY <1>0 DEF WriteMsg, SendDigest, Goto, SetCell, TypeOK, netVars
<1>2. Pending(IP)' = Pending(IP)
    <2>1. CASE WriteMsg
        BY <1>0, <2>1, FirstUsed DEF WriteMsg, fifoVars
    <2>2. ASSUME NEW l \in Lcores, SendDigest(l) PROVE Pending(IP)' = Pending(IP)
        <3>1. mem_cell[l] \in Cells /\ l \in Threads \ Consumers
            BY <1>0, <2>2 DEF SendDigest, At, CellInHand, TypeOK
        <3> QED BY <1>0, <2>2, <3>1, AddedLast DEF SendDigest
    <2> QED BY <2>1, <2>2
<1>3. ReadSoFar' = ReadSoFar
    BY <1>1, <1>2 DEF ReadSoFar, Added
<1>4. \A k \in 1 .. Len(Pending(IP)) : data'[Pending(IP)[k]] = data[Pending(IP)[k]]
    BY <1>0, PendingContentsStay
<1>5. pc[BP] = "add" => data'[mem_cell[BP]] = data[mem_cell[BP]]
    BY ReadContentsStay
<1> QED BY <1>1, <1>2, <1>3, <1>4, <1>5 DEF InInv, HandledInOrder, OnTheWay

(* backend_processor adds the cell it read into.                            *)
LEMMA AddKeepsInput ==
    ASSUME IInv, Roomy, InInv, BpAdd
    PROVE  InInv'
<1> USE ThreadsDistinct
<1> DEFINE p == Pending(IP)
           c == mem_cell[BP]
<1>0. /\ TypeOK /\ CellInHand /\ IP \in Consumers /\ BP \in Threads \ Consumers
      /\ Len(processed) \in Nat /\ Len(p) \in Nat /\ p \in Seq(Cells)
    BY Lengths, PendingCells DEF IInv, MessagesIntact, Consumers
<1>1. /\ UNCHANGED <<processed, sent, wire, sock, data>>
      /\ pc[BP] = "add" /\ pc'[BP] = "select" /\ c \in Cells
    BY <1>0 DEF BpAdd, At, Goto, CellInHand, TypeOK, netVars, histVars, poolVars
<1>2. Pending(IP)' = Append(p, c) /\ pc'[IP] = pc[IP]
    BY <1>0, <1>1, AddedLast DEF BpAdd
<1>3. ASSUME OnTheWay PROVE OnTheWay'
    <2> HIDE DEF p
    <2>1. Len(Append(p, c)) = Len(p) + 1 /\ Append(p, c)[Len(p) + 1] = c
          /\ \A k \in 1 .. Len(p) : Append(p, c)[k] = p[k]
        BY <1>0, <1>1, AppendProperties
    <2>2. ReadSoFar = Len(processed) + Len(p) + 1 /\ ReadSoFar' = ReadSoFar
        BY <1>0, <1>1, <1>2, <2>1 DEF ReadSoFar, Added, p
    <2>3. \A k \in 1 .. Len(p) : data[p[k]] = sent[Len(processed) + k]
        BY <1>3 DEF OnTheWay, p
    <2>4. data[c] = sent[Len(processed) + (Len(p) + 1)]
        <3>1. Len(processed) + (Len(p) + 1) = ReadSoFar
            BY <1>0, <2>2
        <3> QED BY <1>1, <1>3, <3>1 DEF OnTheWay
    <2>5. ASSUME NEW k \in 1 .. Len(p) + 1
          PROVE  data[Append(p, c)[k]] = sent[Len(processed) + k]
        <3>1. k \in 1 .. Len(p) \/ k = Len(p) + 1
            BY <1>0
        <3> HIDE DEF c
        <3> QED BY <2>1, <2>3, <2>4, <3>1
    <2> QED BY <1>1, <1>2, <1>3, <2>1, <2>2, <2>5 DEF OnTheWay
<1> QED BY <1>1, <1>2, <1>3 DEF InInv, HandledInOrder

(* input_processor handles the message that is next.                        *)
LEMMA HandleKeepsInput ==
    ASSUME IInv, InInv, HandleMsg
    PROVE  /\ InInv'
           /\ Len(processed) < Len(sent) /\ sent \in Seq(CtrlMsg)
           /\ data[mem_cell[IP]] = sent[Len(processed) + 1]
           /\ processed' = Append(processed, sent[Len(processed) + 1])
<1> USE ThreadsDistinct
<1> DEFINE p == Pending(IP)
           n == Len(processed)
<1>0. /\ TypeOK /\ IP \in Consumers /\ sent \in Seq(CtrlMsg) /\ processed \in Seq(CtrlMsg)
      /\ n \in Nat /\ Len(p) \in Nat /\ p \in Seq(Cells)
      /\ Len(sent) \in Nat /\ Len(wire) \in Nat /\ Added \in {0, 1}
    BY Lengths, PendingCells DEF IInv, TypeOK, Consumers
<1>1. /\ UNCHANGED <<sent, wire, sock, data, queue, mem_cell>>
      /\ At(IP, "use") /\ Goto(IP, "detouch") /\ pc[IP] = "use"
      /\ processed' = Append(processed, data[mem_cell[IP]])
    BY DEF HandleMsg, At, netVars, poolVars, fifoVars
<1>2. /\ InHand(IP) /\ Pending(IP)' = Tail(p)
      /\ \A r \in Threads \ {IP} : pc'[r] = pc[r]
    BY <1>0, <1>1, FirstUsed
<1>3. OnTheWay /\ HandledInOrder
    BY <1>1 DEF InInv
<1>4. p[1] = mem_cell[IP] /\ Len(p) >= 1 /\ p # <<>>
    <2>1. p[1] = mem_cell[IP] /\ Len(p) >= 1
        BY <1>0, <1>2, PendingCells
    <2> HIDE DEF p
    <2> QED BY <2>1, EmptySeq
<1>5. data[mem_cell[IP]] = sent[n + 1] /\ n + 1 \in 1 .. Len(sent)
    <2>1. 1 \in 1 .. Len(p) /\ ReadSoFar = n + Len(p) + Added
        BY <1>0, <1>4 DEF ReadSoFar
    <2>2. data[p[1]] = sent[n + 1]
        BY <1>3, <2>1 DEF OnTheWay
    <2>3. ReadSoFar + Len(wire) <= Len(sent)
        BY <1>3 DEF OnTheWay
    <2> HIDE DEF p, n
    <2> QED BY <1>0, <1>4, <2>1, <2>2, <2>3
<1>6. /\ processed' = Append(processed, sent[n + 1]) /\ Len(processed') = n + 1
      /\ \A i \in 1 .. n : processed'[i] = processed[i]
      /\ processed'[n + 1] = sent[n + 1]
    <2>1. sent[n + 1] \in CtrlMsg
        BY <1>0, <1>5, ElementOfSeq
    <2> QED BY <1>0, <1>1, <1>5, <2>1, AppendProperties
<1>7. HandledInOrder'
    <2>1. \A i \in 1 .. n : processed[i] = sent[i]
        BY <1>3 DEF HandledInOrder
    <2> HIDE DEF n
    <2>2. \A i \in 1 .. n + 1 : processed'[i] = sent[i]
        BY <1>0, <1>6, <2>1
    <2> QED BY <1>0, <1>1, <1>5, <1>6, <2>2 DEF HandledInOrder
<1>8. OnTheWay'
    <2>1. Len(Tail(p)) = Len(p) - 1 /\ \A k \in 1 .. Len(p) - 1 : Tail(p)[k] = p[k + 1]
        <3> HIDE DEF p
        <3> QED BY <1>0, <1>4, HeadTailProperties
    <2>2. \A k \in 1 .. Len(p) : data[p[k]] = sent[n + k]
        BY <1>3 DEF OnTheWay
    <2>3. Added' = Added /\ ReadSoFar' = ReadSoFar
        <3>1. Added' = Added
            BY <1>2 DEF Added
        <3>2. ReadSoFar = n + Len(p) + Added /\ ReadSoFar' = Len(processed') + Len(Tail(p)) + Added'
            BY <1>2 DEF ReadSoFar
        <3>3. ReadSoFar' = (n + 1) + (Len(p) - 1) + Added
            BY <1>6, <2>1, <3>1, <3>2
        <3>4. n \in Nat /\ Len(p) \in Nat /\ Added \in Nat
            BY <1>0
        <3> HIDE DEF p, n
        <3>5. (n + 1) + (Len(p) - 1) + Added = n + Len(p) + Added
            BY <3>4
        <3> QED BY <3>1, <3>2, <3>3, <3>5
    <2>4. \A k \in 1 .. Len(Tail(p)) : data[Tail(p)[k]] = sent[Len(processed') + k]
        <3> HIDE DEF p, n
        <3> TAKE k \in 1 .. Len(Tail(p))
        <3>1. k \in 1 .. Len(p) - 1 /\ k + 1 \in 1 .. Len(p) /\ n + (k + 1) = (n + 1) + k
            BY <1>0, <2>1
        <3>2. data[p[k + 1]] = sent[(n + 1) + k]
            BY <2>2, <3>1
        <3> QED BY <1>6, <2>1, <3>1, <3>2
    <2>5. pc'[BP] = pc[BP] /\ BP # IP
        BY <1>2
    <2> QED BY <1>1, <1>2, <1>3, <2>3, <2>4, <2>5 DEF OnTheWay
<1> QED BY <1>0, <1>5, <1>6, <1>7, <1>8 DEF InInv

(* At first nothing is on its way.                                          *)
LEMMA InitInput == Init => InInv
<1> SUFFICES ASSUME Init PROVE InInv
    OBVIOUS
<1>1. pc[IP] = "unborn" /\ pc[BP] = "unborn" /\ queue[IP] = <<>>
    BY ThreadsDistinct, LcoreAssumption DEF Init, Consumers
<1>2. Pending(IP) = <<>>
    BY <1>1 DEF Pending, InHand
<1>3. Len(<<>>) = 0
    OBVIOUS
<1> QED BY <1>1, <1>2, <1>3 DEF Init, InInv, HandledInOrder, OnTheWay, ReadSoFar, Added

(* Every step keeps the invariant, and is a step of the channel.            *)
LEMMA StepInput ==
    ASSUME Roomy, IInv, IInv', BeforeConnect, InInv, [Next]_vars
    PROVE  InInv' /\ [In!Next]_In!chanVars
<1>1. CASE UNCHANGED vars
    BY <1>1 DEF vars, poolVars, fifoVars, netVars, histVars, InInv, HandledInOrder,
                OnTheWay, ReadSoFar, Added, Pending, InHand, In!chanVars
<1>2. CASE Quiet
    <2>1. InInv'
        BY <1>2, QuietKeepsInput
    <2>2. TypeOK /\ UNCHANGED processed
        BY <1>2, QuietWire DEF IInv
    <2>3. CASE UNCHANGED sent
        BY <2>1, <2>2, <2>3 DEF In!chanVars
    <2>4. ASSUME NEW k \in Kinds, ControllerSend(k) PROVE In!Send
        BY <2>2, <2>4, Sends DEF In!Send
    <2>5. UNCHANGED sent \/ \E k \in Kinds : ControllerSend(k)
        BY <1>2, <2>2, QuietWire DEF BpRead, ConnectionReset, WireRests
    <2> QED BY <2>1, <2>3, <2>4, <2>5 DEF In!Next
<1>3. CASE BpAdd
    BY <1>3, AddKeepsInput DEF BpAdd, netVars, histVars, In!chanVars
<1>4. CASE HandleMsg
    BY <1>4, HandleKeepsInput DEF HandleMsg, netVars, In!Next, In!Deliver
<1>5. CASE WriteMsg \/ \E l \in Lcores : SendDigest(l)
    <2>1. Next
        BY <1>5 DEF Next, OutputProcessor, Lcore
    <2> QED BY <1>5, <2>1, OthersKeepInput DEF WriteMsg, SendDigest, netVars, In!chanVars
<1> QED BY <1>1, <1>2, <1>3, <1>4, <1>5, Actions

(* Messages of the controller reach handle_p4_msg in the order sent, each   *)
(* once and as it was sent: whatever the threads' speeds, also when the     *)
(* connection ends or the backend stops, provided a fifo has room for the   *)
(* cells.                                                                   *)
THEOREM InputOrderCorrect ==
    ASSUME Roomy
    PROVE  Spec => InputInOrder
<1>1. Init => In!Init
    BY DEF Init, In!Init
<1>2. (Init => LeakInv) /\ (IInv /\ LeakInv /\ [Next]_vars => LeakInv')
    BY LeakInvariant
<1>3. IInv /\ IInv' /\ LeakInv /\ InInv /\ [Next]_vars => InInv' /\ [In!Next]_In!chanVars
    BY StepInput DEF LeakInv
<1> QED BY <1>1, <1>2, <1>3, InitInput, Invariant, PTL
        DEF Spec, InputInOrder, In!Spec
-----------------------------------------------------------------------------
(* main goes on only once everything before CTRL_INITIALIZED was handled,   *)
(* if the controller sends no message of unknown type (for one that does    *)
(* see UnknownSkipped).                                                     *)
ConfigInv ==
    /\ \A i \in 1 .. Len(sent) : sent[i].kind \in Kinds
    /\ ctrl_is_initialized =>
          \E j \in 1 .. Len(processed) : processed[j].kind = "INITIALIZED"
    /\ main_pc \in {"running", "stopping"} /\ sock # "none" => ctrl_is_initialized

(* The flag is set by a message handled, and only looked at by main.         *)
LEMMA StepConfig ==
    ASSUME "UNKNOWN" \notin Kinds, IInv, IInv', BeforeConnect, InInv, ConfigInv,
           [Next]_vars
    PROVE  ConfigInv'
<1> USE ThreadsDistinct
<1>0. /\ TypeOK /\ TypeOK' /\ Len(sent) \in Nat /\ Len(processed) \in Nat
      /\ BP \in Threads
    BY Lengths DEF IInv
<1>1. CASE UNCHANGED vars
    BY <1>1 DEF vars, mainVars, netVars, histVars, ConfigInv
<1>2. CASE Main
    <2>1. UNCHANGED <<sent, processed, ctrl_is_initialized>>
        BY <1>2 DEF Main, Connect, ConnectFails, CtrlInitialized, StopBackend,
                    KillThreads, netVars, histVars
    <2>2. main_pc' \in {"running", "stopping"} /\ sock' # "none" => ctrl_is_initialized
        BY <1>2 DEF Main, Connect, ConnectFails, CtrlInitialized, StopBackend,
                    KillThreads, BeforeConnect, ConfigInv, netVars
    <2> QED BY <2>1, <2>2 DEF ConfigInv
<1>3. CASE HandleMsg
    <2> DEFINE n == Len(processed)
    <2>1. /\ n < Len(sent) /\ sent \in Seq(CtrlMsg) /\ processed \in Seq(CtrlMsg)
          /\ data[mem_cell[IP]] = sent[n + 1]
          /\ processed' = Append(processed, sent[n + 1])
        BY <1>0, <1>3, HandleKeepsInput DEF TypeOK
    <2>2. n + 1 \in 1 .. Len(sent)
        <3>1. n \in Nat /\ n < Len(sent)
            BY <1>0, <2>1
        <3> HIDE DEF n
        <3> QED BY <1>0, <3>1
    <2>3. /\ Len(processed') = n + 1 /\ processed'[n + 1] = sent[n + 1]
          /\ \A i \in 1 .. n : processed'[i] = processed[i]
        <3>1. sent[n + 1] \in CtrlMsg
            BY <2>1, <2>2, ElementOfSeq
        <3> QED BY <2>1, <3>1, AppendProperties
    <2>4. sent[n + 1].kind # "UNKNOWN"
        BY <2>2 DEF ConfigInv
    <2>5. ctrl_is_initialized' = (ctrl_is_initialized \/ sent[n + 1].kind = "INITIALIZED")
        BY <1>3, <2>1, <2>4 DEF HandleMsg, TypesSeen
    <2>6. UNCHANGED <<sent, main_pc, sock>>
        BY <1>3 DEF HandleMsg, netVars
    <2> HIDE DEF n
    <2>7. ctrl_is_initialized' =>
            \E j \in 1 .. n + 1 : processed'[j].kind = "INITIALIZED"
        <3>1. CASE ctrl_is_initialized
            <4>1. PICK j \in 1 .. n : processed[j].kind = "INITIALIZED"
                BY <3>1 DEF ConfigInv, n
            <4>2. j \in 1 .. n + 1
                BY <1>0 DEF n
            <4> QED BY <2>3, <4>1, <4>2
        <3>2. CASE sent[n + 1].kind = "INITIALIZED"
            <4>1. n + 1 \in 1 .. n + 1
                BY <1>0 DEF n
            <4> QED BY <2>3, <3>2, <4>1
        <3> QED BY <2>5, <3>1, <3>2
    <2> QED BY <2>3, <2>5, <2>6, <2>7 DEF ConfigInv
<1>4. ASSUME NEW k \in Kinds, ControllerSend(k) PROVE ConfigInv'
    <2>1. UNCHANGED <<main_pc, ctrl_is_initialized, sock, processed>>
        BY <1>4 DEF ControllerSend, mainVars, histVars
    <2>2. \A i \in 1 .. Len(sent') : sent'[i].kind \in Kinds
        BY <1>0, <1>4, Sends DEF ConfigInv
    <2> QED BY <2>1, <2>2 DEF ConfigInv
<1>5. ASSUME UNCHANGED <<sent, processed, main_pc, ctrl_is_initialized>>,
             sock = "none" => sock' = "none"
      PROVE  ConfigInv'
    BY <1>5 DEF ConfigInv
<1>6. CASE BackendProcessor
    <2>1. pc[BP] # "unborn" /\ UNCHANGED <<sent, processed, main_pc, ctrl_is_initialized>>
        BY <1>6 DEF BackendProcessor, BpSelect, BpTouch, BpRead, BpReadEof,
                    BpReadError, BpAdd, BpClose, At, mainVars, netVars, histVars
    <2>2. sock # "none"
        BY <2>1 DEF BeforeConnect
    <2> QED BY <1>5, <2>1, <2>2
<1>7. ASSUME NEW t \in Consumers, Consume(t) PROVE ConfigInv'
    BY <1>5, <1>7 DEF Consume, FifoWait, FifoRemove, CheckCell, Detouch,
                      mainVars, netVars, histVars
<1>8. CASE WriteMsg \/ Pool
    BY <1>5, <1>8 DEF WriteMsg, Pool, StartJob, mainVars, netVars, histVars
<1>9. ASSUME NEW l \in Lcores, Lcore(l) PROVE ConfigInv'
    BY <1>5, <1>9 DEF Lcore, CreateDigest, CreateDigestNull, AddDigestFields,
                      SendDigest, mainVars, netVars, histVars
<1>10. CASE ControllerCloses \/ ConnectionReset \/ WriteSigpipe
             \/ \E t \in Consumers : SpuriousWakeup(t)
    BY <1>5, <1>10 DEF ControllerCloses, ConnectionReset, WriteSigpipe,
                       SpuriousWakeup, mainVars, netVars, histVars
<1> QED BY <1>1, <1>2, <1>3, <1>4, <1>6, <1>7, <1>8, <1>9, <1>10
        DEF Next, InputProcessor, OutputProcessor, Environment, Consumers

(* At first nothing was sent and the flag is down.                          *)
LEMMA InitConfig == Init => ConfigInv
<1>1. Len(<<>>) = 0
    OBVIOUS
<1> QED BY <1>1 DEF Init, ConfigInv

(* A message that is handled is the one that was sent, so what was sent     *)
(* ahead of the CTRL_INITIALIZED handled has been handled.                  *)
LEMMA ConfigIsEnough ==
    ASSUME TypeOK, HandledInOrder, ConfigInv
    PROVE  ConfiguredBeforeRunning
<1>0. Len(sent) \in Nat /\ Len(processed) \in Nat /\ DOMAIN sent = 1 .. Len(sent)
    BY Lengths DEF TypeOK
<1> SUFFICES ASSUME main_pc = "running", sock # "none", NEW i \in DOMAIN sent,
                    \A j \in 1 .. i : sent[j].kind # "INITIALIZED"
             PROVE  i <= Len(processed) /\ processed[i] = sent[i]
    BY DEF ConfiguredBeforeRunning
<1>1. PICK j \in 1 .. Len(processed) : processed[j].kind = "INITIALIZED"
    BY DEF ConfigInv
<1>2. sent[j].kind = "INITIALIZED"
    BY <1>1 DEF HandledInOrder
<1>3. i < j
    BY <1>0, <1>2
<1>4. i \in 1 .. Len(processed)
    BY <1>0, <1>3
<1> QED BY <1>0, <1>4 DEF HandledInOrder

(* launch_backend returns only when every message that the controller sent  *)
(* before CTRL_INITIALIZED has been handled, and handled as it was sent.    *)
THEOREM ConfigCorrect ==
    ASSUME Roomy, "UNKNOWN" \notin Kinds
    PROVE  Spec => []ConfiguredBeforeRunning
<1>1. (Init => LeakInv) /\ (IInv /\ LeakInv /\ [Next]_vars => LeakInv')
    BY LeakInvariant
<1>2. IInv /\ IInv' /\ LeakInv /\ InInv /\ [Next]_vars => InInv'
    BY StepInput DEF LeakInv
<1>3. IInv /\ IInv' /\ LeakInv /\ InInv /\ ConfigInv /\ [Next]_vars => ConfigInv'
    BY StepConfig DEF LeakInv
<1>4. IInv /\ InInv /\ ConfigInv => ConfiguredBeforeRunning
    BY ConfigIsEnough DEF IInv, InInv
<1> QED BY <1>1, <1>2, <1>3, <1>4, InitInput, InitConfig, Invariant, PTL DEF Spec
-----------------------------------------------------------------------------
(* From send_digest to the controller.  Once the connection has ended or    *)
(* output_processor has stopped, nothing more is written.                   *)
WrittenInOrder ==
    /\ Len(written) <= Len(queued)
    /\ \A i \in 1 .. Len(written) : written[i] = queued[i]

ToBeWritten ==
    /\ Len(written) + Len(Pending(OP)) = Len(queued)
    /\ \A k \in 1 .. Len(Pending(OP)) : data[Pending(OP)[k]] = queued[Len(written) + k]

OutInv ==
    /\ WrittenInOrder
    /\ sock = "none" => pc[OP] = "unborn"
    /\ sock \in {"none", "open"} /\ pc[OP] # "done" => ToBeWritten

(* The quiet actions, those of input_processor and BpAdd leave this         *)
(* direction alone.                                                         *)
LEMMA OthersKeepOutput ==
    ASSUME IInv, BeforeConnect, Roomy, OutInv, Next, Quiet \/ BpAdd \/ HandleMsg
    PROVE  OutInv' /\ UNCHANGED <<queued, written>>
<1> USE ThreadsDistinct
<1>0. TypeOK /\ CellInHand /\ IP \in Consumers /\ OP \in Consumers /\ IP # OP
    BY DEF IInv, MessagesIntact, Consumers
<1>1. /\ UNCHANGED <<queued, written>>
      /\ sock' \in {"none", "open"} => sock \in {"none", "open"}
      /\ sock' = "none" => sock = "none" /\ (pc[OP] = "unborn" => pc'[OP] = "unborn")
    <2>1. CASE Main
        BY <2>1 DEF Main, Connect, ConnectFails, CtrlInitialized, StopBackend,
                    KillThreads, BeforeConnect, netVars, histVars
    <2>2. CASE BackendProcessor
        <3>1. pc'[OP] = pc[OP]
            BY <1>0, <2>2 DEF BackendProcessor, BpSelect, BpTouch, BpRead, BpReadEof,
                    BpReadError, BpAdd, BpClose, Goto, TypeOK
        <3>2. UNCHANGED <<queued, written>>
            BY <2>2 DEF BackendProcessor, BpSelect, BpTouch, BpRead, BpReadEof,
                        BpReadError, BpAdd, BpClose, histVars
        <3>3. UNCHANGED sock \/ sock' \in {"eof", "closed"}
            BY <2>2 DEF BackendProcessor, BpSelect, BpTouch, BpRead, BpReadEof,
                        BpReadError, BpAdd, BpClose, netVars
        <3> QED BY <3>1, <3>2, <3>3
    <2>3. ASSUME NEW t \in Consumers, Consume(t)
          PROVE  /\ UNCHANGED <<queued, written, sock>>
                 /\ pc[OP] = "unborn" => pc'[OP] = "unborn"
        <3>1. pc[t] # "unborn"
            BY <2>3 DEF Consume, FifoWait, FifoRemove, CheckCell, Detouch, At
        <3>2. t # OP => pc'[OP] = pc[OP]
            BY <1>0, <2>3 DEF Consume, FifoWait, FifoRemove, CheckCell, Detouch,
                              Goto, TypeOK
        <3>3. UNCHANGED <<queued, written, sock>>
            BY <2>3 DEF Consume, FifoWait, FifoRemove, CheckCell, Detouch,
                        netVars, histVars
        <3> QED BY <3>1, <3>2, <3>3
    <2>4. ASSUME NEW l \in Lcores,
                 CreateDigest(l) \/ CreateDigestNull(l) \/ AddDigestFields(l)
          PROVE  UNCHANGED <<queued, written, sock>> /\ pc'[OP] = pc[OP]
        <3>1. pc'[OP] = pc[OP]
            BY <1>0, <2>4 DEF CreateDigest, CreateDigestNull, AddDigestFields,
                              Goto, TypeOK
        <3> QED BY <2>4, <3>1 DEF CreateDigest, CreateDigestNull, AddDigestFields,
                                  netVars, histVars
    <2>5. CASE Environment
        BY <2>5 DEF Environment, ControllerSend, ControllerCloses, ConnectionReset,
                    SpuriousWakeup, WriteSigpipe, netVars, histVars
    <2>6. CASE HandleMsg
        <3>1. pc'[OP] = pc[OP]
            BY <1>0, <2>6 DEF HandleMsg, Goto, TypeOK
        <3> QED BY <2>6, <3>1 DEF HandleMsg, netVars
    <2>7. CASE Pool
        BY <2>7 DEF Pool, StartJob, netVars, histVars
    <2> QED BY <2>1, <2>2, <2>3, <2>4, <2>5, <2>6, <2>7 DEF Quiet, BackendProcessor
<1>2. ASSUME pc'[OP] # "done" PROVE pc[OP] # "done" /\ Pending(OP)' = Pending(OP)
    <2>1. CASE Quiet
        BY <1>0, <1>2, <2>1, QuietKeepsPending
    <2>2. CASE BpAdd
        <3>1. mem_cell[BP] \in Cells /\ BP \in Threads \ Consumers
            BY <1>0, <2>2 DEF BpAdd, At, CellInHand, TypeOK
        <3> QED BY <1>0, <1>2, <2>2, <3>1, AddedLast DEF BpAdd
    <2>3. CASE HandleMsg
        <3>1. At(IP, "use") /\ Goto(IP, "detouch") /\ UNCHANGED <<queue, mem_cell>>
            BY <2>3 DEF HandleMsg, fifoVars
        <3>2. Pending(OP)' = Pending(OP) /\ pc'[OP] = pc[OP]
            BY <1>0, <3>1, FirstUsed
        <3> QED BY <1>2, <3>2
    <2> QED BY <2>1, <2>2, <2>3
<1>3. \A k \in 1 .. Len(Pending(OP)) : data'[Pending(OP)[k]] = data[Pending(OP)[k]]
    BY <1>0, PendingContentsStay
<1>4. WrittenInOrder'
    BY <1>1 DEF OutInv, WrittenInOrder
<1>5. ASSUME sock' \in {"none", "open"}, pc'[OP] # "done" PROVE ToBeWritten'
    BY <1>1, <1>2, <1>3, <1>5 DEF OutInv, ToBeWritten
<1>6. sock' = "none" => pc'[OP] = "unborn"
    BY <1>1 DEF OutInv
<1> QED BY <1>1, <1>4, <1>5, <1>6 DEF OutInv

(* send_digest puts a digest behind those that wait.                        *)
LEMMA SendKeepsOutput ==
    ASSUME IInv, IInv', Roomy, OutInv, NEW l \in Lcores, SendDigest(l)
    PROVE  OutInv' /\ Out!Send
<1> USE ThreadsDistinct
<1> DEFINE p == Pending(OP)
           c == mem_cell[l]
           d == data[c]
<1>0. /\ TypeOK /\ TypeOK' /\ CellInHand /\ OP \in Consumers /\ l \in Threads \ Consumers
      /\ Len(written) \in Nat /\ Len(queued) \in Nat /\ Len(p) \in Nat
      /\ p \in Seq(Cells)
    BY Lengths, PendingCells DEF IInv, MessagesIntact, Consumers
<1>1. /\ UNCHANGED <<written, sock, data>> /\ pc[l] = "send"
      /\ c \in Cells /\ queued' = Append(queued, d)
    BY <1>0 DEF SendDigest, At, CellInHand, TypeOK, netVars, poolVars
<1>2. d \in Digest /\ queued \in Seq(Digest)
    BY <1>0, <1>1 DEF IInv, MessagesIntact, RightContents, MessageFor, TypeOK,
                      Consumers
<1>3. Pending(OP)' = Append(p, c) /\ pc'[OP] = pc[OP]
    BY <1>0, <1>1, AddedLast DEF SendDigest
<1>4. /\ Len(queued') = Len(queued) + 1 /\ queued'[Len(queued) + 1] = d
      /\ \A i \in 1 .. Len(queued) : queued'[i] = queued[i]
    <2> HIDE DEF d
    <2> QED BY <1>1, <1>2, AppendProperties
<1>5. WrittenInOrder'
    BY <1>0, <1>1, <1>4 DEF OutInv, WrittenInOrder
<1>6. ASSUME ToBeWritten PROVE ToBeWritten'
    <2> HIDE DEF p
    <2>1. Len(Append(p, c)) = Len(p) + 1 /\ Append(p, c)[Len(p) + 1] = c
          /\ \A k \in 1 .. Len(p) : Append(p, c)[k] = p[k]
        <3> HIDE DEF c
        <3> QED BY <1>0, <1>1, AppendProperties
    <2>2. /\ Len(written) + Len(p) = Len(queued)
          /\ \A k \in 1 .. Len(p) : data[p[k]] = queued[Len(written) + k]
        BY <1>6 DEF ToBeWritten, p
    <2>3. ASSUME NEW k \in 1 .. Len(p) + 1
          PROVE  data[Append(p, c)[k]] = queued'[Len(written) + k]
        <3>1. CASE k = Len(p) + 1
            <4>1. Len(written) + k = Len(queued) + 1
                BY <1>0, <2>2, <3>1
            <4> QED BY <1>4, <2>1, <3>1, <4>1
        <3>2. CASE k \in 1 .. Len(p)
            <4>1. Len(written) + k \in 1 .. Len(queued)
                BY <1>0, <2>2, <3>2
            <4> QED BY <1>4, <2>1, <2>2, <3>2, <4>1
        <3> QED BY <1>0, <3>1, <3>2
    <2>4. Len(written) + (Len(p) + 1) = Len(queued) + 1
        <3>1. \A i, j, k \in Nat : i + j = k => i + (j + 1) = k + 1
            OBVIOUS
        <3> QED BY <1>0, <2>2, <3>1
    <2> QED BY <1>1, <1>3, <1>4, <2>1, <2>3, <2>4 DEF ToBeWritten
<1>7. OutInv'
    BY <1>1, <1>3, <1>5, <1>6 DEF OutInv
<1> QED BY <1>1, <1>4, <1>7 DEF Out!Send

(* output_processor writes the digest that is next, or, the connection      *)
(* having ended, none.                                                      *)
LEMMA WriteKeepsOutput ==
    ASSUME IInv, OutInv, WriteMsg
    PROVE  OutInv' /\ (Out!Deliver \/ UNCHANGED <<queued, written>>)
<1> USE ThreadsDistinct
<1> DEFINE p == Pending(OP)
           n == Len(written)
<1>0. /\ TypeOK /\ OP \in Consumers /\ queued \in Seq(Digest) /\ written \in Seq(Digest)
      /\ n \in Nat /\ Len(queued) \in Nat /\ Len(p) \in Nat /\ p \in Seq(Cells)
    BY Lengths, PendingCells DEF IInv, TypeOK, Consumers
<1>1. /\ UNCHANGED <<queued, sock, data, queue, mem_cell>>
      /\ At(OP, "use") /\ Goto(OP, "detouch") /\ pc[OP] = "use" /\ pc'[OP] = "detouch"
      /\ written' = IF sock = "open" THEN Append(written, data[mem_cell[OP]]) ELSE written
    BY <1>0 DEF WriteMsg, At, Goto, TypeOK, netVars, poolVars, fifoVars
<1>2. CASE sock # "open"
    BY <1>1, <1>2 DEF OutInv, WrittenInOrder
<1>3. CASE sock = "open"
    <2>1. ToBeWritten /\ WrittenInOrder
        BY <1>1, <1>3 DEF OutInv
    <2>2. InHand(OP) /\ Pending(OP)' = Tail(p)
        BY <1>0, <1>1, FirstUsed
    <2>3. p[1] = mem_cell[OP] /\ Len(p) >= 1 /\ p # <<>>
        <3>1. p[1] = mem_cell[OP] /\ Len(p) >= 1
            BY <1>0, <2>2, PendingCells
        <3> HIDE DEF p
        <3> QED BY <3>1, EmptySeq
    <2>4. /\ n + Len(p) = Len(queued)
          /\ \A k \in 1 .. Len(p) : data[p[k]] = queued[n + k]
        BY <2>1 DEF ToBeWritten
    <2>5. data[mem_cell[OP]] = queued[n + 1] /\ n + 1 \in 1 .. Len(queued)
        <3>1. 1 \in 1 .. Len(p)
            BY <1>0, <2>3
        <3>2. data[p[1]] = queued[n + 1]
            BY <2>4, <3>1
        <3> HIDE DEF p, n
        <3> QED BY <1>0, <2>3, <2>4, <3>2
    <2>6. /\ written' = Append(written, queued[n + 1]) /\ Len(written') = n + 1
          /\ \A i \in 1 .. n : written'[i] = written[i]
          /\ written'[n + 1] = queued[n + 1]
        <3>1. queued[n + 1] \in Digest
            BY <1>0, <2>5, ElementOfSeq
        <3> QED BY <1>0, <1>1, <1>3, <2>5, <3>1, AppendProperties
    <2>7. WrittenInOrder'
        <3>1. \A i \in 1 .. n : written[i] = queued[i]
            BY <2>1 DEF WrittenInOrder
        <3> HIDE DEF n
        <3>2. \A i \in 1 .. n + 1 : written'[i] = queued[i]
            BY <1>0, <2>6, <3>1
        <3> QED BY <1>0, <1>1, <2>5, <2>6, <3>2 DEF WrittenInOrder
    <2>8. ToBeWritten'
        <3>1. Len(Tail(p)) = Len(p) - 1 /\ \A k \in 1 .. Len(p) - 1 : Tail(p)[k] = p[k + 1]
            <4> HIDE DEF p
            <4> QED BY <1>0, <2>3, HeadTailProperties
        <3>2. \A k \in 1 .. Len(Tail(p)) : data[Tail(p)[k]] = queued[Len(written') + k]
            <4> HIDE DEF p, n
            <4> TAKE k \in 1 .. Len(Tail(p))
            <4>1. k \in 1 .. Len(p) - 1 /\ k + 1 \in 1 .. Len(p) /\ n + (k + 1) = (n + 1) + k
                BY <1>0, <3>1
            <4>2. data[p[k + 1]] = queued[(n + 1) + k]
                BY <2>4, <4>1
            <4> QED BY <2>6, <3>1, <4>1, <4>2
        <3>3. Len(written') + Len(Tail(p)) = Len(queued)
            <4>1. \A i, j, k \in Nat : i + j = k => (i + 1) + (j - 1) = k
                OBVIOUS
            <4>2. (n + 1) + (Len(p) - 1) = Len(queued)
                BY <1>0, <2>4, <4>1
            <4> HIDE DEF p, n
            <4> QED BY <2>6, <3>1, <4>2
        <3> QED BY <1>1, <2>2, <3>2, <3>3 DEF ToBeWritten
    <2>9. OutInv'
        BY <1>1, <1>3, <2>7, <2>8 DEF OutInv
    <2> QED BY <1>0, <1>1, <2>5, <2>6, <2>9 DEF Out!Deliver
<1> QED BY <1>2, <1>3

(* At first no digest is on its way.                                        *)
LEMMA InitOutput == Init => OutInv
<1> SUFFICES ASSUME Init PROVE OutInv
    OBVIOUS
<1>1. pc[OP] = "unborn" /\ queue[OP] = <<>>
    BY ThreadsDistinct, LcoreAssumption DEF Init, Consumers
<1>2. Pending(OP) = <<>>
    BY <1>1 DEF Pending, InHand
<1>3. Len(<<>>) = 0
    OBVIOUS
<1> QED BY <1>1, <1>2, <1>3 DEF Init, OutInv, WrittenInOrder, ToBeWritten

(* Digests are written to the connection in the order in which send_digest  *)
(* was called, each once and as it was then, whichever cores they come      *)
(* from, until the connection ends: provided a fifo has room for the cells. *)
THEOREM OutputOrderCorrect ==
    ASSUME Roomy
    PROVE  Spec => DigestsInOrder
<1>1. Init => Out!Init
    BY DEF Init, Out!Init
<1>2. (Init => LeakInv) /\ (IInv /\ LeakInv /\ [Next]_vars => LeakInv')
    BY LeakInvariant
<1>3. IInv /\ IInv' /\ LeakInv /\ OutInv /\ [Next]_vars => OutInv' /\ [Out!Next]_Out!chanVars
    <2> SUFFICES ASSUME IInv, IInv', BeforeConnect, OutInv, [Next]_vars
                 PROVE  OutInv' /\ [Out!Next]_Out!chanVars
        BY DEF LeakInv
    <2>1. CASE UNCHANGED vars
        BY <2>1 DEF vars, poolVars, fifoVars, netVars, histVars, OutInv,
                    WrittenInOrder, ToBeWritten, Pending, InHand, Out!chanVars
    <2>2. CASE Next /\ (Quiet \/ BpAdd \/ HandleMsg)
        BY <2>2, OthersKeepOutput DEF Out!chanVars
    <2>3. CASE WriteMsg
        BY <2>3, WriteKeepsOutput DEF Out!Next, Out!chanVars
    <2>4. ASSUME NEW l \in Lcores, SendDigest(l) PROVE OutInv' /\ Out!Next
        BY <2>4, SendKeepsOutput DEF Out!Next
    <2> QED BY <2>1, <2>2, <2>3, <2>4, Actions
<1> QED BY <1>1, <1>2, <1>3, InitOutput, Invariant, PTL
        DEF Spec, DigestsInOrder, Out!Spec
=============================================================================
