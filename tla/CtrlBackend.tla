---------------------------- MODULE CtrlBackend ----------------------------
(***************************************************************************)
(* The switch's side of the control connection                             *)
(* (shared/ctrl_plane/ctrl_plane_backend.c): a fixed pool of memory cells, *)
(* an input and an output fifo of cells, and the threads that move cells   *)
(* between them.                                                           *)
(*                                                                         *)
(*   controller --wire--> backend_processor --input queue-->               *)
(*        input_processor --> recv_from_controller                         *)
(*   lcore (create/add/send digest) --output queue-->                      *)
(*        output_processor --> controller                                  *)
(*                                                                         *)
(* Everything done under memlock or under a fifo's lock is one step.  The  *)
(* pool is a set here (MemCells has its linked lists) and a fifo is a      *)
(* sequence (Fifo has its ring and its condition variable).  Each of the   *)
(* three jobs launch_backend dispatches is started at some time later, or  *)
(* never: the pool may strand any of them (ThreadPool).  It may also start *)
(* one twice, but only after the second unlock of do_work freed a mutex in *)
(* use; that case is left to ThreadPool, and each job is one thread here.  *)
(***************************************************************************)
EXTENDS Naturals, Sequences, FiniteSets

CONSTANTS
    Cells,        \* the queue_size memory cells of create_backend
    NoCell,       \* the null mem_cell_t pointer
    Blank,        \* the contents of a cell nobody has written yet
    Lcores,       \* the data-plane cores that send digests
    QueueCap,     \* P4_BG_QUEUE_SIZE
    Kinds,        \* the kinds of message the controller may send
    MaxIn,        \* bound: messages sent by the controller
    MaxDigests,   \* bound: digests created by each core
    Faults        \* what may go wrong or be ended: see AllFaults

BP == "backend_processor"
IP == "input_processor"
OP == "output_processor"

Consumers == {IP, OP}
Threads   == {BP, IP, OP} \cup Lcores
AllKinds  == {"TABLE", "INITIALIZED", "BAD", "UNKNOWN"}
AllFaults == {"noconnect", "eof", "reset", "stop"}

ASSUME CellsAssumption  == NoCell \notin Cells
ASSUME LcoreAssumption  == Lcores \cap {BP, IP, OP} = {}
ASSUME BoundsAssumption ==
    /\ QueueCap \in Nat \ {0}
    /\ MaxIn \in Nat /\ MaxDigests \in Nat
    /\ Kinds \subseteq AllKinds /\ Faults \subseteq AllFaults

(* A message of the controller: SET_DEFAULT_ACTION and ADD_TABLE_ENTRY are  *)
(* "TABLE"; "BAD" is one that handle_p4_msg rejects with a negative value   *)
(* before it calls the callback; "UNKNOWN" has a type it does not know.  A  *)
(* digest is complete once its fields are added.                            *)
CtrlMsg == [kind : AllKinds, seq : Nat]
Digest  == [core : Lcores, seq : Nat, complete : BOOLEAN]

VARIABLES
    unused,       \* the cells on the unused list; all others are on the used list
    data,         \* the contents of each cell
    queue,        \* input_queue and output_queue, named by their consumer
    waiting,      \* the consumers blocked in pthread_cond_wait(not_empty)
    pc,           \* where each thread is
    mem_cell,     \* the local variable mem_cell of each thread
    main_pc,      \* the main thread: connect, spin, running, stopping
    ctrl_is_initialized,
    shutdown,
    sock,         \* controller_sock: none, open, eof, reset, closed
    alive,        \* FALSE once a signal has ended the process
    wire,         \* controller messages not yet read from controller_sock
    sent,         \* history: what the controller sent
    processed,    \* history: what handle_p4_msg was called with
    queued,       \* history: the digests given to send_digest
    written       \* history: the digests written to an open connection

poolVars == <<unused, data>>
fifoVars == <<queue, waiting>>
mainVars == <<main_pc, ctrl_is_initialized, shutdown, alive>>
netVars  == <<sock, wire, sent>>
histVars == <<processed, queued, written>>
vars == <<poolVars, fifoVars, pc, mem_cell, mainVars, netVars, histVars>>
-----------------------------------------------------------------------------
Init ==
    /\ unused = Cells
    /\ data = [c \in Cells |-> Blank]
    /\ queue = [t \in Consumers |-> <<>>]
    /\ waiting = {}
    /\ pc = [t \in Threads |-> IF t \in Lcores THEN "idle" ELSE "unborn"]
    /\ mem_cell = [t \in Threads |-> NoCell]
    /\ main_pc = "connect"
    /\ ctrl_is_initialized = FALSE
    /\ shutdown = FALSE
    /\ sock = "none"
    /\ alive = TRUE
    /\ wire = <<>>
    /\ sent = <<>> /\ processed = <<>> /\ queued = <<>> /\ written = <<>>

Goto(t, label) == pc' = [pc EXCEPT ![t] = label]
SetCell(t, c)  == mem_cell' = [mem_cell EXCEPT ![t] = c]
At(t, label)   == alive /\ pc[t] = label

(* Mutants: a stack; no signal. *)
FifoAddInFront(q, c) ==
    /\ queue' = [queue EXCEPT ![q] = <<c>> \o @]
    /\ waiting' = waiting \ {q}

FifoAddSilent(q, c) ==
    /\ queue' = IF Len(queue[q]) < QueueCap
                THEN [queue EXCEPT ![q] = Append(@, c)] ELSE queue
    /\ UNCHANGED waiting

(* fifo_add_msg: a message that finds the fifo full is dropped silently.    *)
FifoAdd(q, c) ==
    IF Len(queue[q]) < QueueCap
    THEN /\ queue' = [queue EXCEPT ![q] = Append(@, c)]
         /\ waiting' = waiting \ {q}
    ELSE UNCHANGED fifoVars
-----------------------------------------------------------------------------
(* The main thread: launch_backend, then the data plane; stop_backend ends  *)
(* with destroy_threadpool's SIGUSR1, which no thread of the process        *)
(* handles.                                                                 *)
Connect ==
    /\ alive /\ main_pc = "connect"
    /\ main_pc' = "spin"
    /\ sock' = "open"
    /\ UNCHANGED <<poolVars, fifoVars, pc, mem_cell, ctrl_is_initialized,
                   shutdown, alive, wire, sent, histVars>>

(* A pool thread takes the job t that launch_backend has dispatched. *)
StartJob(t) ==
    /\ At(t, "unborn") /\ sock # "none"
    /\ Goto(t, IF t = BP THEN "select" ELSE "wait")
    /\ UNCHANGED <<poolVars, fifoVars, mem_cell, mainVars, netVars, histVars>>

ConnectFails ==
    /\ alive /\ main_pc = "connect" /\ "noconnect" \in Faults
    /\ main_pc' = "running"
    /\ UNCHANGED <<poolVars, fifoVars, pc, mem_cell, ctrl_is_initialized,
                   shutdown, alive, netVars, histVars>>

(* Mutant: launch_backend does not wait. *)
CtrlNotAwaited ==
    /\ alive /\ main_pc = "spin"
    /\ main_pc' = "running"
    /\ UNCHANGED <<poolVars, fifoVars, pc, mem_cell, ctrl_is_initialized,
                   shutdown, alive, netVars, histVars>>

CtrlInitialized ==
    /\ alive /\ main_pc = "spin" /\ ctrl_is_initialized
    /\ main_pc' = "running"
    /\ UNCHANGED <<poolVars, fifoVars, pc, mem_cell, ctrl_is_initialized,
                   shutdown, alive, netVars, histVars>>

StopBackend ==
    /\ alive /\ main_pc = "running" /\ "stop" \in Faults
    /\ main_pc' = "stopping"
    /\ shutdown' = TRUE
    /\ UNCHANGED <<poolVars, fifoVars, pc, mem_cell, ctrl_is_initialized,
                   alive, netVars, histVars>>

KillThreads ==
    /\ alive /\ main_pc = "stopping"
    /\ alive' = FALSE
    /\ UNCHANGED <<poolVars, fifoVars, pc, mem_cell, main_pc,
                   ctrl_is_initialized, shutdown, netVars, histVars>>
-----------------------------------------------------------------------------
(* backend_processor.  select returns when there is something to read, or   *)
(* after five seconds; the flag is looked at each time.                     *)
Readable == wire # <<>> \/ sock \in {"eof", "reset"}

BpSelect ==
    /\ At(BP, "select")
    /\ shutdown \/ Readable
    /\ Goto(BP, IF shutdown THEN "close" ELSE "touch")
    /\ UNCHANGED <<poolVars, fifoVars, mem_cell, mainVars, netVars, histVars>>

(* touch_mem_cell, tried again every millisecond until a cell is free *)
BpTouch ==
    /\ At(BP, "touch")
    /\ \E c \in unused :
          /\ unused' = unused \ {c}
          /\ SetCell(BP, c)
    /\ Goto(BP, "read")
    /\ UNCHANGED <<data, fifoVars, mainVars, netVars, histVars>>

(* read_p4_msg > 0 *)
BpRead ==
    /\ At(BP, "read")
    /\ wire # <<>>
    /\ data' = [data EXCEPT ![mem_cell[BP]] = Head(wire)]
    /\ wire' = Tail(wire)
    /\ Goto(BP, "add")
    /\ UNCHANGED <<unused, fifoVars, mem_cell, mainVars, sock, sent, histVars>>

(* read_p4_msg = 0: the loop is left, and mem_cell with it *)
BpReadEof ==
    /\ At(BP, "read")
    /\ wire = <<>> /\ sock = "eof"
    /\ SetCell(BP, NoCell)
    /\ Goto(BP, "close")
    /\ UNCHANGED <<poolVars, fifoVars, mainVars, netVars, histVars>>

(* read_p4_msg < 0: the loop goes on with another cell *)
BpReadError ==
    /\ At(BP, "read")
    /\ sock = "reset"
    /\ sock' = "eof"
    /\ SetCell(BP, NoCell)
    /\ Goto(BP, "select")
    /\ UNCHANGED <<poolVars, fifoVars, mainVars, wire, sent, histVars>>

(* Mutants: the message goes to the output queue; the cell is given back as *)
(* soon as it is queued.                                                    *)
BpAddWrongQueue ==
    /\ At(BP, "add")
    /\ FifoAdd(OP, mem_cell[BP])
    /\ SetCell(BP, NoCell)
    /\ Goto(BP, "select")
    /\ UNCHANGED <<poolVars, mainVars, netVars, histVars>>

BpAddAndDetouch ==
    /\ At(BP, "add")
    /\ FifoAdd(IP, mem_cell[BP])
    /\ unused' = unused \cup {mem_cell[BP]}
    /\ SetCell(BP, NoCell)
    /\ Goto(BP, "select")
    /\ UNCHANGED <<data, mainVars, netVars, histVars>>

BpAdd ==
    /\ At(BP, "add")
    /\ FifoAdd(IP, mem_cell[BP])
    /\ SetCell(BP, NoCell)
    /\ Goto(BP, "select")
    /\ UNCHANGED <<poolVars, mainVars, netVars, histVars>>

BpClose ==
    /\ At(BP, "close")
    /\ sock' = "closed"
    /\ Goto(BP, "done")
    /\ UNCHANGED <<poolVars, fifoVars, mem_cell, mainVars, wire, sent, histVars>>
-----------------------------------------------------------------------------
(* What input_processor and output_processor have in common. *)

(* fifo_wait: an if, not a while, around pthread_cond_wait *)
FifoWait(t) ==
    /\ At(t, "wait")
    /\ waiting' = IF queue[t] = <<>> THEN waiting \cup {t} ELSE waiting
    /\ Goto(t, "remove")
    /\ UNCHANGED <<poolVars, queue, mem_cell, mainVars, netVars, histVars>>

(* pthread_cond_wait may return without a signal *)
SpuriousWakeup(t) ==
    /\ alive /\ t \in waiting
    /\ waiting' = waiting \ {t}
    /\ UNCHANGED <<poolVars, queue, pc, mem_cell, mainVars, netVars, histVars>>

(* Mutant: the last message is returned first. *)
FifoRemoveLast(t) ==
    /\ At(t, "remove") /\ t \notin waiting
    /\ LET n == Len(queue[t])
       IN  /\ SetCell(t, IF n = 0 THEN NoCell ELSE queue[t][n])
           /\ queue' = IF n = 0 THEN queue
                       ELSE [queue EXCEPT ![t] = SubSeq(@, 1, n - 1)]
    /\ Goto(t, "check")
    /\ UNCHANGED <<poolVars, waiting, mainVars, netVars, histVars>>

(* fifo_remove_msg: null when the fifo is empty *)
FifoRemove(t) ==
    /\ At(t, "remove") /\ t \notin waiting
    /\ SetCell(t, IF queue[t] = <<>> THEN NoCell ELSE Head(queue[t]))
    /\ queue' = IF queue[t] = <<>> THEN queue
                ELSE [queue EXCEPT ![t] = Tail(@)]
    /\ Goto(t, "check")
    /\ UNCHANGED <<poolVars, waiting, mainVars, netVars, histVars>>

(* Mutant: a null cell ends the thread. *)
CheckCellBreak(t) ==
    /\ At(t, "check")
    /\ IF shutdown \/ mem_cell[t] = NoCell
       THEN Goto(t, "done") /\ SetCell(t, NoCell)
       ELSE Goto(t, "use") /\ UNCHANGED mem_cell
    /\ UNCHANGED <<poolVars, fifoVars, mainVars, netVars, histVars>>

(* shutdown leaves the loop with the cell in hand; null goes round again *)
CheckCell(t) ==
    /\ At(t, "check")
    /\ IF shutdown
       THEN Goto(t, "done") /\ SetCell(t, NoCell)
       ELSE /\ Goto(t, IF mem_cell[t] = NoCell THEN "wait" ELSE "use")
            /\ UNCHANGED mem_cell
    /\ UNCHANGED <<poolVars, fifoVars, mainVars, netVars, histVars>>

(* detouch_mem_cell *)
Detouch(t) ==
    /\ At(t, "detouch")
    /\ unused' = unused \cup {mem_cell[t]}
    /\ SetCell(t, NoCell)
    /\ Goto(t, "wait")
    /\ UNCHANGED <<data, fifoVars, mainVars, netVars, histVars>>

(* Mutants: a message that is rejected is skipped with its cell; the flag   *)
(* follows the last message.                                                *)
HandleMsgSkips ==
    /\ At(IP, "use")
    /\ LET m == data[mem_cell[IP]]
       IN  /\ processed' = Append(processed, m)
           /\ ctrl_is_initialized' =
                 (ctrl_is_initialized \/ m.kind = "INITIALIZED")
           /\ IF m.kind = "BAD"
              THEN Goto(IP, "wait") /\ SetCell(IP, NoCell)
              ELSE Goto(IP, "detouch") /\ UNCHANGED mem_cell
    /\ UNCHANGED <<poolVars, fifoVars, main_pc, shutdown, alive, netVars,
                   queued, written>>

HandleMsgResets ==
    /\ At(IP, "use")
    /\ processed' = Append(processed, data[mem_cell[IP]])
    /\ ctrl_is_initialized' = (data[mem_cell[IP]].kind = "INITIALIZED")
    /\ Goto(IP, "detouch")
    /\ UNCHANGED <<poolVars, fifoVars, mem_cell, main_pc, shutdown, alive,
                   netVars, queued, written>>

(* The types the callback may find in ctrl_m: for a message of unknown type *)
(* handle_p4_msg calls it without having written ctrl_m, which then holds   *)
(* whatever was on the stack.                                               *)
TypesSeen(m) == IF m.kind = "UNKNOWN" THEN AllKinds ELSE {m.kind}

(* input_processor: handle_p4_msg and, through the callback,                *)
(* recv_from_controller.  A table name that is a stray pointer may end the  *)
(* process.                                                                 *)
HandleMsg ==
    /\ At(IP, "use")
    /\ LET m == data[mem_cell[IP]]
       IN  /\ processed' = Append(processed, m)
           /\ \E type \in TypesSeen(m) :
                 /\ ctrl_is_initialized' =
                       (ctrl_is_initialized \/ type = "INITIALIZED")
                 /\ alive' \in (IF m.kind = "UNKNOWN" /\ type = "TABLE"
                                THEN BOOLEAN ELSE {alive})
    /\ Goto(IP, "detouch")
    /\ UNCHANGED <<poolVars, fifoVars, mem_cell, main_pc, shutdown,
                   netVars, queued, written>>

(* output_processor: write_p4_msg, whose result is ignored.  On a           *)
(* connection the peer has closed the write is lost, or raises SIGPIPE.     *)
WriteMsg ==
    /\ At(OP, "use")
    /\ written' = IF sock = "open"
                  THEN Append(written, data[mem_cell[OP]]) ELSE written
    /\ Goto(OP, "detouch")
    /\ UNCHANGED <<poolVars, fifoVars, mem_cell, mainVars, netVars,
                   processed, queued>>

WriteSigpipe ==
    /\ At(OP, "use") /\ sock \in {"eof", "reset"}
    /\ alive' = FALSE
    /\ UNCHANGED <<poolVars, fifoVars, pc, mem_cell, main_pc,
                   ctrl_is_initialized, shutdown, netVars, histVars>>
-----------------------------------------------------------------------------
(* A digest sent by extern_Digest_pack on core l. *)
DigestsOf(l) == Cardinality({i \in DOMAIN queued : queued[i].core = l})

(* create_digest: touch_mem_cell and the header *)
CreateDigest(l) ==
    /\ At(l, "idle") /\ main_pc = "running"
    /\ DigestsOf(l) < MaxDigests
    /\ \E c \in unused :
          /\ unused' = unused \ {c}
          /\ SetCell(l, c)
          /\ data' = [data EXCEPT ![c] = [core |-> l, seq |-> DigestsOf(l) + 1,
                                          complete |-> FALSE]]
    /\ Goto(l, "fill")
    /\ UNCHANGED <<fifoVars, mainVars, netVars, histVars>>

(* no free cell: create_digest returns null and add_digest_field reads      *)
(* through it                                                               *)
CreateDigestNull(l) ==
    /\ At(l, "idle") /\ main_pc = "running"
    /\ DigestsOf(l) < MaxDigests
    /\ unused = {}
    /\ alive' = FALSE
    /\ UNCHANGED <<poolVars, fifoVars, pc, mem_cell, main_pc,
                   ctrl_is_initialized, shutdown, netVars, histVars>>

AddDigestFields(l) ==
    /\ At(l, "fill")
    /\ data' = [data EXCEPT ![mem_cell[l]] =
                   [core |-> @.core, seq |-> @.seq, complete |-> TRUE]]
    /\ Goto(l, "send")
    /\ UNCHANGED <<unused, fifoVars, mem_cell, mainVars, netVars, histVars>>

(* Mutant: the digest is sent before its fields are added. *)
SendDigestEarly(l) ==
    /\ At(l, "fill")
    /\ FifoAdd(OP, mem_cell[l])
    /\ queued' = Append(queued, data[mem_cell[l]])
    /\ SetCell(l, NoCell)
    /\ Goto(l, "idle")
    /\ UNCHANGED <<poolVars, mainVars, netVars, processed, written>>

SendDigest(l) ==
    /\ At(l, "send")
    /\ FifoAdd(OP, mem_cell[l])
    /\ queued' = Append(queued, data[mem_cell[l]])
    /\ SetCell(l, NoCell)
    /\ Goto(l, "idle")
    /\ UNCHANGED <<poolVars, mainVars, netVars, processed, written>>
-----------------------------------------------------------------------------
(* The controller at the other end of the connection. *)
ControllerSend(k) ==
    /\ alive /\ sock = "open" /\ Len(sent) < MaxIn
    /\ LET m == [kind |-> k, seq |-> Len(sent) + 1]
       IN  sent' = Append(sent, m) /\ wire' = Append(wire, m)
    /\ UNCHANGED <<poolVars, fifoVars, pc, mem_cell, mainVars, sock, histVars>>

ControllerCloses ==
    /\ alive /\ sock = "open" /\ "eof" \in Faults
    /\ sock' = "eof"
    /\ UNCHANGED <<poolVars, fifoVars, pc, mem_cell, mainVars, wire, sent,
                   histVars>>

(* a reset connection loses what was not read yet *)
ConnectionReset ==
    /\ alive /\ sock = "open" /\ "reset" \in Faults
    /\ sock' = "reset"
    /\ wire' = <<>>
    /\ UNCHANGED <<poolVars, fifoVars, pc, mem_cell, mainVars, sent, histVars>>
-----------------------------------------------------------------------------
Pool == \E t \in {BP, IP, OP} : StartJob(t)

BackendProcessor ==
    BpSelect \/ BpTouch \/ BpRead \/ BpReadEof \/ BpReadError \/ BpAdd \/ BpClose

Consume(t) == FifoWait(t) \/ FifoRemove(t) \/ CheckCell(t) \/ Detouch(t)

InputProcessor  == Consume(IP) \/ HandleMsg
OutputProcessor == Consume(OP) \/ WriteMsg

Lcore(l) == CreateDigest(l) \/ CreateDigestNull(l) \/ AddDigestFields(l)
                \/ SendDigest(l)

Main == Connect \/ ConnectFails \/ CtrlInitialized \/ StopBackend \/ KillThreads

Environment ==
    \/ \E k \in Kinds : ControllerSend(k)
    \/ ControllerCloses
    \/ ConnectionReset
    \/ \E t \in Consumers : SpuriousWakeup(t)
    \/ WriteSigpipe

Next ==
    \/ Main
    \/ BackendProcessor
    \/ InputProcessor
    \/ OutputProcessor
    \/ Pool
    \/ \E l \in Lcores : Lcore(l)
    \/ Environment

Spec == Init /\ [][Next]_vars

(* The operating system schedules every thread: the main thread once the    *)
(* flag is set, the pool threads that have a job, and a core inside a       *)
(* digest.  Nothing makes the pool start a job.                             *)
Fairness ==
    /\ WF_vars(Connect \/ CtrlInitialized)
    /\ WF_vars(BackendProcessor)
    /\ WF_vars(InputProcessor)
    /\ WF_vars(OutputProcessor)
    /\ \A l \in Lcores : WF_vars(AddDigestFields(l) \/ SendDigest(l))

FairSpec == Spec /\ Fairness
-----------------------------------------------------------------------------
RangeOf(q) == {q[i] : i \in DOMAIN q}

(* The cells some thread or queue can still reach; the other used cells are *)
(* lost until destroy_backend.                                              *)
Held      == {mem_cell[t] : t \in Threads}
Reachable == Held \cup RangeOf(queue[IP]) \cup RangeOf(queue[OP])
Leaked    == (Cells \ unused) \ Reachable

(* Every variable keeps its type, and no fifo holds more than its ring has  *)
(* room for (fifo_add_msg's bound check).                                   *)
TypeOK ==
    /\ unused \subseteq Cells
    /\ data \in [Cells -> CtrlMsg \cup Digest \cup {Blank}]
    /\ queue \in [Consumers -> Seq(Cells)]
    /\ \A t \in Consumers : Len(queue[t]) <= QueueCap
    /\ waiting \subseteq Consumers
    /\ pc \in [Threads -> {"unborn", "idle", "fill", "send", "select", "touch",
                           "read", "add", "close", "wait", "remove", "check",
                           "use", "detouch", "done"}]
    /\ mem_cell \in [Threads -> Cells \cup {NoCell}]
    /\ main_pc \in {"connect", "spin", "running", "stopping"}
    /\ ctrl_is_initialized \in BOOLEAN /\ shutdown \in BOOLEAN
    /\ alive \in BOOLEAN
    /\ sock \in {"none", "open", "eof", "reset", "closed"}
    /\ wire \in Seq(CtrlMsg) /\ sent \in Seq(CtrlMsg)
    /\ processed \in Seq(CtrlMsg)
    /\ queued \in Seq(Digest) /\ written \in Seq(Digest)

(* What the reader of a queue expects in a cell: a message of the           *)
(* controller, or a digest with all its fields filled in.                   *)
MessageFor(t) == IF t = IP THEN CtrlMsg ELSE {d \in Digest : d.complete}

CellInHand ==
    \A t \in Threads :
        pc[t] \in {"read", "add", "use", "detouch", "fill", "send"} =>
            mem_cell[t] # NoCell

RightContents ==
    /\ \A t \in Consumers : \A c \in RangeOf(queue[t]) : data[c] \in MessageFor(t)
    /\ \A t \in Consumers :
          pc[t] \in {"check", "use"} /\ mem_cell[t] # NoCell =>
              data[mem_cell[t]] \in MessageFor(t)
    /\ pc[BP] = "add" => data[mem_cell[BP]] \in CtrlMsg
    /\ \A l \in Lcores :
          /\ pc[l] = "fill" => data[mem_cell[l]] \in Digest
          /\ pc[l] = "send" => data[mem_cell[l]] \in MessageFor(OP)

(* What a thread that works on a cell relies on: it has one, and between    *)
(* the moment a cell is queued and the moment it is given back nobody else  *)
(* writes to it, so that input_processor finds a message of the controller  *)
(* in it and output_processor a complete digest.                            *)
MessagesIntact == CellInHand /\ RightContents

FreeCellsUnreachable == unused \cap Reachable = {}

HoldersDisjoint ==
    \A s, t \in Threads : s # t /\ mem_cell[s] = mem_cell[t] => mem_cell[s] = NoCell

QueuedOnce ==
    \A t \in Consumers : \A i, j \in DOMAIN queue[t] :
        queue[t][i] = queue[t][j] => i = j

QueuesDisjoint ==
    /\ RangeOf(queue[IP]) \cap RangeOf(queue[OP]) = {}
    /\ \A t \in Consumers : RangeOf(queue[t]) \cap Held = {}

(* A cell has one owner: the unused list, one place in one queue, or one    *)
(* thread that is working on it.  Without this touch_mem_cell would hand    *)
(* out a cell whose message is still being read, and a second               *)
(* detouch_mem_cell would corrupt both lists.                               *)
CellsOwnedOnce ==
    FreeCellsUnreachable /\ HoldersDisjoint /\ QueuedOnce /\ QueuesDisjoint

(* While the connection is up and nobody stops the backend no cell is lost: *)
(* every path of the three threads and of the digest calls gives its cell   *)
(* back or passes it on.  (QueueCap must cover the cells, as 1024 does 1000.)*)
NoLeak == sock \in {"none", "open"} /\ ~shutdown => Leaked = {}

(* A lost connection costs at most the cell of the failed read and the one  *)
(* each finished thread had in hand.                                        *)
LeakBound ==
    Cardinality(Leaked)
        <= 1 + Cardinality({t \in {BP, IP, OP} : pc[t] \in {"close", "done"}})

(* launch_backend returns, and main goes on to start the cores, only after  *)
(* everything the controller sent ahead of CTRL_INITIALIZED was handled:    *)
(* no packet meets a half-filled table.                                     *)
ConfiguredBeforeRunning ==
    main_pc = "running" /\ sock # "none" =>
        \A i \in DOMAIN sent :
            (\A j \in 1..i : sent[j].kind # "INITIALIZED") =>
                i <= Len(processed) /\ processed[i] = sent[i]

(* A message of unknown type is skipped, as handle_p4_msg's warning says    *)
(* (handlers.c:60): nothing else changes because of it.                     *)
UnknownSkipped ==
    [][LET n == Len(processed')
       IN  n > Len(processed) /\ processed'[n].kind = "UNKNOWN"
             => UNCHANGED <<ctrl_is_initialized, alive>>]_vars

(* Controller messages reach handle_p4_msg in the order sent, and digests   *)
(* reach the socket in the order of send_digest, each once and with the     *)
(* contents they had when they were queued.                                 *)
In  == INSTANCE Channel WITH delivered <- processed
Out == INSTANCE Channel WITH sent <- queued, delivered <- written
InputInOrder   == In!Spec
DigestsInOrder == Out!Spec

Started(t) == pc[t] # "unborn"

(* Once the pool has started all three jobs, every message sent is handled, *)
(* also when the controller closes its end behind it and however few cells  *)
(* there are, unless the connection is reset, the backend stopped, or the   *)
(* process ended (an empty pool under create_digest, SIGPIPE).  All three   *)
(* are needed: cells of digests come back through output_processor.         *)
InputHandled ==
    \A n \in 1..MaxIn :
        Len(sent) >= n /\ (\A t \in {BP, IP, OP} : Started(t)) ~>
            Len(processed) >= n \/ ~alive

(* While the connection is open every digest queued is written, once the    *)
(* pool has started output_processor.                                       *)
DigestsWritten ==
    \A n \in 1..(MaxDigests * Cardinality(Lcores)) :
        Len(queued) >= n /\ Started(OP) ~>
            Len(written) >= n \/ ~alive \/ sock # "open"

(* The switch comes up once the controller has sent CTRL_INITIALIZED, even  *)
(* if it goes away then, and whether or not output_processor ever starts;   *)
(* the two jobs that read must have.                                        *)
DataPlaneStarts ==
    (\E i \in DOMAIN sent : sent[i].kind = "INITIALIZED")
      /\ Started(BP) /\ Started(IP) ~>
        main_pc # "spin" \/ ~alive
=============================================================================
