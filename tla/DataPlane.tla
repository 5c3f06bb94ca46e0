------------------------------ MODULE DataPlane ------------------------------
(***************************************************************************)
(* The main loop of the cores (main.c) with the driver for real ports      *)
(* (dpdk_nicon.c), the set-up of ports, queues and cores                   *)
(* (dpdk_lib_init_hw.c), one table and one register of the program.        *)
(*                                                                         *)
(* Every core drains its transmit queues when it is time to, receives a    *)
(* burst from each of its receive queues, and takes each packet through    *)
(* the table, the register and the transmit queue of its port.             *)
(*                                                                         *)
(* A packet is its number in scenario.packets, and travels in a buffer     *)
(* (mbuf) as the pair <<buffer, packet>>.  The program applies one table:  *)
(* the value of an entry says what its action does, [act, port] with act   *)
(* "forward", "drop", "broadcast" or "none" (which leaves the egress port  *)
(* alone), and may then count packets in a register.  A change of the      *)
(* table is one step, between the lookups of the cores (see TableReplica). *)
(***************************************************************************)
EXTENDS Tables, Integers

CONSTANTS
    Scenarios,   \* what may be run: records of
                 \*   cores      the enabled lcores
                 \*   params     lcore_params: [port, queue, lcore]
                 \*   ports      ports on the board (nb_ports)
                 \*   mask       the enabled ports
                 \*   type, key_size, hash_entries, index_range  the table
                 \*   preset, ops, changes  changes made before the cores
                 \*              start, those that may follow, and how many
                 \*   launches   launch_count, 1 but in a suite of tests
                 \*   packets    what arrives: [port, queue, key]
                 \*   block      of the register: "none", "plain", "atomic"
    Cores,       \* RTE_MAX_LCORE
    Ports,       \* RTE_MAX_ETHPORTS
    MaxQueue,    \* MAX_TX_QUEUE_PER_PORT
    MaxRxQueue,  \* MAX_RX_QUEUE_PER_LCORE
    MaxPortRxQueue, \* MAX_RX_QUEUE_PER_PORT
    Burst,       \* MAX_PKT_BURST
    NbMbuf       \* NB_MBUF

ASSUME ConstAssumption ==
    /\ Cores \subseteq Nat /\ Ports \subseteq Nat /\ 0 \in Ports
    /\ {MaxQueue, MaxRxQueue, MaxPortRxQueue, Burst, NbMbuf} \subseteq Nat \ {0}

Mbufs   == 1 .. NbMbuf
Nobody  == -1
RxQueue == {<<q.port, q.queue>> : q \in UNION {Range(s.params) : s \in Scenarios}}

(* Packets arrive at receive queues that are set up, and all keys are as long *)
(* as the program says.  Changes are made with what their type of table needs *)
(* and forward to ports that tx_mbufs has.                                    *)
MayBeChanged(s, op) ==
    /\ op.kind \in {"add", "default"}
    /\ op.value.act = "forward" => op.value.port \in Ports
    /\ op.kind = "add" => op.key \in Seq(Nat)
    /\ op.kind = "add" /\ s.type = "lpm" => op.depth \in 0 .. Len(op.key)
    /\ op.kind = "add" /\ s.type = "ternary" =>
          /\ op.mask \in Seq({0, 1})
          /\ \A p \in Range(s.packets) : Len(op.key) = Len(p.key) /\ Len(op.mask) = Len(p.key)

ASSUME ScenarioAssumption ==
    \A s \in Scenarios :
        /\ s.params \in Seq([port : Nat, queue : Nat, lcore : Nat])
        /\ s.packets \in Seq([port : Nat, queue : Nat, key : Seq(Nat)])
        /\ \A p \in Range(s.packets) : <<p.port, p.queue>> \in RxQueue
        /\ \A p, q \in Range(s.packets) : Len(p.key) = Len(q.key)
        /\ s.type \in {"exact", "lpm", "ternary"} /\ s.index_range \in Nat \ {0}
        /\ s.preset \in Seq(Range(s.preset))
        /\ \A op \in Range(s.preset) \cup s.ops : MayBeChanged(s, op)

VARIABLES
    scenario,
    alive,       \* the process runs
    changes,     \* changes made to the table, in order
    table,       \* the copy that the cores use
    \* the ports
    arrived,     \* packets that arrived, in the order of scenario.packets
    rx,          \* receive queues
    nic,         \* buffers that the driver has transmitted and not yet freed
    out,         \* what each port transmitted, in order: <<core, packet>>
    pool,        \* free buffers of pktmbuf_pool
    \* the cores
    pc,          \* pre, rx, next, key, read, write, tx; off without receive queues
    queue_idx,   \* the receive queue
    burst,       \* packets received and not yet handled; the first is in hand
    step,        \* steps done of the computation of its key
    key,         \* ... its key so far
    raced,       \* ... another core computed one at the same time
    entry,       \* ... the entry found
    value,       \* ... the value read from the register
    late,        \* drain_tsc has passed since prev_tsc
    tx,          \* tx_mbufs, up to len
    \* shared by the cores
    buffer,      \* reverse_buffer and the static key128 of lpm_lookup
    reg, lock,   \* the register and the lock of the control block
    counted,     \* packets that the register has counted
    lost         \* buffers that broadcast_packet leaves behind

coreVars  == <<pc, queue_idx, burst, step, key, raced, entry, value, late, tx>>
portVars  == <<arrived, rx, nic, out, pool>>
tableVars == <<changes, table>>
vars == <<scenario, alive, tableVars, portVars, coreVars, buffer, reg, lock, counted, lost>>

Least(S) == CHOOSE x \in S : \A y \in S : x <= y
Present  == {p \in scenario.mask : p < scenario.ports}
-----------------------------------------------------------------------------
(* Set-up.                                                                  *)
init_lcore_rx_queues(s, c) ==
    LET list[i \in 0 .. Len(s.params)] ==
            IF i = 0 THEN << >>
            ELSE IF s.params[i].lcore = c THEN Append(list[i - 1], s.params[i])
            ELSE list[i - 1]
    IN  list[Len(s.params)]

(* every enabled port gives each enabled core a transmit queue *)
tx_queue_id(s, c) == Cardinality({d \in s.cores : d < c})

check_port_config(s) ==
    \A q \in Range(s.params) : q.port \in s.mask /\ q.port < s.ports

check_lcore_params(s) ==
    \A q \in Range(s.params) : q.queue < MaxPortRxQueue /\ q.lcore \in s.cores

dpdk_init_nic(s) ==
    /\ check_lcore_params(s) /\ check_port_config(s)
    /\ \A c \in s.cores : Len(init_lcore_rx_queues(s, c)) <= MaxRxQueue
    /\ \A c \in s.cores : tx_queue_id(s, c) < MaxQueue

rx_queue_list(c) == init_lcore_rx_queues(scenario, c)

(* the table before the cores start *)
create_tables(s) ==
    LET after[i \in 0 .. Len(s.preset)] ==
            IF i = 0
            THEN create_table(s.type, s.key_size, s.hash_entries, s.index_range)
            ELSE ApplyChange(after[i - 1], s.preset[i])
    IN  after[Len(s.preset)]

Init ==
    /\ scenario \in Scenarios
    /\ changes = scenario.preset
    /\ table = create_tables(scenario)
    /\ alive = (dpdk_init_nic(scenario) /\ ~table.exited)
    /\ arrived = 0 /\ rx = [q \in RxQueue |-> << >>]
    /\ nic = {} /\ out = [p \in Ports |-> << >>] /\ pool = Mbufs
    /\ pc = [c \in Cores |-> IF c \in scenario.cores /\ rx_queue_list(c) # << >>
                             THEN "pre" ELSE "off"]
    /\ queue_idx = [c \in Cores |-> 0] /\ burst = [c \in Cores |-> << >>]
    /\ step = [c \in Cores |-> 0] /\ key = [c \in Cores |-> << >>]
    /\ raced = [c \in Cores |-> FALSE] /\ entry = [c \in Cores |-> NoEntry]
    /\ value = [c \in Cores |-> 0] /\ late = [c \in Cores |-> TRUE]
    /\ tx = [c \in Cores |-> [p \in Ports |-> << >>]]
    /\ buffer = [b \in {"reverse_buffer", "key128"} |-> << >>]
    /\ reg = 0 /\ lock = Nobody /\ counted = 0 /\ lost = {}
-----------------------------------------------------------------------------
(* The ports.  A packet that finds no free buffer is dropped by the NIC.    *)
Arrive ==
    /\ alive /\ arrived < Len(scenario.packets)
    /\ LET p == scenario.packets[arrived + 1]
           m == Least(pool)
       IN  IF pool = {} THEN UNCHANGED <<rx, pool>>
           ELSE /\ rx' = [rx EXCEPT ![<<p.port, p.queue>>] = Append(@, <<m, arrived + 1>>)]
                /\ pool' = pool \ {m}
    /\ arrived' = arrived + 1
    /\ UNCHANGED <<scenario, alive, tableVars, nic, out, coreVars, buffer, reg, lock,
                   counted, lost>>

NicFrees ==
    /\ alive /\ nic # {}
    /\ nic' = {} /\ pool' = pool \cup nic
    /\ UNCHANGED <<scenario, alive, tableVars, arrived, rx, out, coreVars, buffer, reg,
                   lock, counted, lost>>

(* input_processor changes the table between the lookups of the cores. *)
Change ==
    /\ alive /\ Len(changes) < scenario.changes
    /\ \A c \in Cores : pc[c] \in {"off", "pre", "rx", "next"}
    /\ \E op \in scenario.ops :
          /\ changes' = Append(changes, op)
          /\ table' = ApplyChange(table, op)
          /\ alive' = ~table'.exited
    /\ UNCHANGED <<scenario, portVars, coreVars, buffer, reg, lock, counted, lost>>

(* The driver for tests without ports (dpdk_nicoff.c), of which no more is     *)
(* modelled, lets the cores stop when their packets are handled; main then     *)
(* flushes the tables and launches again, with the same tables, registers and  *)
(* connection's threads.  lpm_flush frees content[size], which no entry was    *)
(* put in: this may end the process.                                           *)
Relaunch ==
    /\ alive /\ Len(changes) < scenario.changes
    /\ Cardinality(Kinds(changes, "flush")) < scenario.launches - 1
    /\ \A c \in Cores : pc[c] \in {"off", "pre"}
    /\ \A q \in RxQueue : rx[q] = << >>
    /\ changes' = Append(changes, [kind |-> "flush"])
    /\ table' = ApplyChange(table, [kind |-> "flush"])
    /\ IF table.type = "lpm" /\ table.key_size > 0 THEN alive' \in BOOLEAN
       ELSE UNCHANGED alive
    /\ UNCHANGED <<scenario, portVars, coreVars, buffer, reg, lock, counted, lost>>

(* BURST_TX_DRAIN_US have passed *)
Tick(c) ==
    /\ alive /\ pc[c] # "off" /\ ~late[c]
    /\ late' = [late EXCEPT ![c] = TRUE]
    /\ UNCHANGED <<scenario, alive, tableVars, portVars, pc, queue_idx, burst, step, key,
                   raced, entry, value, tx, buffer, reg, lock, counted, lost>>
-----------------------------------------------------------------------------
(* Sending.                                                                  *)
Buffers(q) == {q[i][1] : i \in DOMAIN q}

(* Mutant: the first that was not sent is not freed. *)
KeepsOne(q, ret) == SubSeq(q, ret + 2, Len(q))

(* what send_burst frees when rte_eth_tx_burst has taken the first ret *)
NotSent(q, ret) == SubSeq(q, ret + 1, Len(q))

(* send_burst for the queues q[p] of the ports in ps: rte_eth_tx_burst takes *)
(* as many as there is room for, and none on a port that is not there, where *)
(* it may also end the process.                                              *)
SendBursts(c, ps, q) ==
    \E ret \in [ps -> 0 .. Burst] :
        /\ \A p \in ps : ret[p] <= Len(q[p]) /\ (p \notin Present => ret[p] = 0)
        /\ out' = [p \in Ports |->
                     IF p \in ps
                     THEN out[p] \o [i \in 1 .. ret[p] |-> <<c, q[p][i][2]>>]
                     ELSE out[p]]
        /\ nic' = nic \cup UNION {Buffers(SubSeq(q[p], 1, ret[p])) : p \in ps}
        /\ pool' = pool \cup UNION {Buffers(NotSent(q[p], ret[p])) : p \in ps}
        /\ tx' = [tx EXCEPT ![c] = [p \in Ports |-> IF p \in ps THEN << >> ELSE q[p]]]
        /\ IF ps \subseteq Present THEN UNCHANGED alive ELSE alive' \in BOOLEAN

(* Mutant: the last port is left out. *)
LastPortForgotten(c) == {p \in Ports : p < scenario.ports - 1 /\ tx[c][p] # << >>}

(* the queues that tx_burst_queue_drain sends *)
ToDrain(c) == {p \in Ports : p < scenario.ports /\ tx[c][p] # << >>}

main_loop_pre_rx(c) ==
    /\ alive /\ pc[c] = "pre"
    /\ IF late[c] THEN SendBursts(c, ToDrain(c), tx[c])
       ELSE UNCHANGED <<alive, out, nic, pool, tx>>
    /\ late' = [late EXCEPT ![c] = FALSE]
    /\ pc' = [pc EXCEPT ![c] = "rx"]
    /\ queue_idx' = [queue_idx EXCEPT ![c] = 1]
    /\ UNCHANGED <<scenario, tableVars, arrived, rx, burst, step, key, raced, entry,
                   value, buffer, reg, lock, counted, lost>>

(* Mutant: the packet goes to the head of the queue. *)
AddInFront(q, packet) == <<packet>> \o q

add_packet_to_queue(q, packet) == Append(q, packet)

(* a queue that has become full is sent at once *)
dpdk_send_packet(c, p) ==
    LET q == [tx[c] EXCEPT ![p] = add_packet_to_queue(@, Head(burst[c]))]
    IN  IF Len(q[p]) = Burst
        THEN SendBursts(c, {p}, q)
        ELSE /\ tx' = [tx EXCEPT ![c] = q]
             /\ UNCHANGED <<alive, out, nic, pool>>

(* broadcast_packet: a clone for each other port, sent to the queue of port   *)
(* T4P4S_BROADCAST_PORT (100), which lies behind the end of tx_mbufs.  What   *)
(* is put there is never sent, or ends the process; the packet itself is      *)
(* neither sent nor freed.  A clone that could not be had is NULL.            *)
Others(port) == {p \in Ports : p \in scenario.mask /\ p # port}
NbClones(port) ==
    Min({Cardinality(Others(port)), scenario.ports - 1, Cardinality(pool)})

broadcast_packet(c) ==
    LET port   == scenario.packets[Head(burst[c])[2]].port
        clones == {m \in pool : Cardinality({n \in pool : n <= m}) <= NbClones(port)}
    IN  /\ pool' = pool \ clones
        /\ lost' = lost \cup clones \cup {Head(burst[c])[1]}
        /\ IF scenario.ports > 1 /\ Others(port) # {} THEN alive' \in BOOLEAN
           ELSE UNCHANGED alive
        /\ UNCHANGED <<out, nic, tx>>

(* the next receive queue, or the next round *)
NextQueue(c) ==
    /\ pc' = [pc EXCEPT ![c] = IF queue_idx[c] < Len(rx_queue_list(c)) THEN "rx" ELSE "pre"]
    /\ queue_idx' = [queue_idx EXCEPT ![c] = @ + 1]

(* reset_headers has set egress_port to 0 *)
egress_port(e) == IF e.value.act = "forward" THEN e.value.port ELSE 0

(* the next packet of the burst *)
NextPacket(c) ==
    /\ burst' = [burst EXCEPT ![c] = Tail(@)]
    /\ step' = [step EXCEPT ![c] = 0]
    /\ IF Len(burst[c]) > 1 THEN pc' = [pc EXCEPT ![c] = "next"] /\ UNCHANGED queue_idx
       ELSE NextQueue(c)

do_single_tx(c) ==
    /\ alive /\ pc[c] = "tx"
    /\ CASE entry[c].value.act = "drop" ->
              /\ pool' = pool \cup {Head(burst[c])[1]}
              /\ UNCHANGED <<alive, out, nic, tx, lost>>
         [] entry[c].value.act = "broadcast" -> broadcast_packet(c)
         [] OTHER -> dpdk_send_packet(c, egress_port(entry[c])) /\ UNCHANGED lost
    /\ NextPacket(c)
    /\ entry' = [entry EXCEPT ![c] = NoEntry]
    /\ UNCHANGED <<scenario, tableVars, arrived, rx, key, raced, value, late, buffer, reg,
                   lock, counted>>
-----------------------------------------------------------------------------
(* Receiving and handling.                                                   *)
Queue(c) == LET q == rx_queue_list(c)[queue_idx[c]] IN <<q.port, q.queue>>

do_rx(c) ==
    /\ alive /\ pc[c] = "rx"
    /\ LET q == rx[Queue(c)]
           n == Min({Burst, Len(q)})
       IN  /\ burst' = [burst EXCEPT ![c] = SubSeq(q, 1, n)]
           /\ rx' = [rx EXCEPT ![Queue(c)] = SubSeq(q, n + 1, Len(q))]
           /\ IF n > 0 THEN pc' = [pc EXCEPT ![c] = "next"] /\ UNCHANGED queue_idx
              ELSE NextQueue(c)
    /\ UNCHANGED <<scenario, alive, tableVars, arrived, nic, out, pool, step, key, raced,
                   entry, value, late, tx, buffer, reg, lock, counted, lost>>

(* What table_..._key and lpm_lookup do with a key before it is looked up, a  *)
(* unit at a time: it is reversed by way of the global reverse_buffer, and    *)
(* when it is longer than 4 bytes copied to a static variable, once zeroed.   *)
Width == Len(scenario.packets[1].key)
Each(op, b) == [i \in 1 .. Width |-> <<op, b, i>>]
KeySteps ==
    IF table.type # "lpm" THEN << >>
    ELSE Each("put", "reverse_buffer") \o Each("get", "reverse_buffer")
         \o (IF table.key_size \in 5 .. 16
             THEN Each("zero", "key128") \o Each("put", "key128") \o Each("get", "key128")
             ELSE << >>)

Computing(c) == pc[c] = "key"

(* receive_packet and reset_headers *)
receive_packet(c) ==
    /\ alive /\ pc[c] = "next"
    /\ pc' = [pc EXCEPT ![c] = "key"]
    /\ key' = [key EXCEPT ![c] = scenario.packets[Head(burst[c])[2]].key]
    /\ raced' = [d \in Cores |->
                   IF d = c THEN KeySteps # << >> /\ \E e \in Cores \ {c} : Computing(e)
                   ELSE raced[d] \/ (KeySteps # << >> /\ Computing(d))]
    /\ UNCHANGED <<scenario, alive, tableVars, portVars, queue_idx, burst, step, entry,
                   value, late, tx, buffer, reg, lock, counted, lost>>

table_key(c) ==
    /\ alive /\ pc[c] = "key" /\ step[c] < Len(KeySteps)
    /\ LET s == KeySteps[step[c] + 1]
           b == s[2]
           i == s[3]
       IN  IF s[1] = "get"
           THEN key' = [key EXCEPT ![c][i] = buffer[b][i]] /\ UNCHANGED buffer
           ELSE /\ buffer' = [buffer EXCEPT ![b] =
                                 [j \in DOMAIN @ \cup {i} |->
                                    IF j # i THEN @[j] ELSE IF s[1] = "put" THEN key[c][i] ELSE 0]]
                /\ UNCHANGED key
    /\ step' = [step EXCEPT ![c] = @ + 1]
    /\ UNCHANGED <<scenario, alive, tableVars, portVars, pc, queue_idx, burst, raced,
                   entry, value, late, tx, reg, lock, counted, lost>>

(* the lookup, and the action of the entry found *)
apply(c) ==
    /\ alive /\ pc[c] = "key" /\ step[c] = Len(KeySteps)
    /\ IF TernaryCrashes(table) THEN alive' = FALSE /\ UNCHANGED <<entry, pc>>
       ELSE /\ entry' = [entry EXCEPT ![c] = Lookup(table, key[c])]
            /\ pc' = [pc EXCEPT ![c] = IF scenario.block = "none" THEN "tx" ELSE "read"]
            /\ UNCHANGED alive
    /\ UNCHANGED <<scenario, tableVars, portVars, queue_idx, burst, step, key, raced,
                   value, late, tx, buffer, reg, lock, counted, lost>>

(* Mutant: the block is not locked. *)
NotLocked(c) == UNCHANGED lock

(* LOCK, around a block with the annotation @atomic *)
Lock(c) ==
    IF scenario.block = "atomic" THEN lock = Nobody /\ lock' = c ELSE UNCHANGED lock

extern_register_read(c) ==
    /\ alive /\ pc[c] = "read"
    /\ Lock(c)
    /\ value' = [value EXCEPT ![c] = reg]
    /\ pc' = [pc EXCEPT ![c] = "write"]
    /\ UNCHANGED <<scenario, alive, tableVars, portVars, queue_idx, burst, step, key,
                   raced, entry, late, tx, buffer, reg, counted, lost>>

extern_register_write(c) ==
    /\ alive /\ pc[c] = "write"
    /\ reg' = value[c] + 1
    /\ lock' = Nobody
    /\ counted' = counted + 1
    /\ pc' = [pc EXCEPT ![c] = "tx"]
    /\ UNCHANGED <<scenario, alive, tableVars, portVars, queue_idx, burst, step, key,
                   raced, entry, value, late, tx, buffer, lost>>
-----------------------------------------------------------------------------
dpdk_main_loop(c) ==
    \/ main_loop_pre_rx(c) \/ do_rx(c) \/ receive_packet(c) \/ table_key(c) \/ apply(c)
    \/ extern_register_read(c) \/ extern_register_write(c) \/ do_single_tx(c)

Next == Arrive \/ NicFrees \/ Change \/ Relaunch
        \/ \E c \in Cores : Tick(c) \/ dpdk_main_loop(c)

Spec == Init /\ [][Next]_vars

(* A core that can go on does, for its thread has the core to itself, and     *)
(* time passes.                                                               *)
FairSpec == Spec /\ \A c \in Cores : WF_vars(dpdk_main_loop(c)) /\ WF_vars(Tick(c))
-----------------------------------------------------------------------------
(* Properties.                                                               *)
Place == ({"rx"} \X RxQueue) \cup ({"burst"} \X Cores) \cup ({"tx"} \X (Cores \X Ports))

(* the packets that wait at a place *)
QueueAt(n) == CASE n[1] = "rx"    -> rx[n[2]]
                [] n[1] = "burst" -> burst[n[2]]
                [] n[1] = "tx"    -> tx[n[2][1]][n[2][2]]

Unqueued == pool \cup nic \cup lost

Says(act) == \E i \in DOMAIN changes : changes[i].kind # "flush" /\ changes[i].value.act = act

(* Every buffer is in exactly one place: free, in a receive queue, with a    *)
(* core, in one of its transmit queues, or with the driver, whatever part of *)
(* a burst the port takes.  Only a broadcast loses some.                     *)
BuffersOwnedOnce ==
    /\ \A m, n \in Place : \A i \in DOMAIN QueueAt(m), j \in DOMAIN QueueAt(n) :
          <<m, i>> # <<n, j>> => QueueAt(m)[i][1] # QueueAt(n)[j][1]
    /\ \A n \in Place : Buffers(QueueAt(n)) \cap Unqueued = {}
    /\ pool \cap nic = {} /\ pool \cap lost = {} /\ nic \cap lost = {}
    /\ (UNION {Buffers(QueueAt(n)) : n \in Place}) \cup Unqueued = Mbufs
    /\ lost # {} => Says("broadcast")

SameFlow(p, q) ==
    /\ scenario.packets[p].port = scenario.packets[q].port
    /\ scenario.packets[p].queue = scenario.packets[q].queue

(* No packet leaves twice, by one port or by two, and those that came in by  *)
(* the same receive queue leave a port in the order in which they came,      *)
(* whether full queues or the timer send them.                               *)
PortOrder ==
    /\ \A o, p \in Ports : \A i \in DOMAIN out[o], j \in DOMAIN out[p] :
          <<o, i>> # <<p, j>> => out[o][i][2] # out[p][j][2]
    /\ \A p \in Ports : \A i, j \in DOMAIN out[p] :
          i < j /\ SameFlow(out[p][i][2], out[p][j][2]) => out[p][i][2] < out[p][j][2]

(* What the three kinds of table can hold: no more rules than a              *)
(* table_index_t tells apart, and no key with units outside its mask.        *)
WithinLimits ==
    CASE table.type = "lpm"     -> Cardinality(Standing(changes)) <= table.index_range
      [] table.type = "ternary" -> \A i \in Standing(changes) : \A j \in 1 .. Width :
                                      changes[i].key[j] <= changes[i].mask[j]
      [] OTHER -> TRUE

(* A packet is handled by the entry that the changes made to the table call  *)
(* for: the last one added for a key, the longest prefix, the first pattern, *)
(* else the default, also after flushes and additions that replace others;   *)
(* unless another core computed an LPM key at the same time in the buffers   *)
(* that they share.                                                          *)
LookupAgrees ==
    \A c \in Cores :
        pc[c] \in {"read", "write", "tx"} /\ ~raced[c] /\ WithinLimits =>
            entry[c] = Promised(table.type, table.key_size = 0, changes,
                                scenario.packets[Head(burst[c])[2]].key)

(* A block that is @atomic loses no count, although the register is read and *)
(* written apart; one that is not may lose some, and never counts too many.  *)
RegisterExact ==
    /\ reg <= counted
    /\ scenario.block = "atomic" => reg = counted

(* In the end no packet waits in a receive queue, a core, or the transmit    *)
(* queue of any port on the board, although no further packet comes to fill  *)
(* it.                                                                       *)
Drained ==
    <>[](alive => /\ \A q \in RxQueue : rx[q] = << >>
                  /\ \A c \in Cores : /\ burst[c] = << >>
                                       /\ \A p \in Ports : p < scenario.ports => tx[c][p] = << >>)
=============================================================================
