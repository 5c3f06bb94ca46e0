---------------------------- MODULE TableReplica ----------------------------
(***************************************************************************)
(* Changing a lookup table while cores look packets up in it               *)
(* (dpdk_lib_change_tables.c).  Every socket has NbReplica copies of the   *)
(* table and every core a pointer to one of them.  CHANGE_TABLE applies    *)
(* the change to an inactive copy, turns the cores over to it one by one,  *)
(* sleeps for TABCHANGE_SLEEP_MICROS, and applies the change to the other  *)
(* copies.  There is no lock: what keeps a core off a copy that is being   *)
(* changed is the order of these steps and the sleep.                      *)
(*                                                                         *)
(* One table is modelled.  Changes are numbered, and the contents of a     *)
(* copy are the changes that were applied to it.                           *)
(***************************************************************************)
EXTENDS Integers, FiniteSets

CONSTANTS
    Cores,       \* the enabled lcores, numbered
    Sockets,     \* the sockets, numbered
    SocketOf,    \* rte_lcore_to_socket_id
    NumaSettings, \* what numa_on may be: --no-numa clears it
    NbReplica,   \* NB_REPLICA
    Writers,     \* the threads that change the table: input_processor and,
                 \* through init_keyless_tables, each core as it starts
    MaxChanges,  \* bound: changes made during a run
    SleepCovers, \* does the sleep outlast every lookup that began before it
    None

Replicas == 0 .. NbReplica - 1
Changes  == 1 .. MaxChanges

ASSUME ConstAssumption ==
    /\ Cores \subseteq Nat /\ Cores # {} /\ IsFiniteSet(Cores)
    /\ Sockets \subseteq Nat /\ IsFiniteSet(Sockets) /\ 0 \in Sockets
    /\ SocketOf \in [Cores -> Sockets]
    /\ NumaSettings \subseteq BOOLEAN /\ SleepCovers \in BOOLEAN
    /\ NbReplica \in Nat \ {0} /\ MaxChanges \in Nat
    /\ None \notin Sockets \X Replicas

VARIABLES
    numa_on,         \* fixed when the arguments are parsed
    content,         \* the changes applied to each copy
    active_replica,  \* of each socket
    tables,          \* of each core: the copy it looks up in
    lookup,          \* of each core: the copy its current packet's entry is in
    wpc,             \* of each writer: idle, apply, applying, change, sleep
    change,          \* the change the writer makes
    socketid,        \* the socket it is at
    next_replica,
    target,          \* the copy it is applying the change to
    todo,            \* the cores change_replica still has to turn over
    before,          \* the cores whose lookup began before the sleep
    started, done    \* changes begun, changes completed

writerVars == <<wpc, change, socketid, next_replica, target, todo, before>>
vars == <<numa_on, content, active_replica, tables, lookup, writerVars, started, done>>

get_socketid(l) == IF numa_on THEN SocketOf[l] ELSE 0

(* Mutant: only the first socket has tables. *)
FirstSocketOnly == {0}

(* create_table_on_lcore makes the copies of a core's socket only *)
TableSockets == {get_socketid(l) : l \in Cores}

Copy == Sockets \X Replicas
Least(S) == CHOOSE x \in S : \A y \in S : x <= y

Init ==
    /\ numa_on \in NumaSettings
    /\ content = [p \in Copy |-> {}]
    /\ active_replica = [s \in Sockets |-> 0]
    /\ tables = [l \in Cores |-> <<get_socketid(l), 0>>]
    /\ lookup = [l \in Cores |-> None]
    /\ wpc = [w \in Writers |-> "idle"]
    /\ change = [w \in Writers |-> 0]
    /\ socketid = [w \in Writers |-> 0]
    /\ next_replica = [w \in Writers |-> 0]
    /\ target = [w \in Writers |-> 0]
    /\ todo = [w \in Writers |-> {}]
    /\ before = [w \in Writers |-> {}]
    /\ started = 0 /\ done = {}

Goto(w, label) == wpc' = [wpc EXCEPT ![w] = label]
-----------------------------------------------------------------------------
(* A core: the pointer in its lcore_conf is read for each lookup, and the   *)
(* entry found is used until its action has run.                            *)
BeginLookup(l) ==
    /\ lookup[l] = None
    /\ lookup' = [lookup EXCEPT ![l] = tables[l]]
    /\ UNCHANGED <<numa_on, content, active_replica, tables, writerVars, started, done>>

EndLookup(l) ==
    /\ lookup[l] # None
    /\ lookup' = [lookup EXCEPT ![l] = None]
    /\ before' = [w \in Writers |-> before[w] \ {l}]
    /\ UNCHANGED <<numa_on, content, active_replica, tables, wpc, change, socketid,
                   next_replica, target, todo, started, done>>
-----------------------------------------------------------------------------
(* FORALLNUMANODES starts CHANGE_TABLE on socket s: the copy after the      *)
(* active one is changed first.                                             *)
ChooseReplica(w, s) ==
    LET n == (active_replica[s] + 1) % NbReplica
    IN  /\ socketid' = [socketid EXCEPT ![w] = s]
        /\ next_replica' = [next_replica EXCEPT ![w] = n]
        /\ target' = [target EXCEPT ![w] = n]
        /\ Goto(w, "apply")

Promote(w) ==
    /\ wpc[w] = "idle" /\ started < MaxChanges
    /\ started' = started + 1
    /\ change' = [change EXCEPT ![w] = started + 1]
    /\ ChooseReplica(w, Least(TableSockets))
    /\ UNCHANGED <<numa_on, content, active_replica, tables, lookup, todo, before, done>>

(* fun(tables[tableid][replica], par) takes a while ... *)
Apply(w) ==
    /\ wpc[w] = "apply"
    /\ Goto(w, "applying")
    /\ UNCHANGED <<numa_on, content, active_replica, tables, lookup, change, socketid,
                   next_replica, target, todo, before, started, done>>

(* Mutant: the other copies are left as they were. *)
FollowingNone(w, r) == {}

(* the copies still to be changed after copy r: all but next_replica,       *)
(* which came first                                                         *)
Following(w, r) == {q \in Replicas : q > r /\ q # next_replica[w]}

(* the copy after r, or the next socket, or the end of the change           *)
GoOn(w, rest) ==
    LET later == {s \in TableSockets : s > socketid[w]}
    IN  IF rest # {}
        THEN /\ target' = [target EXCEPT ![w] = Least(rest)]
             /\ Goto(w, "apply")
             /\ UNCHANGED <<socketid, next_replica, done>>
        ELSE IF later # {}
        THEN ChooseReplica(w, Least(later)) /\ UNCHANGED done
        ELSE /\ Goto(w, "idle")
             /\ done' = done \cup {change[w]}
             /\ UNCHANGED <<socketid, next_replica, target>>

(* ... and is done: the copy was next_replica, or one of the others *)
Applied(w) ==
    /\ wpc[w] = "applying"
    /\ content' = [content EXCEPT ![<<socketid[w], target[w]>>] = @ \cup {change[w]}]
    /\ IF target[w] = next_replica[w]
       THEN /\ Goto(w, "change")
            /\ todo' = [todo EXCEPT ![w] = {l \in Cores : SocketOf[l] = socketid[w]}]
            /\ UNCHANGED <<socketid, next_replica, target, done>>
       ELSE /\ GoOn(w, Following(w, target[w]))
            /\ UNCHANGED todo
    /\ UNCHANGED <<numa_on, active_replica, tables, lookup, change, before, started>>

(* Mutant: active_replica is not updated. *)
ChangeKeepsActive(w) ==
    /\ wpc[w] = "change" /\ todo[w] # {}
    /\ LET l == Least(todo[w])
       IN  /\ tables' = [tables EXCEPT ![l] = <<socketid[w], next_replica[w]>>]
           /\ todo' = [todo EXCEPT ![w] = @ \ {l}]
    /\ UNCHANGED <<numa_on, content, active_replica, lookup, wpc, change, socketid,
                   next_replica, target, before, started, done>>

(* one round of change_replica's loop over the lcores *)
change_replica(w) ==
    /\ wpc[w] = "change" /\ todo[w] # {}
    /\ LET l == Least(todo[w])
       IN  /\ tables' = [tables EXCEPT ![l] = <<socketid[w], next_replica[w]>>]
           /\ active_replica' = [active_replica EXCEPT ![socketid[w]] = next_replica[w]]
           /\ todo' = [todo EXCEPT ![w] = @ \ {l}]
    /\ UNCHANGED <<numa_on, content, lookup, wpc, change, socketid, next_replica, target,
                   before, started, done>>

(* usleep(TABCHANGE_SLEEP_MICROS) *)
Sleep(w) ==
    /\ wpc[w] = "change" /\ todo[w] = {}
    /\ Goto(w, "sleep")
    /\ before' = [before EXCEPT ![w] = {l \in Cores : lookup[l] # None}]
    /\ UNCHANGED <<numa_on, content, active_replica, tables, lookup, change, socketid,
                   next_replica, target, todo, started, done>>

WakeUp(w) ==
    /\ wpc[w] = "sleep"
    /\ SleepCovers => before[w] = {}
    /\ GoOn(w, Following(w, -1))
    /\ UNCHANGED <<numa_on, content, active_replica, tables, lookup, change, todo,
                   before, started>>
-----------------------------------------------------------------------------
Core(l)   == BeginLookup(l) \/ EndLookup(l)
Writer(w) == Promote(w) \/ Apply(w) \/ Applied(w) \/ change_replica(w)
                \/ Sleep(w) \/ WakeUp(w)

Next == (\E l \in Cores : Core(l)) \/ (\E w \in Writers : Writer(w))

Spec == Init /\ [][Next]_vars

(* A change that was begun is carried on, and packets get finished. *)
FairSpec ==
    /\ Spec
    /\ \A l \in Cores : WF_vars(EndLookup(l))
    /\ \A w \in Writers : WF_vars(Writer(w) /\ ~Promote(w))
-----------------------------------------------------------------------------
(* Every variable keeps its type. *)
TypeOK ==
    /\ numa_on \in BOOLEAN
    /\ content \in [Copy -> SUBSET Changes]
    /\ active_replica \in [Sockets -> Replicas]
    /\ tables \in [Cores -> Copy]
    /\ lookup \in [Cores -> Copy \cup {None}]
    /\ wpc \in [Writers -> {"idle", "apply", "applying", "change", "sleep"}]
    /\ change \in [Writers -> 0 .. MaxChanges]
    /\ socketid \in [Writers -> Sockets]
    /\ next_replica \in [Writers -> Replicas]
    /\ target \in [Writers -> Replicas]
    /\ todo \in [Writers -> SUBSET Cores]
    /\ before \in [Writers -> SUBSET Cores]
    /\ started \in 0 .. MaxChanges
    /\ done \subseteq Changes

View(l) == content[tables[l]]

(* No copy is changed while a core is looking a packet up in it or still    *)
(* uses an entry found there (table_set_default_action frees the old one).  *)
(* With --no-numa this holds for the cores of socket 0 only: change_replica *)
(* never turns the others over.                                             *)
NoReadWhileChanging ==
    \A w \in Writers, l \in Cores :
        wpc[w] = "applying" /\ get_socketid(l) = SocketOf[l] =>
            lookup[l] # <<socketid[w], target[w]>>

(* Once a promote call has returned, the next lookup of every core finds    *)
(* the change, whichever socket the core is on.                             *)
DoneIsVisible == \A u \in done, l \in Cores : u \in View(l)

(* A core that could find an entry can find it from then on: turning cores  *)
(* over never takes them back to an older copy.                             *)
ViewsGrow == [][\A l \in Cores : View(l) \subseteq View(l)']_vars

(* Changes become visible in the order in which they were made: a core      *)
(* never sees one without those before it.                                  *)
SeenInOrder ==
    TypeOK /\ \A l \in Cores : \E n \in 0 .. started : View(l) = 1 .. n

(* A change that was begun reaches every core. *)
ChangeArrives ==
    \A u \in Changes : started >= u ~> \A l \in Cores : u \in View(l)
=============================================================================
