------------------------- MODULE TableReplicaProofs -------------------------
(* With at least two copies of a table, one thread that changes tables, and  *)
(* a sleep that outlasts the lookups that began before it, no copy is        *)
(* changed while in use: for any cores, sockets and number of copies, and    *)
(* any number of changes.                                                    *)
EXTENDS TableReplica, WellFoundedInduction, TLAPS

(* NB_REPLICA is 2; input_processor is the only thread that changes tables    *)
(* once the cores have set the defaults of tables without keys; and           *)
(* TABCHANGE_SLEEP_MICROS is long.                                            *)
Careful ==
    /\ NbReplica > 1
    /\ \A v, w \in Writers : v = w
    /\ SleepCovers

Local(l) == get_socketid(l) = SocketOf[l]

(* where a core is when nobody is changing the copies of its socket *)
Settled(l) ==
    /\ tables[l] = <<SocketOf[l], active_replica[SocketOf[l]]>>
    /\ lookup[l] \in {None, tables[l]}

(* a core that change_replica has turned over *)
Turned(w, l) ==
    /\ active_replica[socketid[w]] = next_replica[w]
    /\ tables[l] = <<socketid[w], next_replica[w]>>

At(w, l) == wpc[w] # "idle" /\ socketid[w] = SocketOf[l]

(* The copy being changed is not the active one, before the cores are turned  *)
(* over (it is the next one then) and after (it is another).                  *)
OffTarget(w) ==
    target[w] = next_replica[w] <=> active_replica[socketid[w]] # next_replica[w]

OneOfThem(w, l) ==
    /\ ~At(w, l) => Settled(l)
    /\ At(w, l) /\ wpc[w] \in {"apply", "applying"} => Settled(l) /\ OffTarget(w)
    /\ At(w, l) /\ wpc[w] = "change" /\ l \notin todo[w] => Turned(w, l)
    /\ At(w, l) /\ wpc[w] = "sleep" =>
          Turned(w, l) /\ (l \in before[w] \/ lookup[l] \in {None, tables[l]})

(* change_replica turns over only the cores of the socket it is at. *)
TodoHere(w) == wpc[w] = "change" => \A l \in todo[w] : SocketOf[l] = socketid[w]

(* A writer that is under way has a change to make. *)
TypeInv == TypeOK /\ \A w \in Writers : wpc[w] # "idle" => change[w] \in Changes

IInv ==
    /\ TypeInv
    /\ \A w \in Writers : TodoHere(w)
    /\ \A w \in Writers, l \in Cores : Local(l) => OneOfThem(w, l)
-----------------------------------------------------------------------------
(* Facts about the operators of the model.                                   *)

Less == {ss \in Nat \X Nat : ss[1] < ss[2]}

LEMMA LeastIn ==
    ASSUME NEW S, S \subseteq Nat, S # {}
    PROVE  Least(S) \in S /\ \A y \in S : Least(S) <= y
<1>1. IsWellFoundedOn(Less, Nat)
  BY NatLessThanWellFounded DEF OpToRel, Less
<1>2. PICK x \in S : \A y \in S : ~(<<y, x>> \in Less)
  BY <1>1, WFMin
<1>3. ASSUME NEW y \in S PROVE x <= y
  <2>1. x \in Nat /\ y \in Nat /\ ~(<<y, x>> \in Less)
    BY <1>2
  <2>2. y < x => <<y, x>> \in Nat \X Nat /\ <<y, x>>[1] < <<y, x>>[2]
    BY <2>1
  <2> QED
    BY <2>1, <2>2 DEF Less
<1> QED
  BY <1>2, <1>3 DEF Least

(* The copy after the active one is another, when there are two. *)
LEMMA NextCopy ==
    ASSUME NEW a \in Replicas
    PROVE  /\ (a + 1) % NbReplica \in Replicas
           /\ NbReplica > 1 => (a + 1) % NbReplica # a
<1>1. a \in Nat /\ a < NbReplica /\ NbReplica \in Nat \ {0}
  BY ConstAssumption DEF Replicas
<1>2. CASE a + 1 < NbReplica
  <2>1. (a + 1) % NbReplica = a + 1
    BY <1>1, <1>2
  <2> QED
    BY <1>1, <1>2, <2>1 DEF Replicas
<1>3. CASE a + 1 = NbReplica
  <2>1. (a + 1) % NbReplica = 0
    BY <1>1, <1>3
  <2> QED
    BY <1>1, <1>3, <2>1 DEF Replicas
<1> QED
  BY <1>1, <1>2, <1>3

LEMMA SocketsWithTables ==
    ASSUME numa_on \in BOOLEAN
    PROVE  /\ TableSockets \subseteq Sockets /\ TableSockets \subseteq Nat
           /\ TableSockets # {}
           /\ \A l \in Cores : get_socketid(l) \in TableSockets
<1>1. \A l \in Cores : get_socketid(l) \in Sockets
  BY ConstAssumption DEF get_socketid
<1>2. \A l \in Cores : get_socketid(l) \in TableSockets
  BY DEF TableSockets
<1>3. TableSockets \subseteq Sockets
  BY <1>1 DEF TableSockets
<1>4. TableSockets # {} /\ TableSockets \subseteq Nat
  BY <1>2, <1>3, ConstAssumption
<1> QED
  BY <1>2, <1>3, <1>4

LEMMA Chosen ==
    ASSUME TypeOK, NEW w \in Writers, NEW s \in TableSockets, ChooseReplica(w, s)
    PROVE  /\ socketid' \in [Writers -> Sockets] /\ socketid'[w] = s
           /\ next_replica' \in [Writers -> Replicas]
           /\ target' \in [Writers -> Replicas] /\ target'[w] = next_replica'[w]
           /\ wpc' = [wpc EXCEPT ![w] = "apply"]
           /\ NbReplica > 1 => next_replica'[w] # active_replica[s]
<1>1. s \in Sockets
  BY SocketsWithTables DEF TypeOK
<1>2. active_replica[s] \in Replicas
  BY <1>1 DEF TypeOK
<1> DEFINE n == (active_replica[s] + 1) % NbReplica
<1>3. n \in Replicas /\ (NbReplica > 1 => n # active_replica[s])
  BY <1>2, NextCopy
<1>4. /\ socketid' = [socketid EXCEPT ![w] = s]
      /\ next_replica' = [next_replica EXCEPT ![w] = n]
      /\ target' = [target EXCEPT ![w] = n]
      /\ wpc' = [wpc EXCEPT ![w] = "apply"]
  BY DEF ChooseReplica, Goto
<1> HIDE DEF n
<1> QED
  BY <1>1, <1>3, <1>4 DEF TypeOK

(* What GoOn leads to: another copy of the socket, another socket, or the end. *)
LEMMA WhereNext ==
    ASSUME TypeOK, NEW w \in Writers, NEW rest, rest \subseteq Replicas, GoOn(w, rest)
    PROVE  \/ /\ wpc' = [wpc EXCEPT ![w] = "apply"]
              /\ target' \in [Writers -> Replicas] /\ target'[w] \in rest
              /\ UNCHANGED <<socketid, next_replica, done>>
           \/ /\ \E s \in TableSockets : ChooseReplica(w, s)
              /\ UNCHANGED done
           \/ /\ wpc' = [wpc EXCEPT ![w] = "idle"]
              /\ done' = done \cup {change[w]}
              /\ UNCHANGED <<socketid, next_replica, target>>
<1> DEFINE later == {s \in TableSockets : s > socketid[w]}
<1>1. CASE rest # {}
  <2>1. rest \subseteq Nat
    BY ConstAssumption DEF Replicas
  <2>2. Least(rest) \in rest
    BY <1>1, <2>1, LeastIn
  <2>3. /\ target' = [target EXCEPT ![w] = Least(rest)]
        /\ wpc' = [wpc EXCEPT ![w] = "apply"]
        /\ UNCHANGED <<socketid, next_replica, done>>
    BY <1>1 DEF GoOn, Goto
  <2> QED
    BY <2>2, <2>3 DEF TypeOK
<1>2. CASE rest = {} /\ later # {}
  <2>1. Least(later) \in later
    BY <1>2, LeastIn, SocketsWithTables DEF TypeOK
  <2>2. ChooseReplica(w, Least(later)) /\ UNCHANGED done
    BY <1>2 DEF GoOn
  <2> QED
    BY <2>1, <2>2
<1>3. CASE rest = {} /\ later = {}
  BY <1>3 DEF GoOn, Goto
<1> QED
  BY <1>1, <1>2, <1>3
-----------------------------------------------------------------------------
(* Type correctness.                                                         *)

LEMMA InitType == Init => TypeInv
<1> SUFFICES ASSUME Init PROVE TypeInv
  OBVIOUS
<1>1. 0 \in Replicas /\ 0 \in Sockets
  BY ConstAssumption DEF Replicas
<1>2. \A l \in Cores : get_socketid(l) \in Sockets
  BY ConstAssumption DEF get_socketid
<1>3. numa_on \in BOOLEAN
  BY ConstAssumption DEF Init
<1>4. tables \in [Cores -> Copy]
  BY <1>1, <1>2 DEF Init, Copy
<1>5. started \in 0 .. MaxChanges /\ 0 \in 0 .. MaxChanges
  BY ConstAssumption DEF Init
<1>6. TypeOK
  BY <1>1, <1>3, <1>4, <1>5 DEF Init, TypeOK
<1> QED
  BY <1>6 DEF Init, TypeInv

(* The end of a copy's change, or of the sleep. *)
LEMMA GoOnKeepsType ==
    ASSUME TypeInv, NEW w \in Writers, wpc[w] # "idle",
           NEW rest, rest \subseteq Replicas, GoOn(w, rest),
           content' \in [Copy -> SUBSET Changes],
           UNCHANGED <<numa_on, active_replica, tables, lookup, change, todo, before, started>>
    PROVE  TypeInv'
<1>1. TypeOK /\ change[w] \in Changes
  BY DEF TypeInv
<1>2. CASE /\ wpc' = [wpc EXCEPT ![w] = "apply"]
           /\ target' \in [Writers -> Replicas] /\ target'[w] \in rest
           /\ UNCHANGED <<socketid, next_replica, done>>
  BY <1>1, <1>2 DEF TypeInv, TypeOK
<1>3. CASE (\E s \in TableSockets : ChooseReplica(w, s)) /\ UNCHANGED done
  <2>1. PICK s \in TableSockets : ChooseReplica(w, s)
    BY <1>3
  <2> QED
    BY <1>1, <1>3, <2>1, Chosen DEF TypeInv, TypeOK
<1>4. CASE /\ wpc' = [wpc EXCEPT ![w] = "idle"]
           /\ done' = done \cup {change[w]}
           /\ UNCHANGED <<socketid, next_replica, target>>
  BY <1>1, <1>4 DEF TypeInv, TypeOK
<1> QED
  BY <1>1, <1>2, <1>3, <1>4, WhereNext

LEMMA AppliedKeepsType ==
    ASSUME TypeInv, NEW w \in Writers, Applied(w)
    PROVE  TypeInv'
<1>1. /\ TypeOK /\ change[w] \in Changes /\ wpc[w] = "applying"
      /\ UNCHANGED <<numa_on, active_replica, tables, lookup, change, before, started>>
  BY DEF TypeInv, Applied
<1>2. content' \in [Copy -> SUBSET Changes]
  BY <1>1 DEF Applied, TypeOK
<1>3. CASE target[w] = next_replica[w]
  <2>1. /\ wpc' = [wpc EXCEPT ![w] = "change"]
        /\ todo' = [todo EXCEPT ![w] = {l \in Cores : SocketOf[l] = socketid[w]}]
        /\ UNCHANGED <<socketid, next_replica, target, done>>
    BY <1>3 DEF Applied, Goto
  <2> QED
    BY <1>1, <1>2, <2>1 DEF TypeInv, TypeOK
<1>4. CASE target[w] # next_replica[w]
  <2>1. GoOn(w, Following(w, target[w])) /\ UNCHANGED todo
    BY <1>4 DEF Applied
  <2>2. Following(w, target[w]) \subseteq Replicas
    BY DEF Following
  <2> QED
    BY <1>1, <1>2, <2>1, <2>2, GoOnKeepsType
<1> QED
  BY <1>3, <1>4

LEMMA WriterKeepsType ==
    ASSUME TypeInv, NEW w \in Writers, Writer(w)
    PROVE  TypeInv'
<1>1. CASE Promote(w)
  <2>1. PICK s \in TableSockets : ChooseReplica(w, s)
    <3>1. Least(TableSockets) \in TableSockets
      BY LeastIn, SocketsWithTables DEF TypeInv, TypeOK
    <3> QED
      BY <1>1, <3>1 DEF Promote
  <2>2. started' = started + 1 /\ started' \in Changes /\ started' \in 0 .. MaxChanges
    BY <1>1, ConstAssumption DEF Promote, TypeInv, TypeOK, Changes
  <2>3. change' = [change EXCEPT ![w] = started']
    BY <1>1, <2>2 DEF Promote
  <2>4. UNCHANGED <<numa_on, content, active_replica, tables, lookup, todo, before, done>>
    BY <1>1 DEF Promote
  <2> QED
    BY <2>1, <2>2, <2>3, <2>4, Chosen DEF TypeInv, TypeOK
<1>2. CASE Apply(w)
  BY <1>2 DEF Apply, Goto, TypeInv, TypeOK
<1>3. CASE Applied(w)
  BY <1>3, AppliedKeepsType
<1>4. CASE change_replica(w)
  <2>1. <<socketid[w], next_replica[w]>> \in Copy
    BY DEF TypeInv, TypeOK, Copy
  <2> QED
    BY <1>4, <2>1 DEF change_replica, TypeInv, TypeOK
<1>5. CASE Sleep(w)
  BY <1>5 DEF Sleep, Goto, TypeInv, TypeOK
<1>6. CASE WakeUp(w)
  <2>1. Following(w, -1) \subseteq Replicas
    BY DEF Following
  <2>2. /\ wpc[w] # "idle" /\ GoOn(w, Following(w, -1))
        /\ UNCHANGED <<numa_on, content, active_replica, tables, lookup, change, todo,
                       before, started>>
    BY <1>6 DEF WakeUp
  <2>3. content' \in [Copy -> SUBSET Changes]
    BY <2>2 DEF TypeInv, TypeOK
  <2> QED
    BY <2>1, <2>2, <2>3, GoOnKeepsType
<1> QED
  BY <1>1, <1>2, <1>3, <1>4, <1>5, <1>6 DEF Writer

LEMMA CoreKeepsType ==
    ASSUME TypeInv, NEW l \in Cores, Core(l)
    PROVE  TypeInv'
<1>1. CASE BeginLookup(l)
  BY <1>1 DEF BeginLookup, writerVars, TypeInv, TypeOK
<1>2. CASE EndLookup(l)
  BY <1>2 DEF EndLookup, TypeInv, TypeOK
<1> QED
  BY <1>1, <1>2 DEF Core

LEMMA NextKeepsType == TypeInv /\ [Next]_vars => TypeInv'
<1> SUFFICES ASSUME TypeInv, [Next]_vars PROVE TypeInv'
  OBVIOUS
<1>1. CASE UNCHANGED vars
  BY <1>1 DEF vars, writerVars, TypeInv, TypeOK
<1> QED
  BY <1>1, CoreKeepsType, WriterKeepsType DEF Next

(* Pointers point to copies of sockets that exist, and so does all that       *)
(* dpdk_lib_change_tables.c computes from them, however many writers there    *)
(* are.                                                                       *)
THEOREM TypeCorrect == Spec => []TypeOK
<1>1. TypeInv => TypeOK
  BY DEF TypeInv
<1> QED
  BY InitType, NextKeepsType, <1>1, PTL DEF Spec
-----------------------------------------------------------------------------
(* No copy is changed while in use.                                          *)

LEMMA OneWriter ==
    ASSUME Careful, NEW w \in Writers, TypeInv', TodoHere(w)',
           \A l \in Cores : Local(l)' => OneOfThem(w, l)'
    PROVE  IInv'
  BY DEF Careful, IInv

(* Nobody is changing anything, or the copies of another socket are next. *)
LEMMA ChosenKeepsInv ==
    ASSUME Careful, TypeInv, TypeInv', NEW w \in Writers, NEW s \in TableSockets,
           ChooseReplica(w, s), \A l \in Cores : Local(l) => Settled(l),
           UNCHANGED <<numa_on, active_replica, tables, lookup>>
    PROVE  IInv'
<1>1. /\ socketid'[w] = s /\ target'[w] = next_replica'[w]
      /\ next_replica'[w] # active_replica[s]
    BY Chosen DEF TypeInv, Careful
<1>2. wpc'[w] = "apply"
  BY DEF ChooseReplica, Goto, TypeInv, TypeOK
<1>3. TodoHere(w)'
  BY <1>2 DEF TodoHere
<1>4. OffTarget(w)'
  BY <1>1 DEF OffTarget
<1>5. ASSUME NEW l \in Cores, Local(l)' PROVE OneOfThem(w, l)'
  <2>1. Settled(l)'
    BY <1>5 DEF Local, get_socketid, Settled
  <2> QED
    BY <1>2, <1>4, <2>1 DEF OneOfThem
<1> QED
  BY <1>3, <1>5, OneWriter

LEMMA GoOnKeepsInv ==
    ASSUME Careful, TypeInv, TypeInv', NEW w \in Writers,
           NEW rest, rest \subseteq Replicas, next_replica[w] \notin rest, GoOn(w, rest),
           wpc[w] # "idle", \A l \in Cores : Local(l) => Settled(l),
           \A l \in Cores : Local(l) /\ At(w, l) =>
               active_replica[socketid[w]] = next_replica[w],
           UNCHANGED <<numa_on, active_replica, tables, lookup>>
    PROVE  IInv'
<1> DEFINE AnotherCopy ==
             /\ wpc' = [wpc EXCEPT ![w] = "apply"]
             /\ target' \in [Writers -> Replicas] /\ target'[w] \in rest
             /\ UNCHANGED <<socketid, next_replica, done>>
           TheEnd ==
             /\ wpc' = [wpc EXCEPT ![w] = "idle"]
             /\ done' = done \cup {change[w]}
             /\ UNCHANGED <<socketid, next_replica, target>>
<1>1. ASSUME NEW l \in Cores, Local(l)' PROVE Local(l) /\ Settled(l)'
  BY <1>1 DEF Local, get_socketid, Settled
<1>2. CASE AnotherCopy
  <2>1. /\ wpc'[w] = "apply" /\ target'[w] # next_replica'[w]
        /\ UNCHANGED <<socketid, next_replica>>
    BY <1>2 DEF TypeInv, TypeOK
  <2>2. ASSUME NEW l \in Cores, Local(l)' PROVE OneOfThem(w, l)'
    <3>1. Local(l) /\ Settled(l)'
      BY <1>1, <2>2
    <3>2. At(w, l)' => OffTarget(w)'
      BY <2>1, <3>1 DEF At, OffTarget
    <3> QED
      BY <2>1, <3>1, <3>2 DEF OneOfThem
  <2>3. TodoHere(w)'
    BY <2>1 DEF TodoHere
  <2> QED
    BY <2>2, <2>3, OneWriter
<1>3. CASE (\E s \in TableSockets : ChooseReplica(w, s)) /\ UNCHANGED done
  BY <1>3, ChosenKeepsInv
<1>4. CASE TheEnd
  <2>1. wpc'[w] = "idle"
    BY <1>4 DEF TypeInv, TypeOK
  <2>2. ASSUME NEW l \in Cores, Local(l)' PROVE OneOfThem(w, l)'
    BY <1>1, <2>1, <2>2 DEF OneOfThem, At
  <2>3. TodoHere(w)'
    BY <2>1 DEF TodoHere
  <2> QED
    BY <2>2, <2>3, OneWriter
<1>5. TypeOK
  BY DEF TypeInv
<1> QED
  BY <1>2, <1>3, <1>4, <1>5, WhereNext

LEMMA InitInv == Careful /\ Init => IInv
<1> SUFFICES ASSUME Careful, Init PROVE IInv
  OBVIOUS
<1>1. TypeInv
  BY InitType
<1>2. \A w \in Writers : wpc[w] = "idle"
  BY DEF Init
<1>3. ASSUME NEW l \in Cores, Local(l) PROVE Settled(l)
  <2>1. SocketOf[l] \in Sockets
    BY ConstAssumption
  <2> QED
    BY <1>3, <2>1 DEF Init, Local, Settled
<1> QED
  BY <1>1, <1>2, <1>3 DEF IInv, TodoHere, OneOfThem, At

LEMMA AppliedKeepsInv ==
    ASSUME Careful, IInv, TypeInv', NEW w \in Writers, Applied(w)
    PROVE  IInv'
<1>1. /\ TypeInv /\ TypeOK /\ wpc[w] = "applying"
      /\ UNCHANGED <<numa_on, active_replica, tables, lookup>>
  BY DEF IInv, TypeInv, Applied
<1>2. \A l \in Cores : Local(l) => Settled(l) /\ (At(w, l) => OffTarget(w))
  BY <1>1 DEF IInv, OneOfThem
<1>3. CASE target[w] = next_replica[w]
  <2>1. /\ wpc' = [wpc EXCEPT ![w] = "change"]
        /\ todo' = [todo EXCEPT ![w] = {l \in Cores : SocketOf[l] = socketid[w]}]
        /\ UNCHANGED <<socketid, next_replica, target, done>>
    BY <1>3 DEF Applied, Goto
  <2>2. wpc'[w] = "change" /\ todo'[w] = {l \in Cores : SocketOf[l] = socketid[w]}
    BY <1>1, <2>1 DEF TypeOK
  <2>3. TodoHere(w)'
    BY <2>1, <2>2 DEF TodoHere
  <2>4. ASSUME NEW l \in Cores, Local(l)' PROVE OneOfThem(w, l)'
    <3>1. Settled(l)'
      BY <1>1, <1>2, <2>4 DEF Local, get_socketid, Settled
    <3>2. At(w, l)' => l \in todo'[w]
      BY <2>1, <2>2 DEF At
    <3> QED
      BY <2>2, <3>1, <3>2 DEF OneOfThem
  <2> QED
    BY <2>3, <2>4, OneWriter
<1>4. CASE target[w] # next_replica[w]
  <2>1. GoOn(w, Following(w, target[w]))
    BY <1>4 DEF Applied
  <2>2. Following(w, target[w]) \subseteq Replicas
        /\ next_replica[w] \notin Following(w, target[w])
    BY DEF Following
  <2>3. \A l \in Cores : Local(l) /\ At(w, l) =>
            active_replica[socketid[w]] = next_replica[w]
    BY <1>2, <1>4 DEF OffTarget
  <2> QED
    BY <1>1, <1>2, <2>1, <2>2, <2>3, GoOnKeepsInv
<1> QED
  BY <1>3, <1>4

LEMMA ChangeKeepsInv ==
    ASSUME Careful, IInv, TypeInv', NEW w \in Writers, change_replica(w)
    PROVE  IInv'
<1> DEFINE k == Least(todo[w])
<1>1. /\ TypeOK /\ TodoHere(w) /\ wpc[w] = "change" /\ todo[w] # {}
      /\ UNCHANGED <<numa_on, lookup, wpc, socketid, next_replica>>
  BY DEF IInv, TypeInv, change_replica
<1>2. todo[w] \subseteq Cores /\ socketid[w] \in Sockets
  BY <1>1 DEF TypeOK
<1>3. k \in todo[w]
  BY <1>1, <1>2, LeastIn, ConstAssumption
<1>4. k \in Cores /\ SocketOf[k] = socketid[w]
  BY <1>1, <1>2, <1>3 DEF TodoHere
<1>5. /\ tables' = [tables EXCEPT ![k] = <<socketid[w], next_replica[w]>>]
      /\ active_replica' = [active_replica EXCEPT ![socketid[w]] = next_replica[w]]
      /\ todo' = [todo EXCEPT ![w] = @ \ {k}]
  BY DEF change_replica
<1> HIDE DEF k
<1>6. todo'[w] = todo[w] \ {k} /\ active_replica'[socketid[w]] = next_replica[w]
  BY <1>1, <1>2, <1>5 DEF TypeOK
<1>7. TodoHere(w)'
  BY <1>1, <1>6 DEF TodoHere
<1>8. ASSUME NEW l \in Cores, Local(l)' PROVE OneOfThem(w, l)'
  <2>1. Local(l)
    BY <1>1, <1>8 DEF Local, get_socketid
  <2>2. OneOfThem(w, l)
    BY <2>1 DEF IInv
  <2>3. CASE At(w, l)
    <3>1. l \notin todo'[w] => Turned(w, l)'
      <4>1. CASE l = k
        BY <1>1, <1>4, <1>5, <1>6, <4>1 DEF Turned, TypeOK
      <4>2. CASE l # k
        BY <1>1, <1>5, <1>6, <2>2, <2>3, <4>2 DEF OneOfThem, Turned, TypeOK
      <4> QED
        BY <4>1, <4>2
    <3>2. At(w, l)' /\ wpc'[w] = "change"
      BY <1>1, <2>3 DEF At
    <3> QED
      BY <3>1, <3>2 DEF OneOfThem
  <2>4. CASE ~At(w, l)
    <3>1. socketid[w] # SocketOf[l] /\ l # k
      BY <1>1, <1>4, <2>4 DEF At
    <3>2. Settled(l)
      BY <2>2, <2>4 DEF OneOfThem
    <3>3. /\ tables'[l] = tables[l]
          /\ active_replica'[SocketOf[l]] = active_replica[SocketOf[l]]
      BY <1>1, <1>4, <1>5, <3>1, ConstAssumption DEF TypeOK
    <3>4. Settled(l)'
      BY <1>1, <3>2, <3>3 DEF Settled
    <3>5. ~At(w, l)' /\ wpc'[w] = "change"
      BY <1>1, <2>4 DEF At
    <3> QED
      BY <3>4, <3>5 DEF OneOfThem, At
  <2> QED
    BY <2>3, <2>4
<1> QED
  BY <1>7, <1>8, OneWriter

LEMMA WakeUpKeepsInv ==
    ASSUME Careful, IInv, TypeInv', NEW w \in Writers, WakeUp(w)
    PROVE  IInv'
<1>1. /\ TypeInv /\ wpc[w] = "sleep" /\ before[w] = {}
      /\ GoOn(w, Following(w, -1))
      /\ UNCHANGED <<numa_on, active_replica, tables, lookup>>
  BY DEF IInv, Careful, WakeUp
<1>2. Following(w, -1) \subseteq Replicas /\ next_replica[w] \notin Following(w, -1)
  BY DEF Following
<1>3. ASSUME NEW l \in Cores, Local(l)
      PROVE  Settled(l) /\ (At(w, l) => active_replica[socketid[w]] = next_replica[w])
  <2>1. OneOfThem(w, l)
    BY <1>3 DEF IInv
  <2>2. CASE At(w, l)
    BY <1>1, <2>1, <2>2 DEF OneOfThem, At, Turned, Settled
  <2> QED
    BY <2>1, <2>2 DEF OneOfThem
<1> QED
  BY <1>1, <1>2, <1>3, GoOnKeepsInv

LEMMA WriterKeepsInv ==
    ASSUME Careful, IInv, TypeInv', NEW w \in Writers, Writer(w)
    PROVE  IInv'
<1>1. TypeInv /\ TypeOK
  BY DEF IInv, TypeInv
<1>2. CASE Promote(w)
  <2>1. PICK s \in TableSockets : ChooseReplica(w, s)
    <3>1. Least(TableSockets) \in TableSockets
      BY <1>1, LeastIn, SocketsWithTables DEF TypeOK
    <3> QED
      BY <1>2, <3>1 DEF Promote
  <2>2. \A l \in Cores : Local(l) => Settled(l)
    BY <1>2 DEF Promote, IInv, OneOfThem, At
  <2>3. UNCHANGED <<numa_on, active_replica, tables, lookup>>
    BY <1>2 DEF Promote
  <2> QED
    BY <1>1, <2>1, <2>2, <2>3, ChosenKeepsInv
<1>3. CASE Apply(w)
  <2>1. /\ wpc[w] = "apply" /\ wpc'[w] = "applying"
        /\ UNCHANGED <<numa_on, active_replica, tables, lookup, socketid, next_replica,
                       target>>
    BY <1>1, <1>3 DEF Apply, Goto, TypeOK
  <2>2. TodoHere(w)'
    BY <2>1 DEF TodoHere
  <2>3. ASSUME NEW l \in Cores, Local(l)' PROVE OneOfThem(w, l)'
    <3>1. Local(l)
      BY <2>1, <2>3 DEF Local, get_socketid
    <3>2. OneOfThem(w, l)
      BY <3>1 DEF IInv
    <3>3. Settled(l)' /\ (At(w, l)' => OffTarget(w)')
      BY <2>1, <3>2 DEF OneOfThem, Settled, At, OffTarget
    <3> QED
      BY <2>1, <3>3 DEF OneOfThem
  <2> QED
    BY <2>2, <2>3, OneWriter
<1>4. CASE Applied(w)
  BY <1>4, AppliedKeepsInv
<1>5. CASE change_replica(w)
  BY <1>5, ChangeKeepsInv
<1>6. CASE Sleep(w)
  <2>1. /\ wpc[w] = "change" /\ todo[w] = {} /\ wpc'[w] = "sleep"
        /\ before'[w] = {l \in Cores : lookup[l] # None}
        /\ UNCHANGED <<numa_on, active_replica, tables, lookup, socketid, next_replica>>
    BY <1>1, <1>6 DEF Sleep, Goto, TypeOK
  <2>2. TodoHere(w)'
    BY <2>1 DEF TodoHere
  <2>3. ASSUME NEW l \in Cores, Local(l)' PROVE OneOfThem(w, l)'
    <3>1. Local(l)
      BY <2>1, <2>3 DEF Local, get_socketid
    <3>2. OneOfThem(w, l)
      BY <3>1 DEF IInv
    <3>3. At(w, l)' => Turned(w, l)'
      BY <2>1, <3>2 DEF OneOfThem, At, Turned
    <3>4. ~At(w, l)' => Settled(l)'
      BY <2>1, <3>2 DEF OneOfThem, At, Settled
    <3> QED
      BY <2>1, <3>3, <3>4 DEF OneOfThem
  <2> QED
    BY <2>2, <2>3, OneWriter
<1>7. CASE WakeUp(w)
  BY <1>7, WakeUpKeepsInv
<1> QED
  BY <1>2, <1>3, <1>4, <1>5, <1>6, <1>7 DEF Writer

LEMMA CoreKeepsInv ==
    ASSUME IInv, TypeInv', NEW c \in Cores, Core(c)
    PROVE  IInv'
<1>1. TypeOK
  BY DEF IInv, TypeInv
<1>2. UNCHANGED <<numa_on, active_replica, tables, wpc, socketid, next_replica, target, todo>>
  BY DEF Core, BeginLookup, EndLookup, writerVars
<1>3. \A w \in Writers : TodoHere(w)'
  BY <1>2 DEF IInv, TodoHere
<1>4. ASSUME NEW l \in Cores
      PROVE  /\ lookup'[l] \in {None, tables[l], lookup[l]}
             /\ \A w \in Writers : l \in before[w] =>
                   l \in before'[w] \/ lookup'[l] \in {None, tables[l]}
  <2>1. CASE BeginLookup(c)
    BY <1>1, <2>1 DEF BeginLookup, writerVars, TypeOK
  <2>2. CASE EndLookup(c)
    BY <1>1, <2>2 DEF EndLookup, TypeOK
  <2> QED
    BY <2>1, <2>2 DEF Core
<1>5. ASSUME NEW w \in Writers, NEW l \in Cores, Local(l)' PROVE OneOfThem(w, l)'
  <2>1. Local(l)
    BY <1>2, <1>5 DEF Local, get_socketid
  <2>2. OneOfThem(w, l)
    BY <2>1 DEF IInv
  <2>3. Settled(l) => Settled(l)'
    BY <1>2, <1>4 DEF Settled
  <2>4. /\ At(w, l)' <=> At(w, l)
        /\ Turned(w, l) => Turned(w, l)'
        /\ OffTarget(w) => OffTarget(w)'
    BY <1>2 DEF At, Turned, OffTarget
  <2> QED
    BY <1>2, <1>4, <2>2, <2>3, <2>4 DEF OneOfThem
<1> QED
  BY <1>3, <1>5 DEF IInv

LEMMA NextKeepsInv == Careful /\ IInv /\ [Next]_vars => IInv'
<1> SUFFICES ASSUME Careful, IInv, [Next]_vars PROVE IInv'
  OBVIOUS
<1>1. TypeInv'
  BY NextKeepsType DEF IInv
<1>2. CASE UNCHANGED vars
  BY <1>1, <1>2 DEF IInv, vars, writerVars, TodoHere, OneOfThem, Local, get_socketid,
                    Settled, Turned, OffTarget, At
<1> QED
  BY <1>1, <1>2, CoreKeepsInv, WriterKeepsInv DEF Next

LEMMA InvIsEnough == IInv => NoReadWhileChanging
<1> SUFFICES ASSUME IInv, NEW w \in Writers, NEW l \in Cores,
                    wpc[w] = "applying", Local(l)
             PROVE  lookup[l] # <<socketid[w], target[w]>>
  BY DEF NoReadWhileChanging, Local
<1>1. TypeOK /\ OneOfThem(w, l)
  BY DEF IInv, TypeInv
<1>2. Settled(l) /\ (At(w, l) => OffTarget(w))
  BY <1>1 DEF OneOfThem
<1>3. <<socketid[w], target[w]>> # None
  BY <1>1, ConstAssumption DEF TypeOK
<1>4. At(w, l) => active_replica[socketid[w]] # target[w]
  BY <1>2 DEF OffTarget
<1>5. CASE At(w, l)
  BY <1>2, <1>3, <1>4, <1>5 DEF Settled, At
<1>6. CASE ~At(w, l)
  BY <1>2, <1>3, <1>6 DEF Settled, At
<1> QED
  BY <1>5, <1>6

(* No copy is changed while a core of its socket looks a packet up in it or   *)
(* uses an entry from it: what the order of CHANGE_TABLE's steps and its      *)
(* sleep are for.                                                             *)
THEOREM NoReadCorrect ==
    ASSUME Careful
    PROVE  Spec => []NoReadWhileChanging
<1>1. Init => IInv
  BY InitInv
<1>2. IInv /\ [Next]_vars => IInv'
  BY NextKeepsInv
<1> QED
  BY <1>1, <1>2, InvIsEnough, PTL DEF Spec
-----------------------------------------------------------------------------
(* A change that was completed is in every copy that a core may look in,     *)
(* whoever else was changing the table; and when one thread makes all the    *)
(* changes, cores see them in order and never lose one.  Nothing is assumed  *)
(* of the sleep or of the number of copies.                                  *)

(* the copies that create_table_on_lcore made *)
Made == TableSockets \X Replicas

(* The copies that CHANGE_TABLE has applied the change to: those of the       *)
(* sockets before, and at this socket the next one, which comes first, and    *)
(* then those below target.                                                   *)
ReachedBy(w, p) ==
    \/ p[1] < socketid[w]
    \/ /\ p[1] = socketid[w]
       /\ \/ wpc[w] \in {"change", "sleep"} /\ p[2] = next_replica[w]
          \/ /\ wpc[w] \in {"apply", "applying"} /\ target[w] # next_replica[w]
             /\ p[2] = next_replica[w] \/ p[2] < target[w]

UnderWay(w) ==
    wpc[w] # "idle" =>
        /\ socketid[w] \in TableSockets
        /\ \A p \in Made : ReachedBy(w, p) => change[w] \in content[p]

VInv ==
    /\ TypeInv
    /\ \A l \in Cores : tables[l] \in Made
    /\ \A w \in Writers : UnderWay(w)
    /\ \A p \in Made : done \subseteq content[p]

LEMMA MadeSame == numa_on' = numa_on => TableSockets' = TableSockets /\ Made' = Made
  BY DEF Made, TableSockets, get_socketid

LEMMA MadeExist ==
    ASSUME TypeInv
    PROVE  /\ Made \subseteq Copy /\ TableSockets \subseteq Nat /\ Replicas \subseteq Nat
           /\ \A p \in Made : /\ p[1] \in TableSockets /\ p[2] \in Replicas
                             /\ p[1] \in Nat /\ p[2] \in Nat
                             /\ p = <<p[1], p[2]>>
<1>1. TableSockets \subseteq Sockets /\ TableSockets \subseteq Nat
  BY SocketsWithTables DEF TypeInv, TypeOK
<1>2. Replicas \subseteq Nat
  BY ConstAssumption DEF Replicas
<1>3. Made \subseteq Copy
  BY <1>1 DEF Made, Copy
<1>4. ASSUME NEW p \in Made
      PROVE  /\ p[1] \in TableSockets /\ p[2] \in Replicas
             /\ p = <<p[1], p[2]>>
  BY DEF Made
<1>5. \A p \in Made : p[1] \in Nat /\ p[2] \in Nat
  BY <1>1, <1>2, <1>4
<1> QED
  BY <1>1, <1>2, <1>3, <1>4, <1>5

(* One writer's step leaves the others as they were, and no copy loses a      *)
(* change.                                                                    *)
LEMMA OthersKeep ==
    ASSUME VInv, TypeInv', NEW w \in Writers, UnderWay(w)',
           numa_on' = numa_on,
           \A p \in Copy : content[p] \subseteq content'[p],
           \A v \in Writers \ {w} :
               /\ wpc'[v] = wpc[v] /\ change'[v] = change[v] /\ socketid'[v] = socketid[v]
               /\ target'[v] = target[v] /\ next_replica'[v] = next_replica[v],
           \A l \in Cores : tables'[l] \in Made,
           \A p \in Made : done' \subseteq content'[p]
    PROVE  VInv'
<1>1. Made' = Made /\ TableSockets' = TableSockets /\ Made \subseteq Copy
  BY MadeSame, MadeExist DEF VInv
<1>2. ASSUME NEW v \in Writers \ {w} PROVE UnderWay(v)'
  <2>1. UnderWay(v)
    BY DEF VInv
  <2>2. \A p \in Made : ReachedBy(v, p)' <=> ReachedBy(v, p)
    BY DEF ReachedBy
  <2> QED
    BY <1>1, <2>1, <2>2 DEF UnderWay
<1> QED
  BY <1>1, <1>2 DEF VInv

(* When all copies but those of rest, and of sockets to come, have the change, *)
(* GoOn takes it to the first of those, or it is done.                         *)
LEMMA GoOnReaches ==
    ASSUME VInv, TypeInv', NEW w \in Writers, NEW r \in Replicas \cup {-1},
           wpc[w] # "idle", GoOn(w, Following(w, r)),
           \A p \in Made :
               p[1] < socketid[w] \/ (p[1] = socketid[w] /\ p[2] \notin Following(w, r))
                   => change[w] \in content'[p],
           \A p \in Copy : content[p] \subseteq content'[p],
           UNCHANGED <<numa_on, tables, change>>
    PROVE  VInv'
<1> DEFINE rest == Following(w, r)
           later == {s \in TableSockets : s > socketid[w]}
<1>1. /\ TypeInv /\ TypeOK /\ socketid[w] \in TableSockets
      /\ \A p \in Made : done \subseteq content[p]
      /\ \A l \in Cores : tables[l] \in Made
  BY DEF VInv, TypeInv, UnderWay
<1>2. /\ Made' = Made /\ TableSockets' = TableSockets /\ Made \subseteq Copy
      /\ TableSockets \subseteq Nat /\ Replicas \subseteq Nat
      /\ \A p \in Made : p[1] \in TableSockets /\ p[1] \in Nat /\ p[2] \in Nat
  BY <1>1, MadeSame, MadeExist
<1>3. rest \subseteq Replicas /\ next_replica[w] \notin rest
  BY DEF Following
<1>4. ASSUME NEW p \in Made
      PROVE  p[1] \in later \/ p[1] = socketid[w] \/ p[1] < socketid[w]
  <2>1. p[1] \in Nat /\ socketid[w] \in Nat /\ p[1] \in TableSockets
    BY <1>1, <1>2
  <2> QED
    BY <2>1
<1>5. CASE rest # {}
  <2>1. Least(rest) \in rest /\ \A q \in rest : Least(rest) <= q
    BY <1>2, <1>3, <1>5, LeastIn
  <2>2. /\ target' = [target EXCEPT ![w] = Least(rest)]
        /\ wpc' = [wpc EXCEPT ![w] = "apply"]
        /\ UNCHANGED <<socketid, next_replica, done>>
    BY <1>5 DEF GoOn, Goto
  <2>3. target'[w] = Least(rest) /\ wpc'[w] = "apply"
    BY <1>1, <2>2 DEF TypeOK
  <2>4. ASSUME NEW p \in Made, ReachedBy(w, p)' PROVE change[w] \in content'[p]
    <3>1. p[1] < socketid[w] \/ (p[1] = socketid[w] /\ p[2] \notin rest)
      <4>1. \/ p[1] < socketid[w]
            \/ p[1] = socketid[w] /\ (p[2] = next_replica[w] \/ p[2] < Least(rest))
        BY <2>2, <2>3, <2>4 DEF ReachedBy
      <4>2. p[2] < Least(rest) => p[2] \notin rest
        <5>1. p[2] \in Nat /\ Least(rest) \in Nat
          BY <1>2, <1>3, <2>1
        <5>2. p[2] \in rest => Least(rest) <= p[2]
          BY <2>1
        <5> QED
          BY <5>1, <5>2
      <4> QED
        BY <1>3, <4>1, <4>2
    <3> QED
      BY <3>1
  <2>5. UnderWay(w)'
    BY <1>1, <1>2, <2>2, <2>4 DEF UnderWay
  <2>6. \A v \in Writers \ {w} :
            /\ wpc'[v] = wpc[v] /\ change'[v] = change[v] /\ socketid'[v] = socketid[v]
            /\ target'[v] = target[v] /\ next_replica'[v] = next_replica[v]
    BY <1>1, <2>2 DEF TypeOK
  <2>7. /\ \A p \in Made : done' \subseteq content'[p]
        /\ \A l \in Cores : tables'[l] \in Made
    BY <1>1, <1>2, <2>2
  <2> HIDE DEF rest
  <2> QED
    BY <2>5, <2>6, <2>7, OthersKeep
<1>6. CASE rest = {} /\ later # {}
  <2>1. Least(later) \in later /\ \A s \in later : Least(later) <= s
    BY <1>2, <1>6, LeastIn
  <2>2. ChooseReplica(w, Least(later)) /\ UNCHANGED done
    BY <1>6 DEF GoOn
  <2>3. /\ socketid'[w] = Least(later) /\ target'[w] = next_replica'[w]
        /\ wpc' = [wpc EXCEPT ![w] = "apply"]
    BY <1>1, <2>1, <2>2, Chosen
  <2>4. wpc'[w] = "apply"
    BY <1>1, <2>3 DEF TypeOK
  <2>5. ASSUME NEW p \in Made, ReachedBy(w, p)' PROVE change[w] \in content'[p]
    <3>1. p[1] < Least(later)
      BY <2>3, <2>4, <2>5 DEF ReachedBy
    <3>2. p[1] \notin later
      <4>1. p[1] \in Nat /\ Least(later) \in Nat
        BY <1>2, <2>1
      <4>2. p[1] \in later => Least(later) <= p[1]
        BY <2>1
      <4> QED
        BY <3>1, <4>1, <4>2
    <3> QED
      BY <1>4, <1>6, <3>2
  <2>6. UnderWay(w)'
    BY <1>1, <1>2, <2>1, <2>3, <2>5 DEF UnderWay
  <2>7. \A v \in Writers \ {w} :
            /\ wpc'[v] = wpc[v] /\ change'[v] = change[v] /\ socketid'[v] = socketid[v]
            /\ target'[v] = target[v] /\ next_replica'[v] = next_replica[v]
    BY <1>1, <2>2 DEF ChooseReplica, Goto, TypeOK
  <2>8. /\ \A p \in Made : done' \subseteq content'[p]
        /\ \A l \in Cores : tables'[l] \in Made
    BY <1>1, <1>2, <2>2
  <2> QED
    BY <2>6, <2>7, <2>8, OthersKeep
<1>7. CASE rest = {} /\ later = {}
  <2>1. /\ wpc' = [wpc EXCEPT ![w] = "idle"]
        /\ done' = done \cup {change[w]}
        /\ UNCHANGED <<socketid, next_replica, target>>
    BY <1>7 DEF GoOn, Goto
  <2>2. \A p \in Made : change[w] \in content'[p]
    BY <1>4, <1>7
  <2>3. UnderWay(w)'
    BY <1>1, <2>1 DEF UnderWay, TypeOK
  <2>4. \A v \in Writers \ {w} :
            /\ wpc'[v] = wpc[v] /\ change'[v] = change[v] /\ socketid'[v] = socketid[v]
            /\ target'[v] = target[v] /\ next_replica'[v] = next_replica[v]
    BY <1>1, <2>1 DEF TypeOK
  <2>5. /\ \A p \in Made : done' \subseteq content'[p]
        /\ \A l \in Cores : tables'[l] \in Made
    BY <1>1, <1>2, <2>1, <2>2
  <2> QED
    BY <2>3, <2>4, <2>5, OthersKeep
<1> QED
  BY <1>5, <1>6, <1>7

LEMMA InitVInv == Init => VInv
<1> SUFFICES ASSUME Init PROVE VInv
  OBVIOUS
<1>1. TypeInv
  BY InitType
<1>2. \A l \in Cores : get_socketid(l) \in TableSockets
  BY <1>1, SocketsWithTables DEF TypeInv, TypeOK
<1>3. 0 \in Replicas
  BY ConstAssumption DEF Replicas
<1> QED
  BY <1>1, <1>2, <1>3 DEF Init, VInv, UnderWay, Made

LEMMA AppliedKeepsVInv ==
    ASSUME VInv, TypeInv', NEW w \in Writers, Applied(w)
    PROVE  VInv'
<1> DEFINE here == <<socketid[w], target[w]>>
<1>1. /\ TypeOK /\ wpc[w] = "applying" /\ socketid[w] \in TableSockets
      /\ \A p \in Made : ReachedBy(w, p) => change[w] \in content[p]
      /\ content' = [content EXCEPT ![here] = @ \cup {change[w]}]
      /\ UNCHANGED <<numa_on, tables, change>>
  BY DEF VInv, TypeInv, UnderWay, Applied
<1>2. /\ Made' = Made /\ TableSockets' = TableSockets /\ Made \subseteq Copy
      /\ TableSockets \subseteq Nat /\ Replicas \subseteq Nat
      /\ \A p \in Made : /\ p[1] \in TableSockets /\ p[2] \in Replicas
                        /\ p = <<p[1], p[2]>>
  BY <1>1, MadeSame, MadeExist DEF VInv
<1>3. here \in Copy /\ \A p \in Copy : content[p] \subseteq content'[p]
  BY <1>1 DEF TypeOK, Copy
<1>4. change[w] \in content'[here]
  BY <1>1, <1>3 DEF TypeOK
<1>5. target[w] \in Replicas /\ next_replica[w] \in Replicas
  BY <1>1 DEF TypeOK
<1>6. CASE target[w] = next_replica[w]
  <2>1. /\ wpc' = [wpc EXCEPT ![w] = "change"]
        /\ UNCHANGED <<socketid, next_replica, target, done>>
    BY <1>6 DEF Applied, Goto
  <2>2. wpc'[w] = "change"
    BY <1>1, <2>1 DEF TypeOK
  <2>3. ASSUME NEW p \in Made, ReachedBy(w, p)' PROVE change[w] \in content'[p]
    <3>1. p[1] < socketid[w] \/ p = here
      BY <1>2, <1>6, <2>1, <2>2, <2>3 DEF ReachedBy
    <3>2. CASE p[1] < socketid[w]
      BY <1>1, <1>2, <1>3, <3>2 DEF ReachedBy
    <3> QED
      BY <1>4, <3>1, <3>2
  <2>4. UnderWay(w)'
    BY <1>1, <1>2, <2>1, <2>3 DEF UnderWay
  <2>5. \A v \in Writers \ {w} :
            /\ wpc'[v] = wpc[v] /\ change'[v] = change[v] /\ socketid'[v] = socketid[v]
            /\ target'[v] = target[v] /\ next_replica'[v] = next_replica[v]
    BY <1>1, <2>1 DEF TypeOK
  <2>6. /\ \A p \in Made : done' \subseteq content'[p]
        /\ \A l \in Cores : tables'[l] \in Made
    BY <1>1, <1>2, <1>3, <2>1 DEF VInv
  <2> HIDE DEF here
  <2> QED
    BY <1>1, <1>3, <2>4, <2>5, <2>6, OthersKeep
<1>7. CASE target[w] # next_replica[w]
  <2>1. GoOn(w, Following(w, target[w]))
    BY <1>7 DEF Applied
  <2>2. ASSUME NEW p \in Made,
               \/ p[1] < socketid[w]
               \/ p[1] = socketid[w] /\ p[2] \notin Following(w, target[w])
        PROVE  change[w] \in content'[p]
    <3>1. ReachedBy(w, p) \/ p = here
      <4>1. CASE p[1] < socketid[w]
        BY <4>1 DEF ReachedBy
      <4>2. CASE p[1] = socketid[w] /\ p[2] \notin Following(w, target[w])
        <5>1. p[2] = next_replica[w] \/ p[2] < target[w] \/ p[2] = target[w]
          BY <1>2, <1>5, <4>2 DEF Following
        <5> QED
          BY <1>1, <1>2, <1>7, <4>2, <5>1 DEF ReachedBy
      <4> QED
        BY <2>2, <4>1, <4>2
    <3>2. CASE ReachedBy(w, p)
      BY <1>1, <1>2, <1>3, <3>2
    <3> QED
      BY <1>4, <3>1, <3>2
  <2> QED
    BY <1>1, <1>3, <1>5, <2>1, <2>2, GoOnReaches
<1> QED
  BY <1>6, <1>7

LEMMA WriterKeepsVInv ==
    ASSUME VInv, TypeInv', NEW w \in Writers, Writer(w)
    PROVE  VInv'
<1>1. TypeOK /\ TypeInv /\ UnderWay(w)
  BY DEF VInv, TypeInv
<1>2. /\ numa_on' = numa_on => Made' = Made /\ TableSockets' = TableSockets
      /\ Made \subseteq Copy /\ TableSockets \subseteq Nat /\ Replicas \subseteq Nat
      /\ \A p \in Made : p[1] \in TableSockets /\ p[1] \in Nat
                        /\ p[2] \in Replicas /\ p[2] \in Nat
  BY <1>1, MadeSame, MadeExist
<1> DEFINE Same(v) ==
             /\ wpc'[v] = wpc[v] /\ change'[v] = change[v] /\ socketid'[v] = socketid[v]
             /\ target'[v] = target[v] /\ next_replica'[v] = next_replica[v]
<1>3. CASE Promote(w)
  <2>1. /\ Least(TableSockets) \in TableSockets
        /\ \A s \in TableSockets : Least(TableSockets) <= s
    BY <1>1, LeastIn, SocketsWithTables DEF TypeOK
  <2>2. /\ ChooseReplica(w, Least(TableSockets))
        /\ change' = [change EXCEPT ![w] = started + 1]
        /\ UNCHANGED <<numa_on, content, tables, done>>
    BY <1>3 DEF Promote
  <2>3. /\ socketid'[w] = Least(TableSockets) /\ target'[w] = next_replica'[w]
        /\ wpc' = [wpc EXCEPT ![w] = "apply"]
    BY <1>1, <2>1, <2>2, Chosen
  <2>4. wpc'[w] = "apply"
    BY <1>1, <2>3 DEF TypeOK
  <2>5. \A p \in Made : ~ReachedBy(w, p)'
    <3> SUFFICES ASSUME NEW p \in Made, ReachedBy(w, p)' PROVE FALSE
      OBVIOUS
    <3>1. p[1] < Least(TableSockets)
      BY <2>3, <2>4 DEF ReachedBy
    <3>2. /\ p[1] \in Nat /\ Least(TableSockets) \in Nat
          /\ Least(TableSockets) <= p[1]
      BY <1>2, <2>1
    <3> QED
      BY <3>1, <3>2
  <2>6. UnderWay(w)'
    BY <1>2, <2>1, <2>2, <2>3, <2>5 DEF UnderWay
  <2>7. \A v \in Writers \ {w} : Same(v)
    BY <1>1, <2>2 DEF ChooseReplica, Goto, TypeOK
  <2> QED
    BY <2>2, <2>6, <2>7, OthersKeep DEF VInv
<1>4. CASE Apply(w)
  <2>1. /\ wpc[w] = "apply" /\ wpc' = [wpc EXCEPT ![w] = "applying"]
        /\ UNCHANGED <<numa_on, content, tables, change, socketid, next_replica, target, done>>
    BY <1>4 DEF Apply, Goto
  <2>2. wpc'[w] = "applying" /\ \A v \in Writers \ {w} : Same(v)
    BY <1>1, <2>1 DEF TypeOK
  <2>3. \A p \in Made : ReachedBy(w, p)' => ReachedBy(w, p)
    BY <2>1, <2>2 DEF ReachedBy
  <2>4. UnderWay(w)'
    BY <1>1, <1>2, <2>1, <2>3 DEF UnderWay
  <2> QED
    BY <2>1, <2>2, <2>4, OthersKeep DEF VInv
<1>5. CASE Applied(w)
  BY <1>5, AppliedKeepsVInv
<1>6. CASE change_replica(w)
  <2>1. /\ wpc[w] = "change"
        /\ tables' = [tables EXCEPT ![Least(todo[w])] = <<socketid[w], next_replica[w]>>]
        /\ UNCHANGED <<numa_on, content, wpc, change, socketid, next_replica, target, done>>
    BY <1>6 DEF change_replica
  <2>2. <<socketid[w], next_replica[w]>> \in Made
    BY <1>1, <2>1 DEF UnderWay, Made, TypeOK
  <2>3. \A l \in Cores : tables'[l] \in Made
    BY <1>1, <2>1, <2>2 DEF VInv, TypeOK
  <2>4. UnderWay(w)'
    BY <1>1, <1>2, <2>1 DEF UnderWay, ReachedBy
  <2> QED
    BY <2>1, <2>3, <2>4, OthersKeep DEF VInv
<1>7. CASE Sleep(w)
  <2>1. /\ wpc[w] = "change" /\ wpc' = [wpc EXCEPT ![w] = "sleep"]
        /\ UNCHANGED <<numa_on, content, tables, change, socketid, next_replica, target, done>>
    BY <1>7 DEF Sleep, Goto
  <2>2. wpc'[w] = "sleep" /\ \A v \in Writers \ {w} : Same(v)
    BY <1>1, <2>1 DEF TypeOK
  <2>3. \A p \in Made : ReachedBy(w, p)' => ReachedBy(w, p)
    BY <2>1, <2>2 DEF ReachedBy
  <2>4. UnderWay(w)'
    BY <1>1, <1>2, <2>1, <2>3 DEF UnderWay
  <2> QED
    BY <2>1, <2>2, <2>4, OthersKeep DEF VInv
<1>8. CASE WakeUp(w)
  <2>1. /\ wpc[w] = "sleep" /\ GoOn(w, Following(w, -1))
        /\ UNCHANGED <<numa_on, content, tables, change>>
    BY <1>8 DEF WakeUp
  <2>2. ASSUME NEW p \in Made,
               p[1] < socketid[w] \/ (p[1] = socketid[w] /\ p[2] \notin Following(w, -1))
        PROVE  change[w] \in content'[p]
    <3>1. p[2] \notin Following(w, -1) => p[2] = next_replica[w]
      <4>1. p[2] \in Replicas /\ p[2] > -1
        BY <1>2
      <4> QED
        BY <4>1 DEF Following
    <3>2. ReachedBy(w, p)
      BY <2>1, <2>2, <3>1 DEF ReachedBy
    <3> QED
      BY <1>1, <2>1, <3>2 DEF UnderWay
  <2> QED
    BY <2>1, <2>2, GoOnReaches
<1> QED
  BY <1>3, <1>4, <1>5, <1>6, <1>7, <1>8 DEF Writer

LEMMA NextKeepsVInv == VInv /\ [Next]_vars => VInv'
<1> SUFFICES ASSUME VInv, [Next]_vars PROVE VInv'
  OBVIOUS
<1>1. TypeInv'
  BY NextKeepsType DEF VInv
<1> DEFINE Quiet == UNCHANGED <<numa_on, content, tables, wpc, change, socketid,
                                next_replica, target, done>>
<1>2. ASSUME Quiet PROVE VInv'
  <2>1. Made' = Made /\ TableSockets' = TableSockets
    BY <1>2, MadeSame
  <2>2. ASSUME NEW w \in Writers PROVE UnderWay(w)'
    BY <1>2, <2>1 DEF VInv, UnderWay, ReachedBy
  <2> QED
    BY <1>1, <1>2, <2>1, <2>2 DEF VInv
<1>3. CASE UNCHANGED vars
  BY <1>2, <1>3 DEF vars, writerVars
<1>4. ASSUME NEW l \in Cores, Core(l) PROVE Quiet
  BY <1>4 DEF Core, BeginLookup, EndLookup, writerVars
<1> QED
  BY <1>1, <1>2, <1>3, <1>4, WriterKeepsVInv DEF Next

(* When a promote call has returned, the next lookup of every core finds the  *)
(* change, even of a core that change_replica did not turn over, and even if  *)
(* other threads change the table at the same time.                           *)
THEOREM DoneCorrect == Spec => []DoneIsVisible
<1>1. VInv => DoneIsVisible
  BY DEF VInv, DoneIsVisible, View
<1> QED
  BY InitVInv, NextKeepsVInv, <1>1, PTL DEF Spec
-----------------------------------------------------------------------------
(* One writer.                                                               *)

(* The changes completed are all those before the one under way, and no copy *)
(* has others than these.                                                    *)
Numbered(w) ==
    /\ started \in Nat
    /\ wpc[w] # "idle" => change[w] = started /\ started \in Changes
    /\ done = 1 .. (IF wpc[w] = "idle" THEN started ELSE started - 1)
    /\ \A p \in Copy : content[p] \subseteq 1 .. started

OrderInv(w) == VInv /\ Numbered(w)

LEMMA InitOrder ==
    ASSUME NEW w, Writers = {w}, Init
    PROVE  OrderInv(w)
<1>1. VInv
  BY InitVInv
<1>2. started = 0 /\ wpc[w] = "idle" /\ done = {} /\ \A p \in Copy : content[p] = {}
  BY DEF Init
<1>3. 1 .. 0 = {}
  OBVIOUS
<1> QED
  BY <1>1, <1>2, <1>3 DEF OrderInv, Numbered

(* GoOn goes on with the change, or completes it. *)
LEMMA GoOnNumbers ==
    ASSUME NEW w, Writers = {w}, OrderInv(w), wpc[w] # "idle",
           NEW rest, rest \subseteq Replicas, GoOn(w, rest),
           UNCHANGED <<change, started>>,
           \A p \in Copy : content'[p] \subseteq 1 .. started
    PROVE  Numbered(w)'
<1>1. TypeOK /\ Numbered(w) /\ w \in Writers
  BY DEF OrderInv, VInv, TypeInv
<1>2. CASE wpc'[w] = "idle" /\ done' = done \cup {change[w]}
  <2>1. started \in Nat /\ started \in Changes /\ done = 1 .. (started - 1) /\ change[w] = started
    BY <1>1 DEF Numbered
  <2>2. done' = 1 .. started
    <3>1. 1 <= started
      BY <2>1, ConstAssumption DEF Changes
    <3>2. (1 .. (started - 1)) \cup {started} = 1 .. started
      BY <2>1, <3>1
    <3> QED
      BY <1>2, <2>1, <3>2
  <2> QED
    BY <1>1, <1>2, <2>2 DEF Numbered
<1>3. CASE wpc'[w] = "apply" /\ done' = done
  BY <1>1, <1>3 DEF Numbered
<1>4. \/ wpc'[w] = "idle" /\ done' = done \cup {change[w]}
      \/ wpc'[w] = "apply" /\ done' = done
  <2>1. CASE \E s \in TableSockets : ChooseReplica(w, s)
    BY <1>1, <2>1, Chosen, WhereNext DEF TypeOK
  <2> QED
    BY <1>1, <2>1, WhereNext DEF TypeOK
<1> QED
  BY <1>2, <1>3, <1>4

LEMMA WriterNumbers ==
    ASSUME NEW w, Writers = {w}, OrderInv(w), Writer(w)
    PROVE  Numbered(w)'
<1>1. TypeOK /\ Numbered(w) /\ w \in Writers
  BY DEF OrderInv, VInv, TypeInv
<1>2. CASE Promote(w)
  <2>1. /\ wpc[w] = "idle" /\ started < MaxChanges /\ started' = started + 1
        /\ change' = [change EXCEPT ![w] = started + 1]
        /\ wpc'[w] = "apply" /\ UNCHANGED <<content, done>>
    BY <1>1, <1>2 DEF Promote, ChooseReplica, Goto, TypeOK
  <2>2. started \in Nat /\ started' \in Changes /\ change'[w] = started'
    BY <1>1, <2>1, ConstAssumption DEF Numbered, TypeOK, Changes
  <2>3. /\ started' - 1 = started /\ started' \in Nat
        /\ 1 .. started \subseteq 1 .. started'
    BY <2>1, <2>2
  <2> QED
    BY <1>1, <2>1, <2>2, <2>3 DEF Numbered
<1>3. CASE Applied(w)
  <2>1. /\ wpc[w] = "applying" /\ UNCHANGED <<change, started>>
        /\ content' = [content EXCEPT ![<<socketid[w], target[w]>>] = @ \cup {change[w]}]
    BY <1>3 DEF Applied
  <2>2. change[w] \in 1 .. started
    BY <1>1, <2>1 DEF Numbered, Changes
  <2>3. \A p \in Copy : content'[p] \subseteq 1 .. started
    BY <1>1, <2>1, <2>2 DEF Numbered, TypeOK
  <2>4. CASE target[w] = next_replica[w]
    <3>1. wpc'[w] = "change" /\ done' = done
      BY <1>1, <1>3, <2>4 DEF Applied, Goto, TypeOK
    <3> QED
      BY <1>1, <2>1, <2>3, <3>1 DEF Numbered
  <2>5. CASE target[w] # next_replica[w]
    <3>1. GoOn(w, Following(w, target[w]))
      BY <1>3, <2>5 DEF Applied
    <3>2. Following(w, target[w]) \subseteq Replicas
      BY DEF Following
    <3> QED
      BY <2>1, <2>3, <3>1, <3>2, GoOnNumbers
  <2> QED
    BY <2>4, <2>5
<1>4. CASE WakeUp(w)
  <2>1. /\ wpc[w] = "sleep" /\ GoOn(w, Following(w, -1))
        /\ UNCHANGED <<change, started, content>>
    BY <1>4 DEF WakeUp
  <2>2. Following(w, -1) \subseteq Replicas
    BY DEF Following
  <2>3. \A p \in Copy : content'[p] \subseteq 1 .. started
    BY <1>1, <2>1 DEF Numbered
  <2> QED
    BY <2>1, <2>2, <2>3, GoOnNumbers
<1>5. CASE Apply(w) \/ change_replica(w) \/ Sleep(w)
  <2>1. /\ wpc[w] # "idle" /\ wpc'[w] # "idle"
        /\ UNCHANGED <<content, change, started, done>>
    BY <1>1, <1>5 DEF Apply, change_replica, Sleep, Goto, TypeOK
  <2> QED
    BY <1>1, <2>1 DEF Numbered
<1> QED
  BY <1>2, <1>3, <1>4, <1>5 DEF Writer

LEMMA NextKeepsOrder ==
    ASSUME NEW w, Writers = {w}, OrderInv(w), [Next]_vars
    PROVE  OrderInv(w)'
<1>1. VInv'
  BY NextKeepsVInv DEF OrderInv
<1>2. Numbered(w)'
  <2> DEFINE Quiet == UNCHANGED <<wpc, change, started, done, content>>
  <2>1. ASSUME Quiet PROVE Numbered(w)'
    BY <2>1 DEF OrderInv, Numbered
  <2>2. ASSUME NEW l \in Cores, Core(l) PROVE Quiet
    BY <2>2 DEF Core, BeginLookup, EndLookup, writerVars
  <2>3. ASSUME UNCHANGED vars PROVE Quiet
    BY <2>3 DEF vars, writerVars
  <2> QED
    BY <2>1, <2>2, <2>3, WriterNumbers DEF Next
<1> QED
  BY <1>1, <1>2 DEF OrderInv

(* What every core sees lies between what is completed and what was begun. *)
LEMMA Between ==
    ASSUME NEW w, Writers = {w}, OrderInv(w), NEW l \in Cores
    PROVE  done \subseteq View(l) /\ View(l) \subseteq 1 .. started
<1>1. tables[l] \in Made /\ Made \subseteq Copy
  BY MadeExist DEF OrderInv, VInv
<1> QED
  BY <1>1 DEF OrderInv, VInv, Numbered, View

LEMMA OrderIsEnough ==
    ASSUME NEW w, Writers = {w}, OrderInv(w)
    PROVE  SeenInOrder
<1>1. TypeOK /\ Numbered(w)
  BY DEF OrderInv, VInv, TypeInv
<1>2. ASSUME NEW l \in Cores PROVE \E n \in 0 .. started : View(l) = 1 .. n
  <2>1. done \subseteq View(l) /\ View(l) \subseteq 1 .. started
    BY Between
  <2>2. CASE wpc[w] = "idle"
    <3>1. started \in Nat /\ done = 1 .. started
      BY <1>1, <2>2 DEF Numbered
    <3>2. View(l) = done
      BY <2>1, <3>1
    <3>3. started \in 0 .. started
      BY <3>1
    <3> QED
      BY <3>1, <3>2, <3>3
  <2>3. CASE wpc[w] # "idle"
    <3>1. started \in Nat /\ 1 <= started /\ done = 1 .. (started - 1)
      BY <1>1, <2>3, ConstAssumption DEF Numbered, Changes
    <3>2. 1 .. started = (1 .. (started - 1)) \cup {started}
      BY <3>1
    <3>3. View(l) = 1 .. started \/ View(l) = 1 .. (started - 1)
      <4> DEFINE prior == 1 .. (started - 1)
      <4>1. prior \subseteq View(l) /\ View(l) \subseteq prior \cup {started}
        BY <2>1, <3>1, <3>2
      <4> HIDE DEF prior
      <4>2. View(l) = prior \cup {started} \/ View(l) = prior
        BY <4>1
      <4> QED
        BY <3>2, <4>2 DEF prior
    <3>4. started \in 0 .. started /\ started - 1 \in 0 .. started
      BY <3>1
    <3> QED
      BY <3>3, <3>4
  <2> QED
    BY <2>2, <2>3
<1> QED
  BY <1>1, <1>2 DEF SeenInOrder

LEMMA ViewsOnlyGrow ==
    ASSUME NEW w, Writers = {w}, OrderInv(w), [Next]_vars, NEW l \in Cores
    PROVE  View(l) \subseteq View(l)'
<1>1. TypeOK /\ Numbered(w) /\ VInv /\ TypeInv /\ w \in Writers
  BY DEF OrderInv, VInv, TypeInv
<1>2. tables[l] \in Copy
  BY <1>1 DEF TypeOK
<1>3. ASSUME UNCHANGED <<content, tables>> PROVE View(l) \subseteq View(l)'
  BY <1>3 DEF View
<1>4. CASE Applied(w)
  <2>1. /\ content' = [content EXCEPT ![<<socketid[w], target[w]>>] = @ \cup {change[w]}]
        /\ tables' = tables
    BY <1>4 DEF Applied
  <2>2. content[tables[l]] \subseteq content'[tables[l]]
    BY <1>1, <1>2, <2>1 DEF TypeOK
  <2> QED
    BY <2>1, <2>2 DEF View
<1>5. CASE change_replica(w)
  <2> DEFINE here == <<socketid[w], next_replica[w]>>
  <2>1. /\ wpc[w] = "change" /\ content' = content
        /\ tables' = [tables EXCEPT ![Least(todo[w])] = here]
    BY <1>5 DEF change_replica
  <2>2. UnderWay(w)
    BY <1>1 DEF VInv
  <2>3. here \in Made
    BY <1>1, <2>1, <2>2 DEF UnderWay, Made, TypeOK
  <2>4. ReachedBy(w, here)
    BY <2>1 DEF ReachedBy
  <2>5. change[w] \in content[here] /\ done \subseteq content[here]
    BY <1>1, <2>1, <2>2, <2>3, <2>4 DEF UnderWay, VInv
  <2>6. 1 .. started \subseteq content[here]
    <3>1. started \in Nat /\ change[w] = started /\ done = 1 .. (started - 1)
      BY <1>1, <2>1 DEF Numbered
    <3>2. 1 .. started \subseteq (1 .. (started - 1)) \cup {started}
      BY <3>1
    <3> QED
      BY <2>5, <3>1, <3>2
  <2>7. tables'[l] = here \/ tables'[l] = tables[l]
    BY <1>1, <2>1 DEF TypeOK
  <2> QED
    BY <2>1, <2>6, <2>7, Between DEF View
<1>6. ASSUME Promote(w) \/ Apply(w) \/ Sleep(w) \/ WakeUp(w)
      PROVE  UNCHANGED <<content, tables>>
  BY <1>6 DEF Promote, Apply, Sleep, WakeUp
<1>7. ASSUME NEW k \in Cores, Core(k) PROVE UNCHANGED <<content, tables>>
  BY <1>7 DEF Core, BeginLookup, EndLookup
<1>8. ASSUME UNCHANGED vars PROVE UNCHANGED <<content, tables>>
  BY <1>8 DEF vars
<1> QED
  BY <1>3, <1>4, <1>5, <1>6, <1>7, <1>8 DEF Next, Writer

(* Changes made by one thread become visible to every core in the order in    *)
(* which they were made, while some cores were turned over and others not.    *)
THEOREM OrderCorrect ==
    ASSUME NEW w, Writers = {w}
    PROVE  Spec => []SeenInOrder
<1>1. Init => OrderInv(w)
  BY InitOrder
<1>2. OrderInv(w) /\ [Next]_vars => OrderInv(w)'
  BY NextKeepsOrder
<1>3. OrderInv(w) => SeenInOrder
  BY OrderIsEnough
<1> QED
  BY <1>1, <1>2, <1>3, PTL DEF Spec

(* A core that is turned over is never taken back to a copy without a change  *)
(* that it could see.                                                         *)
THEOREM GrowCorrect ==
    ASSUME NEW w, Writers = {w}
    PROVE  Spec => ViewsGrow
<1>1. Init => OrderInv(w)
  BY InitOrder
<1>2. OrderInv(w) /\ [Next]_vars => OrderInv(w)'
  BY NextKeepsOrder
<1>3. OrderInv(w) /\ [Next]_vars => [\A l \in Cores : View(l) \subseteq View(l)']_vars
  BY ViewsOnlyGrow
<1> QED
  BY <1>1, <1>2, <1>3, PTL DEF Spec, ViewsGrow
=============================================================================
