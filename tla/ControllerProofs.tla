--------------------------- MODULE ControllerProofs ---------------------------
(***************************************************************************)
(* Proof that a switch whose descriptor no other connection has had finds  *)
(* a stream of whole messages in the order in which they were sent, and    *)
(* that no message reaches two switches: for any program, any number of    *)
(* switches, threads, digests and messages, any capacity of the queues,    *)
(* with switches that leave at any time.                                   *)
(*                                                                         *)
(* Neither StreamInSync nor AtMostOnceInOrder is inductive.  That one      *)
(* thread writes to such a switch follows from what the main loop does     *)
(* with descriptors and jobs (Wired, JobsGiven); that its messages ascend, *)
(* from the queue ascending and everything taken from it being older than  *)
(* what is in it (TakenInOrder); and where in the stream the thread is,    *)
(* from what it has still to write and what is on the way (Streams).       *)
(*                                                                         *)
(* The second part is about one switch that stays, and a queue with room:  *)
(* it has what init sends when it is told so, and can forward to every     *)
(* address it knows as learned.  That follows from what each program sends *)
(* (Complete, Filling), from what was sent and is still to be sent         *)
(* (Sending), and from no message being lost on the way (AllPlaced).       *)
(*                                                                         *)
(* The third: what is received is what was meant.  The programs send only  *)
(* messages that a buffer has room for (AllMeant), and those are received  *)
(* as they were built (MessagesProofs.RoundTrip).                          *)
(***************************************************************************)
EXTENDS Controller, MessagesProofs, FiniteSetTheorems

(* Messages without a body *)
Short == {k \in DOMAIN sent : sent[k].type = "CTRL_INITIALIZED"}

(* A unit that is a whole message, or the end of one *)
Ends(K, u) == u[2] = Header <=> u[1] \in K

UnitSet(K, n) == {u \in (1 .. n) \X {Header, Body} : u[2] = Body => u[1] \notin K}

UnitsOf(K, k) == IF k \in K THEN << <<k, Header>> >> ELSE << <<k, Header>>, <<k, Body>> >>
BodyOf(k) == << <<k, Body>> >>
-----------------------------------------------------------------------------
(* Descriptors, connections and switches.                                   *)
MainTypes ==
    /\ scenario \in Scenarios /\ alive \in BOOLEAN
    /\ input_queue \in Seq(DOMAIN scenario.digests) /\ Len(input_queue) <= scenario.capacity
    /\ mpc \in {"select", "scan", "sleep", "init", "body"}
    /\ master \subseteq Fds \cup {Listening} /\ readfds \subseteq master
    /\ cur \in Fds \cup {Listening}

NetTypes ==
    /\ backlog \in Seq(Switches)
    /\ conn \in [Fds -> Switches \cup {0}]
    /\ fdOf \in [Switches -> Fds \cup {0}]
    /\ status \in [Switches -> {"off", "backlog", "open", "left"}]
    /\ reset \in [Switches -> BOOLEAN]
    /\ upSent \in [Switches -> Nat] /\ upRead \in [Switches -> Nat]

JobTypes ==
    /\ jobs \in Seq({"output", "input"} \X Fds)
    /\ job \in [Threads -> {Idle} \cup ({"output", "input"} \X Fds)]

MessageTypes ==
    /\ sent \in Seq(Range(sent))
    /\ output_queue \in Seq(1 .. Len(sent)) /\ Len(output_queue) <= scenario.capacity
    /\ cell \in [Threads -> 0 .. Len(sent)] /\ DOMAIN rest = Threads
    /\ DOMAIN down = Switches /\ \A s \in Switches : down[s] \in Seq(UnitSet(Short, Len(sent)))
    /\ awaited \in [Switches -> 0 .. Len(sent)]
    /\ garbled \in [Switches -> BOOLEAN]
    /\ received \in [Switches -> Seq(1 .. Len(sent))]

(* A switch waits in the backlog, has a descriptor of its own or has left;  *)
(* the main thread has in hand only connections that it has not closed.     *)
Wired ==
    /\ \A d \in Fds : conn[d] # 0 => /\ fdOf[conn[d]] = d
                                     /\ status[conn[d]] \in {"open", "left"}
    /\ \A s \in Switches : /\ status[s] = "open" => fdOf[s] # 0 /\ conn[fdOf[s]] = s
                           /\ status[s] \in {"off", "backlog"} => fdOf[s] = 0
                           /\ upRead[s] <= upSent[s]
                           /\ upSent[s] <= 2 * Len(scenario.digests)
    /\ \A i \in DOMAIN backlog : /\ fdOf[backlog[i]] = 0
                                 /\ status[backlog[i]] \in {"backlog", "left"}
    /\ \A i, j \in DOMAIN backlog : i # j => backlog[i] # backlog[j]
    /\ Listening \in readfds => backlog # << >>
    /\ \A d \in master \ {Listening} : conn[d] # 0
    /\ mpc \in {"sleep", "body"} => cur \in Fds /\ conn[cur] # 0
    /\ mpc = "body" => upRead[conn[cur]] >= 1

(* Of each descriptor that was given to one switch there is one output job. *)
Out(d) == <<"output", d>>
Given(d)  == \E s \in Switches : fdOf[s] = d
GivenTwice(d) == \E s, t \in Switches : s # t /\ fdOf[s] = d /\ fdOf[t] = d

JobsGiven ==
    \A d \in Fds :
        /\ \A i \in DOMAIN jobs : jobs[i] = Out(d) => Given(d)
        /\ \A w \in Threads : job[w] = Out(d) => Given(d)
        /\ \A i, j \in DOMAIN jobs : jobs[i] = Out(d) /\ jobs[j] = Out(d) /\ i # j => GivenTwice(d)
        /\ \A v, w \in Threads : job[v] = Out(d) /\ job[w] = Out(d) /\ v # w => GivenTwice(d)
        /\ \A i \in DOMAIN jobs, w \in Threads : jobs[i] = Out(d) /\ job[w] = Out(d) => GivenTwice(d)
-----------------------------------------------------------------------------
(* Messages.                                                                *)

(* What a thread has in hand is whole, or its header was written. *)
InHand(w) ==
    cell[w] # 0 => /\ job[w][1] = "output"
                   /\ \/ rest[w] = UnitsOf(Short, cell[w])
                      \/ cell[w] \notin Short /\ rest[w] = BodyOf(cell[w])

(* Everything that was taken from the queue is older than what is in it. *)
Older(q, a, r, k) ==
    /\ a < k
    /\ \A i \in DOMAIN q : q[i][1] < k
    /\ \A i \in DOMAIN r : r[i] < k

TakenInOrder ==
    /\ \A i, j \in DOMAIN output_queue : i < j => output_queue[i] < output_queue[j]
    /\ \A i \in DOMAIN output_queue :
          /\ \A w \in Threads : cell[w] < output_queue[i]
          /\ \A s \in Switches : Older(down[s], awaited[s], received[s], output_queue[i])

(* The end of a message is written once. *)
Delivered(K, q, r) == {r[i] : i \in DOMAIN r} \cup {q[i][1] : i \in {j \in DOMAIN q : Ends(K, q[j])}}
DeliveredTo(s) == Delivered(Short, down[s], received[s])

WrittenOnce ==
    /\ \A v, w \in Threads : v # w /\ cell[v] = cell[w] => cell[v] = 0
    /\ \A w \in Threads, s \in Switches : cell[w] \notin DeliveredTo(s)
    /\ \A s, t \in Switches : s # t => DeliveredTo(s) \cap DeliveredTo(t) = {}
-----------------------------------------------------------------------------
(* The stream to a switch: q is on the way, a is the message whose header   *)
(* was read last, r what was received.                                      *)
Follows(K, u, v) ==
    IF Ends(K, u) THEN v[2] = Header /\ u[1] < v[1] ELSE v = <<u[1], Body>>

InSync(K, q, a) ==
    /\ a # 0 => a \notin K
    /\ q # << >> => IF a = 0 THEN q[1][2] = Header ELSE q[1] = <<a, Body>>
    /\ \A i \in 1 .. Len(q) - 1 : Follows(K, q[i], q[i + 1])

Rising(r) == \A i, j \in DOMAIN r : i < j => r[i] < r[j]

Ascending(q, a, r) ==
    /\ Rising(r)
    /\ \A i \in DOMAIN r : /\ a # 0 => r[i] < a
                           /\ \A j \in DOMAIN q : r[i] < q[j][1]
    /\ \A i, j \in DOMAIN q : i < j => q[i][1] <= q[j][1]

Stream(K, q, a, r) == InSync(K, q, a) /\ Ascending(q, a, r)

(* The message at the end of the stream whose body has not been written *)
Unfinished(K, q, a) == IF q = << >> THEN a ELSE IF Ends(K, q[Len(q)]) THEN 0 ELSE q[Len(q)][1]

(* Where the thread is that writes to the stream *)
Writer(K, q, a, r, c, z) ==
    IF c = 0 THEN Unfinished(K, q, a) = 0
    ELSE IF z = BodyOf(c) THEN Unfinished(K, q, a) = c
    ELSE Unfinished(K, q, a) = 0 /\ Older(q, a, r, c)

Blank(s) == down[s] = << >> /\ awaited[s] = 0 /\ received[s] = << >> /\ garbled[s] = FALSE

Writes(w, s) == job[w] = Out(fdOf[s])

Streams ==
    \A s \in Switches :
        /\ fdOf[s] = 0 => Blank(s)
        /\ Fresh(s) => garbled[s] = FALSE /\ Rising(received[s])
        /\ Fresh(s) /\ status[s] = "open" =>
              /\ Stream(Short, down[s], awaited[s], received[s])
              /\ \A w \in Threads : Writes(w, s) =>
                    Writer(Short, down[s], awaited[s], received[s], cell[w], rest[w])
              /\ (\A w \in Threads : ~Writes(w, s)) => Blank(s)

(* A thread without a job is at one of three places.                        *)
Idling == /\ stage \in [Threads -> {"test", "wait", "waiting"}]
          /\ wakes \in Nat /\ wakes <= scenario.wakes

ControllerInv ==
    /\ MainTypes /\ NetTypes /\ Wired
    /\ JobTypes /\ JobsGiven
    /\ MessageTypes /\ (\A w \in Threads : InHand(w))
    /\ TakenInOrder /\ WrittenOnce /\ Streams
    /\ Idling
-----------------------------------------------------------------------------
(* Threads without a job.                                                   *)
Still == UNCHANGED <<scenario, alive, sent, output_queue, input_queue, mainVars, jobs, job,
                     cell, rest, netVars, swVars>>

Work(w) == StartJob(w) \/ OutTake(w) \/ OutWrite(w) \/ InTake(w) \/ InSend(w)

(* Testing for a job and waiting for one changes nothing that is not the    *)
(* thread's own.                                                            *)
LEMMA StillIs ==
    ASSUME [Next]_vars
    PROVE  \/ Still \/ execute_controller
           \/ \E w \in Threads : Work(w)
           \/ \E s \in Switches : Connect(s) \/ Leave(s) \/ SwitchRead(s) \/ SwitchWrite(s)
<1>1. ASSUME NEW w \in Threads, Release(w) \/ CondWait(w) \/ SpuriousWakeup(w) PROVE Still
  BY <1>1 DEF Release, CondWait, SpuriousWakeup, Still
<1>2. UNCHANGED vars => Still
  BY DEF vars, poolVars, Still
<1> QED
  BY <1>1, <1>2 DEF Next, do_work, Work

LEMMA InitIdling == Init => Idling
<1>1. Init => scenario.wakes \in Nat
  BY ConstAssumption DEF Init
<1> QED
  BY <1>1 DEF Init, Idling

LEMMA NextIdling ==
    ASSUME Idling, scenario \in Scenarios, [Next]_vars
    PROVE  Idling'
<1>1. scenario.wakes \in Nat
  BY ConstAssumption
<1>2. ASSUME NEW S PROVE UNCHANGED stage \/ Proceed(Least(S), "test") => stage' \in [Threads -> {"test", "wait", "waiting"}]
  BY DEF Idling, Proceed
<1>3. ASSUME UNCHANGED <<scenario, stage, wakes>> PROVE Idling'
  BY <1>3 DEF Idling
<1>4. ASSUME Accept \/ DispatchInput PROVE Idling'
  <2>1. UNCHANGED <<scenario, wakes>>
    BY <1>4 DEF Accept, DispatchInput
  <2>2. UNCHANGED stage \/ Proceed(Least(Idlers("waiting")), "test")
    BY <1>4 DEF Accept, DispatchInput, dispatch
  <2> QED
    BY <1>2, <2>1, <2>2 DEF Idling
<1>5. ASSUME NEW w \in Threads, Release(w) \/ CondWait(w) PROVE Idling'
  BY <1>5 DEF Release, CondWait, Proceed, Idling
<1>6. ASSUME NEW w \in Threads, SpuriousWakeup(w) PROVE Idling'
  BY <1>1, <1>6 DEF SpuriousWakeup, Proceed, Idling
<1>7. ASSUME Select \/ ScanDone \/ AcceptFails \/ RunInit \/ ReadBody PROVE Idling'
  BY <1>3, <1>7 DEF Select, ScanDone, AcceptFails, RunInit, ReadBody, poolVars, idleVars
<1>8. ASSUME NEW d \in Fds, ReadHeader(d) \/ ReadEof(d) \/ ReadReset(d) PROVE Idling'
  BY <1>3, <1>8 DEF ReadHeader, ReadEof, ReadReset, poolVars, idleVars
<1>9. ASSUME NEW w \in Threads, Work(w) PROVE Idling'
  BY <1>3, <1>9 DEF Work, StartJob, OutTake, OutWrite, InTake, InSend, idleVars
<1>10. ASSUME NEW s \in Switches, Connect(s) \/ Leave(s) \/ SwitchRead(s) \/ SwitchWrite(s)
       PROVE  Idling'
  BY <1>3, <1>10 DEF Connect, Leave, SwitchRead, SwitchWrite, poolVars, idleVars
<1>11. CASE UNCHANGED vars
  BY <1>3, <1>11 DEF vars, poolVars, idleVars
<1> QED
  BY <1>4, <1>5, <1>6, <1>7, <1>8, <1>9, <1>10, <1>11
  DEF Next, execute_controller, do_work, Work
-----------------------------------------------------------------------------
(* Lemmas about sequences.                                                  *)
LEMMA AppendIs ==
    ASSUME NEW S, NEW q \in Seq(S), NEW e \in S
    PROVE  /\ Append(q, e) \in Seq(S) /\ Append(q, e) # << >>
           /\ Len(Append(q, e)) = Len(q) + 1 /\ Len(q) \in Nat
           /\ DOMAIN q = 1 .. Len(q) /\ DOMAIN Append(q, e) = 1 .. Len(q) + 1
           /\ \A i \in 1 .. Len(q) : Append(q, e)[i] = q[i]
           /\ Append(q, e)[Len(q) + 1] = e
<1>1. Append(q, e) \in Seq(S) /\ Len(Append(q, e)) = Len(q) + 1 /\ Len(q) \in Nat
  BY AppendProperties
<1>2. DOMAIN q = 1 .. Len(q) /\ DOMAIN Append(q, e) = 1 .. Len(q) + 1
  BY <1>1, LenProperties
<1> QED
  BY <1>1, <1>2, AppendProperties

LEMMA TailIs ==
    ASSUME NEW S, NEW q \in Seq(S), q # << >>
    PROVE  /\ Tail(q) \in Seq(S) /\ Head(q) \in S /\ Head(q) = q[1]
           /\ Len(q) \in Nat /\ Len(q) >= 1 /\ Len(Tail(q)) = Len(q) - 1
           /\ DOMAIN q = 1 .. Len(q) /\ DOMAIN Tail(q) = 1 .. Len(q) - 1
           /\ \A i \in 1 .. Len(q) - 1 : Tail(q)[i] = q[i + 1]
           /\ Tail(q) = << >> <=> Len(q) = 1
<1>1. /\ Tail(q) \in Seq(S) /\ Head(q) \in S /\ Head(q) = q[1]
      /\ Len(Tail(q)) = Len(q) - 1 /\ Len(q) \in Nat
      /\ \A i \in 1 .. Len(q) - 1 : Tail(q)[i] = q[i + 1]
  BY HeadTailProperties, LenProperties
<1>2. Len(q) # 0
  BY EmptySeq
<1>3. Tail(q) = << >> <=> Len(Tail(q)) = 0
  BY <1>1, EmptySeq
<1> QED
  BY <1>1, <1>2, <1>3, LenProperties

(* A sequence of whatever has been appended to it *)
LEMMA AppendAny ==
    ASSUME NEW q, q \in Seq(Range(q)), NEW e
    PROVE  /\ Append(q, e) \in Seq(Range(Append(q, e)))
           /\ Len(Append(q, e)) = Len(q) + 1 /\ Len(q) \in Nat
           /\ DOMAIN q = 1 .. Len(q) /\ DOMAIN Append(q, e) = 1 .. Len(q) + 1
           /\ \A i \in 1 .. Len(q) : Append(q, e)[i] = q[i]
<1> DEFINE T == Range(q) \cup {e}
           p == Append(q, e)
<1>1. q \in Seq(T) /\ e \in T
  <2>1. Range(q) \subseteq T /\ e \in T
    OBVIOUS
  <2> QED
    BY <2>1, SeqMonotonic
<1>2. /\ p \in Seq(T) /\ Len(p) = Len(q) + 1 /\ Len(q) \in Nat
      /\ DOMAIN q = 1 .. Len(q) /\ DOMAIN p = 1 .. Len(q) + 1
      /\ \A i \in 1 .. Len(q) : p[i] = q[i]
  BY <1>1, AppendIs
<1>3. p \in Seq(Range(p))
  <2> HIDE DEF p
  <2>1. p = [i \in 1 .. Len(p) |-> p[i]] /\ \A i \in 1 .. Len(p) : p[i] \in Range(p)
    <3>1. p \in [1 .. Len(p) -> T] /\ DOMAIN p = 1 .. Len(p)
      BY <1>2, LenProperties
    <3> QED
      BY <3>1 DEF Range
  <2>2. Len(p) \in Nat
    BY <1>2
  <2> QED
    BY <2>1, <2>2, IsASeq
<1> QED
  BY <1>2, <1>3
-----------------------------------------------------------------------------
(* Lemmas about streams.                                                    *)
Numbers(K, n, q, a, r) ==
    n \in Nat /\ q \in Seq(UnitSet(K, n)) /\ a \in 0 .. n /\ r \in Seq(1 .. n)

(* what may be written next *)
Next1(K, q, a, r, u) ==
    \/ Unfinished(K, q, a) = 0 /\ u[2] = Header /\ Older(q, a, r, u[1])
    \/ Unfinished(K, q, a) # 0 /\ u = <<Unfinished(K, q, a), Body>>

LEMMA UnitIs ==
    ASSUME NEW K, NEW n \in Nat, NEW u \in UnitSet(K, n)
    PROVE  /\ u = <<u[1], u[2]>> /\ u[1] \in 1 .. n /\ u[2] \in {Header, Body}
           /\ Header # Body
           /\ Ends(K, u) <=> (u[2] = Body \/ u[1] \in K)
           /\ u[2] = Body => u[1] \notin K
BY DEF UnitSet, Ends, Header, Body

LEMMA StreamAppend ==
    ASSUME NEW K, NEW n, NEW q, NEW a, NEW r, Numbers(K, n, q, a, r),
           Stream(K, q, a, r), NEW u \in UnitSet(K, n), Next1(K, q, a, r, u)
    PROVE  /\ Stream(K, Append(q, u), a, r)
           /\ Unfinished(K, Append(q, u), a) = IF Ends(K, u) THEN 0 ELSE u[1]
<1> DEFINE p == Append(q, u)
           U == UnitSet(K, n)
<1>1. /\ p \in Seq(U) /\ p # << >> /\ Len(p) = Len(q) + 1 /\ Len(q) \in Nat
      /\ DOMAIN q = 1 .. Len(q) /\ DOMAIN p = 1 .. Len(q) + 1
      /\ \A i \in 1 .. Len(q) : p[i] = q[i]
      /\ p[Len(q) + 1] = u
  BY AppendIs DEF Numbers
<1>0. Len(q) \in Nat
  BY <1>1
<1>2. \A i \in 1 .. Len(q) : q[i] \in U
  BY ElementOfSeq DEF Numbers
<1>3. q = << >> <=> Len(q) = 0
  BY EmptySeq DEF Numbers
<1>4. n \in Nat /\ a \in Nat /\ DOMAIN r = 1 .. Len(r) /\ \A i \in DOMAIN r : r[i] \in Nat
  <2>1. \A i \in 1 .. Len(r) : r[i] \in 1 .. n
    BY ElementOfSeq DEF Numbers
  <2> QED
    BY <2>1, LenProperties DEF Numbers
<1> HIDE DEF p, U
<1>5. u = <<u[1], u[2]>> /\ u[1] \in 1 .. n /\ u[1] \in Nat /\ u[1] # 0 /\ Header # Body
  BY <1>4, UnitIs
<1>6. /\ \A i \in 1 .. Len(q) : q[i][1] \in 1 .. n /\ q[i][1] \in Nat
      /\ \A i \in 1 .. Len(q) : q[i][1] # 0
  <2>1. ASSUME NEW i \in 1 .. Len(q) PROVE q[i][1] \in 1 .. n
    <3>1. q[i] \in UnitSet(K, n)
      BY <1>2 DEF U
    <3> QED
      BY <3>1, <1>4, UnitIs
  <2> QED
    BY <2>1, <1>4
<1>7. Unfinished(K, p, a) = IF Ends(K, u) THEN 0 ELSE u[1]
  BY <1>1 DEF Unfinished
<1>8. InSync(K, p, a)
  <2>1. a # 0 => a \notin K
    BY DEF Stream, InSync
  <2>2. IF a = 0 THEN p[1][2] = Header ELSE p[1] = <<a, Body>>
    <3>1. CASE Len(q) = 0
      <4>1. p[1] = u /\ q = << >> /\ Unfinished(K, q, a) = a
        BY <3>1, <1>1, <1>3 DEF Unfinished
      <4> QED
        BY <4>1 DEF Next1
    <3>2. CASE Len(q) # 0
      <4>1. p[1] = q[1] /\ q # << >>
        BY <3>2, <1>1, <1>3
      <4> QED
        BY <4>1 DEF Stream, InSync
    <3> QED
      BY <3>1, <3>2
  <2>3. ASSUME NEW i \in 1 .. Len(p) - 1 PROVE Follows(K, p[i], p[i + 1])
    <3>1. CASE i < Len(q)
      <4>1. i \in 1 .. Len(q) - 1 /\ p[i] = q[i] /\ p[i + 1] = q[i + 1]
        BY <3>1, <1>1
      <4> QED
        BY <4>1 DEF Stream, InSync
    <3>2. CASE ~(i < Len(q))
      <4>0. i \in 1 .. Len(q)
        BY <1>1
      <4>7. i = Len(q)
        BY <4>0, <3>2, <1>0
      <4>1. i = Len(q) /\ i \in 1 .. Len(q) /\ p[i] = q[i] /\ p[i + 1] = u
        BY <4>0, <4>7, <1>1
      <4>2. Unfinished(K, q, a) = IF Ends(K, q[i]) THEN 0 ELSE q[i][1]
        BY <4>1, <1>3 DEF Unfinished
      <4>3. q[i][1] # 0
        BY <4>1, <1>6
      <4>4. CASE Ends(K, q[i])
        <5>1. u[2] = Header /\ q[i][1] < u[1]
          BY <4>1, <4>2, <4>4, <1>1 DEF Next1, Older
        <5> QED
          BY <5>1, <4>1, <4>4 DEF Follows
      <4>5. CASE ~Ends(K, q[i])
        <5>1. u = <<q[i][1], Body>>
          BY <4>2, <4>3, <4>5 DEF Next1
        <5> QED
          BY <5>1, <4>1, <4>5 DEF Follows
      <4> QED
        BY <4>4, <4>5
    <3> QED
      BY <3>1, <3>2
  <2> QED
    BY <2>1, <2>2, <2>3 DEF InSync
<1>9. Ascending(p, a, r)
  <2>1. /\ Rising(r) /\ \A i \in DOMAIN r : a # 0 => r[i] < a
        /\ \A i \in DOMAIN r, j \in 1 .. Len(q) : r[i] < q[j][1]
        /\ \A i, j \in 1 .. Len(q) : i < j => q[i][1] <= q[j][1]
    BY <1>1 DEF Stream, Ascending
  <2>2. ASSUME NEW i \in DOMAIN r PROVE r[i] < u[1]
    <3>1. CASE Unfinished(K, q, a) = 0
      BY <3>1 DEF Next1, Older
    <3>2. CASE Unfinished(K, q, a) # 0
      <4>1. u[1] = Unfinished(K, q, a)
        BY <3>2 DEF Next1
      <4>2. CASE q = << >>
        BY <4>1, <4>2, <3>2, <2>1 DEF Unfinished
      <4>3. CASE q # << >>
        <5>1. Len(q) \in 1 .. Len(q) /\ u[1] = q[Len(q)][1]
          BY <4>1, <4>3, <3>2, <1>1, <1>3 DEF Unfinished
        <5> QED
          BY <5>1, <2>1
      <4> QED
        BY <4>2, <4>3
    <3> QED
      BY <3>1, <3>2
  <2>3. ASSUME NEW i \in 1 .. Len(q) PROVE q[i][1] <= u[1]
    <3>1. CASE Unfinished(K, q, a) = 0
      <4>1. Older(q, a, r, u[1]) /\ i \in DOMAIN q
        BY <3>1, <1>1 DEF Next1
      <4>2. q[i][1] < u[1]
        BY <4>1 DEF Older
      <4> QED
        BY <4>2, <1>5, <1>6
    <3>2. CASE Unfinished(K, q, a) # 0
      <4>1. u[1] = Unfinished(K, q, a)
        BY <3>2 DEF Next1
      <4>2. q # << >>
        BY <1>3, <1>1
      <4>3. Len(q) \in 1 .. Len(q) /\ u[1] = q[Len(q)][1]
        BY <4>1, <4>2, <3>2, <1>1, <1>3 DEF Unfinished
      <4>4. CASE i = Len(q)
        BY <4>3, <4>4, <1>6
      <4>5. CASE i # Len(q)
        <5>1. i < Len(q)
          BY <4>5, <1>0
        <5> QED
          BY <5>1, <4>3, <2>1
      <4> QED
        BY <4>4, <4>5
    <3> QED
      BY <3>1, <3>2
  <2>4. ASSUME NEW i \in DOMAIN r, NEW j \in 1 .. Len(q) + 1 PROVE r[i] < p[j][1]
    <3>1. j = Len(q) + 1 \/ j \in 1 .. Len(q)
      BY <1>1
    <3> QED
      BY <3>1, <2>1, <2>2, <1>1
  <2>5. ASSUME NEW i \in 1 .. Len(q) + 1, NEW j \in 1 .. Len(q) + 1, i < j
        PROVE  p[i][1] <= p[j][1]
    <3>1. i \in 1 .. Len(q) /\ (j = Len(q) + 1 \/ j \in 1 .. Len(q))
      BY <2>5, <1>1
    <3> QED
      BY <3>1, <2>1, <2>3, <2>5, <1>1
  <2> QED
    BY <2>1, <2>4, <2>5, <1>1 DEF Ascending
<1> QED
  BY <1>7, <1>8, <1>9 DEF Stream, p

(* What a switch reads is what is due, and the rest is a stream again. *)
Due(a, u) == IF a = 0 THEN u[2] = Header ELSE u = <<a, Body>>

LEMMA StreamRead ==
    ASSUME NEW K, NEW n, NEW q, NEW a, NEW r, Numbers(K, n, q, a, r),
           Stream(K, q, a, r), q # << >>
    PROVE  /\ Due(a, Head(q))
           /\ Ends(K, Head(q)) =>
                 /\ Stream(K, Tail(q), 0, Append(r, Head(q)[1]))
                 /\ Unfinished(K, Tail(q), 0) = Unfinished(K, q, a)
           /\ ~Ends(K, Head(q)) =>
                 /\ Stream(K, Tail(q), Head(q)[1], r)
                 /\ Unfinished(K, Tail(q), Head(q)[1]) = Unfinished(K, q, a)
<1> DEFINE U == UnitSet(K, n)
           t == Tail(q)
           u == Head(q)
           m == Len(q)
<1>1. /\ t \in Seq(U) /\ u \in U /\ u = q[1] /\ m \in Nat /\ m >= 1 /\ Len(t) = m - 1
      /\ DOMAIN q = 1 .. m /\ DOMAIN t = 1 .. m - 1
      /\ \A i \in 1 .. m - 1 : t[i] = q[i + 1]
      /\ t = << >> <=> m = 1
  BY TailIs DEF Numbers
<1>2. \A i \in 1 .. m : q[i] \in U
  BY ElementOfSeq DEF Numbers
<1>3. n \in Nat
  BY DEF Numbers
<1> HIDE DEF U, t, u, m
<1>4. ASSUME NEW i \in 1 .. m PROVE q[i][1] \in Nat /\ q[i][1] # 0
  <2>1. q[i] \in UnitSet(K, n)
    BY <1>2 DEF U
  <2>2. q[i][1] \in 1 .. n
    BY <2>1, <1>3, UnitIs
  <2> QED
    BY <2>2, <1>3
<1>5. /\ u = <<u[1], u[2]>> /\ u[1] \in 1 .. n /\ u[1] \in Nat /\ u[1] # 0 /\ Header # Body
      /\ u[2] \in {Header, Body} /\ (Ends(K, u) <=> (u[2] = Body \/ u[1] \in K))
      /\ (u[2] = Body => u[1] \notin K)
  <2>1. u \in UnitSet(K, n)
    BY <1>1 DEF U
  <2> QED
    BY <2>1, <1>3, UnitIs
<1>6. Due(a, u)
  BY <1>1 DEF Due, Stream, InSync
<1>7. m = 1 \/ Follows(K, u, t[1])
  <2>1. CASE m # 1
    <3>1. 1 \in 1 .. m - 1
      BY <2>1, <1>1
    <3>2. 1 \in 1 .. Len(q) - 1 /\ t[1] = q[1 + 1]
      BY <3>1, <1>1 DEF m
    <3> QED
      BY <3>2, <1>1 DEF Stream, InSync
  <2> QED
    BY <2>1
<1>8. ASSUME NEW i \in 1 .. Len(t) - 1 PROVE Follows(K, t[i], t[i + 1])
  <2>1. i \in 1 .. m - 1 /\ i + 1 \in 1 .. m - 1
    BY <1>1
  <2>2. i + 1 \in 1 .. Len(q) - 1 /\ t[i] = q[i + 1] /\ t[i + 1] = q[(i + 1) + 1]
    BY <2>1, <1>1 DEF m
  <2> QED
    BY <2>2 DEF Stream, InSync
<1>9. /\ Rising(r) /\ DOMAIN r = 1 .. Len(r) /\ Len(r) \in Nat
      /\ \A i \in DOMAIN r : r[i] \in Nat
      /\ \A i \in DOMAIN r : r[i] < u[1] /\ (\A j \in 1 .. m - 1 : r[i] < t[j][1])
      /\ \A i, j \in 1 .. m - 1 : i < j => t[i][1] <= t[j][1]
      /\ \A i \in 1 .. m - 1 : t[i][1] \in Nat
  <2>1. /\ Rising(r)
        /\ \A i \in DOMAIN r : \A j \in 1 .. m : r[i] < q[j][1]
        /\ \A i, j \in 1 .. m : i < j => q[i][1] <= q[j][1]
    BY <1>1 DEF Stream, Ascending
  <2>2. DOMAIN r = 1 .. Len(r) /\ Len(r) \in Nat /\ \A i \in DOMAIN r : r[i] \in Nat
    <3>1. \A i \in 1 .. Len(r) : r[i] \in 1 .. n
      BY ElementOfSeq DEF Numbers
    <3> QED
      BY <3>1, <1>3, LenProperties DEF Numbers
  <2>3. ASSUME NEW i \in 1 .. m - 1 PROVE i + 1 \in 1 .. m /\ t[i] = q[i + 1]
    BY <1>1
  <2>4. 1 \in 1 .. m
    BY <1>1
  <2>5. ASSUME NEW i \in 1 .. m - 1, NEW j \in 1 .. m - 1, i < j PROVE t[i][1] <= t[j][1]
    <3>1. i + 1 < j + 1
      BY <2>5, <1>1
    <3> QED
      BY <3>1, <2>1, <2>3
  <2> QED
    BY <2>1, <2>2, <2>3, <2>4, <2>5, <1>1, <1>4
<1>10. ASSUME Ends(K, u)
       PROVE  /\ Stream(K, t, 0, Append(r, u[1]))
              /\ Unfinished(K, t, 0) = Unfinished(K, q, a)
  <2> DEFINE p == Append(r, u[1])
  <2>1. /\ DOMAIN p = 1 .. Len(r) + 1 /\ p[Len(r) + 1] = u[1]
        /\ \A i \in 1 .. Len(r) : p[i] = r[i]
    BY <1>5, AppendIs DEF Numbers
  <2> HIDE DEF p
  <2>2. t # << >> => t[1][2] = Header /\ u[1] < t[1][1]
    BY <1>1, <1>7, <1>10 DEF Follows
  <2>3. ASSUME NEW j \in 1 .. m - 1 PROVE u[1] < t[j][1]
    <3>1. t # << >> /\ 1 \in 1 .. m - 1
      BY <1>1
    <3>2. j = 1 \/ 1 < j
      BY <1>1
    <3> QED
      BY <3>1, <3>2, <2>2, <1>5, <1>9
  <2>4. Rising(p)
    <3>1. ASSUME NEW i \in 1 .. Len(r) + 1, NEW j \in 1 .. Len(r) + 1, i < j PROVE p[i] < p[j]
      <4>1. i \in 1 .. Len(r) /\ (j \in 1 .. Len(r) \/ j = Len(r) + 1)
        BY <3>1, <1>9
      <4> QED
        BY <4>1, <3>1, <2>1, <1>9 DEF Rising
    <3> QED
      BY <3>1, <2>1 DEF Rising
  <2>5. ASSUME NEW i \in 1 .. Len(r) + 1, NEW j \in 1 .. m - 1 PROVE p[i] < t[j][1]
    <3>1. i \in 1 .. Len(r) \/ i = Len(r) + 1
      BY <1>9
    <3> QED
      BY <3>1, <2>1, <2>3, <1>9
  <2>6. Ascending(t, 0, p)
    BY <2>1, <2>4, <2>5, <1>1, <1>9 DEF Ascending
  <2>7. InSync(K, t, 0)
    BY <2>2, <1>8 DEF InSync
  <2>8. Unfinished(K, t, 0) = Unfinished(K, q, a)
    <3>1. CASE m = 1
      BY <3>1, <1>1, <1>10 DEF Unfinished, m
    <3>2. CASE m # 1
      <4>1. t # << >> /\ t[Len(t)] = q[Len(q)]
        BY <3>2, <1>1 DEF m
      <4> QED
        BY <4>1 DEF Unfinished
    <3> QED
      BY <3>1, <3>2
  <2> QED
    BY <2>6, <2>7, <2>8 DEF Stream, p
<1>11. ASSUME ~Ends(K, u)
       PROVE  /\ Stream(K, t, u[1], r)
              /\ Unfinished(K, t, u[1]) = Unfinished(K, q, a)
  <2>1. u[1] \notin K /\ u[2] = Header
    BY <1>5, <1>11
  <2>2. t # << >> => t[1] = <<u[1], Body>>
    BY <1>1, <1>7, <1>11 DEF Follows
  <2>3. InSync(K, t, u[1])
    BY <2>1, <2>2, <1>5, <1>8 DEF InSync
  <2>4. Ascending(t, u[1], r)
    BY <1>1, <1>9 DEF Ascending
  <2>5. Unfinished(K, t, u[1]) = Unfinished(K, q, a)
    <3>1. CASE m = 1
      BY <3>1, <1>1, <1>11 DEF Unfinished, m
    <3>2. CASE m # 1
      <4>1. t # << >> /\ t[Len(t)] = q[Len(q)]
        BY <3>2, <1>1 DEF m
      <4> QED
        BY <4>1 DEF Unfinished
    <3> QED
      BY <3>1, <3>2
  <2> QED
    BY <2>3, <2>4, <2>5 DEF Stream
<1> QED
  BY <1>6, <1>10, <1>11 DEF t, u
-----------------------------------------------------------------------------
(* Descriptors, connections and switches: what each step does to them.      *)
netOf  == <<backlog, conn, status, fdOf, reset, upSent, upRead>>
loopOf == <<mpc, readfds, master, cur>>
Connections == MainTypes /\ NetTypes /\ Wired

LEMMA LeastIs ==
    ASSUME NEW S, S \subseteq Nat, S # {}
    PROVE  Least(S) \in S /\ \A y \in S : Least(S) <= y
<1>1. IsWellFoundedOn(Less, Nat)
  BY NatLessThanWellFounded DEF OpToRel, Less
<1>2. PICK x \in S : \A y \in S : ~(<<y, x>> \in Less)
  BY <1>1, WFMin
<1>3. ASSUME NEW y \in S PROVE x <= y
  <2>1. x \in Nat /\ y \in Nat /\ ~(<<y, x>> \in Less)
    BY <1>2
  <2>2. y < x => <<y, x>> \in Nat \X Nat /\ <<y, x>>[1] < <<y, x>>[2]
    BY <2>1
  <2> QED
    BY <2>1, <2>2 DEF Less
<1> QED
  BY <1>2, <1>3 DEF Least

(* A step that leaves the connections alone, but for what the pool takes. *)
LEMMA NetAlone ==
    ASSUME Connections, alive' \in BOOLEAN, UNCHANGED <<scenario, loopOf, netOf>>,
           \/ UNCHANGED input_queue
           \/ input_queue # << >> /\ input_queue' = Tail(input_queue)
    PROVE  Connections'
<1>1. scenario' = scenario /\ UNCHANGED loopOf /\ UNCHANGED netOf
  OBVIOUS
<1>2. /\ input_queue' \in Seq(DOMAIN scenario'.digests)
      /\ Len(input_queue') <= scenario'.capacity
  <2>1. CASE input_queue' = input_queue
    BY <1>1, <2>1 DEF Connections, MainTypes
  <2>2. CASE input_queue # << >> /\ input_queue' = Tail(input_queue)
    <3>1. /\ Tail(input_queue) \in Seq(DOMAIN scenario.digests)
          /\ Len(input_queue) \in Nat /\ Len(Tail(input_queue)) = Len(input_queue) - 1
      BY <2>2, TailIs DEF Connections, MainTypes
    <3>2. scenario.capacity \in Nat
      BY ConstAssumption DEF Connections, MainTypes
    <3>3. Len(input_queue) <= scenario.capacity
      BY DEF Connections, MainTypes
    <3>4. Len(Tail(input_queue)) <= scenario.capacity
      BY <3>1, <3>2, <3>3
    <3> QED
      BY <1>1, <2>2, <3>1, <3>4
  <2> QED
    BY <2>1, <2>2
<1>3. MainTypes'
  BY <1>1, <1>2 DEF Connections, MainTypes, loopOf
<1>4. NetTypes'
  BY <1>1 DEF Connections, NetTypes, netOf
<1>5. Wired'
  BY <1>1 DEF Connections, Wired, netOf, loopOf
<1> QED
  BY <1>3, <1>4, <1>5 DEF Connections

LEMMA ConnectNet ==
    ASSUME Connections, NEW s \in Switches, Connect(s)
    PROVE  Connections'
<1>1. /\ status[s] = "off" /\ status' = [status EXCEPT ![s] = "backlog"]
      /\ backlog' = Append(backlog, s)
      /\ UNCHANGED <<scenario, alive, input_queue, loopOf, conn, fdOf, reset, upSent, upRead>>
  BY DEF Connect, mainVars, loopOf
<1>2. /\ backlog' \in Seq(Switches) /\ backlog' # << >>
      /\ Len(backlog) \in Nat /\ DOMAIN backlog = 1 .. Len(backlog)
      /\ DOMAIN backlog' = 1 .. Len(backlog) + 1
      /\ \A i \in 1 .. Len(backlog) : backlog'[i] = backlog[i]
      /\ backlog'[Len(backlog) + 1] = s
  BY <1>1, AppendIs DEF Connections, NetTypes
<1>3. MainTypes'
  BY <1>1 DEF Connections, MainTypes, loopOf
<1>4. NetTypes'
  BY <1>1, <1>2 DEF Connections, NetTypes
<1>5. \A i \in DOMAIN backlog : backlog[i] # s /\ backlog[i] \in Switches
  <2>1. \A i \in 1 .. Len(backlog) : backlog[i] \in Switches
    BY ElementOfSeq DEF Connections, NetTypes
  <2> QED
    BY <2>1, <1>1, <1>2 DEF Connections, Wired
<1>6. /\ status' \in [Switches -> {"off", "backlog", "open", "left"}]
      /\ status'[s] = "backlog" /\ fdOf[s] = 0
      /\ \A t \in Switches : t # s => status'[t] = status[t]
  BY <1>1 DEF Connections, NetTypes, Wired
<1>7. \A d \in Fds : conn[d] # 0 => conn[d] # s /\ conn[d] \in Switches
  BY <1>1 DEF Connections, NetTypes, Wired
<1>8. /\ \A d \in Fds : conn[d] # 0 => fdOf[conn[d]] = d /\ status'[conn[d]] \in {"open", "left"}
      /\ \A t \in Switches : /\ status'[t] = "open" => fdOf[t] # 0 /\ conn[fdOf[t]] = t
                             /\ status'[t] \in {"off", "backlog"} => fdOf[t] = 0
  BY <1>6, <1>7 DEF Connections, Wired
<1>9. ASSUME NEW i \in DOMAIN backlog'
      PROVE  fdOf[backlog'[i]] = 0 /\ status'[backlog'[i]] \in {"backlog", "left"}
  <2>1. i \in DOMAIN backlog \/ i = Len(backlog) + 1
    BY <1>2
  <2> QED
    BY <2>1, <1>2, <1>5, <1>6 DEF Connections, Wired
<1>10. ASSUME NEW i \in DOMAIN backlog', NEW j \in DOMAIN backlog', i # j
       PROVE  backlog'[i] # backlog'[j]
  <2>1. /\ i \in DOMAIN backlog \/ i = Len(backlog) + 1
        /\ j \in DOMAIN backlog \/ j = Len(backlog) + 1
    BY <1>2
  <2> QED
    BY <2>1, <1>2, <1>5, <1>10 DEF Connections, Wired
<1>11. Wired'
  BY <1>1, <1>2, <1>8, <1>9, <1>10 DEF Connections, Wired, loopOf
<1> QED
  BY <1>3, <1>4, <1>11 DEF Connections

(* A switch that leaves is still where it was, with its descriptor. *)
LEMMA LeaveNet ==
    ASSUME Connections, NEW s \in Switches, Leave(s)
    PROVE  Connections'
<1>1. /\ status[s] \in {"backlog", "open"} /\ status' = [status EXCEPT ![s] = "left"]
      /\ UNCHANGED <<scenario, alive, input_queue, loopOf, backlog, conn, fdOf, upSent>>
  BY DEF Leave, mainVars, loopOf
<1>2. PICK x \in BOOLEAN : /\ reset' = [reset EXCEPT ![s] = x]
                            /\ upRead' = IF x THEN [upRead EXCEPT ![s] = upSent[s]] ELSE upRead
  BY DEF Leave
<1>3. /\ upRead' \in [Switches -> Nat]
      /\ \A t \in Switches : upRead'[t] >= upRead[t] /\ upRead'[t] <= upSent[t]
  BY <1>2 DEF Connections, NetTypes, Wired
<1>4. MainTypes'
  BY <1>1 DEF Connections, MainTypes, loopOf
<1>5. NetTypes'
  BY <1>1, <1>2, <1>3 DEF Connections, NetTypes
<1>6. /\ status' \in [Switches -> {"off", "backlog", "open", "left"}]
      /\ status'[s] = "left" /\ \A t \in Switches : t # s => status'[t] = status[t]
  BY <1>1 DEF Connections, NetTypes
<1>7. /\ \A d \in Fds : conn[d] # 0 => conn[d] \in Switches
      /\ \A i \in DOMAIN backlog : backlog[i] \in Switches
  BY ElementOfSeq DEF Connections, NetTypes
<1>8. /\ \A d \in Fds : conn[d] # 0 => fdOf[conn[d]] = d /\ status'[conn[d]] \in {"open", "left"}
      /\ \A t \in Switches : /\ status'[t] = "open" => fdOf[t] # 0 /\ conn[fdOf[t]] = t
                             /\ status'[t] \in {"off", "backlog"} => fdOf[t] = 0
      /\ \A i \in DOMAIN backlog : /\ fdOf[backlog[i]] = 0
                                    /\ status'[backlog[i]] \in {"backlog", "left"}
  BY <1>6, <1>7 DEF Connections, Wired
<1>9. mpc = "body" => upRead'[conn[cur]] >= 1
  <2>1. mpc = "body" => upRead[conn[cur]] >= 1 /\ conn[cur] \in Switches
    BY DEF Connections, Wired, NetTypes
  <2>2. \A t \in Switches : upRead[t] \in Nat /\ upRead'[t] \in Nat
    BY <1>3 DEF Connections, NetTypes
  <2> QED
    BY <2>1, <2>2, <1>3
<1>10. Wired'
  BY <1>1, <1>3, <1>8, <1>9 DEF Connections, Wired, loopOf
<1> QED
  BY <1>4, <1>5, <1>10 DEF Connections

LEMMA SwitchWriteNet ==
    ASSUME Connections, NEW s \in Switches, SwitchWrite(s)
    PROVE  Connections'
<1>1. /\ upSent[s] < 2 * Len(scenario.digests)
      /\ upSent' = [upSent EXCEPT ![s] = @ + 1]
      /\ UNCHANGED <<scenario, alive, input_queue, loopOf, backlog, conn, status, fdOf, reset,
                     upRead>>
  BY DEF SwitchWrite, mainVars, loopOf
<1>2. Len(scenario.digests) \in Nat
  <2>1. scenario.digests \in Seq(Range(scenario.digests))
    BY ConstAssumption DEF Connections, MainTypes
  <2> QED
    BY <2>1, LenProperties
<1>3. MainTypes' /\ NetTypes'
  BY <1>1 DEF Connections, MainTypes, NetTypes, loopOf
<1>4. \A t \in Switches : upRead[t] <= upSent'[t] /\ upSent'[t] <= 2 * Len(scenario.digests)
  BY <1>1, <1>2 DEF Connections, NetTypes, Wired
<1>5. Wired'
  BY <1>1, <1>4 DEF Connections, Wired, loopOf
<1> QED
  BY <1>3, <1>5 DEF Connections

(* select, and the steps of the loop that take or give nothing *)
LEMMA LoopNet ==
    ASSUME Connections, Select \/ ScanDone \/ RunInit
    PROVE  Connections'
<1>1. /\ UNCHANGED <<scenario, alive, input_queue, master, cur>> /\ UNCHANGED netOf
      /\ mpc' \in {"select", "scan", "sleep", "init", "body"}
      /\ mpc' \in {"sleep", "body"} => mpc' = mpc
      /\ readfds' \subseteq master
      /\ Listening \in readfds' => backlog # << >>
  <2>1. CASE Select
    BY <2>1 DEF Select, Readable, netVars, netOf
  <2>2. CASE ScanDone
    BY <2>2 DEF ScanDone, netVars, netOf, Connections, MainTypes, Wired
  <2>3. CASE RunInit
    BY <2>3 DEF RunInit, netVars, netOf, Connections, MainTypes, Wired
  <2> QED
    BY <2>1, <2>2, <2>3
<1>2. MainTypes'
  BY <1>1 DEF Connections, MainTypes
<1>3. NetTypes'
  BY <1>1 DEF Connections, NetTypes, netOf
<1>4. Wired'
  BY <1>1 DEF Connections, Wired, netOf
<1> QED
  BY <1>2, <1>3, <1>4 DEF Connections

LEMMA ReadNumbers ==
    ASSUME Connections
    PROVE  /\ readfds \subseteq Nat /\ Listening \notin Fds /\ Fds \subseteq Nat
           /\ 0 \notin Switches
           /\ \A d : Scan(d) => d \in readfds
<1>1. Fds \subseteq Nat /\ Listening = 0 /\ 0 \notin Fds /\ 0 \notin Switches
  BY ConstAssumption DEF Fds, Listening, Switches
<1>2. readfds \subseteq Nat
  BY <1>1 DEF Connections, MainTypes
<1>3. ASSUME NEW d, Scan(d) PROVE d \in readfds
  BY <1>2, <1>3, LeastIs DEF Scan
<1> QED
  BY <1>1, <1>2, <1>3

(* There is a descriptor for every switch: one that is in the backlog has    *)
(* none, and those that have one have different ones.                        *)
LEMMA FreeDescriptor ==
    ASSUME Connections, backlog # << >>
    PROVE  /\ Least({f \in Fds : conn[f] = 0}) \in Fds
           /\ conn[Least({f \in Fds : conn[f] = 0})] = 0
<1> DEFINE s == Head(backlog)
           R == Switches \ {s}
<1>1. s \in Switches /\ fdOf[s] = 0
  <2>1. s \in Switches /\ s = backlog[1] /\ 1 \in DOMAIN backlog
    BY TailIs DEF Connections, NetTypes
  <2> QED
    BY <2>1 DEF Connections, Wired
<1>2. \E f \in Fds : conn[f] = 0
  <2> SUFFICES ASSUME \A f \in Fds : conn[f] # 0 PROVE FALSE
    OBVIOUS
  <2>1. conn \in [Fds -> R]
    <3>1. ASSUME NEW f \in Fds PROVE conn[f] \in R
      BY <3>1, <1>1, ReadNumbers DEF Connections, NetTypes, Wired, Listening
    <3> QED
      BY <3>1 DEF Connections, NetTypes
  <2>2. \A f, g \in Fds : f # g => conn[f] # conn[g]
    BY DEF Connections, Wired
  <2>3. IsFiniteSet(Fds) /\ IsFiniteSet(Switches)
        /\ Cardinality(Fds) = MaxSwitches /\ Cardinality(Switches) = MaxSwitches
    BY ConstAssumption, FS_Interval DEF Fds, Switches
  <2>4. IsFiniteSet(R) /\ Cardinality(R) < Cardinality(Fds)
    <3>1. IsFiniteSet(R) /\ Cardinality(R) = Cardinality(Switches) - 1
      BY <1>1, <2>3, FS_RemoveElement
    <3>2. MaxSwitches \in Nat
      BY ConstAssumption
    <3> QED
      BY <2>3, <3>1, <3>2
  <2> HIDE DEF R
  <2> QED
    BY <2>1, <2>2, <2>3, <2>4, FS_PigeonHole
<1>3. {f \in Fds : conn[f] = 0} \subseteq Nat
  BY ReadNumbers
<1> QED
  BY <1>2, <1>3, LeastIs

LEMMA AcceptIs ==
    ASSUME Connections, Accept
    PROVE  \E s \in Switches, d \in Fds :
              /\ backlog # << >> /\ s = Head(backlog) /\ s = backlog[1]
              /\ fdOf[s] = 0 /\ status[s] \in {"backlog", "left"} /\ conn[d] = 0
              /\ conn' = [conn EXCEPT ![d] = s]
              /\ fdOf' = [fdOf EXCEPT ![s] = d]
              /\ status' = [status EXCEPT ![s] = IF @ = "left" THEN @ ELSE "open"]
              /\ jobs' = Append(jobs, <<"output", d>>)
              /\ cur' = d
              /\ backlog' = Tail(backlog)
              /\ readfds' = readfds \ {Listening}
              /\ mpc' = "sleep"
<1> DEFINE s == Head(backlog)
           d == Least({f \in Fds : conn[f] = 0})
<1>1. backlog # << >>
  BY ReadNumbers DEF Accept, Connections, Wired
<1>2. d \in Fds /\ conn[d] = 0
  BY <1>1, FreeDescriptor
<1>3. /\ s \in Switches /\ s = backlog[1]
      /\ fdOf[s] = 0 /\ status[s] \in {"backlog", "left"}
  <2>1. s \in Switches /\ s = backlog[1] /\ 1 \in DOMAIN backlog
    BY <1>1, TailIs DEF Connections, NetTypes
  <2> QED
    BY <2>1 DEF Connections, Wired
<1> QED
  BY <1>1, <1>2, <1>3 DEF Accept, dispatch

LEMMA AcceptNet ==
    ASSUME Connections, Accept
    PROVE  Connections'
<1>1. PICK s \in Switches, d \in Fds :
        /\ backlog # << >> /\ s = Head(backlog) /\ s = backlog[1]
        /\ fdOf[s] = 0 /\ status[s] \in {"backlog", "left"} /\ conn[d] = 0
        /\ conn' = [conn EXCEPT ![d] = s]
        /\ fdOf' = [fdOf EXCEPT ![s] = d]
        /\ status' = [status EXCEPT ![s] = IF @ = "left" THEN @ ELSE "open"]
        /\ cur' = d /\ backlog' = Tail(backlog) /\ readfds' = readfds \ {Listening}
        /\ mpc' = "sleep"
  BY AcceptIs
<1>2. UNCHANGED <<scenario, alive, input_queue, master, reset, upSent, upRead>>
  BY DEF Accept
<1>3. /\ backlog' \in Seq(Switches)
      /\ Len(backlog) \in Nat /\ DOMAIN backlog = 1 .. Len(backlog)
      /\ DOMAIN backlog' = 1 .. Len(backlog) - 1
      /\ \A i \in 1 .. Len(backlog) - 1 : backlog'[i] = backlog[i + 1]
  BY <1>1, TailIs DEF Connections, NetTypes
<1>4. d # 0 /\ s # 0 /\ \A e \in Fds : e # 0
  BY ReadNumbers DEF Listening
<1>5. MainTypes'
  BY <1>1, <1>2 DEF Connections, MainTypes
<1>6. /\ conn' \in [Fds -> Switches \cup {0}]
      /\ fdOf' \in [Switches -> Fds \cup {0}]
      /\ status' \in [Switches -> {"off", "backlog", "open", "left"}]
      /\ conn'[d] = s /\ fdOf'[s] = d /\ status'[s] \in {"open", "left"}
      /\ \A e \in Fds : e # d => conn'[e] = conn[e]
      /\ \A t \in Switches : t # s => fdOf'[t] = fdOf[t] /\ status'[t] = status[t]
  BY <1>1 DEF Connections, NetTypes
<1>7. NetTypes'
  BY <1>2, <1>3, <1>6 DEF Connections, NetTypes
<1>8. ASSUME NEW e \in Fds, conn'[e] # 0
      PROVE  fdOf'[conn'[e]] = e /\ status'[conn'[e]] \in {"open", "left"}
  <2>1. CASE e = d
    BY <2>1, <1>6
  <2>2. CASE e # d
    <3>1. conn'[e] = conn[e] /\ conn[e] \in Switches /\ fdOf[conn[e]] = e
          /\ status[conn[e]] \in {"open", "left"}
      BY <2>2, <1>6, <1>8 DEF Connections, NetTypes, Wired
    <3>2. conn[e] # s
      BY <3>1, <1>1, <1>4
    <3> QED
      BY <3>1, <3>2, <1>6
  <2> QED
    BY <2>1, <2>2
<1>9. ASSUME NEW t \in Switches
      PROVE  /\ status'[t] = "open" => fdOf'[t] # 0 /\ conn'[fdOf'[t]] = t
             /\ status'[t] \in {"off", "backlog"} => fdOf'[t] = 0
  <2>1. CASE t = s
    BY <2>1, <1>4, <1>6
  <2>2. CASE t # s
    <3>1. fdOf'[t] = fdOf[t] /\ status'[t] = status[t] /\ fdOf[t] \in Fds \cup {0}
      BY <2>2, <1>6 DEF Connections, NetTypes
    <3>2. status[t] = "open" => fdOf[t] # 0 /\ conn[fdOf[t]] = t /\ fdOf[t] \in Fds
      BY <3>1 DEF Connections, Wired
    <3>3. t # 0
      BY ReadNumbers
    <3>4. status[t] = "open" => fdOf[t] # d
      BY <3>2, <3>3, <1>1
    <3>5. status[t] \in {"off", "backlog"} => fdOf[t] = 0
      BY DEF Connections, Wired
    <3> QED
      BY <3>1, <3>2, <3>4, <3>5, <1>6
  <2> QED
    BY <2>1, <2>2
<1>10. ASSUME NEW i \in DOMAIN backlog'
       PROVE  /\ i + 1 \in DOMAIN backlog /\ backlog'[i] = backlog[i + 1] /\ backlog[i + 1] # s
              /\ backlog[i + 1] \in Switches
  <2>1. /\ i \in Nat /\ i + 1 \in DOMAIN backlog /\ 1 \in DOMAIN backlog /\ i + 1 # 1
        /\ backlog'[i] = backlog[i + 1]
    BY <1>3
  <2>2. backlog[i + 1] \in Switches
    BY <2>1, <1>3, ElementOfSeq DEF Connections, NetTypes
  <2>3. backlog[i + 1] # backlog[1]
    BY <2>1 DEF Connections, Wired
  <2> QED
    BY <2>1, <2>2, <2>3, <1>1
<1>11. ASSUME NEW i \in DOMAIN backlog'
       PROVE  fdOf'[backlog'[i]] = 0 /\ status'[backlog'[i]] \in {"backlog", "left"}
  BY <1>6, <1>10 DEF Connections, Wired
<1>12. ASSUME NEW i \in DOMAIN backlog', NEW j \in DOMAIN backlog', i # j
       PROVE  backlog'[i] # backlog'[j]
  <2>1. i + 1 # j + 1
    BY <1>3, <1>12
  <2> QED
    BY <2>1, <1>10 DEF Connections, Wired
<1>13. \A e \in master \ {Listening} : conn'[e] # 0
  <2>1. ASSUME NEW e \in master \ {Listening} PROVE e \in Fds /\ conn[e] # 0
    BY <2>1 DEF Connections, MainTypes, Wired
  <2> QED
    BY <2>1, <1>1, <1>4, <1>6
<1>14. \A t \in Switches : upRead[t] <= upSent[t] /\ upSent[t] <= 2 * Len(scenario.digests)
  BY DEF Connections, Wired
<1>15. Wired'
  BY <1>1, <1>2, <1>4, <1>6, <1>8, <1>9, <1>11, <1>12, <1>13, <1>14 DEF Wired
<1> QED
  BY <1>5, <1>7, <1>15 DEF Connections

LEMMA AcceptFailsNet ==
    ASSUME Connections, AcceptFails
    PROVE  Connections'
<1>1. /\ backlog' = Tail(backlog) /\ readfds' = {} /\ mpc' = "select"
      /\ UNCHANGED <<scenario, alive, input_queue, master, cur, conn, status, fdOf, reset,
                     upSent, upRead>>
  BY DEF AcceptFails
<1>2. backlog # << >>
  BY ReadNumbers DEF AcceptFails, Connections, Wired
<1>3. /\ backlog' \in Seq(Switches)
      /\ Len(backlog) \in Nat /\ DOMAIN backlog = 1 .. Len(backlog)
      /\ DOMAIN backlog' = 1 .. Len(backlog) - 1
      /\ \A i \in 1 .. Len(backlog) - 1 : backlog'[i] = backlog[i + 1]
  BY <1>1, <1>2, TailIs DEF Connections, NetTypes
<1>4. MainTypes' /\ NetTypes'
  BY <1>1, <1>3 DEF Connections, MainTypes, NetTypes
<1>5. ASSUME NEW i \in DOMAIN backlog', NEW j \in DOMAIN backlog'
      PROVE  /\ i + 1 \in DOMAIN backlog /\ backlog'[i] = backlog[i + 1]
             /\ i # j => i + 1 # j + 1
             /\ j + 1 \in DOMAIN backlog /\ backlog'[j] = backlog[j + 1]
  BY <1>3
<1>6. \A i \in DOMAIN backlog' : /\ fdOf[backlog'[i]] = 0
                                /\ status[backlog'[i]] \in {"backlog", "left"}
  BY <1>5 DEF Connections, Wired
<1>7. \A i, j \in DOMAIN backlog' : i # j => backlog'[i] # backlog'[j]
  BY <1>5 DEF Connections, Wired
<1>8. Wired'
  BY <1>1, <1>6, <1>7 DEF Connections, Wired
<1> QED
  BY <1>4, <1>8 DEF Connections

LEMMA DispatchNet ==
    ASSUME Connections, DispatchInput
    PROVE  Connections'
<1>1. /\ mpc = "sleep" /\ mpc' = "init" /\ master' = master \cup {cur}
      /\ UNCHANGED <<scenario, alive, input_queue, readfds, cur>> /\ UNCHANGED netOf
  BY DEF DispatchInput, netVars, netOf
<1>2. cur \in Fds /\ conn[cur] # 0
  BY <1>1 DEF Connections, Wired
<1>3. MainTypes'
  BY <1>1, <1>2 DEF Connections, MainTypes
<1>4. NetTypes'
  BY <1>1 DEF Connections, NetTypes, netOf
<1>5. Wired'
  BY <1>1, <1>2 DEF Connections, Wired, netOf
<1> QED
  BY <1>3, <1>4, <1>5 DEF Connections

(* A descriptor that is read from is that of a connection. *)
LEMMA ReadingIs ==
    ASSUME Connections, NEW d \in Fds, Reading(d)
    PROVE  conn[d] \in Switches /\ d # Listening
<1>1. conn[d] # 0
  <2>1. CASE Scan(d) /\ d # Listening
    BY <2>1, ReadNumbers DEF Connections, MainTypes, Wired
  <2>2. CASE mpc = "body" /\ d = cur
    BY <2>2 DEF Connections, Wired
  <2> QED
    BY <2>1, <2>2 DEF Reading
<1> QED
  BY <1>1, ReadNumbers DEF Connections, NetTypes

LEMMA ReadHeaderNet ==
    ASSUME Connections, NEW d \in Fds, ReadHeader(d)
    PROVE  Connections'
<1> DEFINE s == conn[d]
<1>1. s \in Switches /\ s # 0
  BY ReadingIs, ReadNumbers DEF ReadHeader, Reading
<1>2. /\ upRead[s] < upSent[s] /\ upRead' = [upRead EXCEPT ![s] = @ + 1]
      /\ cur' = d /\ mpc' = "body"
      /\ UNCHANGED <<scenario, alive, input_queue, readfds, master, backlog, conn, status, fdOf,
                     reset, upSent>>
  BY DEF ReadHeader, Take
<1> HIDE DEF s
<1>3. /\ upRead' \in [Switches -> Nat] /\ upRead'[s] >= 1
      /\ \A t \in Switches : upRead'[t] <= upSent[t]
  BY <1>1, <1>2 DEF Connections, NetTypes, Wired
<1>4. MainTypes'
  BY <1>2 DEF Connections, MainTypes
<1>5. NetTypes'
  BY <1>2, <1>3 DEF Connections, NetTypes
<1>6. Wired'
  BY <1>1, <1>2, <1>3 DEF Connections, Wired, s
<1> QED
  BY <1>4, <1>5, <1>6 DEF Connections

(* The units that were read of a connection are no more than two for each    *)
(* digest, so that every other one ends a digest of the scenario.            *)
LEMMA ReadBodyNet ==
    ASSUME Connections, ReadBody
    PROVE  Connections'
<1> DEFINE s == conn[cur]
           k == upRead'[s] \div 2
<1>1. cur \in Fds /\ s \in Switches /\ s # 0 /\ upRead[s] >= 1
  BY ReadNumbers DEF ReadBody, Connections, Wired, NetTypes
<1>2. /\ upRead[s] < upSent[s] /\ upRead' = [upRead EXCEPT ![s] = @ + 1]
      /\ input_queue' = IF Len(input_queue) < scenario.capacity
                        THEN Append(input_queue, k) ELSE input_queue
      /\ readfds' = readfds \ {cur} /\ mpc' = "scan"
      /\ UNCHANGED <<scenario, alive, master, cur, backlog, conn, status, fdOf, reset, upSent>>
  BY DEF ReadBody, Take
<1>3. scenario.digests \in Seq(Range(scenario.digests)) /\ scenario.capacity \in Nat
  BY ConstAssumption DEF Connections, MainTypes
<1>4. DOMAIN scenario.digests = 1 .. Len(scenario.digests) /\ Len(scenario.digests) \in Nat
  BY <1>3, LenProperties
<1>5. /\ upRead' \in [Switches -> Nat] /\ upRead'[s] = upRead[s] + 1 /\ upRead[s] \in Nat
      /\ \A t \in Switches : upRead'[t] <= upSent[t]
      /\ upRead'[s] <= 2 * Len(scenario.digests)
  <2>1. \A t \in Switches : upRead[t] \in Nat /\ upSent[t] \in Nat /\ upRead[t] <= upSent[t]
    BY DEF Connections, NetTypes, Wired
  <2>2. upSent[s] <= 2 * Len(scenario.digests)
    BY <1>1 DEF Connections, Wired
  <2>3. upRead' \in [Switches -> Nat] /\ upRead'[s] = upRead[s] + 1
        /\ \A t \in Switches : t # s => upRead'[t] = upRead[t]
    BY <1>1, <1>2, <2>1 DEF Connections, NetTypes
  <2> HIDE DEF s
  <2> QED
    BY <1>1, <1>2, <1>4, <2>1, <2>2, <2>3
<1>6. k \in DOMAIN scenario.digests
  <2>1. \A u, n \in Nat : u >= 2 /\ u <= 2 * n => u \div 2 \in 1 .. n
    OBVIOUS
  <2>2. upRead'[s] \in Nat /\ upRead'[s] >= 2
    BY <1>1, <1>5
  <2> QED
    BY <1>4, <1>5, <2>1, <2>2
<1> HIDE DEF k
<1>7. /\ input_queue' \in Seq(DOMAIN scenario.digests)
      /\ Len(input_queue') <= scenario.capacity
  <2>1. input_queue \in Seq(DOMAIN scenario.digests) /\ Len(input_queue) <= scenario.capacity
    BY DEF Connections, MainTypes
  <2>2. /\ Append(input_queue, k) \in Seq(DOMAIN scenario.digests) /\ Len(input_queue) \in Nat
        /\ Len(Append(input_queue, k)) = Len(input_queue) + 1
    BY <2>1, <1>6, AppendIs
  <2>3. CASE Len(input_queue) < scenario.capacity
    <3>1. Len(Append(input_queue, k)) <= scenario.capacity
      BY <2>2, <2>3, <1>3
    <3> QED
      BY <2>2, <2>3, <3>1, <1>2
  <2>4. CASE ~(Len(input_queue) < scenario.capacity)
    BY <2>1, <2>4, <1>2
  <2> QED
    BY <2>3, <2>4
<1>8. MainTypes'
  BY <1>2, <1>7 DEF Connections, MainTypes
<1>9. NetTypes'
  BY <1>2, <1>5 DEF Connections, NetTypes
<1>10. Wired'
  BY <1>2, <1>5 DEF Connections, Wired
<1> QED
  BY <1>8, <1>9, <1>10 DEF Connections

(* Only the connection of a switch that left is closed. *)
LEMMA ReadEofNet ==
    ASSUME Connections, NEW d \in Fds, ReadEof(d)
    PROVE  Connections'
<1>1. /\ status[conn[d]] = "left" /\ conn' = [conn EXCEPT ![d] = 0]
      /\ master' = master \ {d} /\ readfds' = {} /\ mpc' = "select"
      /\ UNCHANGED <<scenario, alive, input_queue, cur, backlog, status, fdOf, reset, upSent,
                     upRead>>
  BY DEF ReadEof
<1>2. conn[d] \in Switches /\ d # 0 /\ Reading(d)
  BY ReadingIs DEF ReadEof, Listening
<1>3. MainTypes' /\ NetTypes'
  BY <1>1 DEF Connections, MainTypes, NetTypes
<1>4. conn'[d] = 0 /\ \A e \in Fds : e # d => conn'[e] = conn[e]
  BY <1>1 DEF Connections, NetTypes
<1>5. ASSUME NEW t \in Switches, status[t] = "open" PROVE fdOf[t] # 0 /\ conn'[fdOf[t]] = t
  <2>1. fdOf[t] # 0 /\ conn[fdOf[t]] = t /\ fdOf[t] \in Fds
    BY <1>5 DEF Connections, Wired, NetTypes
  <2>2. fdOf[t] # d
    BY <2>1, <1>1, <1>5
  <2> QED
    BY <2>1, <2>2, <1>4
<1>6. \A e \in master' \ {Listening} : conn'[e] # 0
  <2>1. \A e \in master \ {Listening} : e \in Fds /\ conn[e] # 0
    BY DEF Connections, MainTypes, Wired
  <2> QED
    BY <2>1, <1>1, <1>4
<1>7. \A e \in Fds : conn'[e] # 0 => /\ fdOf[conn'[e]] = e
                                     /\ status[conn'[e]] \in {"open", "left"}
  BY <1>4 DEF Connections, Wired
<1>8. Wired'
  BY <1>1, <1>5, <1>6, <1>7 DEF Connections, Wired
<1> QED
  BY <1>3, <1>8 DEF Connections

LEMMA ReadResetNet ==
    ASSUME Connections, NEW d \in Fds, ReadReset(d)
    PROVE  Connections'
<1>1. /\ readfds' = readfds \ {d} /\ mpc' = "scan"
      /\ reset' = [reset EXCEPT ![conn[d]] = FALSE]
      /\ UNCHANGED <<scenario, alive, input_queue, master, cur, backlog, conn, status, fdOf,
                     upSent, upRead>>
  BY DEF ReadReset
<1>2. MainTypes' /\ NetTypes' /\ Wired'
  BY <1>1 DEF Connections, MainTypes, NetTypes, Wired
<1> QED
  BY <1>2 DEF Connections

LEMMA InitNet == Init => Connections
<1> SUFFICES ASSUME Init PROVE Connections
  OBVIOUS
<1>1. /\ scenario \in Scenarios /\ alive = TRUE /\ input_queue = << >>
      /\ mpc = "select" /\ readfds = {} /\ master = {Listening} /\ cur = Listening
      /\ backlog = << >> /\ conn = [d \in Fds |-> 0]
      /\ status = [s \in Switches |-> "off"] /\ fdOf = [s \in Switches |-> 0]
      /\ reset = [s \in Switches |-> FALSE]
      /\ upSent = [s \in Switches |-> 0] /\ upRead = [s \in Switches |-> 0]
  BY DEF Init
<1>2. scenario.capacity \in Nat \ {0} /\ scenario.digests \in Seq(Range(scenario.digests))
  BY <1>1, ConstAssumption
<1>3. Len(scenario.digests) \in Nat
  BY <1>2, LenProperties
<1>4. MainTypes
  BY <1>1, <1>2 DEF MainTypes
<1>5. NetTypes
  BY <1>1 DEF NetTypes
<1>6. Wired
  BY <1>1, <1>3 DEF Wired
<1> QED
  BY <1>4, <1>5, <1>6 DEF Connections

LEMMA NextNet ==
    ASSUME Connections, [Next]_vars
    PROVE  Connections'
<1>1. CASE execute_controller
  BY <1>1, LoopNet, AcceptNet, AcceptFailsNet, DispatchNet, ReadHeaderNet, ReadBodyNet, ReadEofNet,
     ReadResetNet
     DEF execute_controller
<1>2. ASSUME NEW w \in Threads, Work(w) PROVE Connections'
  <2>1. /\ UNCHANGED <<scenario, loopOf, netOf>> /\ alive' \in BOOLEAN
        /\ \/ UNCHANGED input_queue
           \/ input_queue # << >> /\ input_queue' = Tail(input_queue)
    <3>1. CASE StartJob(w)
      BY <3>1 DEF StartJob, mainVars, netVars, loopOf, netOf, Connections, MainTypes
    <3>2. CASE OutTake(w)
      BY <3>2 DEF OutTake, mainVars, netVars, loopOf, netOf, Connections, MainTypes
    <3>3. CASE OutWrite(w)
      BY <3>3 DEF OutWrite, mainVars, loopOf, netOf, Connections, MainTypes
    <3>4. CASE InTake(w)
      BY <3>4 DEF InTake, fifo_remove_msg, mainVars, netVars, loopOf, netOf, Connections, MainTypes
    <3>5. CASE InSend(w)
      BY <3>5 DEF InSend, mainVars, netVars, loopOf, netOf, Connections, MainTypes
    <3> QED
      BY <1>2, <3>1, <3>2, <3>3, <3>4, <3>5 DEF Work
  <2> QED
    BY <2>1, NetAlone
<1>3. ASSUME NEW s \in Switches, SwitchRead(s) PROVE Connections'
  <2>1. UNCHANGED <<scenario, alive, input_queue, loopOf, netOf>>
    BY <1>3 DEF SwitchRead, mainVars, loopOf, netOf
  <2>2. alive' \in BOOLEAN
    BY <2>1 DEF Connections, MainTypes
  <2> QED
    BY <2>1, <2>2, NetAlone
<1>4. CASE Still
  <2>1. UNCHANGED <<scenario, alive, input_queue, loopOf, netOf>>
    BY <1>4 DEF Still, mainVars, netVars, loopOf, netOf
  <2>2. alive' \in BOOLEAN
    BY <2>1 DEF Connections, MainTypes
  <2> QED
    BY <2>1, <2>2, NetAlone
<1> QED
  BY <1>1, <1>2, <1>3, <1>4, ConnectNet, LeaveNet, SwitchWriteNet, StillIs
-----------------------------------------------------------------------------
(* Jobs.                                                                    *)
Jobs == JobTypes /\ JobsGiven

LEMMA JobIs ==
    /\ \A d : Out(d) # Idle /\ Out(d)[1] = "output"
    /\ \A d, e : Out(d) = Out(e) => d = e
    /\ \A d, e : <<"input", e>> # Out(d)
    /\ \A d \in Fds : Out(d) \in {"output", "input"} \X Fds
                      /\ <<"input", d>> \in {"output", "input"} \X Fds
    /\ Idle[1] = "idle"
BY DEF Out, Idle

(* A switch keeps its descriptor. *)
LEMMA GivenStays ==
    ASSUME Connections, NEW s \in Switches, NEW d \in Fds, fdOf[s] = 0,
           fdOf' = [fdOf EXCEPT ![s] = d]
    PROVE  /\ \A e \in Fds : /\ Given(e) => Given(e)'
                             /\ GivenTwice(e) => GivenTwice(e)'
           /\ Given(d)' /\ (Given(d) => GivenTwice(d)')
<1>1. /\ fdOf'[s] = d /\ \A t \in Switches : t # s => fdOf'[t] = fdOf[t]
      /\ \A e \in Fds : e # 0
  BY ReadNumbers DEF Connections, NetTypes, Listening
<1>2. ASSUME NEW e \in Fds, NEW t \in Switches, fdOf[t] = e PROVE t # s /\ fdOf'[t] = e
  BY <1>1, <1>2
<1> QED
  BY <1>1, <1>2 DEF Given, GivenTwice

LEMMA AcceptJobs ==
    ASSUME Connections, Jobs, Accept
    PROVE  Jobs'
<1>1. PICK s \in Switches, d \in Fds :
        /\ fdOf[s] = 0 /\ fdOf' = [fdOf EXCEPT ![s] = d] /\ jobs' = Append(jobs, Out(d))
  BY AcceptIs DEF Out
<1>2. UNCHANGED job
  BY DEF Accept
<1> DEFINE J == {"output", "input"} \X Fds
           n == Len(jobs)
<1>3. /\ jobs' \in Seq(J) /\ n \in Nat /\ DOMAIN jobs = 1 .. n /\ DOMAIN jobs' = 1 .. n + 1
      /\ \A i \in 1 .. n : jobs'[i] = jobs[i]
      /\ jobs'[n + 1] = Out(d)
  <2>1. Out(d) \in J /\ jobs \in Seq(J) /\ jobs' = Append(jobs, Out(d))
    BY <1>1, JobIs DEF Jobs, JobTypes
  <2> HIDE DEF J
  <2> QED
    BY <2>1, AppendIs
<1>4. JobTypes'
  BY <1>2, <1>3 DEF Jobs, JobTypes
<1> HIDE DEF n, J
<1>5. /\ \A e \in Fds : (Given(e) => Given(e)') /\ (GivenTwice(e) => GivenTwice(e)')
      /\ Given(d)' /\ (Given(d) => GivenTwice(d)')
  BY <1>1, GivenStays
<1>6. \A i \in DOMAIN jobs' : i \in DOMAIN jobs \/ i = n + 1
  BY <1>3
<1>7. ASSUME NEW e \in Fds, NEW i \in DOMAIN jobs', jobs'[i] = Out(e)
      PROVE  \/ i \in DOMAIN jobs /\ jobs[i] = Out(e)
             \/ i = n + 1 /\ e = d
  BY <1>3, <1>6, <1>7, JobIs
<1>8. ASSUME NEW e \in Fds
      PROVE  /\ \A i \in DOMAIN jobs' : jobs'[i] = Out(e) => Given(e)'
             /\ \A w \in Threads : job'[w] = Out(e) => Given(e)'
             /\ \A i, j \in DOMAIN jobs' :
                   jobs'[i] = Out(e) /\ jobs'[j] = Out(e) /\ i # j => GivenTwice(e)'
             /\ \A v, w \in Threads :
                   job'[v] = Out(e) /\ job'[w] = Out(e) /\ v # w => GivenTwice(e)'
             /\ \A i \in DOMAIN jobs', w \in Threads :
                   jobs'[i] = Out(e) /\ job'[w] = Out(e) => GivenTwice(e)'
  <2>1. /\ \A i \in DOMAIN jobs : jobs[i] = Out(e) => Given(e)
        /\ \A w \in Threads : job[w] = Out(e) => Given(e)
        /\ \A i, j \in DOMAIN jobs : jobs[i] = Out(e) /\ jobs[j] = Out(e) /\ i # j => GivenTwice(e)
        /\ \A v, w \in Threads : job[v] = Out(e) /\ job[w] = Out(e) /\ v # w => GivenTwice(e)
        /\ \A i \in DOMAIN jobs, w \in Threads :
              jobs[i] = Out(e) /\ job[w] = Out(e) => GivenTwice(e)
    BY DEF Jobs, JobsGiven
  <2>2. \A i \in DOMAIN jobs' : jobs'[i] = Out(e) => Given(e)'
    BY <2>1, <1>5, <1>7
  <2>3. \A i, j \in DOMAIN jobs' :
           jobs'[i] = Out(e) /\ jobs'[j] = Out(e) /\ i # j => GivenTwice(e)'
    BY <2>1, <1>5, <1>7
  <2>4. \A i \in DOMAIN jobs', w \in Threads :
           jobs'[i] = Out(e) /\ job'[w] = Out(e) => GivenTwice(e)'
    BY <2>1, <1>2, <1>5, <1>7
  <2>5. /\ \A w \in Threads : job'[w] = Out(e) => Given(e)'
        /\ \A v, w \in Threads : job'[v] = Out(e) /\ job'[w] = Out(e) /\ v # w => GivenTwice(e)'
    BY <2>1, <1>2, <1>5
  <2> QED
    BY <2>2, <2>3, <2>4, <2>5
<1>9. JobsGiven'
  BY <1>8 DEF JobsGiven
<1> QED
  BY <1>4, <1>9 DEF Jobs

LEMMA DispatchJobs ==
    ASSUME Connections, Jobs, DispatchInput
    PROVE  Jobs'
<1>1. cur \in Fds /\ jobs' = Append(jobs, <<"input", cur>>) /\ UNCHANGED <<job, fdOf>>
  BY DEF DispatchInput, dispatch, netVars, Connections, Wired
<1> DEFINE J == {"output", "input"} \X Fds
           n == Len(jobs)
<1>2. /\ jobs' \in Seq(J) /\ n \in Nat /\ DOMAIN jobs = 1 .. n /\ DOMAIN jobs' = 1 .. n + 1
      /\ \A i \in 1 .. n : jobs'[i] = jobs[i]
      /\ jobs'[n + 1] = <<"input", cur>>
  <2> DEFINE u == <<"input", cur>>
  <2>1. u \in J /\ jobs \in Seq(J) /\ jobs' = Append(jobs, u)
    BY <1>1 DEF Jobs, JobTypes
  <2> HIDE DEF u, J
  <2>2. /\ jobs' \in Seq(J) /\ n \in Nat /\ DOMAIN jobs = 1 .. n /\ DOMAIN jobs' = 1 .. n + 1
        /\ \A i \in 1 .. n : jobs'[i] = jobs[i]
        /\ jobs'[n + 1] = u
    BY <2>1, AppendIs
  <2> QED
    BY <2>2 DEF u
<1>3. JobTypes'
  BY <1>1, <1>2 DEF Jobs, JobTypes
<1>4. ASSUME NEW e \in Fds, NEW i \in DOMAIN jobs', jobs'[i] = Out(e)
      PROVE  i \in DOMAIN jobs /\ jobs[i] = Out(e)
  <2>1. i \in DOMAIN jobs \/ i = n + 1
    BY <1>2
  <2> QED
    BY <2>1, <1>2, <1>4, JobIs
<1>5. \A e : (Given(e)' <=> Given(e)) /\ (GivenTwice(e)' <=> GivenTwice(e))
  BY <1>1 DEF Given, GivenTwice
<1>6. JobsGiven'
  BY <1>1, <1>4, <1>5 DEF Jobs, JobsGiven
<1> QED
  BY <1>3, <1>6 DEF Jobs

LEMMA StartJobs ==
    ASSUME Connections, Jobs, NEW w \in Threads, StartJob(w)
    PROVE  Jobs'
<1>1. /\ jobs # << >> /\ job[w] = Idle /\ job' = [job EXCEPT ![w] = Head(jobs)]
      /\ jobs' = Tail(jobs) /\ UNCHANGED fdOf
  BY DEF StartJob, GoesOn, Idlers, netVars
<1> DEFINE J == {"output", "input"} \X Fds
           n == Len(jobs)
<1>2. /\ jobs' \in Seq(J) /\ Head(jobs) \in J /\ Head(jobs) = jobs[1] /\ n \in Nat /\ n >= 1
      /\ DOMAIN jobs = 1 .. n /\ DOMAIN jobs' = 1 .. n - 1
      /\ \A i \in 1 .. n - 1 : jobs'[i] = jobs[i + 1]
  BY <1>1, TailIs DEF Jobs, JobTypes
<1>3. JobTypes'
  BY <1>1, <1>2 DEF Jobs, JobTypes
<1>4. /\ job'[w] = jobs[1] /\ 1 \in DOMAIN jobs /\ \A v \in Threads : v # w => job'[v] = job[v]
  BY <1>1, <1>2 DEF Jobs, JobTypes
<1>5. ASSUME NEW i \in DOMAIN jobs'
      PROVE  i + 1 \in DOMAIN jobs /\ jobs'[i] = jobs[i + 1] /\ i + 1 # 1
             /\ \A j \in DOMAIN jobs' : j # i => j + 1 # i + 1
  BY <1>2
<1>6. \A e : (Given(e)' <=> Given(e)) /\ (GivenTwice(e)' <=> GivenTwice(e))
  BY <1>1 DEF Given, GivenTwice
<1>7. ASSUME NEW e \in Fds
      PROVE  /\ \A i \in DOMAIN jobs' : jobs'[i] = Out(e) => Given(e)'
             /\ \A v \in Threads : job'[v] = Out(e) => Given(e)'
             /\ \A i, j \in DOMAIN jobs' :
                   jobs'[i] = Out(e) /\ jobs'[j] = Out(e) /\ i # j => GivenTwice(e)'
             /\ \A u, v \in Threads :
                   job'[u] = Out(e) /\ job'[v] = Out(e) /\ u # v => GivenTwice(e)'
             /\ \A i \in DOMAIN jobs', v \in Threads :
                   jobs'[i] = Out(e) /\ job'[v] = Out(e) => GivenTwice(e)'
  <2>1. /\ \A i \in DOMAIN jobs : jobs[i] = Out(e) => Given(e)
        /\ \A v \in Threads : job[v] = Out(e) => Given(e)
        /\ \A i, j \in DOMAIN jobs : jobs[i] = Out(e) /\ jobs[j] = Out(e) /\ i # j => GivenTwice(e)
        /\ \A u, v \in Threads : job[u] = Out(e) /\ job[v] = Out(e) /\ u # v => GivenTwice(e)
        /\ \A i \in DOMAIN jobs, v \in Threads :
              jobs[i] = Out(e) /\ job[v] = Out(e) => GivenTwice(e)
    BY DEF Jobs, JobsGiven
  <2> QED
    BY <2>1, <1>4, <1>5, <1>6
<1>8. JobsGiven'
  BY <1>7 DEF JobsGiven
<1> QED
  BY <1>3, <1>8 DEF Jobs

LEMMA InitJobs == Init => Jobs
<1> SUFFICES ASSUME Init PROVE Jobs
  OBVIOUS
<1>1. jobs = << >> /\ job = [w \in Threads |-> Idle]
  BY DEF Init, Idle
<1>2. JobTypes
  BY <1>1 DEF JobTypes
<1>3. \A w \in Threads, d \in Fds : job[w] # Out(d)
  BY <1>1, JobIs
<1>4. DOMAIN jobs = {}
  BY <1>1
<1>5. JobsGiven
  BY <1>3, <1>4 DEF JobsGiven
<1> QED
  BY <1>2, <1>5 DEF Jobs

LEMMA JobsAlone ==
    ASSUME Jobs, UNCHANGED <<jobs, job, fdOf>>
    PROVE  Jobs'
<1>1. JobTypes'
  BY DEF Jobs, JobTypes
<1>2. \A e : (Given(e)' <=> Given(e)) /\ (GivenTwice(e)' <=> GivenTwice(e))
  BY DEF Given, GivenTwice
<1>3. JobsGiven'
  BY <1>2 DEF Jobs, JobsGiven
<1> QED
  BY <1>1, <1>3 DEF Jobs

LEMMA NextJobs ==
    ASSUME Connections, Jobs, [Next]_vars
    PROVE  Jobs'
<1> DEFINE Same == UNCHANGED <<jobs, job, fdOf>>
<1>1. CASE execute_controller
  <2>1. ASSUME Select \/ ScanDone \/ AcceptFails \/ RunInit \/ ReadBody PROVE Same
    BY <2>1 DEF Select, ScanDone, AcceptFails, RunInit, ReadBody, poolVars, netVars
  <2>2. ASSUME NEW d \in Fds, ReadHeader(d) \/ ReadEof(d) \/ ReadReset(d) PROVE Same
    BY <2>2 DEF ReadHeader, ReadEof, ReadReset, poolVars
  <2> QED
    BY <1>1, <2>1, <2>2, JobsAlone, AcceptJobs, DispatchJobs DEF execute_controller
<1>2. ASSUME NEW w \in Threads, Work(w) PROVE Jobs'
  <2>1. ASSUME OutTake(w) \/ OutWrite(w) \/ InTake(w) \/ InSend(w) PROVE Same
    BY <2>1 DEF OutTake, OutWrite, InTake, InSend, netVars
  <2> QED
    BY <1>2, <2>1, JobsAlone, StartJobs DEF Work
<1>3. ASSUME NEW s \in Switches, Connect(s) \/ Leave(s) \/ SwitchRead(s) \/ SwitchWrite(s)
      PROVE  Same
  BY <1>3 DEF Connect, Leave, SwitchRead, SwitchWrite, poolVars
<1>4. CASE Still
  BY <1>4, JobsAlone DEF Still, netVars
<1> QED
  BY <1>1, <1>2, <1>3, <1>4, JobsAlone, StillIs
-----------------------------------------------------------------------------
(* Messages.                                                                *)

(* A message that was sent since has no part in what went before. *)
Agree(K, L, n, k) == n \in Nat /\ k \in Nat /\ n <= k /\ \A i \in 1 .. n : i \in K <=> i \in L

LEMMA NumbersGrow ==
    ASSUME NEW K, NEW L, NEW n, NEW k, Agree(K, L, n, k),
           NEW q, NEW a, NEW r, Numbers(K, n, q, a, r)
    PROVE  /\ Numbers(L, k, q, a, r)
           /\ Delivered(L, q, r) = Delivered(K, q, r)
           /\ Unfinished(L, q, a) = Unfinished(K, q, a)
           /\ Stream(K, q, a, r) => Stream(L, q, a, r)
<1>1. n \in Nat /\ k \in Nat /\ 1 .. n \subseteq 1 .. k /\ 0 .. n \subseteq 0 .. k
      /\ \A i \in 1 .. n : i \in K <=> i \in L
  BY DEF Agree
<1>2. UnitSet(K, n) \subseteq UnitSet(L, k)
  BY <1>1 DEF UnitSet
<1>3. \A u \in UnitSet(K, n) : Ends(L, u) <=> Ends(K, u)
  BY <1>1 DEF UnitSet, Ends
<1>4. /\ q \in Seq(UnitSet(K, n)) /\ DOMAIN q = 1 .. Len(q) /\ Len(q) \in Nat
      /\ r \in Seq(1 .. n) /\ a \in 0 .. n
  BY LenProperties DEF Numbers
<1>5. \A i \in 1 .. Len(q) : Ends(L, q[i]) <=> Ends(K, q[i])
  BY <1>3, <1>4, ElementOfSeq
<1>6. Numbers(L, k, q, a, r)
  BY <1>1, <1>2, <1>4, SeqMonotonic DEF Numbers
<1>7. Delivered(L, q, r) = Delivered(K, q, r)
  BY <1>4, <1>5 DEF Delivered
<1>8. Unfinished(L, q, a) = Unfinished(K, q, a)
  <2>1. q # << >> => Len(q) \in 1 .. Len(q)
    BY <1>4, EmptySeq
  <2> QED
    BY <2>1, <1>5 DEF Unfinished
<1>9. ASSUME InSync(K, q, a) PROVE InSync(L, q, a)
  <2>1. a # 0 => a \notin L
    <3>1. a # 0 => a \in 1 .. n
      BY <1>1, <1>4
    <3> QED
      BY <3>1, <1>1, <1>9 DEF InSync
  <2>2. \A i \in 1 .. Len(q) - 1 : i \in 1 .. Len(q)
    BY <1>4
  <2>3. \A i \in 1 .. Len(q) - 1 : Follows(L, q[i], q[i + 1])
    BY <2>2, <1>5, <1>9 DEF InSync, Follows
  <2> QED
    BY <2>1, <2>3, <1>9 DEF InSync
<1> QED
  BY <1>6, <1>7, <1>8, <1>9 DEF Stream

LEMMA UnitsAre ==
    ASSUME NEW k \in DOMAIN sent
    PROVE  /\ Units(k) = UnitsOf(Short, k)
           /\ Last(Units(k)) = IF k \in Short THEN <<k, Header>> ELSE <<k, Body>>
<1>1. k \in Short <=> sent[k].type = "CTRL_INITIALIZED"
  BY DEF Short
<1>2. Units(k) = UnitsOf(Short, k)
  BY <1>1 DEF Units, UnitsOf
<1>3. CASE k \in Short
  <2>1. Units(k) = << <<k, Header>> >>
    BY <1>2, <1>3 DEF UnitsOf
  <2> QED
    BY <2>1, <1>2, <1>3 DEF Last
<1>4. CASE k \notin Short
  <2>1. Units(k) = << <<k, Header>>, <<k, Body>> >>
    BY <1>2, <1>4 DEF UnitsOf
  <2> QED
    BY <2>1, <1>2, <1>4 DEF Last
<1> QED
  BY <1>2, <1>3, <1>4

MessagesInv ==
    /\ MessageTypes /\ (\A w \in Threads : InHand(w))
    /\ TakenInOrder /\ WrittenOnce

N == Len(sent)

LEMMA MessagesAre ==
    ASSUME MessageTypes
    PROVE  /\ N \in Nat /\ DOMAIN sent = 1 .. N
           /\ Short \subseteq 1 .. N
           /\ \A s \in Switches : Numbers(Short, N, down[s], awaited[s], received[s])
           /\ \A w \in Threads : cell[w] \in 0 .. N
           /\ DOMAIN output_queue = 1 .. Len(output_queue) /\ Len(output_queue) \in Nat
           /\ \A i \in DOMAIN output_queue : output_queue[i] \in 1 .. N
<1>1. N \in Nat /\ DOMAIN sent = 1 .. N
  BY LenProperties DEF MessageTypes, N
<1>2. \A s \in Switches : Numbers(Short, N, down[s], awaited[s], received[s])
  BY <1>1 DEF MessageTypes, Numbers, N
<1>3. DOMAIN output_queue = 1 .. Len(output_queue) /\ Len(output_queue) \in Nat
      /\ \A i \in DOMAIN output_queue : output_queue[i] \in 1 .. N
  <2>1. output_queue \in Seq(1 .. N)
    BY DEF MessageTypes, N
  <2> QED
    BY <2>1, LenProperties, ElementOfSeq
<1> QED
  BY <1>1, <1>2, <1>3 DEF MessageTypes, Short, N

(* A step that neither sends, takes, writes nor reads.  What is on the way   *)
(* to a switch that leaves is lost.                                          *)
MessagesStay ==
    /\ UNCHANGED <<scenario, sent, output_queue, cell, awaited, received, garbled>>
    /\ DOMAIN down' = Switches /\ \A s \in Switches : down'[s] \in {down[s], << >>}
    /\ DOMAIN rest' = Threads
    /\ \A w \in Threads : cell[w] # 0 => rest'[w] = rest[w] /\ job'[w] = job[w]

LEMMA MessagesAlone ==
    ASSUME MessagesInv, MessagesStay
    PROVE  MessagesInv'
<1>1. UNCHANGED <<scenario, sent, output_queue, cell, awaited, received, garbled>>
  BY DEF MessagesStay
<1>2. Short' = Short
  BY <1>1 DEF Short
<1>3. MessageTypes'
  <2>0. \A S : << >> \in Seq(S)
    BY EmptySeq
  <2>1. \A s \in Switches : down'[s] \in Seq(UnitSet(Short', Len(sent')))
    BY <2>0, <1>1, <1>2, Zenon DEF MessagesStay, MessagesInv, MessageTypes
  <2> QED
    BY <2>1, <1>1 DEF MessagesStay, MessagesInv, MessageTypes
<1>4. \A w \in Threads : InHand(w)'
  BY <1>1, <1>2 DEF MessagesStay, MessagesInv, InHand
<1>5. ASSUME NEW s \in Switches, NEW k, Older(down[s], awaited[s], received[s], k)
      PROVE  Older(down'[s], awaited'[s], received'[s], k)
  BY <1>1, <1>5 DEF MessagesStay, Older
<1>6. TakenInOrder'
  BY <1>1, <1>5 DEF MessagesInv, TakenInOrder
<1>7. \A s \in Switches : DeliveredTo(s)' \subseteq DeliveredTo(s)
  BY <1>1, <1>2 DEF MessagesStay, DeliveredTo, Delivered
<1>8. WrittenOnce'
  BY <1>1, <1>7 DEF MessagesInv, WrittenOnce
<1> QED
  BY <1>3, <1>4, <1>6, <1>8 DEF MessagesInv

(* A message that is sent is the newest. *)
LEMMA SendIs ==
    ASSUME MessageTypes, NEW m, send_p4_msg(m)
    PROVE  /\ Agree(Short, Short', N, N') /\ N' = N + 1
           /\ sent' \in Seq(Range(sent'))
           /\ \A k \in 1 .. N : UnitsOf(Short', k) = UnitsOf(Short, k)
<1>1. /\ sent' \in Seq(Range(sent')) /\ N' = N + 1 /\ N \in Nat
      /\ DOMAIN sent = 1 .. N /\ DOMAIN sent' = 1 .. N + 1
      /\ \A i \in 1 .. N : sent'[i] = sent[i]
  BY AppendAny DEF MessageTypes, send_p4_msg, N
<1>2. \A k \in 1 .. N : k \in Short <=> k \in Short'
  BY <1>1 DEF Short
<1> QED
  BY <1>1, <1>2 DEF Agree, UnitsOf

LEMMA SendMessages ==
    ASSUME MessagesInv, scenario \in Scenarios, NEW m, send_p4_msg(m),
           UNCHANGED <<scenario, job, cell, down, awaited, received, garbled>>,
           DOMAIN rest' = Threads, \A w \in Threads : cell[w] # 0 => rest'[w] = rest[w]
    PROVE  MessagesInv'
<1>1. /\ Agree(Short, Short', N, N') /\ N' = N + 1 /\ sent' \in Seq(Range(sent'))
      /\ \A k \in 1 .. N : UnitsOf(Short', k) = UnitsOf(Short, k)
  BY SendIs DEF MessagesInv
<1>2. /\ N \in Nat /\ DOMAIN output_queue = 1 .. Len(output_queue) /\ Len(output_queue) \in Nat
      /\ \A i \in DOMAIN output_queue : output_queue[i] \in 1 .. N
      /\ \A s \in Switches : Numbers(Short, N, down[s], awaited[s], received[s])
      /\ \A w \in Threads : cell[w] \in 0 .. N
  BY MessagesAre DEF MessagesInv
<1>3. \A s \in Switches : Numbers(Short', N', down[s], awaited[s], received[s])
  BY <1>1, <1>2, NumbersGrow
<1>4. /\ output_queue' \in Seq(1 .. N') /\ Len(output_queue') <= scenario.capacity
      /\ \A i \in DOMAIN output_queue' :
            \/ i \in DOMAIN output_queue /\ output_queue'[i] = output_queue[i]
            \/ i = Len(output_queue) + 1 /\ output_queue'[i] = N + 1
  <2>1. output_queue \in Seq(1 .. N) /\ Len(output_queue) <= scenario.capacity
    BY DEF MessagesInv, MessageTypes, N
  <2>2. 1 .. N \subseteq 1 .. N' /\ N' \in 1 .. N'
    BY <1>1, <1>2
  <2>3. output_queue \in Seq(1 .. N')
    BY <2>1, <2>2, SeqMonotonic
  <2> DEFINE p == Append(output_queue, N')
  <2>4. /\ p \in Seq(1 .. N') /\ Len(p) = Len(output_queue) + 1
        /\ DOMAIN p = 1 .. Len(output_queue) + 1
        /\ \A i \in 1 .. Len(output_queue) : p[i] = output_queue[i]
        /\ p[Len(output_queue) + 1] = N'
    BY <2>2, <2>3, AppendIs
  <2>5. output_queue' = IF Len(output_queue) < scenario.capacity THEN p ELSE output_queue
    BY DEF send_p4_msg, N
  <2>6. scenario.capacity \in Nat
    BY ConstAssumption
  <2> HIDE DEF p
  <2>7. CASE Len(output_queue) < scenario.capacity
    <3>1. output_queue' = p
      BY <2>5, <2>7
    <3>2. Len(p) <= scenario.capacity
      BY <2>4, <2>6, <2>7, <1>2
    <3>3. \A i \in DOMAIN p : i \in 1 .. Len(output_queue) \/ i = Len(output_queue) + 1
      BY <2>4, <1>2
    <3> QED
      BY <3>1, <3>2, <3>3, <2>4, <1>1, <1>2
  <2>8. CASE ~(Len(output_queue) < scenario.capacity)
    BY <2>1, <2>3, <2>5, <2>8
  <2> QED
    BY <2>7, <2>8
<1>5. MessageTypes'
  <2>1. cell' \in [Threads -> 0 .. N'] /\ awaited' \in [Switches -> 0 .. N']
    <3>1. 0 .. N \subseteq 0 .. N'
      BY <1>1, <1>2
    <3> QED
      BY <3>1 DEF MessagesInv, MessageTypes, N
  <2>2. \A s \in Switches : down'[s] \in Seq(UnitSet(Short', N')) /\ received'[s] \in Seq(1 .. N')
    BY <1>3 DEF Numbers
  <2>3. received' \in [Switches -> Seq(1 .. N')]
    BY <2>2 DEF MessagesInv, MessageTypes
  <2> QED
    BY <2>1, <2>2, <2>3, <1>1, <1>4 DEF MessagesInv, MessageTypes, N
<1>6. ASSUME NEW w \in Threads PROVE InHand(w)'
  <2>1. CASE cell[w] = 0
    BY <2>1 DEF InHand
  <2>2. CASE cell[w] # 0
    <3>1. cell[w] \in 1 .. N
      BY <2>2, <1>2
    <3>2. UnitsOf(Short', cell[w]) = UnitsOf(Short, cell[w]) /\ (cell[w] \in Short <=> cell[w] \in Short')
      BY <3>1, <1>1 DEF Agree
    <3> QED
      BY <2>2, <3>2 DEF MessagesInv, InHand
  <2> QED
    BY <2>1, <2>2
<1>7. \A s \in Switches : Older(down[s], awaited[s], received[s], N + 1)
  <2>1. ASSUME NEW s \in Switches PROVE Older(down[s], awaited[s], received[s], N + 1)
    <3>1. Numbers(Short, N, down[s], awaited[s], received[s])
      BY <1>2
    <3>2. \A i \in DOMAIN down[s] : down[s][i][1] \in 1 .. N
      BY <3>1, ElementOfSeq, LenProperties DEF Numbers, UnitSet
    <3>3. \A i \in DOMAIN received[s] : received[s][i] \in 1 .. N
      BY <3>1, ElementOfSeq, LenProperties DEF Numbers
    <3>4. awaited[s] \in 0 .. N
      BY <3>1 DEF Numbers
    <3> QED
      BY <3>2, <3>3, <3>4, <1>2 DEF Older
  <2> QED
    BY <2>1
<1>8. TakenInOrder'
  <2>1. ASSUME NEW i \in DOMAIN output_queue'
        PROVE  /\ \A w \in Threads : cell[w] < output_queue'[i]
               /\ \A s \in Switches : Older(down[s], awaited[s], received[s], output_queue'[i])
    <3>1. CASE i \in DOMAIN output_queue /\ output_queue'[i] = output_queue[i]
      BY <3>1 DEF MessagesInv, TakenInOrder
    <3>2. CASE output_queue'[i] = N + 1
      <4>1. \A w \in Threads : cell[w] < N + 1
        BY <1>2
      <4> QED
        BY <4>1, <3>2, <1>7
    <3> QED
      BY <3>1, <3>2, <1>4
  <2>2. ASSUME NEW i \in DOMAIN output_queue', NEW j \in DOMAIN output_queue', i < j
        PROVE  output_queue'[i] < output_queue'[j]
    <3>1. i \in DOMAIN output_queue /\ output_queue'[i] = output_queue[i]
      BY <2>2, <1>2, <1>4
    <3>2. CASE j \in DOMAIN output_queue /\ output_queue'[j] = output_queue[j]
      BY <2>2, <3>1, <3>2 DEF MessagesInv, TakenInOrder
    <3>3. CASE output_queue'[j] = N + 1
      BY <3>1, <3>3, <1>2
    <3> QED
      BY <3>2, <3>3, <1>4
  <2> QED
    BY <2>1, <2>2 DEF TakenInOrder
<1>9. \A s \in Switches : DeliveredTo(s)' = DeliveredTo(s)
  BY <1>1, <1>2, NumbersGrow DEF DeliveredTo
<1>10. WrittenOnce'
  BY <1>9 DEF MessagesInv, WrittenOnce
<1> QED
  BY <1>5, <1>6, <1>8, <1>10 DEF MessagesInv

(* A thread that takes a message has none, and takes the oldest in the queue. *)
LEMMA TakeIs ==
    ASSUME MessageTypes, TakenInOrder, NEW w \in Threads, OutTake(w)
    PROVE  \E c \in 1 .. N :
              /\ cell[w] = 0 /\ job[w][1] = "output" /\ output_queue # << >>
              /\ c = output_queue[1] /\ 1 \in DOMAIN output_queue
              /\ cell' = [cell EXCEPT ![w] = c]
              /\ rest' = [rest EXCEPT ![w] = UnitsOf(Short, c)]
              /\ output_queue' = Tail(output_queue)
              /\ \A v \in Threads : cell[v] < c
              /\ \A s \in Switches : Older(down[s], awaited[s], received[s], c)
<1> DEFINE c == Head(output_queue)
<1>1. output_queue # << >> /\ output_queue \in Seq(1 .. N)
  BY DEF OutTake, MessageTypes, N
<1>2. c \in 1 .. N /\ c = output_queue[1] /\ 1 \in DOMAIN output_queue
  <2>1. /\ c \in 1 .. N /\ c = output_queue[1] /\ DOMAIN output_queue = 1 .. Len(output_queue)
        /\ Len(output_queue) \in Nat /\ Len(output_queue) >= 1
    BY <1>1, TailIs
  <2>2. 1 \in 1 .. Len(output_queue)
    BY <2>1
  <2> QED
    BY <2>1, <2>2
<1>3. Units(c) = UnitsOf(Short, c)
  BY <1>2, MessagesAre, UnitsAre
<1>4. (\A v \in Threads : cell[v] < c) /\ \A s \in Switches : Older(down[s], awaited[s], received[s], c)
  BY <1>2 DEF TakenInOrder
<1> QED
  BY <1>1, <1>2, <1>3, <1>4 DEF OutTake, fifo_remove_msg

LEMMA DeliveredAre ==
    ASSUME NEW K, NEW n, NEW q, NEW a, NEW r, Numbers(K, n, q, a, r)
    PROVE  /\ Delivered(K, q, r) \subseteq 1 .. n
           /\ \A k : Older(q, a, r, k) => \A i \in Delivered(K, q, r) : i < k
<1>1. /\ DOMAIN q = 1 .. Len(q) /\ \A i \in DOMAIN q : q[i] \in UnitSet(K, n)
      /\ DOMAIN r = 1 .. Len(r) /\ \A i \in DOMAIN r : r[i] \in 1 .. n
  BY LenProperties, ElementOfSeq DEF Numbers
<1>2. \A i \in DOMAIN q : q[i][1] \in 1 .. n
  BY <1>1 DEF UnitSet
<1> QED
  BY <1>1, <1>2 DEF Delivered, Older

LEMMA TakeMessages ==
    ASSUME MessagesInv, scenario \in Scenarios, NEW w \in Threads, OutTake(w)
    PROVE  MessagesInv'
<1>1. PICK c \in 1 .. N :
        /\ cell[w] = 0 /\ job[w][1] = "output" /\ output_queue # << >>
        /\ c = output_queue[1] /\ 1 \in DOMAIN output_queue
        /\ cell' = [cell EXCEPT ![w] = c]
        /\ rest' = [rest EXCEPT ![w] = UnitsOf(Short, c)]
        /\ output_queue' = Tail(output_queue)
        /\ \A v \in Threads : cell[v] < c
        /\ \A s \in Switches : Older(down[s], awaited[s], received[s], c)
  BY TakeIs DEF MessagesInv
<1>2. UNCHANGED <<scenario, sent, job, down, awaited, garbled, received>>
  BY DEF OutTake, netVars, swVars
<1>3. Short' = Short /\ N' = N
  BY <1>2 DEF Short, N
<1>4. /\ N \in Nat /\ \A s \in Switches : Numbers(Short, N, down[s], awaited[s], received[s])
      /\ \A v \in Threads : cell[v] \in 0 .. N
      /\ DOMAIN output_queue = 1 .. Len(output_queue) /\ Len(output_queue) \in Nat
      /\ \A i \in DOMAIN output_queue : output_queue[i] \in 1 .. N
  BY MessagesAre DEF MessagesInv
<1>5. /\ output_queue' \in Seq(1 .. N) /\ Len(output_queue') = Len(output_queue) - 1
      /\ DOMAIN output_queue' = 1 .. Len(output_queue) - 1
      /\ \A i \in 1 .. Len(output_queue) - 1 : output_queue'[i] = output_queue[i + 1]
  <2>1. output_queue \in Seq(1 .. N)
    BY DEF MessagesInv, MessageTypes, N
  <2> QED
    BY <2>1, <1>1, TailIs
<1>6. cell' \in [Threads -> 0 .. N] /\ cell'[w] = c /\ \A v \in Threads : v # w => cell'[v] = cell[v]
  <2>1. c \in 0 .. N
    BY <1>4
  <2> QED
    BY <2>1, <1>1 DEF MessagesInv, MessageTypes, N
<1>7. MessageTypes'
  <2>1. Len(output_queue') <= scenario.capacity
    <3>1. Len(output_queue) <= scenario.capacity /\ output_queue' \in Seq(1 .. N)
      BY <1>5 DEF MessagesInv, MessageTypes
    <3>2. scenario.capacity \in Nat
      BY ConstAssumption
    <3> QED
      BY <3>1, <3>2, <1>4, <1>5
  <2>2. DOMAIN rest' = Threads
    BY <1>1 DEF MessagesInv, MessageTypes
  <2> QED
    BY <2>1, <2>2, <1>2, <1>3, <1>5, <1>6 DEF MessagesInv, MessageTypes, N
<1>8. ASSUME NEW v \in Threads PROVE InHand(v)'
  <2>1. CASE v = w
    <3>1. rest'[w] = UnitsOf(Short, c)
      BY <1>1 DEF MessagesInv, MessageTypes
    <3> QED
      BY <2>1, <3>1, <1>1, <1>2, <1>3, <1>6 DEF InHand
  <2>2. CASE v # w
    <3>1. rest'[v] = rest[v]
      BY <2>2, <1>1 DEF MessagesInv, MessageTypes
    <3> QED
      BY <2>2, <3>1, <1>2, <1>3, <1>6 DEF MessagesInv, InHand
  <2> QED
    BY <2>1, <2>2
<1>9. ASSUME NEW i \in DOMAIN output_queue'
      PROVE  /\ i + 1 \in DOMAIN output_queue /\ output_queue'[i] = output_queue[i + 1]
             /\ c < output_queue'[i]
             /\ \A j \in DOMAIN output_queue' : i < j => i + 1 < j + 1
  <2>1. /\ i + 1 \in DOMAIN output_queue /\ 1 < i + 1
        /\ output_queue'[i] = output_queue[i + 1]
        /\ \A j \in DOMAIN output_queue' : i < j => i + 1 < j + 1
    BY <1>4, <1>5
  <2> QED
    BY <2>1, <1>1 DEF MessagesInv, TakenInOrder
<1>10. TakenInOrder'
  <2>1. \A i, j \in DOMAIN output_queue' : i < j => output_queue'[i] < output_queue'[j]
    BY <1>9 DEF MessagesInv, TakenInOrder
  <2>2. ASSUME NEW i \in DOMAIN output_queue'
        PROVE  /\ \A v \in Threads : cell'[v] < output_queue'[i]
               /\ \A s \in Switches : Older(down[s], awaited[s], received[s], output_queue'[i])
    BY <1>6, <1>9 DEF MessagesInv, TakenInOrder
  <2> QED
    BY <2>1, <2>2, <1>2 DEF TakenInOrder
<1>11. WrittenOnce'
  <2>1. \A s \in Switches : DeliveredTo(s)' = DeliveredTo(s)
    BY <1>2, <1>3 DEF DeliveredTo
  <2>2. \A s \in Switches : \A k \in DeliveredTo(s) : k < c /\ k \in 1 .. N
    BY <1>1, <1>4, DeliveredAre DEF DeliveredTo
  <2>3. \A s \in Switches : c \notin DeliveredTo(s)
    BY <2>2, <1>4
  <2>4. \A v \in Threads : v # w => cell[v] # c
    BY <1>1, <1>4
  <2>5. \A u, v \in Threads : u # v /\ cell'[u] = cell'[v] => cell'[u] = 0
    BY <2>4, <1>6 DEF MessagesInv, WrittenOnce
  <2>6. \A v \in Threads, s \in Switches : cell'[v] \notin DeliveredTo(s)
    BY <2>3, <1>6 DEF MessagesInv, WrittenOnce
  <2> QED
    BY <2>1, <2>5, <2>6 DEF MessagesInv, WrittenOnce
<1> QED
  BY <1>7, <1>8, <1>10, <1>11 DEF MessagesInv

(* One unit more on the way *)
LEMMA OneMore ==
    ASSUME NEW K, NEW n, NEW q, NEW a, NEW r, Numbers(K, n, q, a, r), NEW u \in UnitSet(K, n)
    PROVE  /\ Numbers(K, n, Append(q, u), a, r)
           /\ Delivered(K, Append(q, u), r) =
                 IF Ends(K, u) THEN Delivered(K, q, r) \cup {u[1]} ELSE Delivered(K, q, r)
           /\ \A k : Older(q, a, r, k) /\ u[1] < k => Older(Append(q, u), a, r, k)
<1> DEFINE p == Append(q, u)
           m == Len(q)
<1>1. /\ p \in Seq(UnitSet(K, n)) /\ m \in Nat
      /\ DOMAIN q = 1 .. m /\ DOMAIN p = 1 .. m + 1
      /\ \A i \in 1 .. m : p[i] = q[i]
      /\ p[m + 1] = u
  <2>1. q \in Seq(UnitSet(K, n))
    BY DEF Numbers
  <2> QED
    BY <2>1, AppendIs
<1> HIDE DEF p, m
<1>2. Numbers(K, n, p, a, r)
  BY <1>1 DEF Numbers
<1>3. \A i \in DOMAIN p : i \in DOMAIN q \/ i = m + 1
  BY <1>1
<1>4. DOMAIN q \subseteq DOMAIN p /\ m + 1 \in DOMAIN p
  BY <1>1
<1>5. Delivered(K, p, r) =
        IF Ends(K, u) THEN Delivered(K, q, r) \cup {u[1]} ELSE Delivered(K, q, r)
  <2>1. {i \in DOMAIN p : Ends(K, p[i])} =
          {i \in DOMAIN q : Ends(K, q[i])} \cup (IF Ends(K, u) THEN {m + 1} ELSE {})
    BY <1>1, <1>3, <1>4
  <2>2. {p[i][1] : i \in {j \in DOMAIN p : Ends(K, p[j])}} =
          {q[i][1] : i \in {j \in DOMAIN q : Ends(K, q[j])}}
            \cup (IF Ends(K, u) THEN {u[1]} ELSE {})
    BY <1>1, <2>1
  <2> QED
    BY <2>2 DEF Delivered
<1>6. ASSUME NEW k, Older(q, a, r, k), u[1] < k PROVE Older(p, a, r, k)
  BY <1>1, <1>3, <1>6 DEF Older
<1> QED
  BY <1>2, <1>5, <1>6 DEF p

(* What a thread does with the message it has in hand: it writes a unit or   *)
(* two to an open connection, or it is rid of it, or the process ends.       *)
Rid(w) == cell' = [cell EXCEPT ![w] = 0] /\ rest' = [rest EXCEPT ![w] = << >>]

HeaderOf(k) == <<k, Header>>
EndOf(k)    == <<k, Body>>

OutWriteCases(w, c) ==
    \/ UNCHANGED down /\ conn[job[w][2]] \in Gone \cup {0} /\ Rid(w)
    \/ UNCHANGED <<down, cell, rest>>
    \/ \E s \in Switches :
          /\ s = conn[job[w][2]] /\ status[s] = "open" /\ fdOf[s] = job[w][2]
          /\ \/ /\ c \in Short /\ rest[w] = UnitsOf(Short, c) /\ Rid(w)
                /\ down' = [down EXCEPT ![s] = Append(@, HeaderOf(c))]
             \/ /\ c \notin Short /\ rest[w] = UnitsOf(Short, c)
                /\ down' = [down EXCEPT ![s] = Append(@, HeaderOf(c))]
                /\ UNCHANGED cell /\ rest' = [rest EXCEPT ![w] = BodyOf(c)]
             \/ /\ c \notin Short /\ rest[w] = UnitsOf(Short, c) /\ Rid(w)
                /\ down' = [down EXCEPT ![s] = Append(Append(@, HeaderOf(c)), EndOf(c))]
             \/ /\ c \notin Short /\ rest[w] = BodyOf(c) /\ Rid(w)
                /\ down' = [down EXCEPT ![s] = Append(@, EndOf(c))]

LEMMA SingleSubSeq ==
    ASSUME NEW S, NEW q \in Seq(S), NEW i \in 1 .. Len(q)
    PROVE  SubSeq(q, i, i) = <<q[i]>>
<1>1. i \in Int /\ i \in i .. Len(q) /\ Len(q) \in Nat
  BY LenProperties
<1>2. SubSeq(q, i, i) = <<q[i]>> \o SubSeq(q, i + 1, i)
  BY <1>1, SubSeqRecursiveFirst
<1>3. SubSeq(q, i + 1, i) = << >>
  BY <1>1, SubSeqEmpty
<1>4. <<q[i]>> \in Seq(S)
  BY ElementOfSeq
<1>5. <<q[i]>> \o << >> = <<q[i]>>
  BY <1>4, ConcatEmptySeq
<1> QED
  BY <1>2, <1>3, <1>5

LEMMA PieceOf ==
    ASSUME NEW S, NEW q \in Seq(S), NEW x \in S, NEW y \in S
    PROVE  /\ q \o SubSeq(<<x>>, 1, 1) = Append(q, x)
           /\ q \o SubSeq(<<x, y>>, 1, 1) = Append(q, x)
           /\ q \o SubSeq(<<x, y>>, 1, 2) = Append(Append(q, x), y)
           /\ SubSeq(<<x>>, 2, 1) = << >>
           /\ SubSeq(<<x, y>>, 2, 2) = <<y>>
           /\ SubSeq(<<x, y>>, 3, 2) = << >>
<1> DEFINE one == <<x>>
           two == <<x, y>>
<1>0. /\ one \in Seq(S) /\ Len(one) = 1 /\ one[1] = x
      /\ two \in Seq(S) /\ Len(two) = 2 /\ two[1] = x /\ two[2] = y
  OBVIOUS
<1>1. SubSeq(<<x>>, 1, 1) = <<x>> /\ SubSeq(<<x, y>>, 1, 1) = <<x>>
      /\ SubSeq(<<x, y>>, 1, 2) = <<x, y>>
  <2>1. SubSeq(one, 1, Len(one)) = one /\ SubSeq(two, 1, Len(two)) = two
    BY <1>0, SubSeqFull
  <2>2. SubSeq(two, 1, 1) = <<two[1]>>
    <3>1. two \in Seq(S) /\ 1 \in 1 .. Len(two)
      BY <1>0
    <3> HIDE DEF two
    <3> QED
      BY <3>1, SingleSubSeq
  <2> QED
    BY <1>0, <2>1, <2>2
<1>2. SubSeq(<<x>>, 2, 1) = << >> /\ SubSeq(<<x, y>>, 2, 2) = <<y>>
      /\ SubSeq(<<x, y>>, 3, 2) = << >>
  <2>1. SubSeq(two, 2, 2) = <<two[2]>>
    <3>1. two \in Seq(S) /\ 2 \in 1 .. Len(two)
      BY <1>0
    <3> HIDE DEF two
    <3> QED
      BY <3>1, SingleSubSeq
  <2> QED
    BY <1>0, <2>1, SubSeqEmpty
<1>3. q \o <<x>> = Append(q, x)
  BY AppendIsConcat
<1>4. q \o <<x, y>> = Append(Append(q, x), y)
  <2>1. <<x, y>> = Append(<<x>>, y) /\ <<x>> \in Seq(S)
    OBVIOUS
  <2> QED
    OBVIOUS
<1> QED
  BY <1>1, <1>2, <1>3, <1>4

LEMMA OutWriteIs ==
    ASSUME Connections, Jobs, MessagesInv, NEW w \in Threads, OutWrite(w)
    PROVE  /\ cell[w] \in 1 .. N /\ job[w][1] = "output"
           /\ OutWriteCases(w, cell[w])
           /\ cell[w] \in Short => HeaderOf(cell[w]) \in UnitSet(Short, N)
           /\ cell[w] \notin Short => /\ HeaderOf(cell[w]) \in UnitSet(Short, N)
                                     /\ EndOf(cell[w]) \in UnitSet(Short, N)
<1> DEFINE c == cell[w]
           d == job[w][2]
           s == conn[d]
           U == UnitSet(Short, N)
           h == HeaderOf(c)
           e == EndOf(c)
<1>1. c # 0 /\ job[w][1] = "output"
  BY DEF OutWrite
<1>2. c \in 1 .. N
  <2>1. cell[w] \in 0 .. N /\ N \in Nat
    BY MessagesAre DEF MessagesInv
  <2> QED
    BY <1>1, <2>1
<1>3. h \in U /\ (c \notin Short => e \in U)
  BY <1>2 DEF HeaderOf, EndOf, UnitSet, Header, Body
<1>4. \/ c \in Short /\ rest[w] = <<h>>
      \/ c \notin Short /\ rest[w] = <<h, e>>
      \/ c \notin Short /\ rest[w] = <<e>>
  BY <1>1 DEF MessagesInv, InHand, UnitsOf, BodyOf, HeaderOf, EndOf
<1>5. /\ c \in Short => UnitsOf(Short, c) = <<h>>
      /\ c \notin Short => UnitsOf(Short, c) = <<h, e>> /\ BodyOf(c) = <<e>>
  BY DEF UnitsOf, BodyOf, HeaderOf, EndOf
<1>6. DOMAIN rest = Threads /\ DOMAIN cell = Threads
  BY DEF MessagesInv, MessageTypes
<1>7. cell' = [cell EXCEPT ![w] = IF rest'[w] = << >> THEN 0 ELSE @]
  BY DEF OutWrite, Released
<1>8. rest[w] # << >>
  BY <1>4
<1>9. CASE s \in Gone \cup {0} /\ rest' = [rest EXCEPT ![w] = << >>] /\ UNCHANGED down
  <2>1. rest'[w] = << >>
    BY <1>6, <1>9
  <2>2. Rid(w)
    BY <2>1, <1>7, <1>9 DEF Rid
  <2> QED
    BY <2>2, <1>1, <1>2, <1>3, <1>9 DEF OutWriteCases
<1>10. CASE UNCHANGED <<rest, down>>
  <2>1. cell' = [cell EXCEPT ![w] = cell[w]]
    BY <1>7, <1>8, <1>10
  <2>2. cell' = cell
    BY <2>1, <1>6 DEF MessagesInv, MessageTypes
  <2> QED
    BY <2>2, <1>1, <1>2, <1>3, <1>10 DEF OutWriteCases
<1>11. ASSUME s \notin Gone \cup {0}, NEW n \in 1 .. Len(rest[w]),
              down' = [down EXCEPT ![s] = @ \o SubSeq(rest[w], 1, n)],
              rest' = [rest EXCEPT ![w] = SubSeq(rest[w], n + 1, Len(rest[w]))]
       PROVE  OutWriteCases(w, c)
  <2>1. d \in Fds
    <3>1. job[w] \in {Idle} \cup ({"output", "input"} \X Fds)
      BY DEF Jobs, JobTypes
    <3> QED
      BY <3>1, <1>1, JobIs
  <2>2. s \in Switches /\ status[s] = "open" /\ fdOf[s] = d
    <3>1. s \in Switches /\ s # 0
      BY <2>1, <1>11 DEF Connections, NetTypes
    <3>2. status[s] # "left"
      BY <3>1, <1>11 DEF Gone
    <3> QED
      BY <2>1, <3>1, <3>2 DEF Connections, Wired
  <2>3. down[s] \in Seq(U) /\ s \in DOMAIN down
    BY <2>2 DEF MessagesInv, MessageTypes, N
  <2>4. rest'[w] = SubSeq(rest[w], n + 1, Len(rest[w]))
    BY <1>6, <1>11
  <2> HIDE DEF s, d, c, h, e, U
  <2>5. CASE c \in Short /\ rest[w] = <<h>>
    <3>1. Len(<<h>>) = 1
      OBVIOUS
    <3>2. n = 1
      BY <1>11, <2>5, <3>1
    <3>3. rest' = [rest EXCEPT ![w] = << >>] /\ down' = [down EXCEPT ![s] = Append(@, h)]
          /\ rest'[w] = << >>
      <4>1. down[s] \o SubSeq(<<h>>, 1, 1) = Append(down[s], h) /\ SubSeq(<<h>>, 2, 1) = << >>
        BY <2>3, <1>3, PieceOf
      <4>2. n + 1 = 2
        BY <3>2
      <4>3. /\ SubSeq(rest[w], n + 1, Len(rest[w])) = << >>
            /\ down[s] \o SubSeq(rest[w], 1, n) = Append(down[s], h)
        BY <4>1, <4>2, <2>5, <3>1, <3>2, Zenon
      <4> QED
        BY <4>3, <1>11, <2>4, Zenon
    <3>4. Rid(w)
      BY <3>3, <1>7 DEF Rid
    <3> QED
      BY <2>2, <2>5, <3>3, <3>4, <1>5 DEF OutWriteCases, h, s, d
  <2>6. CASE c \notin Short /\ rest[w] = <<h, e>>
    <3>1. Len(<<h, e>>) = 2
      OBVIOUS
    <3>2. n = 1 \/ n = 2
      BY <1>11, <2>6, <3>1
    <3>3. /\ down[s] \o SubSeq(<<h, e>>, 1, 1) = Append(down[s], h)
          /\ down[s] \o SubSeq(<<h, e>>, 1, 2) = Append(Append(down[s], h), e)
          /\ SubSeq(<<h, e>>, 2, 2) = <<e>> /\ SubSeq(<<h, e>>, 3, 2) = << >>
      BY <2>3, <2>6, <1>3, PieceOf
    <3>4. CASE n = 1
      <4>1. /\ rest' = [rest EXCEPT ![w] = <<e>>] /\ down' = [down EXCEPT ![s] = Append(@, h)]
            /\ rest'[w] = <<e>>
        <5>1. n + 1 = 2
          BY <3>4
        <5>2. /\ SubSeq(rest[w], n + 1, Len(rest[w])) = <<e>>
              /\ down[s] \o SubSeq(rest[w], 1, n) = Append(down[s], h)
          BY <5>1, <2>6, <3>1, <3>3, <3>4, Zenon
        <5> QED
          BY <5>2, <1>11, <2>4, Zenon
      <4>2. cell' = [cell EXCEPT ![w] = cell[w]]
        BY <4>1, <1>7
      <4>3. cell' = cell
        BY <4>2, <1>6 DEF MessagesInv, MessageTypes
      <4> QED
        BY <2>2, <2>6, <4>1, <4>3, <1>5 DEF OutWriteCases, h, s, d
    <3>5. CASE n = 2
      <4>1. /\ rest' = [rest EXCEPT ![w] = << >>] /\ rest'[w] = << >>
            /\ down' = [down EXCEPT ![s] = Append(Append(@, h), e)]
        <5>1. n + 1 = 3
          BY <3>5
        <5>2. /\ SubSeq(rest[w], n + 1, Len(rest[w])) = << >>
              /\ down[s] \o SubSeq(rest[w], 1, n) = Append(Append(down[s], h), e)
          BY <5>1, <2>6, <3>1, <3>3, <3>5, Zenon
        <5> QED
          BY <5>2, <1>11, <2>4, Zenon
      <4>2. Rid(w)
        BY <4>1, <1>7 DEF Rid
      <4> QED
        BY <2>2, <2>6, <4>1, <4>2, <1>5 DEF OutWriteCases, h, e, s, d
    <3> QED
      BY <3>2, <3>4, <3>5
  <2>7. CASE c \notin Short /\ rest[w] = <<e>>
    <3>1. Len(<<e>>) = 1
      OBVIOUS
    <3>2. n = 1
      BY <1>11, <2>7, <3>1
    <3>3. rest' = [rest EXCEPT ![w] = << >>] /\ down' = [down EXCEPT ![s] = Append(@, e)]
          /\ rest'[w] = << >>
      <4>1. down[s] \o SubSeq(<<e>>, 1, 1) = Append(down[s], e) /\ SubSeq(<<e>>, 2, 1) = << >>
        BY <2>3, <2>7, <1>3, PieceOf
      <4>2. n + 1 = 2
        BY <3>2
      <4>3. /\ SubSeq(rest[w], n + 1, Len(rest[w])) = << >>
            /\ down[s] \o SubSeq(rest[w], 1, n) = Append(down[s], e)
        BY <4>1, <4>2, <2>7, <3>1, <3>2, Zenon
      <4> QED
        BY <4>3, <1>11, <2>4, Zenon
    <3>4. Rid(w)
      BY <3>3, <1>7 DEF Rid
    <3> QED
      BY <2>2, <2>7, <3>3, <3>4, <1>5 DEF OutWriteCases, e, s, d
  <2> QED
    BY <2>5, <2>6, <2>7, <1>4
<1> QED
  BY <1>1, <1>2, <1>3, <1>9, <1>10, <1>11 DEF OutWrite, Unwritten

(* However much was written: if the end of the message was, the thread has  *)
(* it no more.                                                              *)
LEMMA WriteMessages ==
    ASSUME Connections, Jobs, MessagesInv, NEW w \in Threads, OutWrite(w)
    PROVE  MessagesInv'
<1> DEFINE c == cell[w]
           U == UnitSet(Short, N)
           h == HeaderOf(c)
           e == EndOf(c)
<1>1. /\ c \in 1 .. N /\ job[w][1] = "output" /\ OutWriteCases(w, c)
      /\ h \in U /\ (c \notin Short => e \in U)
  BY OutWriteIs
<1>2. /\ UNCHANGED <<scenario, sent, output_queue, job, awaited, garbled, received>>
  BY DEF OutWrite, mainVars, swVars
<1>3. Short' = Short /\ N' = N
  BY <1>2 DEF Short, N
<1>4. /\ N \in Nat /\ \A t \in Switches : Numbers(Short, N, down[t], awaited[t], received[t])
      /\ \A v \in Threads : cell[v] \in 0 .. N
  BY MessagesAre DEF MessagesInv
<1>5. /\ h[1] = c /\ e[1] = c /\ (c \in Short => Ends(Short, h)) /\ (c \notin Short => ~Ends(Short, h))
  BY DEF HeaderOf, EndOf, Ends, Header, Body
<1>6. /\ DOMAIN rest = Threads /\ cell \in [Threads -> 0 .. N] /\ DOMAIN down = Switches
  BY DEF MessagesInv, MessageTypes, N
<1> DEFINE Kept == cell' = cell
           Gave == cell' = [cell EXCEPT ![w] = 0]
           More(t) == IF cell'[w] = 0 THEN {c} ELSE {}
           Rest(v) == \/ cell'[v] = 0
                      \/ cell'[v] = cell[v] /\ rest'[v] = rest[v]
                      \/ v = w /\ Kept /\ c \notin Short /\ rest'[v] = BodyOf(c)
           On(t, q) == /\ Numbers(Short, N, q, awaited[t], received[t])
                       /\ Delivered(Short, q, received[t]) \subseteq DeliveredTo(t) \cup More(t)
                       /\ \A k : Older(down[t], awaited[t], received[t], k) /\ c < k =>
                                 Older(q, awaited[t], received[t], k)
           Part(t) == /\ \A u \in Switches : u # t => down'[u] = down[u]
                      /\ On(t, down'[t])
                      /\ Gave \/ DeliveredTo(t)' \subseteq DeliveredTo(t)
<1>7. /\ Kept \/ Gave
      /\ DOMAIN rest' = Threads /\ DOMAIN down' = Switches
      /\ \A v \in Threads : Rest(v)
      /\ \/ down' = down
         \/ \E s \in Switches : Part(s)
  <2> HIDE DEF Part
  <2>1. CASE UNCHANGED down /\ Rid(w)
    <3>1. Gave /\ rest' = [rest EXCEPT ![w] = << >>] /\ down' = down
      BY <2>1 DEF Rid
    <3>2. \A v \in Threads : Rest(v)
      <4>1. \A v \in Threads : cell'[v] = 0 \/ (cell'[v] = cell[v] /\ rest'[v] = rest[v])
        BY <3>1, <1>6
      <4> QED
        BY <4>1
    <3>3. DOMAIN rest' = Threads /\ DOMAIN down' = Switches
      BY <3>1, <1>6
    <3> HIDE DEF Rest, Kept, Gave
    <3> QED
      BY <3>1, <3>2, <3>3, Zenon
  <2>2. CASE UNCHANGED <<down, cell, rest>>
    <3>1. (\A v \in Threads : Rest(v)) /\ down' = down /\ Kept
      BY <2>2
    <3>2. DOMAIN rest' = Threads /\ DOMAIN down' = Switches
      BY <2>2, <1>6
    <3> HIDE DEF Rest, Kept, Gave
    <3> QED
      BY <3>1, <3>2, Zenon
  <2>3. ASSUME NEW s \in Switches,
               \/ /\ c \in Short /\ rest[w] = UnitsOf(Short, c) /\ Rid(w)
                  /\ down' = [down EXCEPT ![s] = Append(@, h)]
               \/ /\ c \notin Short /\ rest[w] = UnitsOf(Short, c)
                  /\ down' = [down EXCEPT ![s] = Append(@, h)]
                  /\ UNCHANGED cell /\ rest' = [rest EXCEPT ![w] = BodyOf(c)]
               \/ /\ c \notin Short /\ rest[w] = UnitsOf(Short, c) /\ Rid(w)
                  /\ down' = [down EXCEPT ![s] = Append(Append(@, h), e)]
               \/ /\ c \notin Short /\ rest[w] = BodyOf(c) /\ Rid(w)
                  /\ down' = [down EXCEPT ![s] = Append(@, e)]
        PROVE  /\ Kept \/ Gave
               /\ DOMAIN rest' = Threads /\ DOMAIN down' = Switches
               /\ \A v \in Threads : Rest(v)
               /\ Part(s)
    <3> DEFINE q == down[s]
               a == awaited[s]
               r == received[s]
               Before == Delivered(Short, q, r)
    <3>1. Numbers(Short, N, q, a, r) /\ Before = DeliveredTo(s)
      BY <1>4 DEF DeliveredTo
    <3> USE DEF Part
    <3> HIDE DEF q, a, r, h, e
    <3> DEFINE qh == Append(q, h)
               qe == Append(q, e)
               qb == Append(qh, e)
    <3>2. /\ Numbers(Short, N, qh, a, r)
          /\ Delivered(Short, qh, r) = IF Ends(Short, h) THEN Before \cup {c} ELSE Before
          /\ \A k : Older(q, a, r, k) /\ c < k => Older(qh, a, r, k)
      BY <3>1, <1>1, <1>5, OneMore
    <3>3. ASSUME c \notin Short
          PROVE  /\ Numbers(Short, N, qe, a, r)
                 /\ Delivered(Short, qe, r) \subseteq Before \cup {c}
                 /\ \A k : Older(q, a, r, k) /\ c < k => Older(qe, a, r, k)
      BY <3>1, <3>3, <1>1, <1>5, OneMore
    <3>4. ASSUME c \notin Short
          PROVE  /\ Numbers(Short, N, qb, a, r)
                 /\ Delivered(Short, qb, r) \subseteq Delivered(Short, qh, r) \cup {c}
                 /\ \A k : Older(qh, a, r, k) /\ c < k => Older(qb, a, r, k)
      <4> HIDE DEF qh
      <4> QED
        BY <3>2, <3>4, <1>1, <1>5, OneMore
    <3> HIDE DEF qh, qe, qb, q, a, r, Before, c, h, e
    <3>5. \A t \in Switches : t # s => down'[t] = down[t]
      BY <2>3, <1>6
    <3>6. CASE c \in Short /\ Rid(w) /\ down'[s] = qh
      BY <3>1, <3>2, <3>5, <3>6, <2>3, <1>5, <1>6 DEF Rid, q, a, r
    <3>7. CASE /\ c \notin Short /\ down'[s] = qh
               /\ UNCHANGED cell /\ rest' = [rest EXCEPT ![w] = BodyOf(c)]
      <4>1. On(s, down'[s])
        BY <3>1, <3>2, <3>7, <1>5 DEF q, a, r
      <4>2. DeliveredTo(s)' \subseteq DeliveredTo(s)
        BY <3>1, <3>2, <3>7, <1>2, <1>3, <1>5 DEF DeliveredTo, r
      <4> QED
        BY <4>1, <4>2, <3>5, <3>7, <2>3, <1>6 DEF c
    <3>8. CASE c \notin Short /\ Rid(w) /\ down'[s] = qb
      <4>1. Delivered(Short, qb, r) \subseteq Before \cup {c}
        BY <3>2, <3>4, <3>8, <1>5
      <4> QED
        BY <4>1, <3>1, <3>2, <3>4, <3>5, <3>8, <2>3, <1>6 DEF Rid, q, a, r
    <3>9. CASE c \notin Short /\ Rid(w) /\ down'[s] = qe
      BY <3>1, <3>3, <3>5, <3>9, <2>3, <1>6 DEF Rid, q, a, r
    <3> QED
      BY <2>3, <3>6, <3>7, <3>8, <3>9, <1>6 DEF qh, qe, qb, q
  <2>4. CASE \E s \in Switches :
                \/ /\ c \in Short /\ rest[w] = UnitsOf(Short, c) /\ Rid(w)
                   /\ down' = [down EXCEPT ![s] = Append(@, h)]
                \/ /\ c \notin Short /\ rest[w] = UnitsOf(Short, c)
                   /\ down' = [down EXCEPT ![s] = Append(@, h)]
                   /\ UNCHANGED cell /\ rest' = [rest EXCEPT ![w] = BodyOf(c)]
                \/ /\ c \notin Short /\ rest[w] = UnitsOf(Short, c) /\ Rid(w)
                   /\ down' = [down EXCEPT ![s] = Append(Append(@, h), e)]
                \/ /\ c \notin Short /\ rest[w] = BodyOf(c) /\ Rid(w)
                   /\ down' = [down EXCEPT ![s] = Append(@, e)]
    <3> HIDE DEF Rest, Kept, Gave
    <3> QED
      BY <2>3, <2>4, Zenon
  <2> HIDE DEF Rest, Kept, Gave
  <2> QED
    BY <1>1, <2>1, <2>2, <2>4, Zenon DEF OutWriteCases
<1> HIDE DEF Rest, h, e, U
<1>8. PICK s \in Switches \cup {0} :
        /\ \A t \in Switches : t # s => down'[t] = down[t]
        /\ s \in Switches => Part(s)
  <2>1. CASE down' = down
    BY <2>1, ReadNumbers
  <2>2. CASE down' # down
    <3>1. PICK s \in Switches : Part(s)
      <4> HIDE DEF Part, Gave, Kept, Rest
      <4> QED
        BY <2>2, <1>7
    <3>2. s \in Switches \cup {0}
      OBVIOUS
    <3> QED
      BY <3>1, <3>2, Zenon
  <2> QED
    BY <2>1, <2>2
<1>9. \A v \in Threads : cell'[v] \in {0, cell[v]} /\ (v # w => cell'[v] = cell[v])
  BY <1>6, <1>7
<1>10. MessageTypes'
  <2>1. cell' \in [Threads -> 0 .. N]
    BY <1>4, <1>6, <1>7
  <2>2. \A t \in Switches : down'[t] \in Seq(UnitSet(Short, N))
    BY <1>4, <1>8 DEF Numbers
  <2> QED
    BY <2>1, <2>2, <1>2, <1>3, <1>7 DEF MessagesInv, MessageTypes, N
<1>11. ASSUME NEW v \in Threads PROVE InHand(v)'
  <2>1. Rest(v)
    BY <1>7
  <2>2. CASE cell'[v] = 0
    BY <2>2 DEF InHand
  <2>3. CASE cell'[v] = cell[v] /\ rest'[v] = rest[v]
    BY <2>3, <1>2, <1>3 DEF MessagesInv, InHand
  <2>4. CASE v = w /\ Kept /\ c \notin Short /\ rest'[v] = BodyOf(c)
    BY <2>4, <1>1, <1>2, <1>3 DEF InHand
  <2> QED
    BY <2>1, <2>2, <2>3, <2>4 DEF Rest
<1>12. TakenInOrder'
  <2>1. ASSUME NEW i \in DOMAIN output_queue
        PROVE  /\ \A v \in Threads : cell'[v] < output_queue[i]
               /\ \A t \in Switches : Older(down'[t], awaited[t], received[t], output_queue[i])
    <3>1. /\ \A v \in Threads : cell[v] < output_queue[i]
          /\ \A t \in Switches : Older(down[t], awaited[t], received[t], output_queue[i])
      BY DEF MessagesInv, TakenInOrder
    <3>2. output_queue[i] \in 1 .. N
      BY MessagesAre DEF MessagesInv
    <3>3. \A v \in Threads : cell'[v] < output_queue[i]
      BY <3>1, <3>2, <1>4, <1>9
    <3>4. \A t \in Switches : Older(down'[t], awaited[t], received[t], output_queue[i])
      BY <3>1, <1>8
    <3> QED
      BY <3>3, <3>4
  <2> QED
    BY <2>1, <1>2 DEF MessagesInv, TakenInOrder
<1>13. WrittenOnce'
  <2>1. /\ \A u, v \in Threads : u # v /\ cell[u] = cell[v] => cell[u] = 0
        /\ \A v \in Threads, t \in Switches : cell[v] \notin DeliveredTo(t)
        /\ \A t, u \in Switches : t # u => DeliveredTo(t) \cap DeliveredTo(u) = {}
    BY DEF MessagesInv, WrittenOnce
  <2>2. \A t \in Switches : t # s => DeliveredTo(t)' = DeliveredTo(t)
    BY <1>2, <1>3, <1>8 DEF DeliveredTo
  <2>3. s \in Switches => /\ DeliveredTo(s)' \subseteq DeliveredTo(s) \cup {c}
                         /\ (cell'[w] = 0 \/ DeliveredTo(s)' \subseteq DeliveredTo(s))
    <3>1. Gave => cell'[w] = 0
      BY <1>6
    <3>2. s \in Switches => DeliveredTo(s)' \subseteq DeliveredTo(s) \cup More(s)
      BY <1>2, <1>3, <1>8 DEF DeliveredTo
    <3> QED
      BY <3>1, <3>2, <1>8
  <2>4. \A t \in Switches : 0 \notin DeliveredTo(t)' /\ c \notin DeliveredTo(t)
    <3>1. \A t \in Switches : Numbers(Short, N, down'[t], awaited[t], received[t])
      BY <1>4, <1>8
    <3>2. \A t \in Switches : DeliveredTo(t)' \subseteq 1 .. N
      BY <3>1, <1>2, <1>3, DeliveredAre DEF DeliveredTo
    <3> QED
      BY <3>2, <2>1, <1>4
  <2>5. c # 0 /\ \A v \in Threads : v # w => cell[v] # c
    BY <2>1, <1>1, <1>4
  <2> HIDE DEF c, Kept, Gave
  <2>6. \A u, v \in Threads : u # v /\ cell'[u] = cell'[v] => cell'[u] = 0
    BY <2>1, <1>9
  <2>7. ASSUME NEW v \in Threads, NEW t \in Switches PROVE cell'[v] \notin DeliveredTo(t)'
    <3>1. CASE cell'[v] = 0
      BY <3>1, <2>4
    <3>2. CASE cell'[v] # 0
      <4>1. cell'[v] = cell[v] /\ cell[v] \notin DeliveredTo(t)
        BY <3>2, <1>9, <2>1
      <4>2. CASE t = s /\ v = w
        <5>1. DeliveredTo(s)' \subseteq DeliveredTo(s)
          BY <3>2, <4>2, <2>3
        <5> QED
          BY <4>1, <4>2, <5>1
      <4>3. CASE t = s /\ v # w
        <5>1. DeliveredTo(s)' \subseteq DeliveredTo(s) \cup {c} /\ cell[v] # c
          BY <4>3, <2>3, <2>5
        <5> QED
          BY <4>1, <4>3, <5>1
      <4>4. CASE t # s
        BY <4>1, <4>4, <2>2
      <4> QED
        BY <4>2, <4>3, <4>4
    <3> QED
      BY <3>1, <3>2
  <2>8. ASSUME NEW t \in Switches, NEW u \in Switches, t # u
        PROVE  DeliveredTo(t)' \cap DeliveredTo(u)' = {}
    <3>1. DeliveredTo(t) \cap DeliveredTo(u) = {} /\ c \notin DeliveredTo(t) /\ c \notin DeliveredTo(u)
      BY <2>1, <2>4, <2>8
    <3>2. CASE t = s
      BY <3>1, <3>2, <2>2, <2>3, <2>8
    <3>3. CASE u = s
      BY <3>1, <3>3, <2>2, <2>3, <2>8
    <3>4. CASE t # s /\ u # s
      BY <3>1, <3>4, <2>2
    <3> QED
      BY <3>2, <3>3, <3>4
  <2> QED
    BY <2>6, <2>7, <2>8 DEF WrittenOnce
<1> QED
  BY <1>10, <1>11, <1>12, <1>13 DEF MessagesInv

LEMMA ReadIs ==
    ASSUME MessageTypes, NEW s \in Switches, SwitchRead(s)
    PROVE  \E u \in UnitSet(Short, N) :
              /\ down[s] # << >> /\ u = Head(down[s])
              /\ garbled' = [garbled EXCEPT ![s] = ~Due(awaited[s], u)]
              /\ awaited' = [awaited EXCEPT ![s] =
                                IF Due(awaited[s], u) /\ ~Ends(Short, u) THEN u[1] ELSE 0]
              /\ received' = IF Due(awaited[s], u) /\ Ends(Short, u)
                             THEN [received EXCEPT ![s] = Append(@, u[1])] ELSE received
              /\ down' = [down EXCEPT ![s] = Tail(@)]
<1> DEFINE u == Head(down[s])
<1>1. down[s] # << >> /\ u \in UnitSet(Short, N) /\ N \in Nat /\ DOMAIN sent = 1 .. N
  <2>1. down[s] # << >> /\ down[s] \in Seq(UnitSet(Short, N))
    BY DEF SwitchRead, MessageTypes, N
  <2> QED
    BY <2>1, TailIs, MessagesAre
<1> HIDE DEF u
<1>2. /\ u = <<u[1], u[2]>> /\ u[1] \in 1 .. N /\ u[2] \in {Header, Body} /\ Header # Body
      /\ (Ends(Short, u) <=> (u[2] = Body \/ u[1] \in Short)) /\ (u[2] = Body => u[1] \notin Short)
  BY <1>1, UnitIs
<1>3. (u = Last(Units(u[1]))) <=> Ends(Short, u)
  <2>1. Last(Units(u[1])) = IF u[1] \in Short THEN <<u[1], Header>> ELSE <<u[1], Body>>
    BY <1>1, <1>2, UnitsAre
  <2> QED
    BY <2>1, <1>2
<1>4. (IF awaited[s] = 0 THEN u[2] = Header ELSE <<u[1], u[2]>> = <<awaited[s], Body>>)
         <=> Due(awaited[s], u)
  BY <1>2 DEF Due
<1> DEFINE expected == IF awaited[s] = 0 THEN u[2] = Header
                       ELSE <<u[1], u[2]>> = <<awaited[s], Body>>
           whole == u = Last(Units(u[1]))
<1>5. /\ garbled' = [garbled EXCEPT ![s] = ~expected]
      /\ awaited' = [awaited EXCEPT ![s] = IF expected /\ ~whole THEN u[1] ELSE 0]
      /\ received' = IF expected /\ whole THEN [received EXCEPT ![s] = Append(@, u[1])]
                     ELSE received
      /\ down' = [down EXCEPT ![s] = Tail(@)]
  BY DEF SwitchRead, u
<1>6. expected = Due(awaited[s], u) /\ whole = Ends(Short, u)
  <2>1. expected \in BOOLEAN /\ whole \in BOOLEAN
        /\ Due(awaited[s], u) \in BOOLEAN /\ Ends(Short, u) \in BOOLEAN
    BY DEF Due, Ends
  <2> QED
    BY <2>1, <1>3, <1>4
<1> HIDE DEF expected, whole
<1>7. /\ garbled' = [garbled EXCEPT ![s] = ~Due(awaited[s], u)]
      /\ awaited' = [awaited EXCEPT ![s] =
                        IF Due(awaited[s], u) /\ ~Ends(Short, u) THEN u[1] ELSE 0]
      /\ received' = IF Due(awaited[s], u) /\ Ends(Short, u)
                     THEN [received EXCEPT ![s] = Append(@, u[1])] ELSE received
      /\ down' = [down EXCEPT ![s] = Tail(@)]
  BY <1>5, <1>6, Zenon
<1> QED
  BY <1>1, <1>7 DEF u

(* One unit less on the way, and perhaps a message more received *)
LEMMA OneLess ==
    ASSUME NEW K, NEW n, NEW q, NEW a, NEW r, Numbers(K, n, q, a, r), q # << >>
    PROVE  /\ Head(q)[1] \in 1 .. n /\ Head(q)[1] \in Nat
           /\ Numbers(K, n, Tail(q), 0, r) /\ Numbers(K, n, Tail(q), Head(q)[1], r)
           /\ Numbers(K, n, Tail(q), 0, Append(r, Head(q)[1]))
           /\ Delivered(K, Tail(q), r) \subseteq Delivered(K, q, r)
           /\ Ends(K, Head(q)) =>
                 Delivered(K, Tail(q), Append(r, Head(q)[1])) \subseteq Delivered(K, q, r)
           /\ \A k \in Nat : Older(q, a, r, k) =>
                 /\ Older(Tail(q), 0, r, k) /\ Older(Tail(q), Head(q)[1], r, k)
                 /\ Older(Tail(q), 0, Append(r, Head(q)[1]), k)
<1> DEFINE t == Tail(q)
           u == Head(q)
           m == Len(q)
           U == UnitSet(K, n)
           p == Append(r, u[1])
<1>1. /\ t \in Seq(U) /\ u \in U /\ u = q[1] /\ m \in Nat /\ m >= 1
      /\ DOMAIN q = 1 .. m /\ DOMAIN t = 1 .. m - 1
      /\ \A i \in 1 .. m - 1 : t[i] = q[i + 1]
  BY TailIs DEF Numbers
<1>2. n \in Nat /\ a \in 0 .. n /\ r \in Seq(1 .. n)
  BY DEF Numbers
<1> HIDE DEF t, u, m
<1>3. u[1] \in 1 .. n
  BY <1>1, <1>2, UnitIs
<1>4. /\ p \in Seq(1 .. n) /\ DOMAIN r = 1 .. Len(r) /\ Len(r) \in Nat
      /\ DOMAIN p = 1 .. Len(r) + 1 /\ (\A i \in 1 .. Len(r) : p[i] = r[i]) /\ p[Len(r) + 1] = u[1]
  BY <1>2, <1>3, AppendIs
<1> HIDE DEF p, U
<1>5. Numbers(K, n, t, 0, r) /\ Numbers(K, n, t, u[1], r) /\ Numbers(K, n, t, 0, p)
  <2>1. 0 \in 0 .. n /\ u[1] \in 0 .. n
    BY <1>2, <1>3
  <2> QED
    BY <2>1, <1>1, <1>2, <1>4 DEF Numbers, U
<1>6. \A i \in DOMAIN t : i + 1 \in DOMAIN q /\ t[i] = q[i + 1]
  BY <1>1
<1>7. 1 \in DOMAIN q
  BY <1>1
<1>8. \A i \in DOMAIN p : \/ i \in DOMAIN r /\ p[i] = r[i]
                          \/ p[i] = u[1]
  BY <1>4
<1>9. Delivered(K, t, r) \subseteq Delivered(K, q, r)
  BY <1>6 DEF Delivered
<1>10. ASSUME Ends(K, u) PROVE Delivered(K, t, p) \subseteq Delivered(K, q, r)
  <2>1. u[1] \in Delivered(K, q, r)
    BY <1>1, <1>7, <1>10 DEF Delivered
  <2> QED
    BY <2>1, <1>6, <1>8 DEF Delivered
<1>11. ASSUME NEW k \in Nat, Older(q, a, r, k)
       PROVE  Older(t, 0, r, k) /\ Older(t, u[1], r, k) /\ Older(t, 0, p, k)
  <2>1. u[1] < k /\ a < k
    BY <1>1, <1>7, <1>11 DEF Older
  <2>2. 0 < k
    BY <2>1, <1>2
  <2>3. \A i \in DOMAIN t : t[i][1] < k
    BY <1>6, <1>11 DEF Older
  <2>4. \A i \in DOMAIN p : p[i] < k
    BY <1>8, <1>11, <2>1 DEF Older
  <2> QED
    BY <2>1, <2>2, <2>3, <2>4, <1>11 DEF Older
<1> QED
  BY <1>2, <1>3, <1>5, <1>9, <1>10, <1>11 DEF t, u, p

LEMMA ReadMessages ==
    ASSUME MessagesInv, NEW s \in Switches, SwitchRead(s)
    PROVE  MessagesInv'
<1>1. PICK u \in UnitSet(Short, N) :
        /\ down[s] # << >> /\ u = Head(down[s])
        /\ garbled' = [garbled EXCEPT ![s] = ~Due(awaited[s], u)]
        /\ awaited' = [awaited EXCEPT ![s] =
                          IF Due(awaited[s], u) /\ ~Ends(Short, u) THEN u[1] ELSE 0]
        /\ received' = IF Due(awaited[s], u) /\ Ends(Short, u)
                       THEN [received EXCEPT ![s] = Append(@, u[1])] ELSE received
        /\ down' = [down EXCEPT ![s] = Tail(@)]
  BY ReadIs DEF MessagesInv
<1>2. UNCHANGED <<scenario, sent, output_queue, cell, rest, job>>
  BY DEF SwitchRead, poolVars
<1>3. Short' = Short /\ N' = N
  BY <1>2 DEF Short, N
<1>4. /\ N \in Nat /\ \A t \in Switches : Numbers(Short, N, down[t], awaited[t], received[t])
      /\ \A i \in DOMAIN output_queue : output_queue[i] \in 1 .. N
  BY MessagesAre DEF MessagesInv
<1>5. DOMAIN down = Switches /\ DOMAIN awaited = Switches /\ DOMAIN received = Switches
      /\ garbled \in [Switches -> BOOLEAN]
  BY DEF MessagesInv, MessageTypes
<1> DEFINE q == down[s]
           a == awaited[s]
           r == received[s]
           Fit(qq, aa, rr) == /\ Numbers(Short, N, qq, aa, rr)
                              /\ Delivered(Short, qq, rr) \subseteq DeliveredTo(s)
                              /\ \A k \in Nat : Older(q, a, r, k) => Older(qq, aa, rr, k)
<1>6. /\ DOMAIN down' = Switches /\ DOMAIN awaited' = Switches /\ DOMAIN received' = Switches
      /\ garbled' \in [Switches -> BOOLEAN]
      /\ \A t \in Switches : t # s => /\ down'[t] = down[t] /\ awaited'[t] = awaited[t]
                                      /\ received'[t] = received[t]
  <2>0. Due(awaited[s], u) \in BOOLEAN
    BY DEF Due
  <2> DEFINE x == ~Due(awaited[s], u)
  <2>1. x \in BOOLEAN
    BY <2>0, Zenon
  <2>2. garbled' = [garbled EXCEPT ![s] = x]
    BY <1>1
  <2> HIDE DEF x
  <2>3. garbled' \in [Switches -> BOOLEAN]
    BY <2>1, <2>2, <1>5
  <2> QED
    BY <2>3, <1>1, <1>5
<1>7. Fit(down'[s], awaited'[s], received'[s])
  <2>1. Numbers(Short, N, q, a, r) /\ Delivered(Short, q, r) = DeliveredTo(s) /\ q # << >>
    BY <1>1, <1>4 DEF DeliveredTo
  <2>2. /\ down'[s] = Tail(q)
        /\ awaited'[s] = IF Due(a, u) /\ ~Ends(Short, u) THEN u[1] ELSE 0
        /\ received'[s] = IF Due(a, u) /\ Ends(Short, u) THEN Append(r, u[1]) ELSE r
    BY <1>1, <1>5
  <2> HIDE DEF q, a, r
  <2>3. /\ Fit(Tail(q), 0, r) /\ Fit(Tail(q), u[1], r)
        /\ Ends(Short, u) => Fit(Tail(q), 0, Append(r, u[1]))
    BY <2>1, <1>1, OneLess DEF q
  <2> HIDE DEF Fit
  <2>4. CASE Due(a, u) /\ Ends(Short, u)
    BY <2>2, <2>3, <2>4
  <2>5. CASE Due(a, u) /\ ~Ends(Short, u)
    BY <2>2, <2>3, <2>5
  <2>6. CASE ~Due(a, u)
    BY <2>2, <2>3, <2>6
  <2> QED
    BY <2>4, <2>5, <2>6
<1>8. \A t \in Switches : Numbers(Short, N, down'[t], awaited'[t], received'[t])
  BY <1>4, <1>6, <1>7
<1>9. MessageTypes'
  <2>1. \A t \in Switches : /\ down'[t] \in Seq(UnitSet(Short', N')) /\ awaited'[t] \in 0 .. N'
                            /\ received'[t] \in Seq(1 .. N')
    BY <1>3, <1>8 DEF Numbers
  <2>2. awaited' \in [Switches -> 0 .. N'] /\ received' \in [Switches -> Seq(1 .. N')]
    <3>1. /\ awaited' = [t \in Switches |-> awaited'[t]]
          /\ received' = [t \in Switches |-> received'[t]]
      <4>1. /\ awaited = [t \in Switches |-> awaited[t]]
            /\ received = [t \in Switches |-> received[t]]
        BY DEF MessagesInv, MessageTypes
      <4> QED
        BY <4>1, <1>1, <1>5
    <3> QED
      BY <3>1, <2>1
  <2> QED
    BY <2>1, <2>2, <1>2, <1>3, <1>6 DEF MessagesInv, MessageTypes, N
<1>10. \A v \in Threads : InHand(v)'
  BY <1>2, <1>3 DEF MessagesInv, InHand
<1>11. TakenInOrder'
  <2>1. ASSUME NEW i \in DOMAIN output_queue, NEW t \in Switches
        PROVE  Older(down'[t], awaited'[t], received'[t], output_queue[i])
    <3>1. Older(down[t], awaited[t], received[t], output_queue[i]) /\ output_queue[i] \in Nat
      BY <1>4 DEF MessagesInv, TakenInOrder
    <3> QED
      BY <3>1, <1>6, <1>7
  <2> QED
    BY <2>1, <1>2 DEF MessagesInv, TakenInOrder
<1>12. \A t \in Switches : DeliveredTo(t)' \subseteq DeliveredTo(t)
  <2>1. \A t \in Switches : DeliveredTo(t)' = Delivered(Short, down'[t], received'[t])
    BY <1>3 DEF DeliveredTo
  <2>2. \A t \in Switches : t # s => DeliveredTo(t)' = DeliveredTo(t)
    BY <2>1, <1>6 DEF DeliveredTo
  <2> QED
    BY <2>1, <2>2, <1>7
<1>13. WrittenOnce'
  BY <1>2, <1>12 DEF MessagesInv, WrittenOnce
<1> QED
  BY <1>9, <1>10, <1>11, <1>13 DEF MessagesInv

(* Which steps send, take, write or read *)
LEMMA StayIs ==
    ASSUME MessagesInv, [Next]_vars,
           ~RunInit, \A w \in Threads : ~OutTake(w) /\ ~OutWrite(w) /\ ~InSend(w),
           \A s \in Switches : ~SwitchRead(s)
    PROVE  MessagesStay
<1>1. DOMAIN down = Switches /\ DOMAIN rest = Threads /\ DOMAIN job = DOMAIN job
  BY DEF MessagesInv, MessageTypes
<1> DEFINE Same == UNCHANGED <<scenario, sent, output_queue, cell, awaited, received, garbled>>
<1>2. ASSUME Same, UNCHANGED <<down, rest>>, \A w \in Threads : cell[w] # 0 => job'[w] = job[w]
      PROVE  MessagesStay
  BY <1>1, <1>2 DEF MessagesStay
<1>3. CASE execute_controller
  <2>1. ASSUME Select \/ ScanDone \/ Accept \/ AcceptFails \/ DispatchInput \/ ReadBody
        PROVE  Same /\ UNCHANGED <<down, rest, job>>
    BY <2>1 DEF Select, ScanDone, Accept, AcceptFails, DispatchInput, dispatch, ReadBody, poolVars, netVars, swVars
  <2>2. ASSUME NEW d \in Fds, ReadHeader(d) \/ ReadEof(d) \/ ReadReset(d)
        PROVE  Same /\ UNCHANGED <<down, rest, job>>
    BY <2>2 DEF ReadHeader, ReadEof, ReadReset, poolVars, swVars
  <2> QED
    BY <1>2, <1>3, <2>1, <2>2 DEF execute_controller
<1>4. ASSUME NEW w \in Threads, Work(w) PROVE MessagesStay
  <2>1. CASE StartJob(w)
    <3>1. /\ Same /\ UNCHANGED <<down, rest>> /\ job[w] = Idle
          /\ job' = [job EXCEPT ![w] = Head(jobs)]
      BY <2>1 DEF StartJob, GoesOn, Idlers, netVars, swVars
    <3>2. cell[w] = 0
      BY <3>1, JobIs DEF MessagesInv, InHand
    <3>3. \A v \in Threads : cell[v] # 0 => job'[v] = job[v]
      BY <3>1, <3>2
    <3> QED
      BY <1>2, <3>1, <3>3
  <2>2. CASE InTake(w)
    <3>1. /\ Same /\ UNCHANGED <<down, job>> /\ job[w][1] = "input"
          /\ DOMAIN rest' = DOMAIN rest /\ \A v \in Threads : v # w => rest'[v] = rest[v]
      BY <2>2 DEF InTake, netVars, swVars
    <3>2. cell[w] = 0
      BY <3>1 DEF MessagesInv, InHand
    <3> QED
      BY <1>1, <3>1, <3>2 DEF MessagesStay
  <2> QED
    BY <1>4, <2>1, <2>2 DEF Work
<1>5. ASSUME NEW s \in Switches, Connect(s) \/ Leave(s) \/ SwitchWrite(s) PROVE MessagesStay
  <2>1. Same /\ UNCHANGED <<rest, job>>
    BY <1>5 DEF Connect, Leave, SwitchWrite, poolVars, swVars
  <2>2. down' = down \/ down' = [down EXCEPT ![s] = << >>]
    BY <1>5 DEF Connect, Leave, SwitchWrite
  <2>3. DOMAIN down' = Switches /\ \A t \in Switches : down'[t] \in {down[t], << >>}
    BY <1>1, <2>2
  <2> QED
    BY <1>1, <2>1, <2>3 DEF MessagesStay
<1>6. CASE Still
  BY <1>2, <1>6 DEF Still, netVars, swVars
<1> QED
  BY <1>3, <1>4, <1>5, <1>6, StillIs

(* The thread that sends has nothing in hand: it reads for its switch. *)
LEMMA SenderIs ==
    ASSUME MessagesInv, RunInit \/ \E w \in Threads : InSend(w)
    PROVE  \/ UNCHANGED <<scenario, sent, output_queue, job, cell, rest, down, awaited, received,
                         garbled, fdOf, status>>
           \/ /\ \E m : send_p4_msg(m)
              /\ UNCHANGED <<scenario, job, cell, down, awaited, received, garbled, fdOf, status>>
              /\ DOMAIN rest' = Threads /\ \A w \in Threads : cell[w] # 0 => rest'[w] = rest[w]
<1>1. DOMAIN rest = Threads
  BY DEF MessagesInv, MessageTypes
<1>2. CASE RunInit
  <2>1. UNCHANGED <<scenario, job, cell, rest, down, awaited, received, garbled, fdOf, status>>
    BY <1>2 DEF RunInit, poolVars, netVars, swVars
  <2>2. UNCHANGED <<sent, output_queue>> \/ send_p4_msg(Head(todo))
    BY <1>2 DEF RunInit
  <2> QED
    BY <1>1, <2>1, <2>2
<1>3. ASSUME NEW w \in Threads, InSend(w)
      PROVE  /\ send_p4_msg(Head(rest[w]))
             /\ UNCHANGED <<scenario, job, cell, down, awaited, received, garbled, fdOf, status>>
             /\ DOMAIN rest' = Threads /\ \A v \in Threads : cell[v] # 0 => rest'[v] = rest[v]
  <2>1. /\ send_p4_msg(Head(rest[w])) /\ job[w][1] = "input"
        /\ UNCHANGED <<scenario, job, cell, down, awaited, received, garbled, fdOf, status>>
        /\ rest' = [rest EXCEPT ![w] = Tail(@)]
    BY <1>3 DEF InSend, netVars, swVars
  <2>2. cell[w] = 0
    BY <2>1 DEF MessagesInv, InHand
  <2> QED
    BY <1>1, <2>1, <2>2
<1> QED
  BY <1>2, <1>3

LEMMA NextMessages ==
    ASSUME Connections, Jobs, MessagesInv, [Next]_vars
    PROVE  MessagesInv'
<1>1. scenario \in Scenarios
  BY DEF Connections, MainTypes
<1>2. CASE RunInit \/ \E w \in Threads : InSend(w)
  <2>1. CASE UNCHANGED <<scenario, sent, output_queue, job, cell, rest, down, awaited, received,
                         garbled, fdOf, status>>
    <3>1. MessagesStay
      BY <2>1 DEF MessagesStay, MessagesInv, MessageTypes
    <3> QED
      BY <3>1, MessagesAlone
  <2> QED
    BY <1>1, <1>2, <2>1, SenderIs, SendMessages
<1>3. CASE \E w \in Threads : OutTake(w) \/ OutWrite(w)
  BY <1>1, <1>3, TakeMessages, WriteMessages
<1>4. CASE \E s \in Switches : SwitchRead(s)
  BY <1>4, ReadMessages
<1> QED
  BY <1>2, <1>3, <1>4, StayIs, MessagesAlone

(* The entries of the table of programs.                                    *)
LEMMA ProgramIs ==
    ASSUME scenario \in Scenarios
    PROVE  program = Main(scenario.name, scenario.lines, scenario.garbage, scenario.maxMacs)
  BY DEF program, Programs

(* A program has sent at most that it is there before the first switch comes. *)
LEMMA BootIs ==
    ASSUME scenario \in Scenarios
    PROVE  program.boot = << >> \/ program.boot = <<Initialized>>
<1> DEFINE n == scenario.name
<1>1. n \in {"dummy", "l2fwd", "psa_l2fwd", "l3fwd", "portfwd", "smgw", "table", "register"}
  BY ConstAssumption
<1>2. notify_controller_initialized = <<Initialized>>
  BY DEF notify_controller_initialized
<1>3. CASE n = "dummy"
  BY <1>3, ProgramIs DEF Main, dummy_main, Program
<1>4. CASE n = "l2fwd"
  BY <1>4, ProgramIs DEF Main, l2fwd_main, Program
<1>5. CASE n = "psa_l2fwd"
  BY <1>5, ProgramIs DEF Main, psa_main, Program
<1>6. CASE n = "l3fwd"
  BY <1>2, <1>6, ProgramIs DEF Main, l3fwd_main, Program
<1>7. CASE n = "portfwd"
  BY <1>7, ProgramIs DEF Main, portfwd_main, Program
<1>8. CASE n = "smgw"
  BY <1>8, ProgramIs DEF Main, smgw_main, Program
<1>9. CASE n = "table"
  BY <1>9, ProgramIs DEF Main, table_main, Program
<1>10. CASE n = "register"
  BY <1>10, ProgramIs DEF Main, register_main, Program
<1> QED
  BY <1>1, <1>3, <1>4, <1>5, <1>6, <1>7, <1>8, <1>9, <1>10

LEMMA InitMessages == Init => MessagesInv
<1> SUFFICES ASSUME Init PROVE MessagesInv
  OBVIOUS
<1>1. /\ scenario \in Scenarios /\ sent = program.boot
      /\ output_queue = [i \in DOMAIN program.boot |-> i]
      /\ cell = [w \in Threads |-> 0] /\ rest = [w \in Threads |-> << >>]
      /\ down = [s \in Switches |-> << >>] /\ awaited = [s \in Switches |-> 0]
      /\ garbled = [s \in Switches |-> FALSE] /\ received = [s \in Switches |-> << >>]
  BY DEF Init
<1>2. /\ sent \in Seq(Range(sent)) /\ Len(sent) \in Nat
      /\ output_queue \in Seq(1 .. Len(sent)) /\ Len(output_queue) <= 1
      /\ \A i, j \in DOMAIN output_queue : ~(i < j)
      /\ \A i \in DOMAIN output_queue : output_queue[i] = 1
  <2>1. CASE program.boot = << >>
    <3>1. sent = << >> /\ output_queue = << >>
      BY <2>1, <1>1
    <3> QED
      BY <3>1
  <2>2. CASE program.boot = <<Initialized>>
    <3>1. sent = <<Initialized>> /\ DOMAIN sent = {1} /\ output_queue = [i \in {1} |-> i]
      BY <2>2, <1>1
    <3>2. output_queue = <<1>> /\ Len(sent) = 1
      BY <3>1
    <3>3. Initialized \in Range(sent)
      BY <3>1 DEF Range
    <3>4. sent \in Seq(Range(sent))
      BY <3>1, <3>3
    <3> QED
      BY <3>2, <3>4
  <2> QED
    BY <1>1, <2>1, <2>2, BootIs
<1>3. Len(output_queue) <= scenario.capacity
  <2>1. Len(output_queue) \in Nat /\ scenario.capacity \in Nat \ {0}
    BY <1>1, <1>2, ConstAssumption
  <2> QED
    BY <2>1, <1>2
<1>4. MessageTypes
  <2>1. \A S : << >> \in Seq(S)
    BY EmptySeq
  <2>2. 0 \in 0 .. Len(sent)
    BY <1>2
  <2> QED
    BY <2>1, <2>2, <1>1, <1>2, <1>3 DEF MessageTypes
<1>5. \A w \in Threads : InHand(w)
  BY <1>1 DEF InHand
<1>6. \A s \in Switches : DOMAIN down[s] = {} /\ DOMAIN received[s] = {} /\ awaited[s] = 0
  BY <1>1
<1>7. TakenInOrder
  BY <1>1, <1>2, <1>6 DEF TakenInOrder, Older
<1>8. \A s \in Switches : DeliveredTo(s) = {}
  BY <1>6 DEF DeliveredTo, Delivered
<1>9. WrittenOnce
  BY <1>1, <1>8 DEF WrittenOnce
<1> QED
  BY <1>4, <1>5, <1>7, <1>9 DEF MessagesInv
-----------------------------------------------------------------------------
(* Streams.                                                                 *)

(* What the thread in hand with c writes next belongs at the end. *)
LEMMA WriterMoves ==
    ASSUME NEW K, NEW n, NEW q, NEW a, NEW r, Numbers(K, n, q, a, r), Stream(K, q, a, r),
           NEW c \in 1 .. n, NEW z, Writer(K, q, a, r, c, z)
    PROVE  /\ z = UnitsOf(K, c) =>
                 /\ Stream(K, Append(q, HeaderOf(c)), a, r)
                 /\ Unfinished(K, Append(q, HeaderOf(c)), a) = IF c \in K THEN 0 ELSE c
           /\ c \notin K /\ z = UnitsOf(K, c) =>
                 /\ Stream(K, Append(Append(q, HeaderOf(c)), EndOf(c)), a, r)
                 /\ Unfinished(K, Append(Append(q, HeaderOf(c)), EndOf(c)), a) = 0
           /\ c \notin K /\ z = BodyOf(c) =>
                 /\ Stream(K, Append(q, EndOf(c)), a, r)
                 /\ Unfinished(K, Append(q, EndOf(c)), a) = 0
<1> DEFINE h == HeaderOf(c)
           e == EndOf(c)
           U == UnitSet(K, n)
           p == Append(q, h)
<1>1. n \in Nat /\ c # 0
  BY DEF Numbers
<1>2. /\ h = <<c, Header>> /\ e = <<c, Body>> /\ h[1] = c /\ h[2] = Header /\ e[1] = c
      /\ Header # Body
      /\ h \in U /\ (c \notin K => e \in U)
      /\ (Ends(K, h) <=> c \in K) /\ (c \notin K => Ends(K, e))
  BY DEF HeaderOf, EndOf, UnitSet, Ends, Header, Body
<1> HIDE DEF h, e, U, p
<1>3. ASSUME z = UnitsOf(K, c)
      PROVE  /\ Stream(K, p, a, r) /\ Unfinished(K, p, a) = IF c \in K THEN 0 ELSE c
             /\ Numbers(K, n, p, a, r)
  <2>1. z # BodyOf(c)
    <3>1. UnitsOf(K, c)[1] = <<c, Header>> /\ BodyOf(c)[1] = <<c, Body>>
      BY DEF UnitsOf, BodyOf
    <3>2. <<c, Header>> # <<c, Body>>
      BY <1>2
    <3> QED
      BY <1>3, <3>1, <3>2
  <2>2. Unfinished(K, q, a) = 0 /\ Older(q, a, r, c)
    BY <2>1, <1>1 DEF Writer
  <2>3. Next1(K, q, a, r, h)
    BY <2>2, <1>2 DEF Next1
  <2>4. h \in UnitSet(K, n)
    BY <1>2 DEF U
  <2>5. /\ Stream(K, Append(q, h), a, r)
        /\ Unfinished(K, Append(q, h), a) = IF Ends(K, h) THEN 0 ELSE h[1]
    BY <2>3, <2>4, StreamAppend
  <2>6. Numbers(K, n, Append(q, h), a, r)
    BY <2>4, OneMore
  <2> QED
    BY <2>5, <2>6, <1>2 DEF p
<1>4. ASSUME c \notin K, NEW x, Numbers(K, n, x, a, r), Stream(K, x, a, r),
             Unfinished(K, x, a) = c
      PROVE  Stream(K, Append(x, e), a, r) /\ Unfinished(K, Append(x, e), a) = 0
  <2>1. Next1(K, x, a, r, e) /\ e \in UnitSet(K, n)
    BY <1>1, <1>2, <1>4 DEF Next1, U
  <2>2. /\ Stream(K, Append(x, e), a, r)
        /\ Unfinished(K, Append(x, e), a) = IF Ends(K, e) THEN 0 ELSE e[1]
    BY <2>1, <1>4, StreamAppend
  <2> QED
    BY <2>2, <1>2, <1>4
<1>5. ASSUME c \notin K, z = BodyOf(c) PROVE Unfinished(K, q, a) = c
  BY <1>5, <1>1 DEF Writer
<1> QED
  BY <1>3, <1>4, <1>5 DEF p, h, e

(* One stream, and the threads that write to it *)
Written(s) ==
    /\ Stream(Short, down[s], awaited[s], received[s])
    /\ \A w \in Threads : Writes(w, s) =>
          Writer(Short, down[s], awaited[s], received[s], cell[w], rest[w])
    /\ (\A w \in Threads : ~Writes(w, s)) => Blank(s)

StreamOf(s) ==
    /\ fdOf[s] = 0 => Blank(s)
    /\ Fresh(s) => garbled[s] = FALSE /\ Rising(received[s])
    /\ Fresh(s) /\ status[s] = "open" => Written(s)

LEMMA BlankIs ==
    ASSUME NEW K, NEW a, NEW r, a = 0, r = << >>
    PROVE  Stream(K, << >>, a, r) /\ Unfinished(K, << >>, a) = 0 /\ Rising(r)
<1> DEFINE e == << >>
<1>1. DOMAIN r = {} /\ DOMAIN e = {} /\ Len(e) = 0 /\ 1 .. Len(e) - 1 = {}
  OBVIOUS
<1>2. InSync(K, e, a)
  <2>1. \A i \in 1 .. Len(e) - 1 : Follows(K, e[i], e[i + 1])
    BY <1>1
  <2> QED
    BY <2>1 DEF InSync
<1>3. Ascending(e, a, r) /\ Rising(r)
  BY <1>1 DEF Ascending, Rising
<1> QED
  BY <1>2, <1>3 DEF Stream, Unfinished

LEMMA InitStreams == Init => Streams
<1> SUFFICES ASSUME Init PROVE Streams
  OBVIOUS
<1>1. ASSUME NEW s \in Switches PROVE fdOf[s] = 0 /\ Blank(s)
  BY DEF Init, Blank
<1>2. \A s \in Switches : ~Fresh(s)
  BY <1>1 DEF Fresh
<1> QED
  BY <1>1, <1>2 DEF Streams

(* One thread writes to a connection whose descriptor no other had. *)
LEMMA SoleWriter ==
    ASSUME Connections, Jobs, NEW s \in Switches, Fresh(s)
    PROVE  /\ fdOf[s] \in Fds /\ ~GivenTwice(fdOf[s])
           /\ \A v, w \in Threads : Writes(v, s) /\ Writes(w, s) => v = w
<1>1. fdOf[s] \in Fds
  BY DEF Connections, NetTypes, Fresh
<1>2. ~GivenTwice(fdOf[s])
  <2> SUFFICES ASSUME NEW t \in Switches, NEW u \in Switches, t # u,
                      fdOf[t] = fdOf[s], fdOf[u] = fdOf[s]
               PROVE  FALSE
    BY DEF GivenTwice
  <2> QED
    BY DEF Fresh
<1> QED
  BY <1>1, <1>2 DEF Writes, Jobs, JobsGiven

(* A step in which nothing happens to the stream, but for the switch leaving *)
StreamStays(s) ==
    /\ status'[s] = "open" => status[s] = "open"
    /\ \/ down'[s] = down[s]
       \/ status'[s] # "open" /\ down'[s] = << >>
    /\ awaited'[s] = awaited[s] /\ received'[s] = received[s] /\ garbled'[s] = garbled[s]
    /\ Fresh(s) /\ status'[s] = "open" =>
          \A w \in Threads :
             /\ Writes(w, s)' <=> Writes(w, s)
             /\ Writes(w, s) => /\ cell'[w] = cell[w]
                                /\ cell[w] # 0 => rest'[w] = rest[w]

LEMMA StreamAlone ==
    ASSUME MessageTypes, Agree(Short, Short', N, N'), UNCHANGED fdOf,
           NEW s \in Switches, StreamOf(s), StreamStays(s)
    PROVE  StreamOf(s)'
<1> DEFINE q == down[s]
           a == awaited[s]
           r == received[s]
<1>1. Fresh(s)' <=> Fresh(s)
  BY DEF Fresh
<1>2. Blank(s) => Blank(s)'
  BY DEF Blank, StreamStays
<1>3. ASSUME Fresh(s), status'[s] = "open" PROVE Written(s)'
  <2>1. Written(s)
    BY <1>3 DEF StreamOf, StreamStays
  <2>2. /\ down'[s] = q /\ awaited'[s] = a /\ received'[s] = r
        /\ \A w \in Threads : /\ Writes(w, s)' <=> Writes(w, s)
                              /\ Writes(w, s) => /\ cell'[w] = cell[w]
                                                 /\ cell[w] # 0 => rest'[w] = rest[w]
    BY <1>3 DEF StreamStays
  <2>3. Numbers(Short, N, q, a, r)
    BY MessagesAre
  <2> HIDE DEF q, a, r
  <2>4. /\ Unfinished(Short', q, a) = Unfinished(Short, q, a)
        /\ Stream(Short, q, a, r) => Stream(Short', q, a, r)
    BY <2>3, NumbersGrow
  <2>5. Stream(Short, q, a, r)
    BY <2>1 DEF Written, q, a, r
  <2>6. ASSUME NEW w \in Threads, Writes(w, s)'
        PROVE  Writer(Short', q, a, r, cell'[w], rest'[w])
    <3>1. Writer(Short, q, a, r, cell[w], rest[w])
      BY <2>1, <2>2, <2>6 DEF Written, q, a, r
    <3> QED
      BY <3>1, <2>2, <2>4, <2>6 DEF Writer
  <2>7. (\A w \in Threads : ~Writes(w, s)') => Blank(s)'
    BY <2>1, <2>2, <1>2 DEF Written
  <2> QED
    BY <2>2, <2>4, <2>5, <2>6, <2>7 DEF Written
<1>4. garbled'[s] = garbled[s] /\ received'[s] = received[s]
  BY DEF StreamStays
<1>5. fdOf'[s] = 0 => Blank(s)'
  BY <1>2 DEF StreamOf
<1>6. Fresh(s)' => garbled'[s] = FALSE /\ Rising(received'[s])
  BY <1>1, <1>4 DEF StreamOf
<1>7. Fresh(s)' /\ status'[s] = "open" => Written(s)'
  BY <1>1, <1>3
<1> QED
  BY <1>5, <1>6, <1>7 DEF StreamOf

LEMMA AcceptStreams ==
    ASSUME Connections, Jobs, MessagesInv, \A s \in Switches : StreamOf(s), Accept
    PROVE  \A s \in Switches : StreamOf(s)'
<1>1. PICK s \in Switches, d \in Fds :
        /\ fdOf[s] = 0 /\ fdOf' = [fdOf EXCEPT ![s] = d]
        /\ status' = [status EXCEPT ![s] = IF @ = "left" THEN @ ELSE "open"]
  BY AcceptIs
<1>2. UNCHANGED <<job, cell, rest, sent, down, awaited, received, garbled>>
  BY DEF Accept, swVars
<1>3. d # 0 /\ fdOf'[s] = d /\ \A t \in Switches : t # s => /\ fdOf'[t] = fdOf[t]
                                                           /\ status'[t] = status[t]
  BY <1>1, ReadNumbers DEF Connections, NetTypes, Listening
<1>4. Short' = Short /\ \A t : Blank(t)' <=> Blank(t)
  BY <1>2 DEF Short, Blank
<1>5. StreamOf(s)'
  <2>1. Blank(s)
    BY <1>1 DEF StreamOf
  <2>2. /\ down'[s] = << >> /\ awaited'[s] = 0 /\ received'[s] = << >> /\ garbled'[s] = FALSE
    BY <2>1, <1>4 DEF Blank
  <2>3. Stream(Short', down'[s], awaited'[s], received'[s]) /\ Rising(received'[s])
    BY <2>2, BlankIs
  <2>4. ASSUME Fresh(s)', NEW w \in Threads PROVE ~Writes(w, s)'
    <3> SUFFICES ASSUME job[w] = Out(d) PROVE FALSE
      BY <1>2, <1>3 DEF Writes
    <3>1. PICK t \in Switches : fdOf[t] = d
      BY DEF Jobs, JobsGiven, Given
    <3>2. t # s /\ fdOf'[t] = d
      BY <3>1, <1>1, <1>3
    <3> QED
      BY <3>2, <1>3, <2>4 DEF Fresh
  <2>5. Fresh(s)' => Written(s)'
    BY <2>1, <2>3, <2>4, <1>4 DEF Written
  <2> QED
    BY <2>1, <2>2, <2>3, <2>5, <1>4 DEF StreamOf
<1>6. ASSUME NEW t \in Switches, t # s PROVE StreamOf(t)'
  <2>1. fdOf'[t] = fdOf[t] /\ status'[t] = status[t]
    BY <1>3, <1>6
  <2>2. Fresh(t)' => Fresh(t)
    <3> SUFFICES ASSUME Fresh(t)' PROVE Fresh(t)
      OBVIOUS
    <3>1. fdOf[t] # 0
      BY <2>1 DEF Fresh
    <3>2. ASSUME NEW u \in Switches, u # t PROVE fdOf[u] # fdOf[t]
      <4>1. fdOf'[u] # fdOf'[t]
        BY <3>2 DEF Fresh
      <4> QED
        BY <4>1, <3>1, <2>1, <1>1, <1>3
    <3> QED
      BY <3>1, <3>2 DEF Fresh
  <2>3. \A w : Writes(w, t)' <=> Writes(w, t)
    BY <1>2, <2>1 DEF Writes
  <2>4. Written(t) => Written(t)'
    BY <2>3, <1>2, <1>4 DEF Written
  <2> QED
    BY <2>1, <2>2, <2>4, <1>2, <1>4 DEF StreamOf
<1> QED
  BY <1>5, <1>6

LEMMA StartStreams ==
    ASSUME Connections, Jobs, MessagesInv, \A s \in Switches : StreamOf(s),
           NEW w \in Threads, StartJob(w)
    PROVE  \A s \in Switches : StreamOf(s)'
<1> SUFFICES ASSUME NEW s \in Switches PROVE StreamOf(s)'
  OBVIOUS
<1>1. /\ jobs # << >> /\ job[w] = Idle /\ job' = [job EXCEPT ![w] = Head(jobs)]
      /\ UNCHANGED <<fdOf, status, sent, cell, rest, down, awaited, received, garbled>>
  BY DEF StartJob, GoesOn, Idlers, netVars, swVars
<1>2. Head(jobs) = jobs[1] /\ 1 \in DOMAIN jobs
  <2>1. /\ Head(jobs) = jobs[1] /\ DOMAIN jobs = 1 .. Len(jobs)
        /\ Len(jobs) \in Nat /\ Len(jobs) >= 1
    BY <1>1, TailIs DEF Jobs, JobTypes
  <2> QED
    BY <2>1
<1>3. job'[w] = jobs[1] /\ \A v \in Threads : v # w => job'[v] = job[v]
  BY <1>1, <1>2 DEF Jobs, JobTypes
<1>4. cell[w] = 0
  BY <1>1, JobIs DEF MessagesInv, InHand
<1>5. Short' = Short /\ (Fresh(s)' <=> Fresh(s)) /\ (Blank(s)' <=> Blank(s))
  BY <1>1 DEF Short, Fresh, Blank
<1>6. ~Writes(w, s)
  BY <1>1, JobIs DEF Writes
<1>7. ASSUME Fresh(s), status[s] = "open" PROVE Written(s)'
  <2>1. Written(s)
    BY <1>7 DEF StreamOf
  <2>2. Stream(Short', down'[s], awaited'[s], received'[s])
    BY <2>1, <1>1, <1>5 DEF Written
  <2>3. \A v \in Threads : v # w => (Writes(v, s)' <=> Writes(v, s))
    BY <1>1, <1>3 DEF Writes
  <2>4. ASSUME Writes(w, s)', NEW v \in Threads PROVE ~Writes(v, s)
    <3> SUFFICES ASSUME Writes(v, s) PROVE FALSE
      OBVIOUS
    <3>1. jobs[1] = Out(fdOf[s]) /\ job[v] = Out(fdOf[s])
      BY <2>4, <1>1, <1>3 DEF Writes
    <3>2. fdOf[s] \in Fds /\ ~GivenTwice(fdOf[s])
      BY <1>7, SoleWriter
    <3> QED
      BY <3>1, <3>2, <1>2 DEF Jobs, JobsGiven
  <2>5. ASSUME NEW v \in Threads, Writes(v, s)'
        PROVE  Writer(Short', down'[s], awaited'[s], received'[s], cell'[v], rest'[v])
    <3>1. CASE v = w
      <4>1. Blank(s)
        BY <2>1, <2>4, <2>5, <3>1 DEF Written
      <4>2. Unfinished(Short', down'[s], awaited'[s]) = 0
        BY <4>1, <1>1, BlankIs DEF Blank
      <4> QED
        BY <4>2, <3>1, <1>1, <1>4 DEF Writer
    <3>2. CASE v # w
      BY <3>2, <2>1, <2>3, <2>5, <1>1, <1>5 DEF Written
    <3> QED
      BY <3>1, <3>2
  <2>6. (\A v \in Threads : ~Writes(v, s)') => Blank(s)'
    BY <2>1, <2>3, <1>5, <1>6 DEF Written
  <2> QED
    BY <2>2, <2>5, <2>6 DEF Written
<1> QED
  BY <1>1, <1>5, <1>7 DEF StreamOf

LEMMA TakeStreams ==
    ASSUME Connections, Jobs, MessagesInv, \A s \in Switches : StreamOf(s),
           NEW w \in Threads, OutTake(w)
    PROVE  \A s \in Switches : StreamOf(s)'
<1> SUFFICES ASSUME NEW s \in Switches PROVE StreamOf(s)'
  OBVIOUS
<1>1. PICK c \in 1 .. N :
        /\ cell[w] = 0
        /\ cell' = [cell EXCEPT ![w] = c]
        /\ rest' = [rest EXCEPT ![w] = UnitsOf(Short, c)]
        /\ Older(down[s], awaited[s], received[s], c)
  BY TakeIs DEF MessagesInv
<1>2. UNCHANGED <<fdOf, status, sent, job, down, awaited, received, garbled>>
  BY DEF OutTake, netVars, swVars
<1>3. /\ c # 0 /\ cell'[w] = c /\ rest'[w] = UnitsOf(Short, c)
      /\ \A v \in Threads : v # w => cell'[v] = cell[v] /\ rest'[v] = rest[v]
  BY <1>1, MessagesAre DEF MessagesInv, MessageTypes
<1>4. /\ Short' = Short /\ (Fresh(s)' <=> Fresh(s)) /\ (Blank(s)' <=> Blank(s))
      /\ \A v : Writes(v, s)' <=> Writes(v, s)
  BY <1>2 DEF Short, Fresh, Blank, Writes
<1>5. UnitsOf(Short, c) # BodyOf(c)
  <2>1. UnitsOf(Short, c)[1] = <<c, Header>> /\ BodyOf(c)[1] = <<c, Body>>
    BY DEF UnitsOf, BodyOf
  <2>2. <<c, Header>> # <<c, Body>>
    BY DEF Header, Body
  <2> QED
    BY <2>1, <2>2
<1>6. ASSUME Written(s) PROVE Written(s)'
  <2>1. ASSUME NEW v \in Threads, Writes(v, s)
        PROVE  Writer(Short, down[s], awaited[s], received[s], cell'[v], rest'[v])
    <3>1. Writer(Short, down[s], awaited[s], received[s], cell[v], rest[v])
      BY <1>6, <2>1 DEF Written
    <3>2. CASE v = w
      <4>1. Unfinished(Short, down[s], awaited[s]) = 0
        BY <3>1, <3>2, <1>1 DEF Writer
      <4> QED
        BY <4>1, <3>2, <1>1, <1>3, <1>5 DEF Writer
    <3>3. CASE v # w
      BY <3>1, <3>3, <1>3
    <3> QED
      BY <3>2, <3>3
  <2> QED
    BY <2>1, <1>2, <1>4, <1>6 DEF Written
<1> QED
  BY <1>2, <1>4, <1>6 DEF StreamOf

(* However much of a message is written, the rest of it comes next. *)
LEMMA WriteStreams ==
    ASSUME Connections, Jobs, MessagesInv, \A s \in Switches : StreamOf(s),
           NEW w \in Threads, OutWrite(w)
    PROVE  \A s \in Switches : StreamOf(s)'
<1> SUFFICES ASSUME NEW s \in Switches PROVE StreamOf(s)'
  OBVIOUS
<1> DEFINE c == cell[w]
           U == UnitSet(Short, N)
           h == HeaderOf(c)
           e == EndOf(c)
           q == down[s]
           a == awaited[s]
           r == received[s]
<1>1. /\ c \in 1 .. N /\ job[w][1] = "output" /\ OutWriteCases(w, c)
  BY OutWriteIs
<1>2. UNCHANGED <<fdOf, status, sent, job, awaited, garbled, received, conn>>
  BY DEF OutWrite, mainVars, swVars
<1>3. /\ Short' = Short /\ N' = N /\ N \in Nat /\ Agree(Short, Short', N, N') /\ c # 0
      /\ Numbers(Short, N, q, a, r)
  <2>1. Short' = Short /\ N' = N
    BY <1>2 DEF Short, N
  <2>2. N \in Nat /\ Numbers(Short, N, q, a, r)
    BY MessagesAre DEF MessagesInv
  <2> QED
    BY <2>1, <2>2, <1>1 DEF Agree
<1>4. (Fresh(s)' <=> Fresh(s)) /\ \A v : Writes(v, s)' <=> Writes(v, s)
  BY <1>2 DEF Fresh, Writes
<1>5. DOMAIN rest = Threads /\ DOMAIN cell = Threads /\ DOMAIN down = Switches
  BY DEF MessagesInv, MessageTypes
<1>6. ASSUME NEW t \in Switches, t = conn[job[w][2]], status[t] = "open", fdOf[t] = job[w][2]
      PROVE  Writes(w, t)
  <2>1. job[w] = Idle \/ job[w] = <<job[w][1], job[w][2]>>
    BY DEF Jobs, JobTypes
  <2> QED
    BY <2>1, <1>1, <1>6 DEF Writes, Out, Idle
<1> DEFINE OthersStay == \A v \in Threads : v # w => cell'[v] = cell[v] /\ rest'[v] = rest[v]
           Wrote == /\ OthersStay
                    /\ \/ /\ c \in Short /\ rest[w] = UnitsOf(Short, c) /\ cell'[w] = 0
                          /\ down'[s] = Append(q, h)
                       \/ /\ c \notin Short /\ rest[w] = UnitsOf(Short, c)
                          /\ cell'[w] = c /\ rest'[w] = BodyOf(c)
                          /\ down'[s] = Append(q, h)
                       \/ /\ c \notin Short /\ rest[w] = UnitsOf(Short, c) /\ cell'[w] = 0
                          /\ down'[s] = Append(Append(q, h), e)
                       \/ /\ c \notin Short /\ rest[w] = BodyOf(c) /\ cell'[w] = 0
                          /\ down'[s] = Append(q, e)
<1>7. \/ UNCHANGED <<down, cell, rest>>
      \/ OthersStay /\ down'[s] = down[s] /\ (Fresh(s) /\ status[s] = "open" => ~Writes(w, s))
      \/ Wrote /\ status[s] = "open" /\ Writes(w, s)
  <2>1. CASE UNCHANGED down /\ conn[job[w][2]] \in Gone \cup {0} /\ Rid(w)
    <3>1. OthersStay /\ down'[s] = down[s]
      BY <2>1, <1>5 DEF Rid
    <3>2. ASSUME status[s] = "open", Writes(w, s) PROVE FALSE
      <4>1. job[w][2] = fdOf[s]
        BY <3>2 DEF Writes, Out
      <4>2. conn[job[w][2]] = s
        BY <3>2, <4>1 DEF Connections, Wired
      <4>3. s # 0
        BY ReadNumbers
      <4> QED
        BY <2>1, <3>2, <4>2, <4>3 DEF Gone
    <3> HIDE DEF OthersStay
    <3> QED
      BY <3>1, <3>2
  <2>2. CASE UNCHANGED <<down, cell, rest>>
    BY <2>2
  <2>3. ASSUME NEW t \in Switches, t = conn[job[w][2]], status[t] = "open", fdOf[t] = job[w][2],
               \/ /\ c \in Short /\ rest[w] = UnitsOf(Short, c) /\ Rid(w)
                  /\ down' = [down EXCEPT ![t] = Append(@, HeaderOf(c))]
               \/ /\ c \notin Short /\ rest[w] = UnitsOf(Short, c)
                  /\ down' = [down EXCEPT ![t] = Append(@, HeaderOf(c))]
                  /\ UNCHANGED cell /\ rest' = [rest EXCEPT ![w] = BodyOf(c)]
               \/ /\ c \notin Short /\ rest[w] = UnitsOf(Short, c) /\ Rid(w)
                  /\ down' = [down EXCEPT ![t] = Append(Append(@, HeaderOf(c)), EndOf(c))]
               \/ /\ c \notin Short /\ rest[w] = BodyOf(c) /\ Rid(w)
                  /\ down' = [down EXCEPT ![t] = Append(@, EndOf(c))]
        PROVE  IF t = s THEN Wrote /\ status[s] = "open" /\ Writes(w, s)
               ELSE OthersStay /\ down'[s] = down[s] /\ (Fresh(s) => ~Writes(w, s))
    <3>1. OthersStay
      BY <2>3, <1>5 DEF Rid
    <3>2. Writes(w, t)
      BY <2>3, <1>6
    <3>3. CASE t = s
      <4>1. Rid(w) => cell'[w] = 0
        BY <1>5 DEF Rid
      <4>2. Wrote
        <5> HIDE DEF OthersStay
        <5> QED
          BY <3>1, <3>3, <4>1, <2>3, <1>5
      <4> QED
        BY <3>2, <3>3, <4>2, <2>3
    <3>4. CASE t # s
      <4>1. down'[s] = down[s]
        BY <3>4, <2>3, <1>5
      <4>2. ASSUME Fresh(s), Writes(w, s) PROVE FALSE
        <5>1. fdOf[s] = fdOf[t]
          BY <3>2, <4>2, JobIs DEF Writes
        <5> QED
          BY <5>1, <4>2, <3>4 DEF Fresh
      <4> QED
        BY <3>1, <3>4, <4>1, <4>2
    <3> QED
      BY <3>3, <3>4
  <2> HIDE DEF Wrote, OthersStay
  <2> QED
    BY <2>1, <2>2, <2>3, <1>1 DEF OutWriteCases
<1>8. CASE UNCHANGED <<down, cell, rest>>
  <2>1. StreamStays(s)
    BY <1>2, <1>4, <1>8 DEF StreamStays
  <2> QED
    BY <2>1, <1>2, <1>3, StreamAlone DEF MessagesInv
<1>9. CASE OthersStay /\ down'[s] = down[s] /\ (Fresh(s) /\ status[s] = "open" => ~Writes(w, s))
  <2>1. StreamStays(s)
    BY <1>2, <1>4, <1>9 DEF StreamStays
  <2> QED
    BY <2>1, <1>2, <1>3, StreamAlone DEF MessagesInv
<1>10. ASSUME Wrote, status[s] = "open", Writes(w, s) PROVE StreamOf(s)'
  <2>1. fdOf'[s] # 0
    BY <1>2, <1>10 DEF Connections, Wired
  <2>2. Fresh(s)' => garbled'[s] = FALSE /\ Rising(received'[s])
    BY <1>2, <1>4 DEF StreamOf
  <2>3. ASSUME Fresh(s) PROVE Written(s)'
    <3>1. /\ Stream(Short, q, a, r) /\ Writer(Short, q, a, r, c, rest[w])
      BY <1>10, <2>3 DEF StreamOf, Written
    <3>2. \A v \in Threads : Writes(v, s) => v = w
      BY <1>10, <2>3, SoleWriter
    <3> HIDE DEF q, a, r, c
    <3>3. /\ rest[w] = UnitsOf(Short, c) =>
                /\ Stream(Short, Append(q, HeaderOf(c)), a, r)
                /\ Unfinished(Short, Append(q, HeaderOf(c)), a) = IF c \in Short THEN 0 ELSE c
          /\ c \notin Short /\ rest[w] = UnitsOf(Short, c) =>
                /\ Stream(Short, Append(Append(q, HeaderOf(c)), EndOf(c)), a, r)
                /\ Unfinished(Short, Append(Append(q, HeaderOf(c)), EndOf(c)), a) = 0
          /\ c \notin Short /\ rest[w] = BodyOf(c) =>
                /\ Stream(Short, Append(q, EndOf(c)), a, r)
                /\ Unfinished(Short, Append(q, EndOf(c)), a) = 0
      BY <3>1, <1>1, <1>3, WriterMoves
    <3>4. /\ Stream(Short, down'[s], a, r)
          /\ Writer(Short, down'[s], a, r, cell'[w], rest'[w])
      <4>1. CASE c \in Short /\ rest[w] = UnitsOf(Short, c) /\ cell'[w] = 0
                 /\ down'[s] = Append(q, h)
        BY <4>1, <3>3 DEF Writer
      <4>2. CASE c \notin Short /\ rest[w] = UnitsOf(Short, c)
                 /\ cell'[w] = c /\ rest'[w] = BodyOf(c) /\ down'[s] = Append(q, h)
        BY <4>2, <3>3, <1>3 DEF Writer
      <4>3. CASE c \notin Short /\ rest[w] = UnitsOf(Short, c) /\ cell'[w] = 0
                 /\ down'[s] = Append(Append(q, h), e)
        BY <4>3, <3>3 DEF Writer
      <4>4. CASE c \notin Short /\ rest[w] = BodyOf(c) /\ cell'[w] = 0
                 /\ down'[s] = Append(q, e)
        BY <4>4, <3>3 DEF Writer
      <4> QED
        BY <4>1, <4>2, <4>3, <4>4, <1>10
    <3>5. awaited'[s] = a /\ received'[s] = r
      BY <1>2 DEF a, r
    <3> QED
      BY <3>2, <3>4, <3>5, <1>3, <1>4, <1>10 DEF Written
  <2> QED
    BY <2>1, <2>2, <2>3, <1>4 DEF StreamOf
<1> HIDE DEF Wrote, OthersStay
<1> QED
  BY <1>7, <1>8, <1>9, <1>10

LEMMA ReadStreams ==
    ASSUME Connections, Jobs, MessagesInv, \A s \in Switches : StreamOf(s),
           NEW t \in Switches, SwitchRead(t)
    PROVE  \A s \in Switches : StreamOf(s)'
<1> SUFFICES ASSUME NEW s \in Switches PROVE StreamOf(s)'
  OBVIOUS
<1>1. PICK u \in UnitSet(Short, N) :
        /\ down[t] # << >> /\ u = Head(down[t])
        /\ garbled' = [garbled EXCEPT ![t] = ~Due(awaited[t], u)]
        /\ awaited' = [awaited EXCEPT ![t] =
                          IF Due(awaited[t], u) /\ ~Ends(Short, u) THEN u[1] ELSE 0]
        /\ received' = IF Due(awaited[t], u) /\ Ends(Short, u)
                       THEN [received EXCEPT ![t] = Append(@, u[1])] ELSE received
        /\ down' = [down EXCEPT ![t] = Tail(@)]
  BY ReadIs DEF MessagesInv
<1>2. UNCHANGED <<fdOf, status, sent, job, cell, rest>> /\ status[t] = "open"
  BY DEF SwitchRead, poolVars
<1>3. /\ Short' = Short /\ N' = N /\ N \in Nat /\ Agree(Short, Short', N, N')
      /\ Numbers(Short, N, down[s], awaited[s], received[s])
  <2>1. Short' = Short /\ N' = N
    BY <1>2 DEF Short, N
  <2>2. N \in Nat /\ Numbers(Short, N, down[s], awaited[s], received[s])
    BY MessagesAre DEF MessagesInv
  <2> QED
    BY <2>1, <2>2 DEF Agree
<1>4. (Fresh(s)' <=> Fresh(s)) /\ \A v : Writes(v, s)' <=> Writes(v, s)
  BY <1>2 DEF Fresh, Writes
<1>5. DOMAIN down = Switches /\ DOMAIN awaited = Switches /\ DOMAIN received = Switches
      /\ DOMAIN garbled = Switches
  BY DEF MessagesInv, MessageTypes
<1>6. CASE s # t
  <2>1. /\ down'[s] = down[s] /\ awaited'[s] = awaited[s] /\ received'[s] = received[s]
        /\ garbled'[s] = garbled[s]
    BY <1>1, <1>5, <1>6
  <2>2. StreamStays(s)
    BY <2>1, <1>2, <1>4 DEF StreamStays
  <2> QED
    BY <2>2, <1>2, <1>3, StreamAlone DEF MessagesInv
<1>7. CASE s = t
  <2> DEFINE q == down[s]
             a == awaited[s]
             r == received[s]
  <2>1. fdOf'[s] # 0
    BY <1>2, <1>7 DEF Connections, Wired
  <2>2. ASSUME Fresh(s)
        PROVE  garbled'[s] = FALSE /\ Rising(received'[s]) /\ Written(s)'
    <3>1. /\ Stream(Short, q, a, r) /\ q # << >> /\ u = Head(q)
          /\ \A w \in Threads : Writes(w, s) => Writer(Short, q, a, r, cell[w], rest[w])
          /\ \E w \in Threads : Writes(w, s)
      BY <1>1, <1>2, <1>7, <2>2 DEF StreamOf, Written, Blank
    <3>2. /\ garbled'[s] = ~Due(a, u) /\ down'[s] = Tail(q)
          /\ awaited'[s] = IF Due(a, u) /\ ~Ends(Short, u) THEN u[1] ELSE 0
          /\ received'[s] = IF Due(a, u) /\ Ends(Short, u) THEN Append(r, u[1]) ELSE r
      BY <1>1, <1>5, <1>7
    <3>3. Numbers(Short, N, q, a, r)
      BY <1>3
    <3> HIDE DEF q, a, r
    <3>4. /\ Due(a, u)
          /\ Ends(Short, u) =>
                /\ Stream(Short, Tail(q), 0, Append(r, u[1]))
                /\ Unfinished(Short, Tail(q), 0) = Unfinished(Short, q, a)
          /\ ~Ends(Short, u) =>
                /\ Stream(Short, Tail(q), u[1], r)
                /\ Unfinished(Short, Tail(q), u[1]) = Unfinished(Short, q, a)
      BY <3>1, <3>3, StreamRead
    <3>5. \A k \in Nat : Older(q, a, r, k) =>
             /\ Older(Tail(q), u[1], r, k) /\ Older(Tail(q), 0, Append(r, u[1]), k)
      BY <3>1, <3>3, OneLess
    <3>6. /\ Stream(Short, down'[s], awaited'[s], received'[s])
          /\ Unfinished(Short, down'[s], awaited'[s]) = Unfinished(Short, q, a)
          /\ \A k \in Nat : Older(q, a, r, k) => Older(down'[s], awaited'[s], received'[s], k)
      <4>1. CASE Ends(Short, u)
        BY <4>1, <3>2, <3>4, <3>5
      <4>2. CASE ~Ends(Short, u)
        BY <4>2, <3>2, <3>4, <3>5
      <4> QED
        BY <4>1, <4>2
    <3>7. ASSUME NEW w \in Threads, Writes(w, s)
          PROVE  Writer(Short, down'[s], awaited'[s], received'[s], cell[w], rest[w])
      <4>1. cell[w] \in Nat
        BY <1>3, MessagesAre DEF MessagesInv
      <4> QED
        BY <4>1, <3>1, <3>6, <3>7 DEF Writer
    <3>8. garbled'[s] = FALSE
      BY <3>2, <3>4
    <3>9. Rising(received'[s])
      BY <3>6 DEF Stream, Ascending
    <3>10. Written(s)'
      BY <3>1, <3>6, <3>7, <1>2, <1>3, <1>4 DEF Written
    <3> QED
      BY <3>8, <3>9, <3>10
  <2> QED
    BY <2>1, <2>2, <1>4 DEF StreamOf
<1> QED
  BY <1>6, <1>7

LEMMA NextStreams ==
    ASSUME Connections, Jobs, MessagesInv, Streams, [Next]_vars
    PROVE  Streams'
<1>1. \A s \in Switches : StreamOf(s)
  BY DEF Streams, StreamOf, Written
<1> SUFFICES \A s \in Switches : StreamOf(s)'
  BY DEF Streams, StreamOf, Written
<1> DEFINE Same == /\ UNCHANGED <<fdOf, job, cell, awaited, received, garbled>>
                   /\ \A w \in Threads : cell[w] # 0 => rest'[w] = rest[w]
           Grows == Agree(Short, Short', N, N')
           Stays(s) == /\ status'[s] = "open" => status[s] = "open"
                       /\ \/ down'[s] = down[s]
                          \/ status'[s] # "open" /\ down'[s] = << >>
<1>2. ASSUME Same, Grows, \A s \in Switches : Stays(s) PROVE \A s \in Switches : StreamOf(s)'
  <2> SUFFICES ASSUME NEW s \in Switches PROVE StreamOf(s)'
    OBVIOUS
  <2>1. StreamStays(s)
    BY <1>2 DEF StreamStays, Writes
  <2> QED
    BY <2>1, <1>1, <1>2, StreamAlone DEF MessagesInv
<1>3. N \in Nat /\ DOMAIN rest = Threads /\ DOMAIN down = Switches /\ DOMAIN status = Switches
  BY MessagesAre DEF MessagesInv, MessageTypes, Connections, NetTypes
<1>4. UNCHANGED sent => Grows
  BY <1>3 DEF Short, N, Agree
<1>5. CASE execute_controller
  <2>1. CASE RunInit
    <3>1. /\ UNCHANGED <<fdOf, job, cell, rest, awaited, received, garbled, status, down>>
          /\ UNCHANGED sent \/ send_p4_msg(Head(todo))
      BY <2>1 DEF RunInit, poolVars, netVars, swVars
    <3>2. Grows
      BY <3>1, <1>4, SendIs DEF MessagesInv
    <3> HIDE DEF Grows
    <3> QED
      BY <3>1, <3>2, <1>2
  <2>2. ASSUME Select \/ ScanDone \/ AcceptFails \/ DispatchInput \/ ReadBody
        PROVE  UNCHANGED <<fdOf, job, cell, rest, awaited, received, garbled, status, down, sent>>
    BY <2>2 DEF Select, ScanDone, AcceptFails, DispatchInput, dispatch, ReadBody, poolVars, netVars, swVars
  <2>3. ASSUME NEW d \in Fds, ReadHeader(d) \/ ReadEof(d) \/ ReadReset(d)
        PROVE  UNCHANGED <<fdOf, job, cell, rest, awaited, received, garbled, status, down, sent>>
    BY <2>3 DEF ReadHeader, ReadEof, ReadReset, poolVars, swVars
  <2>4. CASE Accept
    BY <2>4, <1>1, AcceptStreams
  <2>5. CASE UNCHANGED <<fdOf, job, cell, rest, awaited, received, garbled, status, down, sent>>
    BY <2>5, <1>2, <1>4
  <2> QED
    BY <2>1, <2>2, <2>3, <2>4, <2>5, <1>5 DEF execute_controller
<1>6. ASSUME NEW w \in Threads, Work(w) PROVE \A s \in Switches : StreamOf(s)'
  <2>1. CASE InTake(w) \/ InSend(w)
    <3>1. /\ UNCHANGED <<fdOf, job, cell, awaited, received, garbled, status, down>>
          /\ job[w][1] = "input" /\ \A v \in Threads : v # w => rest'[v] = rest[v]
          /\ UNCHANGED sent \/ \E m : send_p4_msg(m)
      BY <2>1, <1>3 DEF InTake, InSend, netVars, swVars
    <3>2. cell[w] = 0
      BY <3>1 DEF MessagesInv, InHand
    <3>3. Grows
      BY <3>1, <1>4, SendIs DEF MessagesInv
    <3> HIDE DEF Grows
    <3> QED
      BY <3>1, <3>2, <3>3, <1>2
  <2> QED
    BY <2>1, <1>1, <1>6, StartStreams, TakeStreams, WriteStreams DEF Work
<1>7. ASSUME NEW t \in Switches, Connect(t) \/ Leave(t) \/ SwitchWrite(t)
      PROVE  \A s \in Switches : StreamOf(s)'
  <2>1. UNCHANGED <<fdOf, job, cell, rest, awaited, received, garbled, sent>>
    BY <1>7 DEF Connect, Leave, SwitchWrite, poolVars, swVars
  <2>2. \/ UNCHANGED <<status, down>>
        \/ status' = [status EXCEPT ![t] = "backlog"] /\ UNCHANGED down
        \/ status' = [status EXCEPT ![t] = "left"] /\ down' = [down EXCEPT ![t] = << >>]
    BY <1>7 DEF Connect, Leave, SwitchWrite
  <2>3. \A s \in Switches : Stays(s)
    BY <2>2, <1>3
  <2> HIDE DEF Grows, Stays
  <2> QED
    BY <2>1, <2>3, <1>2, <1>4
<1>8. ASSUME NEW t \in Switches, SwitchRead(t) PROVE \A s \in Switches : StreamOf(s)'
  BY <1>1, <1>8, ReadStreams
<1>9. CASE Still
  <2>1. UNCHANGED <<fdOf, job, cell, rest, awaited, received, garbled, status, down, sent>>
    BY <1>9 DEF Still, netVars, swVars
  <2> QED
    BY <2>1, <1>2, <1>4
<1> QED
  BY <1>5, <1>6, <1>7, <1>8, <1>9, StillIs
-----------------------------------------------------------------------------
(* The invariant and what follows from it.                                  *)

(* Whatever the scenario, every step keeps the invariant: descriptors, jobs, *)
(* queue, threads, connections and what switches have read agree.            *)
THEOREM ControllerCorrect == Spec => []ControllerInv
<1>1. Init => ControllerInv
  BY InitNet, InitJobs, InitMessages, InitStreams, InitIdling
  DEF ControllerInv, Connections, Jobs, MessagesInv
<1>2. ASSUME ControllerInv, [Next]_vars PROVE ControllerInv'
  <2>1. scenario \in Scenarios
    BY <1>2 DEF ControllerInv, MainTypes
  <2> QED
    BY <1>2, <2>1, NextNet, NextJobs, NextMessages, NextStreams, NextIdling
    DEF ControllerInv, Connections, Jobs, MessagesInv
<1> QED
  BY <1>1, <1>2, PTL DEF Spec

(* A switch whose descriptor no other connection has had finds headers where *)
(* headers are due (write_fix, and execute_controller giving each connection *)
(* one output_processor).                                                    *)
THEOREM StreamCorrect == Spec => []StreamInSync
<1>1. ControllerInv => StreamInSync
  BY DEF ControllerInv, Streams, StreamInSync
<1> QED
  BY <1>1, ControllerCorrect, PTL

(* However many output_processors take from the queue, such a switch gets    *)
(* its messages in the order in which send_p4_msg was called, and no message *)
(* reaches two switches.                                                     *)
THEOREM OrderOnceCorrect == Spec => []AtMostOnceInOrder
<1>1. ASSUME ControllerInv PROVE TypeOK
  <2>1. /\ N \in Nat /\ DOMAIN sent = 1 .. N
        /\ \A w \in Threads : cell[w] \in 0 .. N
        /\ \A i \in DOMAIN output_queue : output_queue[i] \in 1 .. N
        /\ \A s \in Switches : awaited[s] \in 0 .. N
    BY <1>1, MessagesAre DEF ControllerInv, MessageTypes, N
  <2>2. /\ \A w \in Threads : cell[w] \in {0} \cup DOMAIN sent
        /\ \A s \in Switches : awaited[s] \in {0} \cup DOMAIN sent
    BY <2>1
  <2>3. Range(output_queue) \subseteq DOMAIN sent
    BY <2>1 DEF Range
  <2>4. Range(input_queue) \subseteq DOMAIN scenario.digests
    <3>1. DOMAIN input_queue = 1 .. Len(input_queue)
          /\ \A i \in 1 .. Len(input_queue) : input_queue[i] \in DOMAIN scenario.digests
      BY <1>1, LenProperties, ElementOfSeq DEF ControllerInv, MainTypes
    <3> QED
      BY <3>1 DEF Range
  <2>5. /\ scenario \in Scenarios /\ alive \in BOOLEAN
        /\ Len(output_queue) <= scenario.capacity /\ Len(input_queue) <= scenario.capacity
        /\ mpc \in {"select", "scan", "sleep", "init", "body"}
        /\ master \subseteq Fds \cup {Listening} /\ readfds \subseteq master
        /\ cur \in Fds \cup {Listening}
    BY <1>1 DEF ControllerInv, MainTypes, MessageTypes
  <2>6. /\ \A w \in Threads : /\ job[w] \in {Idle} \cup ({"output", "input"} \X Fds)
                              /\ stage[w] \in {"test", "wait", "waiting"}
        /\ conn \in [Fds -> Switches \cup {0}]
        /\ fdOf \in [Switches -> Fds \cup {0}]
        /\ status \in [Switches -> {"off", "backlog", "open", "left"}]
        /\ \A s \in Switches : upRead[s] <= upSent[s]
    BY <1>1 DEF ControllerInv, JobTypes, NetTypes, Wired, Idling
  <2>7. wakes \in 0 .. scenario.wakes
    <3>1. scenario.wakes \in Nat
      BY <2>5, ConstAssumption
    <3> QED
      BY <1>1, <3>1 DEF ControllerInv, Idling
  <2> QED
    BY <1>1, <2>2, <2>3, <2>4, <2>5, <2>6, <2>7 DEF TypeOK
<1>2. ASSUME ControllerInv, NEW s \in Switches, Fresh(s)
      PROVE  \A i, j \in DOMAIN received[s] : i < j => received[s][i] < received[s][j]
  BY <1>2 DEF ControllerInv, Streams, Rising
<1>3. ASSUME ControllerInv, NEW s \in Switches, NEW t \in Switches, s # t
      PROVE  Range(received[s]) \cap Range(received[t]) = {}
  <2>1. \A u \in Switches : Range(received[u]) \subseteq DeliveredTo(u)
    BY DEF Range, DeliveredTo, Delivered
  <2> QED
    BY <2>1, <1>3 DEF ControllerInv, WrittenOnce
<1>4. ControllerInv => AtMostOnceInOrder
  BY <1>1, <1>2, <1>3 DEF AtMostOnceInOrder
<1> QED
  BY <1>4, ControllerCorrect, PTL

-----------------------------------------------------------------------------
(* What the programs send.                                                   *)

(* m tells a switch that an address was learned, d lets it forward there.    *)
Learns(m) == m.table = "smac_0" /\ m.reads # << >>
Forwards(d, m) == d.table = "dmac_0" /\ d.reads = m.reads

(* Every address that is learned in s can be forwarded to by then.           *)
Learning(s) == \A i \in DOMAIN s : Learns(s[i]) => \E j \in 1 .. i - 1 : Forwards(s[j], s[i])

Silent(s) == \A i \in DOMAIN s : s[i] # Initialized

(* Every message has parts that are known and that its buffer has room for.  *)
AllMeant(s) == \A i \in DOMAIN s : Meant(s[i])

Filling(s) == s \in Seq(Range(s)) /\ Learning(s) /\ Silent(s) /\ AllMeant(s)

LEMMA SequenceAny ==
    ASSUME NEW s, s \in Seq(Range(s))
    PROVE  Len(s) \in Nat /\ DOMAIN s = 1 .. Len(s)
BY LenProperties

LEMMA JoinAny ==
    ASSUME NEW s, s \in Seq(Range(s)), NEW t, t \in Seq(Range(t))
    PROVE  /\ s \o t \in Seq(Range(s \o t)) /\ Len(s \o t) = Len(s) + Len(t)
           /\ DOMAIN (s \o t) = 1 .. Len(s) + Len(t)
           /\ \A i \in 1 .. Len(s) : (s \o t)[i] = s[i]
           /\ \A i \in 1 .. Len(t) : (s \o t)[Len(s) + i] = t[i]
           /\ \A i \in 1 .. Len(s) + Len(t) : i > Len(s) => (s \o t)[i] = t[i - Len(s)]
<1> DEFINE S == Range(s) \cup Range(t)
           u == s \o t
<1>1. s \in Seq(S) /\ t \in Seq(S)
  <2>1. Range(s) \subseteq S /\ Range(t) \subseteq S
    OBVIOUS
  <2> QED
    BY <2>1, SeqMonotonic
<1> HIDE DEF S
<1>2. /\ u \in Seq(S) /\ Len(u) = Len(s) + Len(t)
      /\ \A i \in 1 .. Len(s) + Len(t) :
            u[i] = IF i <= Len(s) THEN s[i] ELSE t[i - Len(s)]
  BY <1>1, ConcatProperties
<1>3. Len(s) \in Nat /\ Len(t) \in Nat /\ DOMAIN u = 1 .. Len(s) + Len(t)
  BY <1>1, <1>2, LenProperties
<1>4. u \in Seq(Range(u))
  <2> HIDE DEF u
  <2>1. u = [i \in 1 .. Len(u) |-> u[i]] /\ Len(u) \in Nat
    BY <1>2, <1>3
  <2>2. \A i \in 1 .. Len(u) : u[i] \in Range(u)
    BY <1>2, <1>3 DEF Range
  <2> QED
    BY <2>1, <2>2, IsASeq
<1> HIDE DEF u
<1> QED
  BY <1>2, <1>3, <1>4 DEF u

LEMMA JoinFilling ==
    ASSUME NEW s, Filling(s), NEW t, Filling(t)
    PROVE  Filling(s \o t)
<1> DEFINE u == s \o t
<1>1. /\ u \in Seq(Range(u)) /\ DOMAIN u = 1 .. Len(s) + Len(t)
      /\ \A i \in 1 .. Len(s) : u[i] = s[i]
      /\ \A i \in 1 .. Len(t) : u[Len(s) + i] = t[i]
      /\ \A i \in 1 .. Len(s) + Len(t) : i > Len(s) => u[i] = t[i - Len(s)]
  BY JoinAny DEF Filling
<1>2. /\ Len(s) \in Nat /\ DOMAIN s = 1 .. Len(s)
      /\ Len(t) \in Nat /\ DOMAIN t = 1 .. Len(t)
  BY SequenceAny DEF Filling
<1> HIDE DEF u
<1>3. ASSUME NEW i \in DOMAIN u
      PROVE  /\ u[i] # Initialized /\ Meant(u[i])
             /\ Learns(u[i]) => \E j \in 1 .. i - 1 : Forwards(u[j], u[i])
  <2>1. CASE i <= Len(s)
    <3>1. u[i] = s[i] /\ i \in DOMAIN s /\ \A j \in 1 .. i - 1 : u[j] = s[j]
      BY <1>1, <1>2, <2>1
    <3> QED
      BY <3>1 DEF Filling, Silent, Learning, AllMeant
  <2>2. CASE i > Len(s)
    <3> DEFINE k == i - Len(s)
    <3>1. /\ k \in DOMAIN t /\ u[i] = t[k] /\ k \in Nat /\ i = Len(s) + k
          /\ \A j \in 1 .. k - 1 : u[Len(s) + j] = t[j] /\ Len(s) + j \in 1 .. i - 1
      BY <1>1, <1>2, <2>2
    <3> HIDE DEF k
    <3>2. u[i] # Initialized /\ Meant(u[i])
      BY <3>1 DEF Filling, Silent, AllMeant
    <3>3. ASSUME Learns(u[i]) PROVE \E j \in 1 .. i - 1 : Forwards(u[j], u[i])
      <4>1. PICK j \in 1 .. k - 1 : Forwards(t[j], t[k])
        BY <3>1, <3>3 DEF Filling, Learning
      <4> QED
        BY <3>1, <4>1
    <3> QED
      BY <3>2, <3>3
  <2>3. i <= Len(s) \/ i > Len(s)
    BY <1>1, <1>2
  <2> QED
    BY <2>1, <2>2, <2>3
<1> QED
  BY <1>1, <1>3 DEF Filling, Learning, Silent, AllMeant, u

(* One message, or none                                                      *)
LEMMA OneFilling ==
    /\ Filling(<< >>)
    /\ \A m : ~Learns(m) /\ m # Initialized /\ Meant(m) => Filling(<<m>>)
<1>1. Filling(<< >>)
  <2>1. << >> \in Seq(Range(<< >>))
    BY EmptySeq
  <2> QED
    BY <2>1 DEF Filling, Learning, Silent, AllMeant
<1>2. ASSUME NEW m, ~Learns(m), m # Initialized, Meant(m) PROVE Filling(<<m>>)
  <2> DEFINE s == <<m>>
  <2>1. DOMAIN s = 1 .. 1 /\ s[1] = m
    OBVIOUS
  <2>2. s \in Seq(Range(s))
    BY <2>1 DEF Range
  <2> HIDE DEF s
  <2>3. Filling(s)
    BY <2>1, <2>2, <1>2 DEF Filling, Learning, Silent, AllMeant
  <2> QED
    BY <2>3 DEF s
<1> QED
  BY <1>1, <1>2

-----------------------------------------------------------------------------
(* The lines before the first wrong one                                      *)
LEMMA ReachedIs ==
    ASSUME NEW s, s \in Seq(Range(s))
    PROVE  /\ Reached(s) \in Seq(Range(Reached(s)))
           /\ \A i \in DOMAIN Reached(s) : Reached(s)[i] \in Range(s) \ {Wrong}
<1> DEFINE L == Len(s)
           Fits(n) == /\ \A i \in 1 .. n : s[i] # Wrong
                      /\ n < L => s[n + 1] = Wrong
           W == {i \in 1 .. L : s[i] = Wrong}
           n == CHOOSE k \in 0 .. L : Fits(k)
           r == SubSeq(s, 1, n)
<1>1. L \in Nat /\ DOMAIN s = 1 .. L
  BY SequenceAny
<1>2. \E k \in 0 .. L : Fits(k)
  <2>1. CASE W = {}
    BY <2>1, <1>1
  <2>2. CASE W # {}
    <3>1. W \subseteq Nat
      BY <1>1
    <3> DEFINE w == Least(W)
    <3> HIDE DEF W
    <3>2. w \in W /\ \A y \in W : w <= y
      BY <2>2, <3>1, LeastIs
    <3> HIDE DEF w
    <3> USE DEF W
    <3>3. /\ w - 1 \in 0 .. L /\ s[(w - 1) + 1] = Wrong
          /\ \A i \in 1 .. w - 1 : s[i] # Wrong
      BY <3>2, <1>1
    <3>4. Fits(w - 1)
      BY <3>3
    <3> HIDE DEF Fits
    <3> QED
      BY <3>3, <3>4
  <2> QED
    BY <2>1, <2>2
<1>3. n \in 0 .. L /\ Fits(n)
  <2> HIDE DEF Fits
  <2> QED
    BY <1>2
<1> HIDE DEF n
<1>4. Reached(s) = r
  BY DEF Reached, n
<1>5. /\ r \in Seq(Range(s)) /\ Len(r) = n /\ DOMAIN r = 1 .. n
      /\ \A i \in 1 .. n : r[i] = s[i]
  BY <1>1, <1>3 DEF Range
<1>6. r \in Seq(Range(r))
  <2> HIDE DEF r
  <2>1. r = [i \in 1 .. n |-> r[i]] /\ \A i \in 1 .. n : r[i] \in Range(r)
    BY <1>5 DEF Range
  <2> QED
    BY <2>1, <1>3, <1>1, IsASeq
<1> HIDE DEF r
<1> QED
  BY <1>1, <1>3, <1>4, <1>5, <1>6 DEF Range

(* Sequences of sequences                                                    *)
Flat(t, n, f) == f = [i \in 1 .. n |-> IF i = 1 THEN t[i] ELSE f[i - 1] \o t[i]]

LEMMA FlatExists ==
    ASSUME NEW t, NEW n \in Nat \ {0}
    PROVE  \E f : Flat(t, n, f)
<1> DEFINE T == {m \in Nat \ {0} : \E f : Flat(t, m, f)}
<1>1. 1 \in T
  <2> DEFINE f == [i \in 1 .. 1 |-> t[i]]
  <2>1. \A i \in 1 .. 1 : f[i] = IF i = 1 THEN t[i] ELSE f[i - 1] \o t[i]
    OBVIOUS
  <2>2. f = [i \in 1 .. 1 |-> f[i]]
    OBVIOUS
  <2> HIDE DEF f
  <2>3. Flat(t, 1, f)
    BY <2>1, <2>2 DEF Flat
  <2> QED
    BY <2>3
<1>2. ASSUME NEW m \in Nat \ {0}, m \in T PROVE m + 1 \in T
  <2>1. PICK f : Flat(t, m, f)
    BY <1>2
  <2> DEFINE last == f[m] \o t[m + 1]
             g == [i \in 1 .. m + 1 |-> IF i = m + 1 THEN last ELSE f[i]]
  <2>2. ASSUME NEW i \in 1 .. m + 1
        PROVE  g[i] = IF i = 1 THEN t[i] ELSE g[i - 1] \o t[i]
    <3>1. CASE i = m + 1
      <4>1. i # 1 /\ i - 1 = m /\ m \in 1 .. m + 1 /\ m # m + 1
        BY <3>1
      <4>2. g[i] = last /\ g[i - 1] = f[m]
        BY <3>1, <4>1
      <4> QED
        BY <3>1, <4>1, <4>2
    <3>2. CASE i # m + 1
      <4>1. i \in 1 .. m /\ g[i] = f[i] /\ (i # 1 => g[i - 1] = f[i - 1])
        BY <3>2
      <4>2. f[i] = IF i = 1 THEN t[i] ELSE f[i - 1] \o t[i]
        <5> HIDE DEF g
        <5> QED
          BY <2>1, <4>1 DEF Flat
      <4> HIDE DEF g
      <4> QED
        BY <4>1, <4>2
    <3> QED
      BY <3>1, <3>2
  <2>3. g = [i \in 1 .. m + 1 |-> g[i]]
    OBVIOUS
  <2> HIDE DEF g
  <2>4. Flat(t, m + 1, g)
    BY <2>2, <2>3 DEF Flat
  <2> HIDE DEF Flat
  <2>5. \E h : Flat(t, m + 1, h)
    BY <2>4
  <2> QED
    BY <2>5
<1>3. Nat \ {0} \subseteq T
  <2> HIDE DEF T
  <2> QED
    BY <1>1, <1>2, Upwards
<1> QED
  BY <1>3

LEMMA FlattenFilling ==
    ASSUME NEW n \in Nat, NEW t, Len(t) = n, \A i \in 1 .. n : Filling(t[i]),
           n = 0 => t = << >>
    PROVE  Filling(FlattenSeq(t))
<1>1. CASE n = 0
  BY <1>1, OneFilling DEF FlattenSeq
<1>2. CASE n # 0
  <2> DEFINE f == CHOOSE g : Flat(t, n, g)
             T == {m \in Nat \ {0} : m <= n => Filling(f[m])}
  <2>1. Flat(t, n, f)
    BY <1>2, FlatExists
  <2>2. FlattenSeq(t) = f[n]
    BY <1>2 DEF FlattenSeq, Flat
  <2> HIDE DEF f
  <2>3. \A i \in 1 .. n : f[i] = IF i = 1 THEN t[i] ELSE f[i - 1] \o t[i]
    BY <2>1 DEF Flat
  <2>4. 1 \in T
    BY <2>3
  <2>5. ASSUME NEW m \in Nat \ {0}, m \in T PROVE m + 1 \in T
    <3> SUFFICES ASSUME m + 1 <= n PROVE Filling(f[m + 1])
      OBVIOUS
    <3>1. m + 1 \in 1 .. n /\ m + 1 # 1 /\ (m + 1) - 1 = m /\ m <= n
      OBVIOUS
    <3>2. f[m + 1] = f[m] \o t[m + 1] /\ Filling(f[m]) /\ Filling(t[m + 1])
      BY <2>3, <2>5, <3>1
    <3> QED
      BY <3>2, JoinFilling
  <2>6. Nat \ {0} \subseteq T
    <3> HIDE DEF T
    <3> QED
      BY <2>4, <2>5, Upwards
  <2> QED
    BY <2>2, <2>6, <1>2
<1> QED
  BY <1>1, <1>2

-----------------------------------------------------------------------------
LEMMA EntryFilling ==
    /\ \A n, v, a : n # "smac_0" =>
          Filling(<<Entry(n, <<Exact(v)>>, a, << >>)>>) /\ Filling(<<Entry(n, <<Lpm(v)>>, a, << >>)>>)
    /\ \A n, v, a, p : n # "smac_0" =>
          Filling(<<Entry(n, <<Exact(v)>>, a, <<p>>)>>) /\ Filling(<<Entry(n, <<Lpm(v)>>, a, <<p>>)>>)
    /\ \A n, v, a, p, q : n # "smac_0" =>
          /\ Filling(<<Entry(n, <<Exact(v)>>, a, <<p, q>>)>>)
          /\ Filling(<<Entry(n, <<Lpm(v)>>, a, <<p, q>>)>>)
    /\ \A n, v, a, p, q, r : n # "smac_0" =>
          /\ Filling(<<Entry(n, <<Exact(v)>>, a, <<p, q, r>>)>>)
          /\ Filling(<<Entry(n, <<Lpm(v)>>, a, <<p, q, r>>)>>)
    /\ \A n, a : Filling(<<DefaultAction(n, a, << >>)>>)
    /\ \A n, a, p : Filling(<<DefaultAction(n, a, <<p>>)>>)
<1>1. ASSUME NEW n, NEW r, NEW a, NEW p, n # "smac_0", Meant(Entry(n, r, a, p))
      PROVE  Filling(<<Entry(n, r, a, p)>>)
  <2>1. ~Learns(Entry(n, r, a, p)) /\ Entry(n, r, a, p) # Initialized
    BY <1>1 DEF Learns, Entry, Initialized, Nothing
  <2> QED
    BY <1>1, <2>1, OneFilling
<1>2. ASSUME NEW n, NEW a, NEW p, Meant(DefaultAction(n, a, p))
      PROVE  Filling(<<DefaultAction(n, a, p)>>)
  <2>1. ~Learns(DefaultAction(n, a, p)) /\ DefaultAction(n, a, p) # Initialized
    BY DEF Learns, DefaultAction, Initialized, Nothing
  <2> QED
    BY <1>2, <2>1, OneFilling
<1> QED
  BY <1>1, <1>2, ProgramsMean

(* The two entries for an address, in the order of the programs that learn.  *)
LEMMA PairFilling ==
    ASSUME NEW v, NEW p, NEW d, NEW m,
           d = <<Entry("dmac_0", <<Exact(v)>>, "forward", <<p>>)>>,
           m = <<Entry("smac_0", <<Exact(v)>>, "_nop", << >>)>>
    PROVE  Filling(d \o m)
<1> DEFINE r == <<Exact(v)>>
           forward == Entry("dmac_0", r, "forward", <<p>>)
           nop == Entry("smac_0", r, "_nop", << >>)
           s == <<forward, nop>>
<1>0. Meant(forward) /\ Meant(nop)
  BY ProgramsMean
<1>1. s = d \o m
  OBVIOUS
<1>2. DOMAIN s = 1 .. 2 /\ Len(s) = 2 /\ s[1] = forward /\ s[2] = nop
  OBVIOUS
<1>3. s \in Seq(Range(s))
  <2>1. s = [i \in 1 .. 2 |-> s[i]]
    OBVIOUS
  <2> HIDE DEF s
  <2>2. \A i \in 1 .. 2 : s[i] \in Range(s)
    BY <1>2 DEF Range
  <2> QED
    BY <2>1, <2>2, IsASeq
<1>4. /\ s[1] # Initialized /\ s[2] # Initialized /\ Meant(s[1]) /\ Meant(s[2])
      /\ ~Learns(s[1]) /\ Forwards(s[1], s[2])
  <2> HIDE DEF s
  <2>1. s[1].type # Initialized.type /\ s[2].type # Initialized.type
    BY <1>2 DEF Entry, Initialized, Nothing
  <2>2. s[1].table = "dmac_0" /\ s[1].reads = r /\ s[2].reads = r
    BY <1>2 DEF Entry
  <2> HIDE DEF forward, nop
  <2> QED
    BY <1>0, <1>2, <2>1, <2>2 DEF Learns, Forwards
<1> HIDE DEF s
<1>5. Filling(s)
  <2>1. \A i \in DOMAIN s : i = 1 \/ i = 2
    BY <1>2
  <2>2. 1 \in 1 .. 2 - 1
    OBVIOUS
  <2>3. Learning(s)
    BY <2>1, <2>2, <1>4 DEF Learning
  <2>4. AllMeant(s) /\ Silent(s)
    BY <2>1, <1>4 DEF AllMeant, Silent
  <2> QED
    BY <1>3, <2>3, <2>4 DEF Filling
<1> QED
  BY <1>1, <1>5

(* What init sends: it fills tables, and may end with the notice.            *)
Complete(s) == \E g : Filling(g) /\ (s = g \/ s = g \o notify_controller_initialized)

LEMMA FillingComplete == \A g : Filling(g) => Complete(g)
BY DEF Complete

LEMMA l2fwdComplete ==
    ASSUME NEW macs, macs \in Seq(Range(macs))
    PROVE  Complete(l2fwd_init(macs)) /\ Complete(psa_init(macs))
<1> DEFINE n == Len(macs)
           Fill(m) == l2fwd_fill_dmac_table(m.port, m.mac) \o l2fwd_fill_smac_table(m.port, m.mac)
           PsaFill(m) == psa_fill_dmac_table(m.port, m.mac) \o psa_fill_smac_table(m.port, m.mac)
           a == l2fwd_set_default_action_smac
           b == l2fwd_set_default_action_dmac
           s == [i \in DOMAIN macs |-> Fill(macs[i])]
           t == [i \in DOMAIN macs |-> PsaFill(macs[i])]
<1>1. n \in Nat /\ DOMAIN macs = 1 .. n
  BY SequenceAny
<1>2. \A m : Filling(Fill(m)) /\ Filling(PsaFill(m))
  BY PairFilling DEF l2fwd_fill_dmac_table, l2fwd_fill_smac_table, psa_fill_dmac_table,
                     psa_fill_smac_table
<1>3. Filling(a) /\ Filling(b)
  BY EntryFilling DEF l2fwd_set_default_action_smac, l2fwd_set_default_action_dmac
<1>4. /\ l2fwd_init(macs) = ((a \o b) \o FlattenSeq(s)) \o notify_controller_initialized
      /\ psa_init(macs) = ((a \o b) \o FlattenSeq(t)) \o notify_controller_initialized
  BY DEF l2fwd_init, psa_init, ForEach, psa_set_default_action_smac, psa_set_default_action_dmac
<1> HIDE DEF Fill, PsaFill, a, b
<1>5. Filling(FlattenSeq(s)) /\ Filling(FlattenSeq(t))
  <2>1. /\ s = [i \in 1 .. n |-> Fill(macs[i])] /\ t = [i \in 1 .. n |-> PsaFill(macs[i])]
        /\ Len(s) = n /\ Len(t) = n
    BY <1>1
  <2>2. /\ \A i \in 1 .. n : Filling(s[i]) /\ Filling(t[i])
        /\ n = 0 => s = << >> /\ t = << >>
    BY <1>1, <1>2, <2>1
  <2> HIDE DEF s, t
  <2> QED
    BY <1>1, <2>1, <2>2, FlattenFilling
<1> HIDE DEF s, t
<1>6. Filling((a \o b) \o FlattenSeq(s)) /\ Filling((a \o b) \o FlattenSeq(t))
  BY <1>3, <1>5, JoinFilling
<1> QED
  BY <1>4, <1>6 DEF Complete

LEMMA l3fwdComplete ==
    ASSUME NEW lines, lines \in Seq(Range(lines)),
           \A l \in Range(lines) \ {Wrong} : l.code \in l3fwd_codes
    PROVE  Complete(l3fwd_init_simple) /\ Complete(l3fwd_init_complex(lines))
<1> DEFINE Line(l) == CASE l.code = "M" -> l3fwd_fill_macfwd_table(l.dmac)
                        [] l.code = "E" -> l3fwd_fill_ipv4_lpm_table(l.ip, l.prefix, l.nhgrp)
                        [] l.code = "N" -> l3fwd_fill_nexthops_table(l.nhgrp, l.port, l.smac, l.dmac)
           r == Reached(lines)
           n == Len(r)
           a == l3fwd_set_default_action_macfwd
           b == l3fwd_set_default_action_nexthops
           c == l3fwd_set_default_action_ipv4_lpm
           s == [i \in DOMAIN r |-> Line(r[i])]
<1>1. /\ n \in Nat /\ DOMAIN r = 1 .. n
      /\ \A i \in 1 .. n : r[i] \in Range(lines) \ {Wrong}
  <2>1. r \in Seq(Range(r)) /\ \A i \in DOMAIN r : r[i] \in Range(lines) \ {Wrong}
    BY ReachedIs
  <2> HIDE DEF r
  <2> QED
    BY <2>1, SequenceAny
<1>2. /\ \A m : Filling(l3fwd_fill_macfwd_table(m))
      /\ \A i, p, h : Filling(l3fwd_fill_ipv4_lpm_table(i, p, h))
      /\ \A h, p, m, d : Filling(l3fwd_fill_nexthops_table(h, p, m, d))
  BY EntryFilling DEF l3fwd_fill_macfwd_table, l3fwd_fill_ipv4_lpm_table, l3fwd_fill_nexthops_table
<1>3. Filling(a) /\ Filling(b) /\ Filling(c)
  BY EntryFilling DEF l3fwd_set_default_action_macfwd, l3fwd_set_default_action_nexthops,
                      l3fwd_set_default_action_ipv4_lpm
<1>4. Complete(l3fwd_init_simple)
  BY <1>2, JoinFilling, FillingComplete DEF l3fwd_init_simple
<1>5. \A l : l.code \in l3fwd_codes => Filling(Line(l))
  BY <1>2 DEF l3fwd_codes
<1>6. l3fwd_init_complex(lines)
          = (((a \o b) \o c) \o FlattenSeq(s)) \o notify_controller_initialized
  BY DEF l3fwd_init_complex, l3fwd_read_config_from_file, ForEach
<1> HIDE DEF Line, a, b, c, r
<1>7. Filling(FlattenSeq(s))
  <2>1. s = [i \in 1 .. n |-> Line(r[i])] /\ Len(s) = n
    BY <1>1
  <2>2. (\A i \in 1 .. n : Filling(s[i])) /\ (n = 0 => s = << >>)
    BY <1>1, <1>5, <2>1
  <2> HIDE DEF s
  <2> QED
    BY <1>1, <2>1, <2>2, FlattenFilling
<1> HIDE DEF s
<1>8. Filling(((a \o b) \o c) \o FlattenSeq(s))
  BY <1>3, <1>7, JoinFilling
<1> QED
  BY <1>4, <1>6, <1>8 DEF Complete

LEMMA smgwComplete ==
    ASSUME NEW lines, lines \in Seq(Range(lines)), NEW garbage,
           \A l \in Range(lines) \ {Wrong} : l.code \in smgw_codes
    PROVE  Complete(smgw_init_simple) /\ Complete(smgw_init_complex(lines, garbage))
<1> DEFINE r == Reached(lines)
           n == Len(r)
           mode(i) == smgw_mode(r, i, garbage)
           Line(i, l) ==
              CASE l.code = "M"    -> << >>
                [] l.code = "DMAC" -> smgw_fill_dmac_table(l.port, l.dmac)
                [] l.code = "U"    -> smgw_fill_ue_selector_table(l.ip, 32, l.mode, l.teid, l.ipbst)
                [] l.code = "T"    -> smgw_fill_teid_rate_limiter_table(l.teid, mode(i))
                [] l.code = "F"    -> smgw_fill_m_filter_table(l.color, mode(i))
                [] l.code = "E"    -> smgw_fill_ipv4_lpm_table(l.ip, l.prefix, l.nhgrp)
                [] l.code = "N"    -> smgw_fill_ipv4_forward_table(l.nhgrp, l.port, l.smac, l.dmac)
           a == smgw_set_default_action_ue_selector_table
           b == smgw_set_default_action_ipv4_forward
           c == smgw_set_default_action_ipv4_lpm
           s == [i \in DOMAIN r |-> Line(i, r[i])]
<1>1. /\ n \in Nat /\ DOMAIN r = 1 .. n
      /\ \A i \in 1 .. n : r[i] \in Range(lines) \ {Wrong}
  <2>1. r \in Seq(Range(r)) /\ \A i \in DOMAIN r : r[i] \in Range(lines) \ {Wrong}
    BY ReachedIs
  <2> HIDE DEF r
  <2> QED
    BY <2>1, SequenceAny
<1>2. /\ \A p, m : Filling(smgw_fill_dmac_table(p, m))
      /\ \A i, p, m, t, b1 : Filling(smgw_fill_ue_selector_table(i, p, m, t, b1))
      /\ \A t, m : Filling(smgw_fill_teid_rate_limiter_table(t, m))
      /\ \A k, m : Filling(smgw_fill_m_filter_table(k, m))
      /\ \A i, p, h : Filling(smgw_fill_ipv4_lpm_table(i, p, h))
      /\ \A h, p, m, d : Filling(smgw_fill_ipv4_forward_table(h, p, m, d))
  BY EntryFilling DEF smgw_fill_dmac_table, smgw_fill_ue_selector_table,
       smgw_fill_teid_rate_limiter_table, smgw_fill_m_filter_table, smgw_fill_ipv4_lpm_table,
       smgw_fill_ipv4_forward_table
<1>3. Filling(a) /\ Filling(b) /\ Filling(c)
  BY EntryFilling DEF smgw_set_default_action_ue_selector_table,
       smgw_set_default_action_ipv4_forward, smgw_set_default_action_ipv4_lpm
<1>4. Complete(smgw_init_simple)
  BY <1>2, FillingComplete DEF smgw_init_simple
<1> HIDE DEF mode
<1>5. ASSUME NEW i, NEW l, l.code \in smgw_codes PROVE Filling(Line(i, l))
  BY <1>2, <1>5, OneFilling DEF smgw_codes
<1>6. smgw_init_complex(lines, garbage) = ((a \o b) \o c) \o FlattenSeq(s)
  BY DEF smgw_init_complex, smgw_read_config_from_file, mode
<1> HIDE DEF Line, a, b, c, r
<1>7. Filling(FlattenSeq(s))
  <2>1. s = [i \in 1 .. n |-> Line(i, r[i])] /\ Len(s) = n
    BY <1>1
  <2>2. (\A i \in 1 .. n : Filling(s[i])) /\ (n = 0 => s = << >>)
    BY <1>1, <1>5, <2>1
  <2> HIDE DEF s
  <2> QED
    BY <1>1, <2>1, <2>2, FlattenFilling
<1> HIDE DEF s
<1>8. Filling(((a \o b) \o c) \o FlattenSeq(s))
  BY <1>3, <1>7, JoinFilling
<1> QED
  BY <1>4, <1>6, <1>8 DEF Complete

LEMMA OthersComplete ==
    /\ Complete(dummy_init) /\ Complete(table_init) /\ Complete(register_init)
    /\ \A link : Complete(portfwd_init(link))
<1> DEFINE s == [i \in 1 .. 6 |-> table_fill_state_table(i - 1, States[i])]
           a == table_set_default_action_dmac
           b == table_set_default_action_map_flow_to_state
<1>1. \A x, y : Filling(table_fill_state_table(x, y))
  BY EntryFilling DEF table_fill_state_table
<1>2. Filling(FlattenSeq(s))
  <2> DEFINE n == 6
  <2>1. /\ Len(s) = n /\ n \in Nat /\ \A i \in 1 .. n : Filling(s[i])
        /\ n = 0 => s = << >>
    BY <1>1
  <2> HIDE DEF s, n
  <2> QED
    BY <2>1, FlattenFilling
<1>3. Filling(a) /\ Filling(b)
  BY EntryFilling DEF table_set_default_action_dmac, table_set_default_action_map_flow_to_state
<1>4. /\ table_init = ((a \o b) \o FlattenSeq(s)) \o notify_controller_initialized
      /\ register_init = (a \o FlattenSeq(s)) \o notify_controller_initialized
  BY DEF table_init, register_init, register_set_default_action_dmac, register_fill_state_table
<1> HIDE DEF a, b, s
<1>5. Filling((a \o b) \o FlattenSeq(s)) /\ Filling(a \o FlattenSeq(s))
  BY <1>2, <1>3, JoinFilling
<1>6. Complete(dummy_init)
  <2>1. << >> \o notify_controller_initialized = notify_controller_initialized
    BY DEF notify_controller_initialized
  <2>2. dummy_init = << >> \o notify_controller_initialized
    BY <2>1 DEF dummy_init
  <2> QED
    BY <2>2, OneFilling DEF Complete
<1>7. ASSUME NEW link PROVE Complete(portfwd_init(link))
  <2>1. \A p : Filling(portfwd_fill_t_fwd_table(p))
    BY EntryFilling DEF portfwd_fill_t_fwd_table
  <2>2. Filling(portfwd_set_default_action_t_fwd)
    BY EntryFilling DEF portfwd_set_default_action_t_fwd
  <2> QED
    BY <2>1, <2>2, JoinFilling, FillingComplete DEF portfwd_init
<1> QED
  BY <1>4, <1>5, <1>6, <1>7 DEF Complete

-----------------------------------------------------------------------------
LEMMA FirstIs ==
    ASSUME NEW s, s \in Seq(Range(s)), NEW n \in Nat
    PROVE  First(n, s) \in Seq(Range(First(n, s)))
<1> DEFINE k == IF Len(s) <= n THEN Len(s) ELSE n
           r == SubSeq(s, 1, k)
<1>1. k \in Nat /\ k <= Len(s) /\ Len(s) \in Nat /\ First(n, s) = r
  BY SequenceAny DEF First
<1> HIDE DEF k
<1>2. r = [i \in 1 .. k |-> r[i]] /\ DOMAIN r = 1 .. k
  BY <1>1
<1> HIDE DEF r
<1>3. r = [i \in 1 .. k |-> r[i]] /\ \A i \in 1 .. k : r[i] \in Range(r)
  BY <1>2 DEF Range
<1>4. r \in Seq(Range(r))
  BY <1>1, <1>3, IsASeq
<1> QED
  BY <1>1, <1>4

(* Whatever init sends, it sends the notice last. *)
LEMMA InitComplete ==
    ASSUME scenario \in Scenarios
    PROVE  Complete(program.init)
<1> DEFINE l == scenario.lines
           x == scenario.maxMacs
           g == scenario.garbage
           nm == scenario.name
           p == Main(nm, l, g, x)
<1>1. /\ l \in Seq(Range(l)) /\ x \in Nat
      /\ nm = "l3fwd" => \A k \in Range(l) \ {Wrong} : k.code \in l3fwd_codes
      /\ nm = "smgw" => \A k \in Range(l) \ {Wrong} : k.code \in smgw_codes
      /\ nm \in {"dummy", "l2fwd", "psa_l2fwd", "l3fwd", "portfwd", "smgw", "table", "register"}
  BY ConstAssumption
<1> SUFFICES Complete(p.init)
  BY ProgramIs
<1> HIDE DEF l, x, g, nm
<1>2. Complete(<< >>)
  BY OneFilling, FillingComplete
<1>3. CASE nm = "dummy"
  BY <1>3, OthersComplete DEF Main, dummy_main, Program
<1>4. CASE nm \in {"l2fwd", "psa_l2fwd"}
  <2>1. Complete(l2fwd_init(First(x, l))) /\ Complete(psa_init(First(x, l)))
    BY <1>1, FirstIs, l2fwdComplete
  <2>2. Complete(l2fwd_main(l, x).init) /\ Complete(psa_main(l, x).init)
    BY <1>2, <2>1 DEF l2fwd_main, psa_main, Program, psa_read_macs_and_ports_from_file,
                      l2fwd_read_macs_and_ports_from_file
  <2>3. p = l2fwd_main(l, x) \/ p = psa_main(l, x)
    BY <1>4 DEF Main
  <2> QED
    BY <2>2, <2>3
<1>5. CASE nm = "l3fwd"
  <2>1. Complete(l3fwd_init_simple) /\ Complete(l3fwd_init_complex(l))
    BY <1>1, <1>5, l3fwdComplete
  <2> QED
    BY <1>5, <2>1 DEF Main, l3fwd_main, Program
<1>6. CASE nm = "portfwd"
  BY <1>2, <1>6, OthersComplete DEF Main, portfwd_main, Program
<1>7. CASE nm = "smgw"
  <2>1. Complete(smgw_init_simple) /\ Complete(smgw_init_complex(l, g))
    BY <1>1, <1>7, smgwComplete
  <2> QED
    BY <1>7, <2>1 DEF Main, smgw_main, Program
<1>8. CASE nm \in {"table", "register"}
  <2>1. p = table_main \/ p = register_main
    BY <1>8 DEF Main
  <2> QED
    BY <2>1, OthersComplete DEF table_main, register_main, Program
<1> QED
  BY <1>1, <1>3, <1>4, <1>5, <1>6, <1>7, <1>8

(* What the programs answer a digest with. *)
LEMMA DhfFilling ==
    ASSUME scenario \in Scenarios, NEW b
    PROVE  Filling(Dhf(scenario.name, b))
<1> DEFINE nm == scenario.name
           F(i) == unpack_p4_digest_field(b, i)
<1>1. nm \in {"dummy", "l2fwd", "psa_l2fwd", "l3fwd", "portfwd", "smgw", "table", "register"}
  BY ConstAssumption
<1> HIDE DEF nm
<1>2. Filling(<< >>)
  BY OneFilling
<1>3. Filling(l2fwd_mac_learn_digest(b))
  <2> DEFINE d == l2fwd_fill_dmac_table(F(2), F(1))
             m == l2fwd_fill_smac_table(F(2), F(1))
  <2>1. l2fwd_mac_learn_digest(b) = d \o m
    BY DEF l2fwd_mac_learn_digest
  <2>2. Filling(d \o m)
    BY PairFilling DEF l2fwd_fill_dmac_table, l2fwd_fill_smac_table
  <2> QED
    BY <2>1, <2>2
<1>4. Filling(psa_mac_learn_digest(b))
  <2> DEFINE d == psa_fill_dmac_table(F(2), F(1))
             m == psa_fill_smac_table(F(2), F(1))
  <2>1. psa_mac_learn_digest(b) = d \o m
    BY DEF psa_mac_learn_digest
  <2>2. Filling(d \o m)
    BY PairFilling DEF psa_fill_dmac_table, psa_fill_smac_table, l2fwd_fill_smac_table
  <2> QED
    BY <2>1, <2>2
<1>5. Filling(l2fwd_test_learn_ip(b))
  BY EntryFilling DEF l2fwd_test_learn_ip
<1>6. Filling(table_state_update_digest(b))
  BY EntryFilling DEF table_state_update_digest, table_modify_map_flow_to_state_table,
                      table_fill_map_flow_to_state_table
<1>7. Filling(l2fwd_dhf(b)) /\ Filling(psa_dhf(b))
  BY <1>2, <1>3, <1>4, <1>5 DEF l2fwd_dhf, psa_dhf, psa_test_learn_ip
<1>8. Filling(table_dhf(b))
  BY <1>2, <1>6 DEF table_dhf
<1>9. /\ dummy_dhf(b) = << >> /\ l3fwd_dhf(b) = << >> /\ portfwd_dhf(b) = << >>
      /\ smgw_dhf(b) = << >> /\ register_dhf(b) = << >>
  BY DEF dummy_dhf, l3fwd_dhf, portfwd_dhf, smgw_dhf, register_dhf
<1>10. Filling(Dhf(nm, b))
  BY <1>1, <1>2, <1>7, <1>8, <1>9 DEF Dhf
<1> QED
  BY <1>10 DEF nm

-----------------------------------------------------------------------------
(* Sending.  s has been sent and t is to be sent; I is what init sends.      *)
Pending(s, t) ==
    /\ AllMeant(t)
    /\ \A i \in DOMAIN t : Learns(t[i]) => \/ \E j \in 1 .. i - 1 : Forwards(t[j], t[i])
                                           \/ \E j \in DOMAIN s : Forwards(s[j], t[i])

Told(I, s) ==
    \A k \in DOMAIN s : s[k] = Initialized => \A i \in DOMAIN I : \E j \in 1 .. k : s[j] = I[i]

Left(I, s, t) ==
    /\ \A i \in DOMAIN t : t[i] = Initialized => i = Len(t)
    /\ \A i \in DOMAIN I : (\E j \in DOMAIN s : s[j] = I[i]) \/ (\E j \in DOMAIN t : t[j] = I[i])

IsSeq(t) == t \in Seq(Range(t))

Sending ==
    /\ Learning(sent) /\ AllMeant(sent)
    /\ scenario.name # "l3fwd" => Told(program.init, sent)
    /\ mpc = "init" =>
          /\ IsSeq(todo) /\ Pending(sent, todo)
          /\ scenario.name # "l3fwd" => Left(program.init, sent, todo)
    /\ \A w \in Threads :
          /\ job[w] = Idle => rest[w] = << >>
          /\ job[w][1] = "input" => IsSeq(rest[w]) /\ Silent(rest[w]) /\ Pending(sent, rest[w])

LEMMA TailAny ==
    ASSUME NEW t, IsSeq(t), t # << >>
    PROVE  /\ IsSeq(Tail(t)) /\ Head(t) = t[1] /\ Len(t) \in Nat /\ Len(t) >= 1
           /\ DOMAIN t = 1 .. Len(t) /\ DOMAIN Tail(t) = 1 .. Len(t) - 1
           /\ Len(Tail(t)) = Len(t) - 1
           /\ \A i \in 1 .. Len(t) - 1 : Tail(t)[i] = t[i + 1]
<1> DEFINE S == Range(t)
           r == Tail(t)
<1>1. t \in Seq(S)
  BY DEF IsSeq
<1> HIDE DEF S
<1>2. /\ r \in Seq(S) /\ Head(t) = t[1] /\ Len(t) \in Nat /\ Len(t) >= 1 /\ Len(r) = Len(t) - 1
      /\ DOMAIN t = 1 .. Len(t) /\ DOMAIN r = 1 .. Len(t) - 1
      /\ \A i \in 1 .. Len(t) - 1 : r[i] = t[i + 1]
  BY <1>1, TailIs
<1>3. IsSeq(r)
  <2> HIDE DEF r
  <2>1. r = [i \in 1 .. Len(r) |-> r[i]] /\ Len(r) \in Nat
    BY <1>2
  <2>2. \A i \in 1 .. Len(r) : r[i] \in Range(r)
    BY <1>2 DEF Range
  <2> QED
    BY <2>1, <2>2, IsASeq DEF IsSeq
<1> QED
  BY <1>2, <1>3

LEMMA MoreSent ==
    ASSUME NEW s, IsSeq(s), NEW m
    PROVE  /\ \A u : Pending(s, u) => Pending(Append(s, m), u)
           /\ \A I, u : Left(I, s, u) => Left(I, Append(s, m), u)
           /\ \A I : Told(I, s) /\ m # Initialized => Told(I, Append(s, m))
<1> DEFINE p == Append(s, m)
<1>1. /\ Len(s) \in Nat /\ DOMAIN s = 1 .. Len(s) /\ DOMAIN p = 1 .. Len(s) + 1
      /\ \A i \in 1 .. Len(s) : p[i] = s[i]
      /\ p[Len(s) + 1] = m
  BY AppendAny DEF IsSeq
<1> HIDE DEF p
<1>2. \A j \in DOMAIN s : j \in DOMAIN p /\ p[j] = s[j]
  BY <1>1
<1>3. ASSUME NEW u, Pending(s, u) PROVE Pending(p, u)
  BY <1>2, <1>3 DEF Pending
<1>4. ASSUME NEW I, NEW u, Left(I, s, u) PROVE Left(I, p, u)
  BY <1>2, <1>4 DEF Left
<1>5. ASSUME NEW I, Told(I, s), m # Initialized PROVE Told(I, p)
  <2> SUFFICES ASSUME NEW k \in DOMAIN p, p[k] = Initialized, NEW i \in DOMAIN I
               PROVE  \E j \in 1 .. k : p[j] = I[i]
    BY DEF Told
  <2>1. k \in DOMAIN s /\ s[k] = Initialized /\ k \in 1 .. Len(s)
    BY <1>1, <1>5
  <2>2. PICK j \in 1 .. k : s[j] = I[i]
    BY <2>1, <1>5 DEF Told
  <2>3. p[j] = s[j]
    BY <2>1, <1>1
  <2> QED
    BY <2>2, <2>3
<1> QED
  BY <1>3, <1>4, <1>5 DEF p

LEMMA SendNext ==
    ASSUME NEW s, IsSeq(s), NEW t, IsSeq(t), t # << >>, Learning(s), AllMeant(s), Pending(s, t)
    PROVE  /\ AllMeant(Append(s, Head(t)))
           /\ Learning(Append(s, Head(t))) /\ Pending(Append(s, Head(t)), Tail(t))
           /\ Silent(t) => Silent(Tail(t)) /\ Head(t) # Initialized
           /\ \A I : Told(I, s) /\ Left(I, s, t) =>
                 Told(I, Append(s, Head(t))) /\ Left(I, Append(s, Head(t)), Tail(t))
<1> DEFINE m == Head(t)
           p == Append(s, m)
           r == Tail(t)
           n == Len(s)
<1>1. /\ n \in Nat /\ DOMAIN s = 1 .. n /\ DOMAIN p = 1 .. n + 1
      /\ \A i \in 1 .. n : p[i] = s[i]
      /\ p[n + 1] = m
  BY AppendAny DEF IsSeq
<1>2. /\ m = t[1] /\ Len(t) \in Nat /\ Len(t) >= 1 /\ Len(r) = Len(t) - 1
      /\ DOMAIN t = 1 .. Len(t) /\ DOMAIN r = 1 .. Len(t) - 1
      /\ \A i \in 1 .. Len(t) - 1 : r[i] = t[i + 1]
  BY TailAny
<1> HIDE DEF p, m, r, n
<1>3. 1 \in DOMAIN t /\ n + 1 \in DOMAIN p
  BY <1>1, <1>2
<1>4. Learns(m) => \E j \in DOMAIN s : Forwards(s[j], m)
  <2>1. 1 .. 1 - 1 = {}
    OBVIOUS
  <2> QED
    BY <2>1, <1>2, <1>3 DEF Pending
<1>9. AllMeant(p) /\ AllMeant(r)
  <2>1. \A i \in DOMAIN s : Meant(s[i])
    BY DEF AllMeant
  <2>2. \A i \in DOMAIN t : Meant(t[i])
    BY DEF Pending, AllMeant
  <2>3. \A i \in DOMAIN p : i \in DOMAIN s \/ i = n + 1
    BY <1>1
  <2>4. AllMeant(p)
    BY <1>1, <1>2, <1>3, <2>1, <2>2, <2>3 DEF AllMeant
  <2>5. \A i \in DOMAIN r : r[i] = t[i + 1] /\ i + 1 \in DOMAIN t
    BY <1>2
  <2>6. AllMeant(r)
    BY <2>2, <2>5 DEF AllMeant
  <2> QED
    BY <2>4, <2>6
<1>5. Learning(p)
  <2> SUFFICES ASSUME NEW i \in DOMAIN p, Learns(p[i])
               PROVE  \E j \in 1 .. i - 1 : Forwards(p[j], p[i])
    BY DEF Learning
  <2>1. CASE i \in 1 .. n
    <3>1. PICK j \in 1 .. i - 1 : Forwards(s[j], s[i])
      BY <1>1, <2>1 DEF Learning
    <3>2. p[j] = s[j] /\ p[i] = s[i]
      BY <1>1, <2>1
    <3> QED
      BY <3>1, <3>2
  <2>2. CASE i = n + 1
    <3>1. PICK j \in DOMAIN s : Forwards(s[j], m)
      BY <1>1, <1>4, <2>2
    <3>2. p[j] = s[j] /\ p[i] = m /\ j \in 1 .. i - 1
      BY <1>1, <2>2
    <3> QED
      BY <3>1, <3>2
  <2> QED
    BY <1>1, <2>1, <2>2
<1>6. Pending(p, r)
  <2> SUFFICES ASSUME NEW i \in DOMAIN r, Learns(r[i])
               PROVE  \/ \E j \in 1 .. i - 1 : Forwards(r[j], r[i])
                      \/ \E j \in DOMAIN p : Forwards(p[j], r[i])
    BY <1>9 DEF Pending
  <2>1. i + 1 \in DOMAIN t /\ r[i] = t[i + 1] /\ i \in Nat /\ (i + 1) - 1 = i
    BY <1>2
  <2>2. \/ \E j \in 1 .. i : Forwards(t[j], t[i + 1])
        \/ \E j \in DOMAIN s : Forwards(s[j], t[i + 1])
    BY <2>1 DEF Pending
  <2>3. ASSUME NEW j \in 1 .. i, Forwards(t[j], t[i + 1])
        PROVE  \/ \E k \in 1 .. i - 1 : Forwards(r[k], r[i])
               \/ \E k \in DOMAIN p : Forwards(p[k], r[i])
    <3>1. CASE j = 1
      BY <3>1, <2>1, <2>3, <1>1, <1>2, <1>3
    <3>2. CASE j # 1
      <4>1. j - 1 \in 1 .. i - 1 /\ r[j - 1] = t[j]
        BY <3>2, <2>1, <1>2
      <4> QED
        BY <4>1, <2>1, <2>3
    <3> QED
      BY <3>1, <3>2
  <2>4. ASSUME NEW j \in DOMAIN s, Forwards(s[j], t[i + 1])
        PROVE  \E k \in DOMAIN p : Forwards(p[k], r[i])
    <3>1. j \in DOMAIN p /\ p[j] = s[j]
      BY <1>1
    <3> QED
      BY <3>1, <2>1, <2>4
  <2> QED
    BY <2>2, <2>3, <2>4
<1>7. Silent(t) => Silent(r) /\ m # Initialized
  BY <1>2, <1>3 DEF Silent
<1>8. ASSUME NEW I, Told(I, s), Left(I, s, t) PROVE Told(I, p) /\ Left(I, p, r)
  <2>1. ASSUME NEW k \in DOMAIN p, p[k] = Initialized, NEW i \in DOMAIN I
        PROVE  \E j \in 1 .. k : p[j] = I[i]
    <3>1. CASE k \in 1 .. n
      <4>1. PICK j \in 1 .. k : s[j] = I[i]
        BY <1>1, <1>8, <2>1, <3>1 DEF Told
      <4>2. p[j] = s[j]
        BY <1>1, <3>1
      <4> QED
        BY <4>1, <4>2
    <3>2. CASE k = n + 1
      <4>1. Len(t) = 1
        BY <1>1, <1>2, <1>3, <1>8, <2>1, <3>2 DEF Left
      <4>2. (\E j \in DOMAIN s : s[j] = I[i]) \/ t[1] = I[i]
        <5>1. DOMAIN t = {1}
          BY <4>1, <1>2
        <5> QED
          BY <5>1, <1>8 DEF Left
      <4> QED
        BY <1>1, <1>2, <3>2, <4>2
    <3> QED
      BY <1>1, <3>1, <3>2
  <2>2. ASSUME NEW i \in DOMAIN r, r[i] = Initialized PROVE i = Len(r)
    <3>1. i + 1 \in DOMAIN t /\ t[i + 1] = Initialized
      BY <1>2, <2>2
    <3>2. i + 1 = Len(t)
      BY <3>1, <1>8 DEF Left
    <3> QED
      BY <3>2, <1>2
  <2>3. ASSUME NEW i \in DOMAIN I
        PROVE  (\E j \in DOMAIN p : p[j] = I[i]) \/ (\E j \in DOMAIN r : r[j] = I[i])
    <3>1. (\E j \in DOMAIN s : s[j] = I[i]) \/ (\E j \in DOMAIN t : t[j] = I[i])
      BY <1>8 DEF Left
    <3>2. CASE \E j \in DOMAIN s : s[j] = I[i]
      BY <1>1, <3>2
    <3>3. ASSUME NEW j \in DOMAIN t, t[j] = I[i]
          PROVE  (\E k \in DOMAIN p : p[k] = I[i]) \/ (\E k \in DOMAIN r : r[k] = I[i])
      <4>1. CASE j = 1
        BY <4>1, <1>1, <1>2, <1>3, <3>3
      <4>2. CASE j # 1
        <5>1. j - 1 \in DOMAIN r /\ r[j - 1] = t[j]
          BY <4>2, <1>2
        <5> QED
          BY <5>1, <3>3
      <4> QED
        BY <4>1, <4>2
    <3> QED
      BY <3>1, <3>2, <3>3
  <2> QED
    BY <2>1, <2>2, <2>3 DEF Told, Left
<1> QED
  BY <1>5, <1>6, <1>7, <1>8, <1>9 DEF p, m, r

LEMMA FillingPending ==
    ASSUME NEW t, Filling(t), NEW s
    PROVE  IsSeq(t) /\ Silent(t) /\ Pending(s, t)
BY DEF Filling, IsSeq, Pending, Learning

LEMMA CompleteLeft ==
    ASSUME NEW t, Complete(t), NEW s
    PROVE  IsSeq(t) /\ Pending(s, t) /\ Left(t, s, t)
<1> DEFINE x == notify_controller_initialized
<1>1. PICK g : Filling(g) /\ (t = g \/ t = g \o x)
  BY DEF Complete
<1>2. Filling(g) /\ IsSeq(g) /\ Len(g) \in Nat /\ DOMAIN g = 1 .. Len(g)
  BY <1>1, SequenceAny DEF Filling, IsSeq
<1>3. CASE t = g
  BY <1>2, <1>3 DEF Filling, IsSeq, Pending, Learning, Left, Silent
<1>4. CASE t = g \o x
  <2> DEFINE n == Len(g)
  <2>1. IsSeq(x) /\ Len(x) = 1 /\ x[1] = Initialized
    <3>1. DOMAIN x = 1 .. 1 /\ x[1] = Initialized /\ Len(x) = 1
      BY DEF notify_controller_initialized
    <3>2. x \in Seq({Initialized}) /\ Range(x) = {Initialized}
      BY <3>1 DEF notify_controller_initialized, Range
    <3> QED
      BY <3>1, <3>2 DEF IsSeq
  <2> HIDE DEF x
  <2>2. /\ IsSeq(t) /\ Len(t) = n + 1 /\ DOMAIN t = 1 .. n + 1
        /\ \A i \in 1 .. n : t[i] = g[i]
        /\ t[n + 1] = Initialized
    BY <2>1, <1>2, <1>4, JoinAny DEF IsSeq
  <2>3. ~Learns(Initialized)
    BY DEF Learns, Initialized, Nothing
  <2>4. ASSUME NEW i \in DOMAIN t, Learns(t[i])
        PROVE  \E j \in 1 .. i - 1 : Forwards(t[j], t[i])
    <3>1. i \in 1 .. n
      BY <2>2, <2>3, <2>4, <1>2
    <3>2. PICK j \in 1 .. i - 1 : Forwards(g[j], g[i])
      BY <3>1, <2>2, <2>4, <1>2 DEF Filling, Learning
    <3>3. t[j] = g[j] /\ t[i] = g[i]
      BY <3>1, <2>2, <1>2
    <3> QED
      BY <3>2, <3>3
  <2>5. \A i \in DOMAIN t : t[i] = Initialized => i = Len(t)
    BY <1>2, <2>2 DEF Filling, Silent
  <2>6. AllMeant(t)
    <3>1. \A i \in 1 .. n : Meant(t[i])
      BY <1>2, <2>2 DEF Filling, AllMeant
    <3>2. \A i \in DOMAIN t : i \in 1 .. n \/ i = n + 1
      BY <1>2, <2>2
    <3> QED
      BY <2>2, <3>1, <3>2, ProgramsMean DEF AllMeant
  <2> QED
    BY <2>2, <2>4, <2>5, <2>6 DEF Pending, Left
<1> QED
  BY <1>1, <1>3, <1>4

-----------------------------------------------------------------------------
ThreadSends(w) ==
    /\ job[w] = Idle => rest[w] = << >>
    /\ job[w][1] = "input" => IsSeq(rest[w]) /\ Silent(rest[w]) /\ Pending(sent, rest[w])

LEMMA NothingPending == \A s : IsSeq(<< >>) /\ Silent(<< >>) /\ Pending(s, << >>)
BY OneFilling, FillingPending

LEMMA InitSending == Init => Sending
<1> SUFFICES ASSUME Init PROVE Sending
  OBVIOUS
<1>1. /\ sent = program.boot /\ mpc = "select" /\ scenario \in Scenarios
      /\ job = [w \in Threads |-> Idle] /\ rest = [w \in Threads |-> << >>]
  BY DEF Init
<1>2. \A w \in Threads : ThreadSends(w)
  BY <1>1, JobIs DEF ThreadSends
<1>3. program.boot = << >> \/ program.boot = <<Initialized>>
  BY <1>1, BootIs
<1>4. Learning(program.boot)
  <2>1. ~Learns(Initialized)
    BY DEF Learns, Initialized, Nothing
  <2>2. Learning(<< >>)
    BY OneFilling DEF Filling
  <2>3. Learning(<<Initialized>>)
    BY <2>1 DEF Learning
  <2> QED
    BY <1>3, <2>2, <2>3
<1>5. scenario.name # "l3fwd" => program.boot = << >>
  <2> DEFINE l == scenario.lines
             x == scenario.maxMacs
             g == scenario.garbage
             nm == scenario.name
  <2>1. nm \in {"dummy", "l2fwd", "psa_l2fwd", "l3fwd", "portfwd", "smgw", "table", "register"}
    BY <1>1, ConstAssumption
  <2> SUFFICES nm # "l3fwd" => Main(nm, l, g, x).boot = << >>
    BY <1>1, ProgramIs
  <2> HIDE DEF l, x, g, nm
  <2>2. nm = "dummy" => Main(nm, l, g, x).boot = << >>
    BY DEF Main, dummy_main, Program
  <2>3. nm = "l2fwd" => Main(nm, l, g, x).boot = << >>
    BY DEF Main, l2fwd_main, Program
  <2>4. nm = "psa_l2fwd" => Main(nm, l, g, x).boot = << >>
    BY DEF Main, psa_main, Program
  <2>5. nm = "portfwd" => Main(nm, l, g, x).boot = << >>
    BY DEF Main, portfwd_main, Program
  <2>6. nm = "smgw" => Main(nm, l, g, x).boot = << >>
    BY DEF Main, smgw_main, Program
  <2>7. nm = "table" => Main(nm, l, g, x).boot = << >>
    BY DEF Main, table_main, Program
  <2>8. nm = "register" => Main(nm, l, g, x).boot = << >>
    BY DEF Main, register_main, Program
  <2> QED
    BY <2>1, <2>2, <2>3, <2>4, <2>5, <2>6, <2>7, <2>8
<1>6. Told(program.init, << >>)
  BY DEF Told
<1>7. AllMeant(program.boot)
  BY <1>3, ProgramsMean DEF AllMeant
<1> QED
  BY <1>1, <1>2, <1>4, <1>5, <1>6, <1>7 DEF Sending, ThreadSends

(* Sending goes on when one more message was sent from t.                    *)
LEMMA NextSending ==
    ASSUME Sending, Jobs, MessageTypes, scenario \in Scenarios,
           input_queue \in Seq(DOMAIN scenario.digests), [Next]_vars
    PROVE  Sending'
<1>1. IsSeq(sent) /\ DOMAIN rest = Threads /\ DOMAIN job = Threads
  BY DEF MessageTypes, Jobs, JobTypes, IsSeq
<1>2. scenario' = scenario /\ program' = program
  <2>1. scenario' = scenario
    BY DEF Next, vars, execute_controller, do_work, Select, ScanDone, Accept, AcceptFails, DispatchInput,
           RunInit, ReadBody, ReadHeader, ReadEof, ReadReset, StartJob, Release, CondWait,
           SpuriousWakeup, OutTake, OutWrite, InTake, InSend, Connect, Leave, SwitchRead, SwitchWrite
  <2> QED
    BY <2>1 DEF program
<1>3. \A w \in Threads : ThreadSends(w)
  BY DEF Sending, ThreadSends
<1>4. CASE RunInit
  <2>1. mpc = "init" /\ UNCHANGED <<job, rest>>
    BY <1>4 DEF RunInit, poolVars
  <2>2. IsSeq(todo) /\ Pending(sent, todo)
        /\ (scenario.name # "l3fwd" => Left(program.init, sent, todo))
    BY <2>1 DEF Sending
  <2>3. CASE todo = << >>
    <3>1. mpc' = "scan" /\ sent' = sent
      BY <1>4, <2>3 DEF RunInit
    <3> QED
      BY <1>2, <2>1, <3>1 DEF Sending
  <2>4. CASE todo # << >>
    <3>1. sent' = Append(sent, Head(todo)) /\ todo' = Tail(todo) /\ mpc' = mpc
      BY <1>4, <2>4 DEF RunInit, send_p4_msg
    <3>2. /\ IsSeq(Tail(todo)) /\ AllMeant(sent') /\ Learning(sent') /\ Pending(sent', Tail(todo))
          /\ Told(program.init, sent) /\ Left(program.init, sent, todo) =>
                Told(program.init, sent') /\ Left(program.init, sent', Tail(todo))
      BY <1>1, <2>2, <2>4, <3>1, SendNext, TailAny DEF Sending
    <3>3. \A u : Pending(sent, u) => Pending(sent', u)
      BY <1>1, <3>1, MoreSent
    <3> QED
      BY <1>2, <1>3, <2>1, <2>2, <3>1, <3>2, <3>3 DEF Sending, ThreadSends
  <2> QED
    BY <2>3, <2>4
<1>5. ASSUME NEW w \in Threads, InSend(w) PROVE Sending'
  <2>1. /\ job[w][1] = "input" /\ rest[w] # << >> /\ sent' = Append(sent, Head(rest[w]))
        /\ rest' = [rest EXCEPT ![w] = Tail(rest[w])] /\ UNCHANGED <<mpc, todo, job>>
    BY <1>5 DEF InSend, send_p4_msg, mainVars
  <2>2. IsSeq(rest[w]) /\ Silent(rest[w]) /\ Pending(sent, rest[w])
    BY <1>3, <2>1 DEF ThreadSends
  <2>3. /\ IsSeq(Tail(rest[w])) /\ Silent(Tail(rest[w])) /\ Head(rest[w]) # Initialized
        /\ AllMeant(sent') /\ Learning(sent') /\ Pending(sent', Tail(rest[w]))
    BY <1>1, <2>1, <2>2, SendNext, TailAny DEF Sending
  <2>4. /\ \A u : Pending(sent, u) => Pending(sent', u)
        /\ \A I, u : Left(I, sent, u) => Left(I, sent', u)
        /\ \A I : Told(I, sent) => Told(I, sent')
    BY <1>1, <2>1, <2>3, MoreSent
  <2>5. job[w] # Idle
    BY <2>1, JobIs
  <2>6. \A v \in Threads : ThreadSends(v)'
    BY <1>1, <1>3, <2>1, <2>3, <2>4, <2>5 DEF ThreadSends
  <2> QED
    BY <1>2, <2>1, <2>3, <2>4, <2>6 DEF Sending, ThreadSends
<1>6. CASE DispatchInput
  <2>1. todo' = program.init /\ UNCHANGED <<sent, job, rest>>
    BY <1>6 DEF DispatchInput, poolVars
  <2>2. IsSeq(todo') /\ Pending(sent, todo') /\ Left(program.init, sent, todo')
    BY <2>1, InitComplete, CompleteLeft
  <2> QED
    BY <1>2, <2>1, <2>2 DEF Sending
<1>7. ASSUME NEW w \in Threads, InTake(w) PROVE Sending'
  <2> DEFINE t == Dhf(scenario.name, BuildDigest(scenario.digests[Head(input_queue)]))
  <2>1. /\ job[w][1] = "input" /\ rest' = [rest EXCEPT ![w] = t]
        /\ UNCHANGED <<sent, mpc, todo, job>>
    <3>1. Head(input_queue) \in DOMAIN scenario.digests
      BY <1>7, HeadTailProperties DEF InTake
    <3>2. Answers[scenario][Head(input_queue)] = t
      BY <3>1 DEF Answers
    <3> QED
      BY <1>7, <3>2 DEF InTake, mainVars
  <2>2. IsSeq(t) /\ Silent(t) /\ Pending(sent, t)
    BY DhfFilling, FillingPending
  <2> HIDE DEF t
  <2>3. job[w] # Idle
    BY <2>1, JobIs
  <2>4. \A v \in Threads : ThreadSends(v)'
    BY <1>1, <1>3, <2>1, <2>2, <2>3 DEF ThreadSends
  <2> QED
    BY <1>2, <2>1, <2>4 DEF Sending, ThreadSends
<1>8. ASSUME NEW w \in Threads, StartJob(w) PROVE Sending'
  <2>1. /\ job[w] = Idle /\ job' = [job EXCEPT ![w] = Head(jobs)]
        /\ UNCHANGED <<sent, mpc, todo, rest>>
    BY <1>8 DEF StartJob, GoesOn, Idlers, mainVars
  <2>2. rest[w] = << >>
    BY <1>3, <2>1 DEF ThreadSends
  <2>3. \A v \in Threads : ThreadSends(v)'
    BY <1>1, <1>3, <2>1, <2>2, NothingPending DEF ThreadSends
  <2> QED
    BY <1>2, <2>1, <2>3 DEF Sending, ThreadSends
<1>9. ASSUME NEW w \in Threads, OutTake(w) \/ OutWrite(w) PROVE Sending'
  <2>1. /\ job[w][1] = "output" /\ UNCHANGED <<sent, mpc, todo, job>>
        /\ \A v \in Threads : v # w => rest'[v] = rest[v]
    <3>1. CASE OutTake(w)
      BY <3>1, <1>1 DEF OutTake, mainVars
    <3>2. CASE OutWrite(w)
      BY <3>2, <1>1 DEF OutWrite, mainVars
    <3> QED
      BY <1>9, <3>1, <3>2
  <2>2. job[w] # Idle
    BY <2>1, JobIs
  <2>3. \A v \in Threads : ThreadSends(v)'
    BY <1>3, <2>1, <2>2 DEF ThreadSends
  <2> QED
    BY <1>2, <2>1, <2>3 DEF Sending, ThreadSends
<1>10. CASE UNCHANGED <<sent, job, rest>> /\ (mpc' = "init" => UNCHANGED <<mpc, todo>>)
  BY <1>2, <1>10 DEF Sending
<1>11. CASE Still
  BY <1>10, <1>11 DEF Still, mainVars
<1>12. CASE Select \/ ScanDone \/ Accept \/ AcceptFails \/ ReadBody
  <2>1. UNCHANGED <<sent, job, rest>> /\ mpc' # "init"
    BY <1>12 DEF Select, ScanDone, Accept, AcceptFails, ReadBody, poolVars
  <2> QED
    BY <2>1, <1>10
<1>13. ASSUME NEW d \in Fds, ReadHeader(d) \/ ReadEof(d) \/ ReadReset(d) PROVE Sending'
  <2>1. UNCHANGED <<sent, job, rest>> /\ mpc' # "init"
    BY <1>13 DEF ReadHeader, ReadEof, ReadReset, poolVars
  <2> QED
    BY <2>1, <1>10
<1>14. ASSUME NEW s \in Switches, Connect(s) \/ Leave(s) \/ SwitchRead(s) \/ SwitchWrite(s)
       PROVE  Sending'
  <2>1. UNCHANGED <<sent, job, rest, mpc, todo>>
    BY <1>14 DEF Connect, Leave, SwitchRead, SwitchWrite, poolVars, mainVars
  <2> QED
    BY <2>1, <1>10
<1> QED
  BY <1>4, <1>5, <1>6, <1>7, <1>8, <1>9, <1>11, <1>12, <1>13, <1>14, StillIs
  DEF execute_controller, Work

-----------------------------------------------------------------------------
(* No message is lost.                                                       *)
OnStream(q, a, r, k) == a = k \/ (\E i \in DOMAIN q : q[i][1] = k) \/ (\E i \in DOMAIN r : r[i] = k)

Placed(k) ==
    \/ \E i \in DOMAIN output_queue : output_queue[i] = k
    \/ \E w \in Threads : cell[w] = k
    \/ \E s \in Switches : OnStream(down[s], awaited[s], received[s], k)

NobodyLeft ==
    /\ ~scenario.leave => \A s \in Switches : status[s] # "left"
    /\ \A s \in Switches : s > scenario.switches => status[s] = "off"

AllPlaced ==
    /\ Len(output_queue) <= N
    /\ Settled => \A k \in 1 .. N : Placed(k)

LEMMA ScenarioStays == [Next]_vars => scenario' = scenario
BY DEF Next, vars, execute_controller, do_work, Select, ScanDone, Accept, AcceptFails, DispatchInput,
       RunInit, ReadBody, ReadHeader, ReadEof, ReadReset, StartJob, Release, CondWait,
       SpuriousWakeup, OutTake, OutWrite, InTake, InSend, Connect, Leave, SwitchRead, SwitchWrite

LEMMA NextNobody ==
    ASSUME Connections, NobodyLeft, [Next]_vars
    PROVE  NobodyLeft'
<1>1. scenario' = scenario
  BY ScenarioStays
<1>2. DOMAIN status = Switches
  BY DEF Connections, NetTypes
<1>3. CASE Accept
  <2>1. PICK s \in Switches : /\ status[s] \in {"backlog", "left"}
                              /\ status' = [status EXCEPT ![s] = IF @ = "left" THEN @ ELSE "open"]
    BY <1>3, AcceptIs
  <2> QED
    BY <1>1, <1>2, <2>1 DEF NobodyLeft
<1>4. ASSUME NEW s \in Switches, Connect(s) PROVE NobodyLeft'
  <2>1. s <= scenario.switches /\ status' = [status EXCEPT ![s] = "backlog"]
    BY <1>4 DEF Connect
  <2>2. ~(s > scenario.switches)
    <3>1. s \in Nat /\ scenario.switches \in Nat
      BY ConstAssumption DEF Switches, Connections, MainTypes
    <3> QED
      BY <2>1, <3>1
  <2> QED
    BY <1>1, <1>2, <2>1, <2>2 DEF NobodyLeft
<1>5. ASSUME NEW s \in Switches, Leave(s) PROVE NobodyLeft'
  <2>1. scenario.leave /\ status[s] # "off" /\ status' = [status EXCEPT ![s] = "left"]
    BY <1>5 DEF Leave
  <2> QED
    BY <1>1, <1>2, <2>1 DEF NobodyLeft
<1>6. CASE UNCHANGED status
  BY <1>1, <1>6 DEF NobodyLeft
<1>7. CASE Still
  BY <1>6, <1>7 DEF Still, netVars
<1>8. CASE Select \/ ScanDone \/ AcceptFails \/ DispatchInput \/ RunInit \/ ReadBody
  BY <1>6, <1>8 DEF Select, ScanDone, AcceptFails, DispatchInput, RunInit, ReadBody, netVars
<1>9. ASSUME NEW d \in Fds, ReadHeader(d) \/ ReadEof(d) \/ ReadReset(d) PROVE NobodyLeft'
  BY <1>6, <1>9 DEF ReadHeader, ReadEof, ReadReset
<1>10. ASSUME NEW w \in Threads, Work(w) PROVE NobodyLeft'
  BY <1>6, <1>10 DEF Work, StartJob, OutTake, OutWrite, InTake, InSend, netVars
<1>11. ASSUME NEW s \in Switches, SwitchRead(s) \/ SwitchWrite(s) PROVE NobodyLeft'
  BY <1>6, <1>11 DEF SwitchRead, SwitchWrite
<1> QED
  BY <1>3, <1>4, <1>5, <1>7, <1>8, <1>9, <1>10, <1>11, StillIs DEF execute_controller

(* While nobody leaves, no descriptor is closed: each is one switch's.       *)
LEMMA AllFresh ==
    ASSUME Connections, NobodyLeft, ~scenario.leave, NEW s \in Switches, fdOf[s] # 0
    PROVE  /\ Fresh(s) /\ status[s] = "open" /\ conn[fdOf[s]] = s
           /\ \A t \in Switches : fdOf[t] = fdOf[s] => t = s
<1>1. ASSUME NEW t \in Switches, fdOf[t] # 0
      PROVE  status[t] = "open" /\ conn[fdOf[t]] = t
  <2>1. status[t] \in {"off", "backlog", "open", "left"} /\ status[t] # "left"
        /\ status[t] \notin {"off", "backlog"}
    BY <1>1 DEF Connections, NetTypes, Wired, NobodyLeft
  <2>2. status[t] = "open"
    BY <2>1
  <2> QED
    BY <2>2 DEF Connections, Wired
<1>2. \A t \in Switches : fdOf[t] = fdOf[s] => t = s
  BY <1>1
<1> QED
  BY <1>1, <1>2 DEF Fresh

(* An output_processor then writes to a switch that is there. *)
LEMMA WritesToOne ==
    ASSUME Connections, Jobs, NobodyLeft, ~scenario.leave,
           NEW w \in Threads, job[w][1] = "output"
    PROVE  \E s \in Switches : /\ job[w] = Out(fdOf[s]) /\ fdOf[s] # 0
                               /\ conn[job[w][2]] = s /\ status[s] = "open"
<1>1. PICK d \in Fds : job[w] = Out(d)
  <2>1. job[w] \in {Idle} \cup ({"output", "input"} \X Fds)
    BY DEF Jobs, JobTypes
  <2>2. job[w] # Idle
    BY JobIs
  <2> QED
    BY <2>1, <2>2 DEF Out
<1>2. PICK s \in Switches : fdOf[s] = d
  BY <1>1 DEF Jobs, JobsGiven, Given
<1>3. d # 0 /\ job[w][2] = d
  BY <1>1, ReadNumbers DEF Out, Listening
<1> QED
  BY <1>1, <1>2, <1>3, AllFresh

-----------------------------------------------------------------------------
LEMMA InitPlaced == Init => AllPlaced /\ NobodyLeft
<1> SUFFICES ASSUME Init PROVE AllPlaced /\ NobodyLeft
  OBVIOUS
<1>1. /\ scenario \in Scenarios /\ sent = program.boot
      /\ output_queue = [i \in DOMAIN program.boot |-> i]
      /\ status = [s \in Switches |-> "off"]
  BY DEF Init
<1>2. program.boot = << >> \/ program.boot = <<Initialized>>
  BY <1>1, BootIs
<1>3. NobodyLeft
  BY <1>1 DEF NobodyLeft
<1>4. DOMAIN sent = 1 .. N /\ N \in Nat
  <2>1. CASE sent = << >>
    <3>1. Len(sent) = 0 /\ DOMAIN sent = 1 .. 0
      BY <2>1
    <3> QED
      BY <3>1 DEF N
  <2>2. CASE sent = <<Initialized>>
    <3>1. Len(sent) = 1 /\ DOMAIN sent = 1 .. 1
      BY <2>2
    <3> QED
      BY <3>1 DEF N
  <2> QED
    BY <1>1, <1>2, <2>1, <2>2
<1>5. Len(output_queue) = N /\ DOMAIN output_queue = 1 .. N
      /\ \A i \in 1 .. N : output_queue[i] = i
  BY <1>1, <1>4
<1>6. \A k \in 1 .. N : Placed(k)
  BY <1>5 DEF Placed
<1>7. AllPlaced
  BY <1>4, <1>5, <1>6 DEF AllPlaced
<1> QED
  BY <1>3, <1>7

(* Nothing is moved                                                          *)
LEMMA PlacedAlone ==
    ASSUME AllPlaced,
           UNCHANGED <<scenario, sent, output_queue, cell, awaited, received>>,
           Settled => UNCHANGED down
    PROVE  AllPlaced'
<1>1. N' = N /\ (Settled' <=> Settled) /\ Len(output_queue)' <= N'
  BY DEF N, Settled, AllPlaced
<1>2. ASSUME Settled, NEW k \in 1 .. N PROVE Placed(k)'
  <2>1. Placed(k)
    BY <1>2 DEF AllPlaced
  <2> QED
    BY <2>1, <1>2 DEF Placed
<1> QED
  BY <1>1, <1>2 DEF AllPlaced

LEMMA SendPlaced ==
    ASSUME AllPlaced, MessageTypes, scenario \in Scenarios, NEW m, send_p4_msg(m),
           UNCHANGED <<scenario, cell, down, awaited, received>>
    PROVE  AllPlaced'
<1> DEFINE n == Len(output_queue)
           q == output_queue'
           c == scenario.capacity
<1>1. /\ N \in Nat /\ n \in Nat /\ n <= N /\ DOMAIN output_queue = 1 .. n
      /\ N' = N + 1 /\ c \in Nat
  BY MessagesAre, SendIs, ConstAssumption DEF AllPlaced
<1>2. output_queue \in Seq(1 .. N) /\ 1 .. N \subseteq 1 .. N + 1
  BY <1>1 DEF MessageTypes, N
<1>3. output_queue \in Seq(1 .. N + 1)
  BY <1>2, SeqMonotonic
<1>4. Len(sent') = N + 1
  BY <1>1 DEF N
<1>5. CASE n < c
  <2>1. q = Append(output_queue, N + 1)
    BY <1>4, <1>5 DEF send_p4_msg
  <2>2. N + 1 \in 1 .. N + 1
    BY <1>1
  <2>3. /\ Len(q) = n + 1 /\ DOMAIN q = 1 .. n + 1 /\ q[n + 1] = N + 1
        /\ \A i \in 1 .. n : q[i] = output_queue[i]
    BY <1>3, <2>1, <2>2, AppendIs
  <2>4. ASSUME Settled', NEW k \in 1 .. N + 1 PROVE Placed(k)'
    <3>1. CASE k = N + 1
      <4>1. n + 1 \in DOMAIN output_queue' /\ output_queue'[n + 1] = k
        BY <1>1, <2>3, <3>1
      <4> QED
        BY <4>1 DEF Placed
    <3>2. CASE k # N + 1
      <4>1. k \in 1 .. N /\ Settled
        BY <1>1, <1>4, <2>4, <3>2 DEF Settled, N
      <4>2. Placed(k)
        BY <4>1 DEF AllPlaced
      <4>3. \A i \in DOMAIN output_queue : i \in DOMAIN output_queue' /\ output_queue'[i] = output_queue[i]
        BY <1>1, <2>3
      <4> QED
        BY <4>2, <4>3 DEF Placed
    <3> QED
      BY <3>1, <3>2
  <2> QED
    BY <1>1, <2>3, <2>4 DEF AllPlaced
<1>6. CASE ~(n < c)
  <2>1. output_queue' = output_queue
    BY <1>6 DEF send_p4_msg
  <2>2. ~Settled'
    BY <1>1, <1>4, <1>6 DEF Settled
  <2> QED
    BY <1>1, <2>1, <2>2 DEF AllPlaced
<1> QED
  BY <1>5, <1>6

LEMMA TakePlaced ==
    ASSUME AllPlaced, MessageTypes, TakenInOrder, NEW w \in Threads, OutTake(w)
    PROVE  AllPlaced'
<1>1. PICK c \in 1 .. N :
          /\ cell[w] = 0 /\ output_queue # << >> /\ c = output_queue[1]
          /\ cell' = [cell EXCEPT ![w] = c] /\ output_queue' = Tail(output_queue)
  BY TakeIs
<1>2. UNCHANGED <<scenario, sent, down, awaited, received>> /\ DOMAIN cell = Threads
  BY DEF OutTake, netVars, swVars, MessageTypes
<1>3. N' = N /\ N \in Nat /\ (Settled' <=> Settled)
  BY <1>2, MessagesAre DEF N, Settled
<1> DEFINE n == Len(output_queue)
<1>4. /\ Len(output_queue') = n - 1 /\ DOMAIN output_queue' = 1 .. n - 1 /\ n \in Nat
      /\ DOMAIN output_queue = 1 .. n
      /\ \A i \in 1 .. n - 1 : output_queue'[i] = output_queue[i + 1]
  <2>1. output_queue \in Seq(1 .. N)
    BY DEF MessageTypes, N
  <2> QED
    BY <1>1, <2>1, TailIs
<1>5. ASSUME Settled, NEW k \in 1 .. N PROVE Placed(k)'
  <2>1. Placed(k)
    BY <1>5 DEF AllPlaced
  <2>2. CASE k = c
    BY <1>1, <1>2, <2>2 DEF Placed
  <2>3. ASSUME NEW i \in DOMAIN output_queue, output_queue[i] = k, k # c PROVE Placed(k)'
    <3>1. i - 1 \in DOMAIN output_queue' /\ output_queue'[i - 1] = k
      BY <1>1, <1>4, <2>3
    <3> QED
      BY <3>1 DEF Placed
  <2>4. ASSUME NEW v \in Threads, cell[v] = k PROVE Placed(k)'
    <3>1. v # w
      BY <1>1, <2>4
    <3>2. cell'[v] = k
      BY <1>1, <1>2, <2>4, <3>1
    <3> QED
      BY <3>2 DEF Placed
  <2>5. ASSUME NEW s \in Switches, OnStream(down[s], awaited[s], received[s], k) PROVE Placed(k)'
    BY <1>2, <2>5 DEF Placed
  <2> QED
    BY <2>1, <2>2, <2>3, <2>4, <2>5 DEF Placed
<1> QED
  BY <1>3, <1>4, <1>5 DEF AllPlaced

-----------------------------------------------------------------------------
(* q is d with more behind it, of it a unit of message k *)
Longer(q, d, k) ==
    /\ \A i \in DOMAIN d : i \in DOMAIN q /\ q[i] = d[i]
    /\ \E i \in DOMAIN q : q[i][1] = k

LEMMA WritePlaced ==
    ASSUME Connections, Jobs, MessagesInv, AllPlaced, NobodyLeft, NEW w \in Threads, OutWrite(w)
    PROVE  AllPlaced'
<1> DEFINE c == cell[w]
           U == UnitSet(Short, N)
<1>1. /\ c \in 1 .. N /\ job[w][1] = "output" /\ OutWriteCases(w, c)
      /\ (c \in Short => HeaderOf(c) \in U)
      /\ (c \notin Short => HeaderOf(c) \in U /\ EndOf(c) \in U)
  BY OutWriteIs
<1>2. /\ UNCHANGED <<scenario, sent, output_queue, awaited, received>>
      /\ DOMAIN cell = Threads /\ DOMAIN down = Switches
  BY DEF OutWrite, swVars, MessagesInv, MessageTypes
<1>3. /\ N' = N /\ N \in Nat /\ (Settled' <=> Settled)
      /\ Len(output_queue') <= N'
      /\ \A s \in Switches : down[s] \in Seq(U)
  BY <1>2, MessagesAre DEF N, Settled, AllPlaced, MessagesInv, Numbers
<1> HIDE DEF c, U
<1>4. SUFFICES ASSUME Settled PROVE AllPlaced'
  BY <1>3 DEF AllPlaced
<1>5. PICK t \in Switches : conn[job[w][2]] = t /\ status[t] = "open"
  BY <1>1, <1>4, WritesToOne DEF Settled
<1>6. t \notin Gone \cup {0}
  BY <1>5, ReadNumbers DEF Gone
<1>7. CASE UNCHANGED <<down, cell, rest>>
  BY <1>2, <1>7, PlacedAlone
<1>8. ASSUME NEW s \in Switches, NEW q, down' = [down EXCEPT ![s] = q],
             Longer(q, down[s], c),
             \A v \in Threads : v # w => cell'[v] = cell[v]
      PROVE  AllPlaced'
  <2>1. ASSUME NEW k \in 1 .. N PROVE Placed(k)'
    <3>1. Placed(k)
      BY <1>4 DEF AllPlaced
    <3>2. down'[s] = q /\ \A u \in Switches : u # s => down'[u] = down[u]
      BY <1>2, <1>8
    <3>3. CASE k = c
      <4>1. OnStream(down'[s], awaited'[s], received'[s], k)
        BY <1>8, <3>2, <3>3 DEF OnStream, Longer
      <4> QED
        BY <4>1 DEF Placed
    <3>4. ASSUME NEW v \in Threads, cell[v] = k, k # c PROVE Placed(k)'
      <4>1. cell'[v] = k
        BY <1>8, <3>4 DEF c
      <4> QED
        BY <4>1 DEF Placed
    <3>5. ASSUME NEW u \in Switches, OnStream(down[u], awaited[u], received[u], k)
          PROVE  Placed(k)'
      <4>1. OnStream(down'[u], awaited'[u], received'[u], k)
        BY <1>2, <1>8, <3>2, <3>5 DEF OnStream, Longer
      <4> QED
        BY <4>1 DEF Placed
    <3> QED
      BY <3>1, <3>3, <3>4, <3>5, <1>2 DEF Placed
  <2> QED
    BY <2>1, <1>3 DEF AllPlaced
<1>9. ASSUME NEW s \in Switches, NEW e \in U, e[1] = c
      PROVE  Longer(Append(down[s], e), down[s], c)
  <2> DEFINE p == Append(down[s], e)
  <2>1. /\ Len(down[s]) \in Nat /\ DOMAIN down[s] = 1 .. Len(down[s])
        /\ DOMAIN p = 1 .. Len(down[s]) + 1 /\ p[Len(down[s]) + 1] = e
        /\ \A i \in 1 .. Len(down[s]) : p[i] = down[s][i]
    BY <1>3, AppendIs
  <2> HIDE DEF p
  <2>2. Len(down[s]) + 1 \in DOMAIN p
    BY <2>1
  <2>3. (\A i \in DOMAIN down[s] : i \in DOMAIN p /\ p[i] = down[s][i])
        /\ \E i \in DOMAIN p : p[i][1] = c
    BY <2>1, <2>2, <1>9
  <2> QED
    BY <2>3 DEF p, Longer
<1>10. ASSUME NEW s \in Switches, NEW e \in U, NEW g \in U, e[1] = c, g[1] = c
       PROVE  Longer(Append(Append(down[s], e), g), down[s], c)
  <2> DEFINE d == Append(down[s], e)
             p == Append(d, g)
  <2>1. /\ d \in Seq(U) /\ Len(down[s]) \in Nat /\ DOMAIN down[s] = 1 .. Len(down[s])
        /\ DOMAIN d = 1 .. Len(down[s]) + 1 /\ Len(d) = Len(down[s]) + 1
        /\ \A i \in 1 .. Len(down[s]) : d[i] = down[s][i]
    BY <1>3, AppendIs
  <2> HIDE DEF d
  <2>2. /\ DOMAIN p = 1 .. Len(d) + 1 /\ p[Len(d) + 1] = g
        /\ \A i \in 1 .. Len(d) : p[i] = d[i]
    BY <2>1, AppendIs
  <2> HIDE DEF p
  <2>3. Len(d) + 1 \in DOMAIN p
    BY <2>1, <2>2
  <2>4. (\A i \in DOMAIN down[s] : i \in DOMAIN p /\ p[i] = down[s][i])
        /\ \E i \in DOMAIN p : p[i][1] = c
    BY <2>1, <2>2, <2>3, <1>10
  <2> QED
    BY <2>4 DEF p, d, Longer
<1>11. Rid(w) => \A v \in Threads : v # w => cell'[v] = cell[v]
  BY <1>2 DEF Rid
<1>12. HeaderOf(c)[1] = c /\ EndOf(c)[1] = c
  BY DEF HeaderOf, EndOf
<1>13. ASSUME NEW s \in Switches,
              \/ /\ c \in Short /\ Rid(w)
                 /\ down' = [down EXCEPT ![s] = Append(@, HeaderOf(c))]
              \/ /\ c \notin Short
                 /\ down' = [down EXCEPT ![s] = Append(@, HeaderOf(c))]
                 /\ UNCHANGED cell
              \/ /\ c \notin Short /\ Rid(w)
                 /\ down' = [down EXCEPT ![s] = Append(Append(@, HeaderOf(c)), EndOf(c))]
              \/ /\ c \notin Short /\ Rid(w)
                 /\ down' = [down EXCEPT ![s] = Append(@, EndOf(c))]
       PROVE  AllPlaced'
  <2> DEFINE x == Append(down[s], HeaderOf(c))
             y == Append(down[s], EndOf(c))
             z == Append(Append(down[s], HeaderOf(c)), EndOf(c))
  <2>1. \A v \in Threads : v # w => cell'[v] = cell[v]
    BY <1>11, <1>13
  <2>2. \/ down' = [down EXCEPT ![s] = x] /\ HeaderOf(c) \in U
        \/ down' = [down EXCEPT ![s] = y] /\ EndOf(c) \in U
        \/ down' = [down EXCEPT ![s] = z] /\ HeaderOf(c) \in U /\ EndOf(c) \in U
    BY <1>1, <1>13
  <2>3. CASE down' = [down EXCEPT ![s] = x] /\ HeaderOf(c) \in U
    <3>1. Longer(x, down[s], c)
      BY <1>9, <1>12, <2>3
    <3> HIDE DEF x, y, z
    <3> QED
      BY <1>8, <2>1, <2>3, <3>1
  <2>4. CASE down' = [down EXCEPT ![s] = y] /\ EndOf(c) \in U
    <3>1. Longer(y, down[s], c)
      BY <1>9, <1>12, <2>4
    <3> HIDE DEF x, y, z
    <3> QED
      BY <1>8, <2>1, <2>4, <3>1
  <2>5. CASE down' = [down EXCEPT ![s] = z] /\ HeaderOf(c) \in U /\ EndOf(c) \in U
    <3>1. Longer(z, down[s], c)
      BY <1>10, <1>12, <2>5
    <3> HIDE DEF x, y, z
    <3> QED
      BY <1>8, <2>1, <2>5, <3>1
  <2> QED
    BY <2>2, <2>3, <2>4, <2>5
<1> QED
  BY <1>1, <1>5, <1>6, <1>7, <1>13 DEF OutWriteCases

LEMMA ReadPlaced ==
    ASSUME Connections, Jobs, MessagesInv, \A t \in Switches : StreamOf(t), AllPlaced, NobodyLeft,
           NEW s \in Switches, SwitchRead(s)
    PROVE  AllPlaced'
<1> DEFINE q == down[s]
           a == awaited[s]
           r == received[s]
           U == UnitSet(Short, N)
<1>1. PICK u \in U :
          /\ q # << >> /\ u = Head(q)
          /\ awaited' = [awaited EXCEPT ![s] = IF Due(a, u) /\ ~Ends(Short, u) THEN u[1] ELSE 0]
          /\ received' = IF Due(a, u) /\ Ends(Short, u)
                         THEN [received EXCEPT ![s] = Append(@, u[1])] ELSE received
          /\ down' = [down EXCEPT ![s] = Tail(@)]
  BY ReadIs DEF MessagesInv
<1>2. /\ UNCHANGED <<scenario, sent, output_queue, cell>>
      /\ DOMAIN down = Switches /\ DOMAIN awaited = Switches /\ DOMAIN received = Switches
  BY DEF SwitchRead, poolVars, MessagesInv, MessageTypes
<1>3. /\ N' = N /\ N \in Nat /\ (Settled' <=> Settled)
      /\ Len(output_queue') <= N' /\ Numbers(Short, N, q, a, r)
  BY <1>2, MessagesAre DEF N, Settled, AllPlaced, MessagesInv
<1>4. SUFFICES ASSUME Settled PROVE AllPlaced'
  BY <1>3 DEF AllPlaced
<1>5. fdOf[s] # 0
  BY <1>1 DEF StreamOf, Blank
<1>6. Stream(Short, q, a, r)
  BY <1>4, <1>5, AllFresh DEF Settled, StreamOf, Written
<1>7. Due(a, u)
  BY <1>1, <1>3, <1>6, StreamRead
<1>8. /\ Len(q) \in Nat /\ DOMAIN q = 1 .. Len(q) /\ DOMAIN Tail(q) = 1 .. Len(q) - 1
      /\ u = q[1] /\ \A i \in 1 .. Len(q) - 1 : Tail(q)[i] = q[i + 1]
  <2>1. q \in Seq(U)
    BY <1>3 DEF Numbers
  <2> HIDE DEF q, U
  <2> QED
    BY <1>1, <2>1, TailIs
<1>9. /\ Len(r) \in Nat /\ DOMAIN r = 1 .. Len(r)
      /\ DOMAIN Append(r, u[1]) = 1 .. Len(r) + 1
      /\ \A i \in 1 .. Len(r) : Append(r, u[1])[i] = r[i]
      /\ Append(r, u[1])[Len(r) + 1] = u[1]
  <2>1. r \in Seq(1 .. N) /\ u[1] \in 1 .. N
    BY <1>3, UnitIs DEF Numbers
  <2> HIDE DEF r
  <2> QED
    BY <2>1, AppendIs
<1>10. a # 0 => u[1] = a /\ Ends(Short, u)
  <2>1. Ends(Short, u) <=> (u[2] = Body \/ u[1] \in Short)
    BY <1>3, UnitIs
  <2> QED
    BY <2>1, <1>7 DEF Due
<1>11. down'[s] = Tail(q)
       /\ awaited'[s] = (IF Ends(Short, u) THEN 0 ELSE u[1])
       /\ received'[s] = (IF Ends(Short, u) THEN Append(r, u[1]) ELSE r)
       /\ \A t \in Switches : t # s => /\ down'[t] = down[t] /\ awaited'[t] = awaited[t]
                                       /\ received'[t] = received[t]
  <2>1. CASE Ends(Short, u)
    BY <2>1, <1>1, <1>2, <1>7
  <2>2. CASE ~Ends(Short, u)
    BY <2>2, <1>1, <1>2, <1>7
  <2> QED
    BY <2>1, <2>2
<1>12. ASSUME NEW k \in 1 .. N, OnStream(q, a, r, k)
       PROVE  OnStream(down'[s], awaited'[s], received'[s], k)
  <2> HIDE DEF q, r, a
  <2>1. k # 0
    BY <1>3
  <2>2. CASE k = u[1]
    <3>1. CASE Ends(Short, u)
      <4>1. Len(r) + 1 \in DOMAIN received'[s] /\ received'[s][Len(r) + 1] = k
        BY <1>9, <1>11, <2>2, <3>1
      <4> QED
        BY <4>1 DEF OnStream
    <3>2. CASE ~Ends(Short, u)
      BY <1>11, <2>2, <3>2 DEF OnStream
    <3> QED
      BY <3>1, <3>2
  <2>3. CASE k # u[1]
    <3>1. a # k
      BY <1>10, <2>1, <2>3
    <3>2. ASSUME NEW i \in DOMAIN q, q[i][1] = k
          PROVE  OnStream(down'[s], awaited'[s], received'[s], k)
      <4>1. i - 1 \in DOMAIN Tail(q) /\ Tail(q)[i - 1] = q[i]
        BY <1>8, <2>3, <3>2
      <4> QED
        BY <4>1, <3>2, <1>11 DEF OnStream
    <3>3. ASSUME NEW i \in DOMAIN r, r[i] = k
          PROVE  OnStream(down'[s], awaited'[s], received'[s], k)
      <4>1. i \in DOMAIN received'[s] /\ received'[s][i] = k
        BY <1>9, <1>11, <3>3
      <4> QED
        BY <4>1 DEF OnStream
    <3> QED
      BY <1>12, <3>1, <3>2, <3>3 DEF OnStream
  <2> QED
    BY <2>2, <2>3
<1>13. ASSUME NEW k \in 1 .. N PROVE Placed(k)'
  <2>1. Placed(k)
    BY <1>4 DEF AllPlaced
  <2>2. ASSUME NEW t \in Switches, OnStream(down[t], awaited[t], received[t], k)
        PROVE  OnStream(down'[t], awaited'[t], received'[t], k)
    <3>1. CASE t = s
      BY <2>2, <3>1, <1>12
    <3>2. CASE t # s
      BY <2>2, <3>2, <1>11
    <3> QED
      BY <3>1, <3>2
  <2> QED
    BY <2>1, <2>2, <1>2 DEF Placed
<1> QED
  BY <1>3, <1>13 DEF AllPlaced

-----------------------------------------------------------------------------
LEMMA NextPlaced ==
    ASSUME Connections, Jobs, MessagesInv, \A t \in Switches : StreamOf(t), AllPlaced, NobodyLeft,
           scenario \in Scenarios, [Next]_vars
    PROVE  AllPlaced'
<1>1. CASE UNCHANGED <<scenario, sent, output_queue, cell, awaited, received, down>>
  BY <1>1, PlacedAlone
<1>2. CASE Still
  BY <1>1, <1>2 DEF Still, netVars, swVars
<1>3. CASE RunInit \/ \E w \in Threads : InSend(w)
  <2>1. CASE UNCHANGED <<scenario, sent, output_queue, cell, awaited, received, down>>
    BY <2>1, <1>1
  <2>2. ASSUME NEW m, send_p4_msg(m), UNCHANGED <<scenario, cell, down, awaited, received>>
        PROVE  AllPlaced'
    BY <2>2, SendPlaced DEF MessagesInv
  <2> QED
    BY <2>1, <2>2, <1>3, SenderIs
<1>4. CASE Select \/ ScanDone \/ Accept \/ AcceptFails \/ DispatchInput \/ ReadBody
  <2>1. UNCHANGED <<scenario, sent, output_queue, cell, awaited, received, down>>
    BY <1>4 DEF Select, ScanDone, Accept, AcceptFails, DispatchInput, ReadBody, poolVars, netVars, swVars
  <2> QED
    BY <2>1, <1>1
<1>5. ASSUME NEW d \in Fds, ReadHeader(d) \/ ReadEof(d) \/ ReadReset(d) PROVE AllPlaced'
  <2>1. UNCHANGED <<scenario, sent, output_queue, cell, awaited, received, down>>
    BY <1>5 DEF ReadHeader, ReadEof, ReadReset, poolVars, swVars
  <2> QED
    BY <2>1, <1>1
<1>6. ASSUME NEW w \in Threads, StartJob(w) \/ InTake(w) PROVE AllPlaced'
  <2>1. UNCHANGED <<scenario, sent, output_queue, cell, awaited, received, down>>
    BY <1>6 DEF StartJob, InTake, netVars, swVars
  <2> QED
    BY <2>1, <1>1
<1>7. ASSUME NEW w \in Threads, OutTake(w) PROVE AllPlaced'
  BY <1>7, TakePlaced DEF MessagesInv
<1>8. ASSUME NEW w \in Threads, OutWrite(w) PROVE AllPlaced'
  BY <1>8, WritePlaced
<1>9. ASSUME NEW s \in Switches, Connect(s) \/ SwitchWrite(s) PROVE AllPlaced'
  <2>1. UNCHANGED <<scenario, sent, output_queue, cell, awaited, received, down>>
    BY <1>9 DEF Connect, SwitchWrite, poolVars, swVars
  <2> QED
    BY <2>1, <1>1
<1>10. ASSUME NEW s \in Switches, Leave(s) PROVE AllPlaced'
  <2>1. /\ UNCHANGED <<scenario, sent, output_queue, cell, awaited, received>>
        /\ ~Settled
    BY <1>10 DEF Leave, poolVars, swVars, Settled
  <2> QED
    BY <2>1, PlacedAlone
<1>11. ASSUME NEW s \in Switches, SwitchRead(s) PROVE AllPlaced'
  BY <1>11, ReadPlaced
<1> QED
  BY <1>2, <1>3, <1>4, <1>5, <1>6, <1>7, <1>8, <1>9, <1>10, <1>11, StillIs
  DEF execute_controller, Work

(* What the sole switch has read lacks nothing that was sent before it.      *)
LEMMA EarlierRead ==
    ASSUME ControllerInv, AllPlaced, NobodyLeft, Sole,
           NEW k \in Range(received[1]), NEW j \in 1 .. k - 1
    PROVE  j \in Range(received[1])
<1> DEFINE q == down[1]
           a == awaited[1]
           r == received[1]
<1>1. Connections /\ Jobs /\ MessagesInv
  BY DEF ControllerInv, Connections, Jobs, MessagesInv
<1>2. scenario \in Scenarios /\ 1 \in Switches
  BY <1>1, ConstAssumption DEF Connections, MainTypes, Sole
<1>3. Numbers(Short, N, q, a, r) /\ N \in Nat
  BY <1>1, <1>2, MessagesAre DEF MessagesInv
<1>4. PICK p \in DOMAIN r : r[p] = k
  BY DEF Range
<1>5. StreamOf(1) /\ \A s \in Switches : fdOf[s] = 0 => Blank(s)
  BY <1>2 DEF ControllerInv, Streams, StreamOf, Written
<1>6. fdOf[1] # 0
  <2>1. fdOf[1] = 0 => received[1] = << >>
    BY <1>5 DEF StreamOf, Blank
  <2>2. received[1] # << >>
    BY <1>4
  <2> QED
    BY <2>1, <2>2
<1>7. Written(1)
  BY <1>1, <1>2, <1>5, <1>6, AllFresh DEF Sole, Settled, StreamOf
<1>8. ASSUME NEW s \in Switches, fdOf[s] # 0 PROVE s = 1
  <2>1. status[s] = "open"
    BY <1>1, <1>8, AllFresh DEF Sole, Settled
  <2>2. ~(s > scenario.switches)
    BY <2>1 DEF NobodyLeft
  <2> QED
    BY <2>2 DEF Sole, Switches
<1>9. /\ k \in 1 .. N /\ j \in 1 .. N /\ j < k /\ j # 0
      /\ Len(q) \in Nat /\ DOMAIN q = 1 .. Len(q)
      /\ \A i \in DOMAIN q : q[i][1] \in Nat
  <2>1. k \in 1 .. N
    BY <1>3, <1>4, ElementOfSeq, LenProperties DEF Numbers
  <2>2. Len(q) \in Nat /\ DOMAIN q = 1 .. Len(q) /\ \A i \in DOMAIN q : q[i] \in UnitSet(Short, N)
    BY <1>3, ElementOfSeq, LenProperties DEF Numbers
  <2>3. \A i \in DOMAIN q : q[i][1] \in Nat
    BY <2>2, <1>3, UnitIs
  <2> QED
    BY <1>3, <2>1, <2>2, <2>3
<1> HIDE DEF q, a, r
<1>10. /\ a # 0 => k < a
       /\ \A i \in DOMAIN q : k < q[i][1]
  BY <1>4, <1>7 DEF Written, Stream, Ascending, q, a, r
<1>11. Placed(j)
  BY <1>9 DEF AllPlaced, Sole
<1>12. ~Older(q, a, r, j)
  BY <1>4, <1>9 DEF Older
<1>13. \A i \in DOMAIN output_queue : output_queue[i] # j
  BY <1>1, <1>2, <1>12 DEF MessagesInv, TakenInOrder, q, a, r
<1>14. Unfinished(Short, q, a) # j
  <2>1. a # j
    BY <1>9, <1>10
  <2>2. \A i \in DOMAIN q : q[i][1] # j
    BY <1>9, <1>10
  <2>3. q # << >> => q[Len(q)][1] # j
    <3>1. SUFFICES ASSUME q # << >> PROVE Len(q) \in DOMAIN q
      BY <2>2
    <3>2. q \in Seq(UnitSet(Short, N))
      BY <1>3 DEF Numbers
    <3> QED
      BY <3>1, <3>2, <1>9, EmptySeq
  <2> QED
    BY <1>9, <2>1, <2>3 DEF Unfinished
<1>15. ASSUME NEW w \in Threads, cell[w] = j PROVE FALSE
  <2>1. job[w][1] = "output"
    BY <1>1, <1>9, <1>15 DEF MessagesInv, InHand
  <2>2. PICK s \in Switches : job[w] = Out(fdOf[s]) /\ fdOf[s] # 0
    BY <1>1, <2>1, WritesToOne DEF Sole, Settled
  <2>3. Writes(w, 1)
    BY <2>2, <1>8 DEF Writes
  <2>4. Writer(Short, q, a, r, j, rest[w])
    BY <2>3, <1>7, <1>15 DEF Written, q, a, r
  <2> QED
    BY <2>4, <1>9, <1>12, <1>14 DEF Writer
<1>16. PICK s \in Switches : OnStream(down[s], awaited[s], received[s], j)
  BY <1>11, <1>13, <1>15 DEF Placed
<1>17. s = 1
  <2>1. SUFFICES ASSUME s # 1 PROVE FALSE
    OBVIOUS
  <2>2. Blank(s)
    BY <2>1, <1>5, <1>8
  <2> QED
    BY <2>2, <1>9, <1>16 DEF Blank, OnStream
<1>18. \E i \in DOMAIN r : r[i] = j
  BY <1>9, <1>10, <1>16, <1>17 DEF OnStream, q, a, r
<1> QED
  BY <1>18 DEF Range, r
-----------------------------------------------------------------------------
SwitchesInv == ControllerInv /\ Sending /\ AllPlaced /\ NobodyLeft

LEMMA SwitchesCorrect == Spec => []SwitchesInv
<1>1. Init => SwitchesInv
  BY InitNet, InitJobs, InitMessages, InitStreams, InitSending, InitPlaced, InitIdling
  DEF SwitchesInv, ControllerInv, Connections, Jobs, MessagesInv
<1>2. ASSUME SwitchesInv, [Next]_vars PROVE SwitchesInv'
  <2>1. /\ Connections /\ Jobs /\ MessagesInv /\ Streams /\ MessageTypes
        /\ Sending /\ AllPlaced /\ NobodyLeft /\ Idling
    BY <1>2 DEF SwitchesInv, ControllerInv, Connections, Jobs, MessagesInv
  <2>2. /\ scenario \in Scenarios /\ input_queue \in Seq(DOMAIN scenario.digests)
        /\ \A t \in Switches : StreamOf(t)
    BY <2>1 DEF Connections, MainTypes, Streams, StreamOf, Written
  <2>3. ControllerInv'
    BY <1>2, <2>1, <2>2, NextNet, NextJobs, NextMessages, NextStreams, NextIdling
    DEF ControllerInv, Connections, Jobs, MessagesInv
  <2>4. Sending' /\ AllPlaced' /\ NobodyLeft'
    BY <1>2, <2>1, <2>2, NextSending, NextPlaced, NextNobody
  <2> QED
    BY <2>3, <2>4 DEF SwitchesInv
<1> QED
  BY <1>1, <1>2, PTL DEF Spec

(* A sole switch that is told that the controller is initialised (the last   *)
(* message of init in the program, notify_controller_initialized) has all    *)
(* that init sends it, however many messages there are and whichever thread  *)
(* writes them; l3fwd has sent that message before the switch connects.      *)
THEOREM ConfiguredCorrect == Spec => []ConfiguredWhenInitialised
<1>1. ASSUME SwitchesInv, Sole, scenario.name # "l3fwd", IsInitialized(1),
             NEW i \in DOMAIN program.init
      PROVE  Got(1, program.init[i])
  <2>1. PICK k \in Range(received[1]) : sent[k] = Initialized
    BY <1>1 DEF IsInitialized
  <2>2. ControllerInv /\ MessageTypes /\ scenario \in Scenarios /\ 1 \in Switches
    BY <1>1, ConstAssumption DEF SwitchesInv, ControllerInv, MainTypes, Sole
  <2>3. k \in DOMAIN sent /\ k \in 1 .. N
    <3>1. Numbers(Short, N, down[1], awaited[1], received[1]) /\ DOMAIN sent = 1 .. N
      BY <2>2, MessagesAre
    <3>2. k \in 1 .. N
      BY <2>1, <3>1, ElementOfSeq, LenProperties DEF Numbers, Range
    <3> QED
      BY <3>1, <3>2
  <2>4. PICK j \in 1 .. k : sent[j] = program.init[i]
    BY <1>1, <2>1, <2>3 DEF SwitchesInv, Sending, Told
  <2>5. j \in Range(received[1])
    <3>1. CASE j = k
      BY <3>1, <2>1
    <3>2. CASE j # k
      <4>1. j \in 1 .. k - 1
        BY <3>2, <2>3
      <4> QED
        BY <4>1, <1>1, <2>1, EarlierRead DEF SwitchesInv
    <3> QED
      BY <3>1, <3>2
  <2> QED
    BY <2>4, <2>5 DEF Got
<1>2. SwitchesInv => ConfiguredWhenInitialised
  BY <1>1 DEF ConfiguredWhenInitialised
<1> QED
  BY <1>2, SwitchesCorrect, PTL

(* An address that a sole switch knows as learned is one that it can forward *)
(* to: the program sends the entry of dmac_0 first (mac_learn_digest), and    *)
(* nothing between send_p4_msg and the switch loses or reorders it.          *)
THEOREM LearnedCorrect == Spec => []ForwardedBeforeLearned
<1>1. ASSUME SwitchesInv, Sole, NEW i \in DOMAIN received[1], Learns(sent[received[1][i]])
      PROVE  \E p \in 1 .. i - 1 : Forwards(sent[received[1][p]], sent[received[1][i]])
  <2> DEFINE r == received[1]
             k == r[i]
  <2>1. ControllerInv /\ MessageTypes /\ scenario \in Scenarios /\ 1 \in Switches
    BY <1>1, ConstAssumption DEF SwitchesInv, ControllerInv, MainTypes, Sole
  <2>2. /\ k \in DOMAIN sent /\ k \in Range(r) /\ DOMAIN r = 1 .. Len(r) /\ Len(r) \in Nat
        /\ \A p \in DOMAIN r : r[p] \in Nat
    <3>1. Numbers(Short, N, down[1], awaited[1], r) /\ DOMAIN sent = 1 .. N
      BY <2>1, MessagesAre
    <3>2. /\ Len(r) \in Nat /\ DOMAIN r = 1 .. Len(r) /\ \A p \in DOMAIN r : r[p] \in 1 .. N
      BY <3>1, ElementOfSeq, LenProperties DEF Numbers
    <3> QED
      BY <3>1, <3>2, <1>1 DEF Range
  <2>3. PICK j \in 1 .. k - 1 : Forwards(sent[j], sent[k])
    BY <1>1, <2>2 DEF SwitchesInv, Sending, Learning
  <2>4. j \in Range(r)
    BY <1>1, <2>2, EarlierRead DEF SwitchesInv
  <2>5. PICK p \in DOMAIN r : r[p] = j
    BY <2>4 DEF Range
  <2>6. Rising(r)
    <3>1. Connections /\ NobodyLeft
      BY <1>1, <2>1 DEF SwitchesInv, ControllerInv, Connections
    <3>2. fdOf[1] # 0
      <4>1. fdOf[1] = 0 => Blank(1)
        BY <2>1 DEF ControllerInv, Streams
      <4> QED
        BY <4>1, <1>1 DEF Blank
    <3>3. Fresh(1)
      BY <1>1, <2>1, <3>1, <3>2, AllFresh DEF Sole, Settled
    <3> QED
      BY <2>1, <3>3 DEF ControllerInv, Streams
  <2>7. p < i
    <3>1. ~(i < p) /\ p # i
      BY <2>2, <2>3, <2>5, <2>6, <1>1 DEF Rising
    <3> QED
      BY <3>1, <2>2, <1>1
  <2>8. p \in 1 .. i - 1
    BY <2>7, <2>2, <1>1
  <2> QED
    BY <2>3, <2>5, <2>8
<1>2. SwitchesInv => ForwardedBeforeLearned
  BY <1>1 DEF ForwardedBeforeLearned, Learns, Forwards
<1> QED
  BY <1>2, SwitchesCorrect, PTL

(* What handle_p4_msg makes of the last message sent is what the program     *)
(* meant by it: every program only builds messages that its buffer has room  *)
(* for, and those arrive as they were meant (RoundTrip).                     *)
THEOREM DecodedCorrect == Spec => []DecodedAsBuilt
<1>1. ASSUME SwitchesInv, sent # << >>
      PROVE  handle_p4_msg(Build(Last(sent)), MAX_LEN) = Last(sent)
  <2>1. AllMeant(sent) /\ IsSeq(sent)
    BY <1>1 DEF SwitchesInv, Sending, ControllerInv, MessagesInv, MessageTypes, IsSeq
  <2>2. Len(sent) \in DOMAIN sent
    BY <1>1, <2>1, TailAny
  <2>3. Meant(Last(sent))
    BY <2>1, <2>2 DEF AllMeant, Last
  <2> DEFINE m == Last(sent)
  <2>4. Meant(m)
    BY <2>3
  <2> HIDE DEF m
  <2>5. handle_p4_msg(Build(m), MAX_LEN) = m
    BY <2>4, RoundTrip DEF Meant
  <2> QED
    BY <2>5 DEF m
<1>2. SwitchesInv => DecodedAsBuilt
  BY <1>1 DEF DecodedAsBuilt
<1> QED
  BY <1>2, SwitchesCorrect, PTL
=============================================================================
