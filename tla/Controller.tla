----------------------------- MODULE Controller -----------------------------
(***************************************************************************)
(* The controller (controller.c) with one of its programs, and the         *)
(* switches that connect to it.                                            *)
(*                                                                         *)
(* The main thread runs the select loop of execute_controller.  For every  *)
(* switch it accepts it gives the pool an output_processor and an          *)
(* input_processor, neither of which ever ends; the pool has three         *)
(* threads.  All threads share one input and one output queue.  The        *)
(* framing of sock_helpers.c is part of the model: a message goes over the *)
(* connection in two units, header and body, which may be written and read *)
(* apart.                                                                  *)
(*                                                                         *)
(* Messages are numbered in the order in which send_p4_msg is called; a    *)
(* buffer is its number, and what it holds is Build(sent[number]).  The    *)
(* fifos are sequences (see Fifo).  The sections of the thread pool that    *)
(* its mutex protects are steps, and a thread that found no job is for a    *)
(* while not yet a waiter, so that wakeups get lost.  That the second       *)
(* unlock of do_work frees a mutex in use, and a job may then be started    *)
(* twice, is left to ThreadPool.                                            *)
(***************************************************************************)
EXTENDS CtrlPrograms, FiniteSets

CONSTANTS
    Scenarios,    \* what may be run: records of
                  \*   name, lines, garbage, maxMacs  the program and its file
                  \*   switches  how many switches connect, one after the other
                  \*   leave     may switches close their connections
                  \*   capacity  P4_BG_QUEUE_SIZE
                  \*   digests   what the data plane of each switch reports
                  \*   sleepCovers  does sleep(1) outlast what the pool has to do
                  \*   wakes     bound: times pthread_cond_wait returns without a
                  \*             signal
    MaxSwitches,  \* bound: switches of any scenario
    MaxDigests,   \* bound: digests of any scenario
    NThreads      \* the argument of create_threadpool

Switches == 1 .. MaxSwitches
Threads  == 1 .. NThreads
Fds      == 1 .. MaxSwitches   \* descriptors of connections, in order
Listening == 0                 \* controller_fd, which is lower than those

ASSUME ConstAssumption ==
    /\ MaxSwitches \in Nat /\ MaxDigests \in Nat
    /\ NThreads \in Nat \ {0}
    /\ \A c \in Scenarios :
          /\ c.name \in {"dummy", "l2fwd", "psa_l2fwd", "l3fwd", "portfwd", "smgw", "table",
                         "register"}
          /\ c.lines \in Seq(Range(c.lines)) /\ c.maxMacs \in Nat
          /\ \A l \in Range(c.lines) \ {Wrong} :
                /\ c.name = "l3fwd" => l.code \in l3fwd_codes
                /\ c.name = "smgw" => l.code \in smgw_codes
          /\ c.switches \in Switches /\ c.leave \in BOOLEAN
          /\ c.capacity \in Nat \ {0} /\ c.sleepCovers \in BOOLEAN /\ c.wakes \in Nat
          /\ c.digests \in Seq(Range(c.digests)) /\ Len(c.digests) <= MaxDigests
          /\ Main(c.name, c.lines, c.garbage, c.maxMacs).starts

VARIABLES
    scenario,
    alive,         \* the process runs: SIGPIPE has not ended it
    sent,          \* every call of send_p4_msg, in order
    output_queue, input_queue,
    \* the main thread
    mpc,           \* select, scan, sleep, init, body
    readfds, master, cur,
    todo,          \* what init has still to send
    \* the pool
    jobs, job,     \* queued jobs, and the one of each thread: <<kind, fd>>
    stage,         \* of a thread without a job: about to test for one, to
                   \* wait (with the mutex unlocked), or waiting
    wakes,         \* how often pthread_cond_wait returned without a signal
    cell,          \* the message an output_processor has in hand
    rest,          \* what the thread has still to write, or to send
    \* the connections
    backlog, conn, \* accept queue; the switch behind each descriptor
    status,        \* of each switch: off, backlog, open, left
    fdOf,          \* the descriptor it was given
    reset,         \* the controller's next read on it fails
    down,          \* units on their way to the switch
    upSent, upRead, \* units of its digests written and read
    \* the switches
    awaited,       \* the message whose header was read last
    garbled,       \* a header was read where none was
    received       \* the messages that were read whole, and unpacked

mainVars == <<mpc, readfds, master, cur, todo>>
idleVars == <<stage, wakes>>
poolVars == <<jobs, job, idleVars, cell, rest>>
netVars  == <<backlog, conn, status, fdOf, reset, down, upSent, upRead>>
swVars   == <<awaited, garbled, received>>
vars == <<scenario, alive, sent, output_queue, input_queue, mainVars, poolVars,
          netVars, swVars>>

Least(S) == CHOOSE x \in S : \A y \in S : x <= y
Idle == <<"idle", Listening>>
Header == "header"
Body   == "body"

(* What main and init of a program send, and what its dhf answers to each    *)
(* digest, by scenario.                                                     *)
Programs == [c \in Scenarios |-> Main(c.name, c.lines, c.garbage, c.maxMacs)]
Answers  == [c \in Scenarios |->
                [k \in DOMAIN c.digests |-> Dhf(c.name, BuildDigest(c.digests[k]))]]

program == Programs[scenario]

(* A full queue drops the message, and send_p4_msg does not notice. *)
send_p4_msg(m) ==
    /\ sent' = Append(sent, m)
    /\ output_queue' = IF Len(output_queue) < scenario.capacity
                       THEN Append(output_queue, Len(sent')) ELSE output_queue

(* create_controller_with_init, and what main sends before the loop *)
Init ==
    /\ scenario \in Scenarios
    /\ alive = TRUE
    /\ sent = program.boot
    /\ output_queue = [i \in DOMAIN program.boot |-> i]
    /\ input_queue = << >>
    /\ mpc = "select" /\ readfds = {} /\ master = {Listening} /\ cur = Listening
    /\ todo = << >>
    /\ jobs = << >> /\ job = [w \in Threads |-> Idle]
    /\ stage = [w \in Threads |-> "test"] /\ wakes = 0
    /\ cell = [w \in Threads |-> 0] /\ rest = [w \in Threads |-> << >>]
    /\ backlog = << >> /\ conn = [d \in Fds |-> 0]
    /\ status = [s \in Switches |-> "off"] /\ fdOf = [s \in Switches |-> 0]
    /\ reset = [s \in Switches |-> FALSE] /\ down = [s \in Switches |-> << >>]
    /\ upSent = [s \in Switches |-> 0] /\ upRead = [s \in Switches |-> 0]
    /\ awaited = [s \in Switches |-> 0] /\ garbled = [s \in Switches |-> FALSE]
    /\ received = [s \in Switches |-> << >>]
-----------------------------------------------------------------------------
(* The main thread.  select returns when a switch waits to be accepted, or  *)
(* a connection has something to read or was closed by the other end.       *)
Readable(d) ==
    IF d = Listening THEN backlog # << >>
    ELSE upRead[conn[d]] < upSent[conn[d]] \/ status[conn[d]] = "left"

Select ==
    /\ alive /\ mpc = "select"
    /\ \E d \in master : Readable(d)
    /\ readfds' = {d \in master : Readable(d)}
    /\ mpc' = "scan"
    /\ UNCHANGED <<scenario, alive, sent, output_queue, input_queue, master, cur, todo,
                   poolVars, netVars, swVars>>

Scan(d) == alive /\ mpc = "scan" /\ readfds # {} /\ d = Least(readfds)

ScanDone ==
    /\ alive /\ mpc = "scan" /\ readfds = {}
    /\ mpc' = "select"
    /\ UNCHANGED <<scenario, alive, sent, output_queue, input_queue, readfds, master, cur,
                   todo, poolVars, netVars, swVars>>

(* The threads without a job at one stage are interchangeable: where one of *)
(* them goes on, it is the first.                                           *)
Idlers(x)     == {w \in Threads : job[w] = Idle /\ stage[w] = x}
GoesOn(w, x)  == w \in Idlers(x) /\ \A v \in Idlers(x) : w <= v
Proceed(w, x) == stage' = [stage EXCEPT ![w] = x]

(* dispatch: a waiting thread is woken only for an empty queue *)
dispatch(j) ==
    /\ jobs' = Append(jobs, j)
    /\ IF jobs = << >> /\ Idlers("waiting") # {}
       THEN Proceed(Least(Idlers("waiting")), "test") ELSE UNCHANGED stage

(* accept gives the lowest free descriptor, then the first job goes to the  *)
(* pool.                                                                    *)
Accept ==
    /\ Scan(Listening)
    /\ LET s == Head(backlog)
           d == Least({f \in Fds : conn[f] = 0})
       IN  /\ conn' = [conn EXCEPT ![d] = s]
           /\ fdOf' = [fdOf EXCEPT ![s] = d]
           /\ status' = [status EXCEPT ![s] = IF @ = "left" THEN @ ELSE "open"]
           /\ dispatch(<<"output", d>>)
           /\ cur' = d
    /\ backlog' = Tail(backlog)
    /\ readfds' = readfds \ {Listening}
    /\ mpc' = "sleep"
    /\ UNCHANGED <<scenario, alive, sent, output_queue, input_queue, master, todo, job,
                   wakes, cell, rest, reset, down, upSent, upRead, swVars>>

(* The connection was aborted while it waited: accept may fail, and the     *)
(* loop over the descriptors is left.  (A failure that keeps the connection *)
(* in the backlog only repeats the loop.)                                   *)
AcceptFails ==
    /\ Scan(Listening)
    /\ status[Head(backlog)] = "left" /\ reset[Head(backlog)]
    /\ backlog' = Tail(backlog)
    /\ readfds' = {}
    /\ mpc' = "select"
    /\ UNCHANGED <<scenario, alive, sent, output_queue, input_queue, master, cur, todo,
                   poolVars, conn, status, fdOf, reset, down, upSent, upRead, swVars>>

(* every thread runs a job or waits for one *)
Quiet == Idlers("test") = {} /\ Idlers("wait") = {}

(* Mutant: no pause between the two jobs of a switch. *)
DispatchInputAtOnce ==
    /\ alive /\ mpc = "sleep"
    /\ dispatch(<<"input", cur>>)
    /\ master' = master \cup {cur}
    /\ todo' = program.init
    /\ mpc' = "init"
    /\ UNCHANGED <<scenario, alive, sent, output_queue, input_queue, readfds, cur, job,
                   wakes, cell, rest, netVars, swVars>>

(* after sleep(1) the second job, and init is called *)
DispatchInput ==
    /\ alive /\ mpc = "sleep"
    /\ scenario.sleepCovers => Quiet
    /\ dispatch(<<"input", cur>>)
    /\ master' = master \cup {cur}
    /\ todo' = program.init
    /\ mpc' = "init"
    /\ UNCHANGED <<scenario, alive, sent, output_queue, input_queue, readfds, cur, job,
                   wakes, cell, rest, netVars, swVars>>

RunInit ==
    /\ alive /\ mpc = "init"
    /\ IF todo = << >>
       THEN /\ mpc' = "scan"
            /\ UNCHANGED <<sent, output_queue, todo>>
       ELSE /\ send_p4_msg(Head(todo))
            /\ todo' = Tail(todo)
            /\ UNCHANGED mpc
    /\ UNCHANGED <<scenario, alive, input_queue, readfds, master, cur, poolVars, netVars,
                   swVars>>

(* in read_p4_msg, before or after the header *)
Reading(d) == \/ Scan(d) /\ d # Listening
              \/ alive /\ mpc = "body" /\ d = cur

(* read_p4_msg blocks until the rest of the message is there *)
Take(s) == upRead' = [upRead EXCEPT ![s] = @ + 1]

ReadHeader(d) ==
    /\ Scan(d) /\ d # Listening /\ upRead[conn[d]] < upSent[conn[d]]
    /\ ~reset[conn[d]]
    /\ Take(conn[d])
    /\ cur' = d /\ mpc' = "body"
    /\ UNCHANGED <<scenario, alive, sent, output_queue, input_queue, readfds, master, todo,
                   poolVars, backlog, conn, status, fdOf, reset, down, upSent, swVars>>

ReadBody ==
    /\ alive /\ mpc = "body" /\ upRead[conn[cur]] < upSent[conn[cur]]
    /\ ~reset[conn[cur]]
    /\ Take(conn[cur])
    /\ input_queue' = IF Len(input_queue) < scenario.capacity
                      THEN Append(input_queue, upRead'[conn[cur]] \div 2) ELSE input_queue
    /\ readfds' = readfds \ {cur}
    /\ mpc' = "scan"
    /\ UNCHANGED <<scenario, alive, sent, output_queue, master, cur, todo, poolVars,
                   backlog, conn, status, fdOf, reset, down, upSent, swVars>>

(* The other end closed the connection and everything was read, perhaps in  *)
(* the middle of a message: the descriptor is closed and the loop is left.  *)
(* The jobs that hold the descriptor are not told.                          *)
ReadEof(d) ==
    /\ Reading(d)
    /\ status[conn[d]] = "left" /\ ~reset[conn[d]]
    /\ upRead[conn[d]] = upSent[conn[d]]
    /\ conn' = [conn EXCEPT ![d] = 0]
    /\ master' = master \ {d}
    /\ readfds' = {}
    /\ mpc' = "select"
    /\ UNCHANGED <<scenario, alive, sent, output_queue, input_queue, cur, todo, poolVars,
                   backlog, status, fdOf, reset, down, upSent, upRead, swVars>>

(* read fails: nothing is done, and the cell is never freed.  What had      *)
(* arrived is lost, and the next read finds the end of the connection.      *)
ReadReset(d) ==
    /\ Reading(d)
    /\ reset[conn[d]]
    /\ reset' = [reset EXCEPT ![conn[d]] = FALSE]
    /\ readfds' = readfds \ {d}
    /\ mpc' = "scan"
    /\ UNCHANGED <<scenario, alive, sent, output_queue, input_queue, master, cur, todo,
                   poolVars, backlog, conn, status, fdOf, down, upSent, upRead, swVars>>

execute_controller ==
    \/ Select \/ ScanDone \/ Accept \/ AcceptFails \/ DispatchInput \/ RunInit \/ ReadBody
    \/ \E d \in Fds : ReadHeader(d) \/ ReadEof(d) \/ ReadReset(d)
-----------------------------------------------------------------------------
(* The pool.  A job never ends.                                             *)
StartJob(w) ==
    /\ alive /\ jobs # << >> /\ GoesOn(w, "test")
    /\ job' = [job EXCEPT ![w] = Head(jobs)]
    /\ jobs' = Tail(jobs)
    /\ UNCHANGED <<scenario, alive, sent, output_queue, input_queue, mainVars, idleVars,
                   cell, rest, netVars, swVars>>

(* no job: unlock *)
Release(w) ==
    /\ alive /\ jobs = << >> /\ GoesOn(w, "test")
    /\ Proceed(w, "wait")
    /\ UNCHANGED <<scenario, alive, sent, output_queue, input_queue, mainVars, jobs, job,
                   wakes, cell, rest, netVars, swVars>>

(* pthread_cond_wait *)
CondWait(w) ==
    /\ alive /\ GoesOn(w, "wait")
    /\ Proceed(w, "waiting")
    /\ UNCHANGED <<scenario, alive, sent, output_queue, input_queue, mainVars, jobs, job,
                   wakes, cell, rest, netVars, swVars>>

SpuriousWakeup(w) ==
    /\ alive /\ wakes < scenario.wakes /\ GoesOn(w, "waiting")
    /\ Proceed(w, "test")
    /\ wakes' = wakes + 1
    /\ UNCHANGED <<scenario, alive, sent, output_queue, input_queue, mainVars, jobs, job,
                   cell, rest, netVars, swVars>>

Units(id) == IF sent[id].type = "CTRL_INITIALIZED" THEN << <<id, Header>> >>
             ELSE << <<id, Header>>, <<id, Body>> >>

(* Mutant: a message stays in the queue. *)
Peek(q) == q

fifo_remove_msg(q) == Tail(q)

(* any output_processor takes the next message *)
OutTake(w) ==
    /\ alive /\ job[w][1] = "output" /\ cell[w] = 0 /\ output_queue # << >>
    /\ cell' = [cell EXCEPT ![w] = Head(output_queue)]
    /\ rest' = [rest EXCEPT ![w] = Units(Head(output_queue))]
    /\ output_queue' = fifo_remove_msg(output_queue)
    /\ UNCHANGED <<scenario, alive, sent, input_queue, mainVars, jobs, job, idleVars, netVars,
                   swVars>>

(* Mutant: a message that took more than one write is cut. *)
NoSecondWrite(w, n) == << >>

(* what write_fix goes on with when n units were written *)
Unwritten(w, n) == SubSeq(rest[w], n + 1, Len(rest[w]))

Released(w) == cell' = [cell EXCEPT ![w] = IF rest'[w] = << >> THEN 0 ELSE @]

Gone == {s \in Switches : status[s] = "left"}

(* write_fix, to whatever connection now has the descriptor.  write takes   *)
(* some of the bytes; on a closed descriptor it fails; when the other end   *)
(* is gone it takes them for nothing, or fails with SIGPIPE, which nothing  *)
(* in the controller handles.                                               *)
OutWrite(w) ==
    LET s == conn[job[w][2]]
    IN  /\ alive /\ job[w][1] = "output" /\ cell[w] # 0
        /\ \/ /\ s \in Gone \cup {0}
              /\ rest' = [rest EXCEPT ![w] = << >>]
              /\ UNCHANGED <<alive, down>>
           \/ /\ s \in Gone
              /\ alive' = FALSE
              /\ UNCHANGED <<rest, down>>
           \/ /\ s \notin Gone \cup {0}
              /\ \E n \in 1 .. Len(rest[w]) :
                    /\ down' = [down EXCEPT ![s] = @ \o SubSeq(rest[w], 1, n)]
                    /\ rest' = [rest EXCEPT ![w] = Unwritten(w, n)]
              /\ UNCHANGED alive
        /\ Released(w)
        /\ UNCHANGED <<scenario, sent, output_queue, input_queue, mainVars, jobs, job,
                       idleVars, backlog, conn, status, fdOf, reset, upSent, upRead, swVars>>

(* an input_processor gives a digest to dhf, which sends messages *)
InTake(w) ==
    /\ alive /\ job[w][1] = "input" /\ rest[w] = << >> /\ input_queue # << >>
    /\ rest' = [rest EXCEPT ![w] = Answers[scenario][Head(input_queue)]]
    /\ input_queue' = fifo_remove_msg(input_queue)
    /\ UNCHANGED <<scenario, alive, sent, output_queue, mainVars, jobs, job, idleVars, cell,
                   netVars, swVars>>

InSend(w) ==
    /\ alive /\ job[w][1] = "input" /\ rest[w] # << >>
    /\ send_p4_msg(Head(rest[w]))
    /\ rest' = [rest EXCEPT ![w] = Tail(@)]
    /\ UNCHANGED <<scenario, alive, input_queue, mainVars, jobs, job, idleVars, cell, netVars,
                   swVars>>

do_work(w) == \/ StartJob(w) \/ Release(w) \/ CondWait(w)
              \/ OutTake(w) \/ OutWrite(w) \/ InTake(w) \/ InSend(w)
-----------------------------------------------------------------------------
(* The switches (ctrl_plane_backend.c, seen from outside: see CtrlBackend).  *)
Connect(s) ==
    /\ s <= scenario.switches /\ status[s] = "off"
    /\ s > 1 => status[s - 1] # "off"
    /\ status' = [status EXCEPT ![s] = "backlog"]
    /\ backlog' = Append(backlog, s)
    /\ UNCHANGED <<scenario, alive, sent, output_queue, input_queue, mainVars, poolVars,
                   conn, fdOf, reset, down, upSent, upRead, swVars>>

(* A switch ends, with or without unread input (which makes it a reset, and  *)
(* drops what the controller has not read).                                 *)
Leave(s) ==
    /\ scenario.leave /\ status[s] \in {"backlog", "open"}
    /\ status' = [status EXCEPT ![s] = "left"]
    /\ \E r \in BOOLEAN :
          /\ reset' = [reset EXCEPT ![s] = r]
          /\ upRead' = IF r THEN [upRead EXCEPT ![s] = upSent[s]] ELSE upRead
    /\ down' = [down EXCEPT ![s] = << >>]
    /\ UNCHANGED <<scenario, alive, sent, output_queue, input_queue, mainVars, poolVars,
                   backlog, conn, fdOf, upSent, swVars>>

(* A header is due, or the body of the message it announced.  After a unit  *)
(* that is neither the switch reads bytes that mean nothing: garbled.       *)
SwitchRead(s) ==
    /\ status[s] = "open" /\ down[s] # << >> /\ ~garbled[s]
    /\ LET id       == Head(down[s])[1]
           part     == Head(down[s])[2]
           expected == IF awaited[s] = 0 THEN part = Header ELSE <<id, part>> = <<awaited[s], Body>>
           whole    == Head(down[s]) = Last(Units(id))
       IN  /\ garbled' = [garbled EXCEPT ![s] = ~expected]
           /\ awaited' = [awaited EXCEPT ![s] = IF expected /\ ~whole THEN id ELSE 0]
           /\ received' = IF expected /\ whole THEN [received EXCEPT ![s] = Append(@, id)]
                          ELSE received
    /\ down' = [down EXCEPT ![s] = Tail(@)]
    /\ UNCHANGED <<scenario, alive, sent, output_queue, input_queue, mainVars, poolVars,
                   backlog, conn, status, fdOf, reset, upSent, upRead>>

IsInitialized(s) == \E k \in Range(received[s]) : sent[k] = Initialized

(* send_digest: header, then body *)
SwitchWrite(s) ==
    /\ status[s] = "open" /\ IsInitialized(s)
    /\ upSent[s] < 2 * Len(scenario.digests)
    /\ upSent' = [upSent EXCEPT ![s] = @ + 1]
    /\ UNCHANGED <<scenario, alive, sent, output_queue, input_queue, mainVars, poolVars,
                   backlog, conn, status, fdOf, reset, down, upRead, swVars>>
FinishDigest(s) == upSent[s] % 2 = 1 /\ SwitchWrite(s)

Next == \/ execute_controller
        \/ \E w \in Threads : do_work(w) \/ SpuriousWakeup(w)
        \/ \E s \in Switches : Connect(s) \/ Leave(s) \/ SwitchRead(s) \/ SwitchWrite(s)

Spec == Init /\ [][Next]_vars

(* A thread that can go on does, and a switch reads what has arrived and     *)
(* writes the whole of a digest it began.  Every behaviour is finite, for    *)
(* switches, digests and wakeups are, so that weak fairness of all these     *)
(* steps together is that of each: none can be passed over for ever.         *)
Fair == \/ execute_controller
        \/ \E w \in Threads : do_work(w)
        \/ \E s \in Switches : SwitchRead(s) \/ FinishDigest(s)

FairSpec == Spec /\ WF_vars(Fair)
-----------------------------------------------------------------------------
(* Properties.                                                              *)
Got(s, m) == \E k \in Range(received[s]) : sent[k] = m

(* The state is made of what the code keeps in it; no queue is longer than   *)
(* the ring of fifo.h, and nothing is read that was not written.             *)
TypeOK ==
    /\ scenario \in Scenarios /\ alive \in BOOLEAN
    /\ Len(output_queue) <= scenario.capacity /\ Range(output_queue) \subseteq DOMAIN sent
    /\ Len(input_queue) <= scenario.capacity
    /\ Range(input_queue) \subseteq DOMAIN scenario.digests
    /\ mpc \in {"select", "scan", "sleep", "init", "body"}
    /\ master \subseteq Fds \cup {Listening} /\ readfds \subseteq master
    /\ cur \in Fds \cup {Listening}
    /\ \A w \in Threads :
          /\ job[w] \in {Idle} \cup ({"output", "input"} \X Fds)
          /\ cell[w] \in {0} \cup DOMAIN sent
          /\ stage[w] \in {"test", "wait", "waiting"}
    /\ wakes \in 0 .. scenario.wakes
    /\ conn \in [Fds -> Switches \cup {0}]
    /\ fdOf \in [Switches -> Fds \cup {0}]
    /\ status \in [Switches -> {"off", "backlog", "open", "left"}]
    /\ \A s \in Switches : upRead[s] <= upSent[s] /\ awaited[s] \in {0} \cup DOMAIN sent

(* A descriptor that no other connection has had.  The output job of a       *)
(* connection that was closed goes on writing to the number it was given.    *)
Fresh(s) == fdOf[s] # 0 /\ \A t \in Switches \ {s} : fdOf[t] # fdOf[s]

(* On such a connection a switch finds headers where headers are due: what   *)
(* one output_processor writes in several pieces is not broken up, although  *)
(* every message may take several writes and others take from the queue.     *)
StreamInSync == \A s \in Switches : Fresh(s) => ~garbled[s]

(* and however many output_processors take from the one queue, it gets       *)
(* messages in the order of the calls of send_p4_msg, none twice, and none   *)
(* that another switch got (so that with two it misses some).                *)
AtMostOnceInOrder ==
    /\ TypeOK
    /\ \A s \in Switches : Fresh(s) =>
          \A i, j \in DOMAIN received[s] : i < j => received[s][i] < received[s][j]
    /\ \A s, t \in Switches : s # t => Range(received[s]) \cap Range(received[t]) = {}

(* What handle_p4_msg gives the callback of the switch is what the program   *)
(* meant when it built the message with the functions of messages.c.  (The   *)
(* last message is looked at: each has been the last.)                       *)
DecodedAsBuilt ==
    sent # << >> => handle_p4_msg(Build(Last(sent)), MAX_LEN) = Last(sent)

(* One switch that stays, and a queue that has had room for everything.      *)
Settled == ~scenario.leave /\ Len(sent) <= scenario.capacity
Sole    == Settled /\ scenario.switches = 1

(* A sole switch that is told that the controller is initialised has all     *)
(* that init sends it.  l3fwd is the exception: its main has already sent    *)
(* that message when the switch connects.                                    *)
ConfiguredWhenInitialised ==
    Sole /\ scenario.name # "l3fwd" =>
        (IsInitialized(1) => \A i \in DOMAIN program.init : Got(1, program.init[i]))

(* An address that a sole switch knows as learned (so that it sends no more  *)
(* digests for it) is one that it can forward to.                            *)
ForwardedBeforeLearned ==
    Sole => \A i \in DOMAIN received[1] :
        LET m == sent[received[1][i]]
        IN  m.table = "smac_0" /\ m.reads # << >> =>
                \E j \in 1 .. i - 1 : /\ sent[received[1][j]].table = "dmac_0"
                                      /\ sent[received[1][j]].reads = m.reads

(* Every address that a sole switch reports is learned: the switch gets an   *)
(* entry that forwards to the port the digest named, if its sender gave the  *)
(* lengths that add_digest_field expects.                                    *)
Whole(d)   == \A i \in DOMAIN d.fields : BytesOf(d.fields[i].length) >= d.fields[i].bytes
Reports(k) ==
    /\ k \in DOMAIN scenario.digests
    /\ scenario.digests[k].name = "mac_learn_digest" /\ Whole(scenario.digests[k])
Learned(k) ==
    \E i \in Range(received[1]) :
        LET m == sent[i]
            d == scenario.digests[k]
        IN  /\ m.table = "dmac_0" /\ m.action = "forward"
            /\ m.reads = <<Exact(d.fields[1].value)>>
            /\ m.params = IF scenario.name = "l2fwd" THEN <<d.fields[2].value>>
                          ELSE << <<d.fields[2].value, 0, 0, 0>> >>

(* In the end nothing that was sent stays behind in a queue, a thread or a   *)
(* connection, if the pool has started a job that writes, and every digest   *)
(* that was written has been answered, by the programs that learn, if it has *)
(* started one that reads too.                                               *)
Runs(kind) == \E w \in Threads : job[w][1] = kind
EverythingAnswered ==
    <>[](/\ Settled /\ status[1] = "open" /\ Runs("output") =>
               \A k \in DOMAIN sent : \E s \in Switches : k \in Range(received[s])
         /\ Sole /\ scenario.name \in {"l2fwd", "psa_l2fwd"}
              /\ Runs("output") /\ Runs("input") =>
               \A k \in 1 .. MaxDigests : Reports(k) /\ upSent[1] >= 2 * k => Learned(k))

(* An address that a learning program has the switch forward to is one of    *)
(* its file or one that a digest reported.                                   *)
Known == {l.mac : l \in Range(scenario.lines)}
            \cup {d.fields[1].value : d \in {e \in Range(scenario.digests) :
                                                e.name = "mac_learn_digest"}}
OnlyReported ==
    scenario.name \in {"l2fwd", "psa_l2fwd"} =>
        \A i \in DOMAIN sent :
            sent[i].table = "dmac_0" /\ sent[i].reads # << >> =>
                sent[i].reads[1].value \in Known

(* Whichever switches connect and whatever the pool has started for them,    *)
(* one whose first job finds the queue empty and a thread on its way, with   *)
(* another to spare, gets both a thread that writes and one that reads: the  *)
(* pause of a second is what the second job needs.                           *)
Served ==
    \A s \in Switches :
        /\ alive /\ scenario.sleepCovers
        /\ mpc = "sleep" /\ cur = fdOf[s] /\ jobs = << <<"output", cur>> >>
        /\ Idlers("test") # {} /\ Cardinality({w \in Threads : job[w] = Idle}) >= 2
        ~> \/ ~alive
           \/ \A kind \in {"output", "input"} :
                 \E w \in Threads : job[w] = <<kind, fdOf[s]>>
=============================================================================
