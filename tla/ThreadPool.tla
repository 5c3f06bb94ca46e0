----------------------------- MODULE ThreadPool -----------------------------
(***************************************************************************)
(* shared/ctrl_plane/threadpool.c: worker threads that wait for jobs on a  *)
(* condition variable, and one thread that dispatches jobs to them (the    *)
(* main thread in launch_backend, execute_controller in the controller).   *)
(*                                                                         *)
(* do_work unlocks qlock before it calls pthread_cond_wait, which unlocks  *)
(* it a second time.  The mutex is of the default kind, which keeps no     *)
(* check of its owner: unlocking it frees it whoever holds it.  So the     *)
(* critical sections are not taken to be atomic here; every access to the  *)
(* pool's fields is a step of its own.                                     *)
(*                                                                         *)
(* Nothing ever sets pool->shutdown or pool->dont_accept, so the branches  *)
(* that test them are left out.                                            *)
(***************************************************************************)
EXTENDS Integers, Sequences, FiniteSets

CONSTANTS
    Workers,    \* the pool's threads
    Jobs,       \* the number of jobs dispatched, 1 .. Jobs in this order
    NoJob,      \* the null work_t pointer
    Returning,  \* the jobs whose routine may return
    Ready,      \* are all workers in pthread_cond_wait before the first dispatch
    Spurious    \* may pthread_cond_wait return without a signal

Job == 1 .. Jobs

ASSUME JobAssumption == Jobs \in Nat /\ NoJob \notin Job /\ Returning \subseteq Job

VARIABLES
    qlock,                \* is the mutex locked
    qsize, qhead, qtail,  \* the work queue
    next,                 \* cur->next of each job
    waiting,              \* workers blocked on q_not_empty
    pc, cur,              \* of each worker
    dpc, job,             \* of the dispatcher, and the job it is at
    dispatched, ran,      \* history: jobs dispatched, jobs started, in order
    crashed,              \* a null pointer was followed
    disturbed             \* history: the second unlock freed a mutex in use

poolVars == <<qsize, qhead, qtail, next>>
workVars == <<waiting, pc, cur>>
dispVars == <<dpc, job, dispatched>>
vars == <<qlock, poolVars, workVars, dispVars, ran, crashed, disturbed>>

Init ==
    /\ qlock = FALSE
    /\ qsize = 0 /\ qhead = NoJob /\ qtail = NoJob
    /\ next = [j \in Job |-> NoJob]
    /\ waiting = IF Ready THEN Workers ELSE {}
    /\ pc = [w \in Workers |-> IF Ready THEN "woken" ELSE "lock"]
    /\ cur = [w \in Workers |-> NoJob]
    /\ dpc = "idle" /\ job = 1 /\ dispatched = <<>>
    /\ ran = <<>> /\ crashed = FALSE /\ disturbed = FALSE

At(w, label)   == ~crashed /\ pc[w] = label
Goto(w, label) == pc' = [pc EXCEPT ![w] = label]
DAt(label)     == ~crashed /\ dpc = label
Crash == crashed' = TRUE /\ UNCHANGED <<qlock, poolVars, workVars, dispVars, ran, disturbed>>
-----------------------------------------------------------------------------
(* do_work *)

(* Mutant: a worker does not take the mutex. *)
LockNot(w) ==
    /\ At(w, "lock") \/ (At(w, "woken") /\ w \notin waiting)
    /\ Goto(w, "test")
    /\ UNCHANGED <<qlock, poolVars, waiting, cur, dispVars, ran, crashed, disturbed>>

(* pthread_mutex_lock, at the top of the loop or on waking up *)
Lock(w) ==
    /\ At(w, "lock") \/ (At(w, "woken") /\ w \notin waiting)
    /\ ~qlock /\ qlock' = TRUE
    /\ Goto(w, "test")
    /\ UNCHANGED <<poolVars, waiting, cur, dispVars, ran, crashed, disturbed>>

(* Mutant: a worker that holds the mutex takes a job without looking. *)
TestNot(w) ==
    /\ At(w, "test")
    /\ Goto(w, "take")
    /\ UNCHANGED <<qlock, poolVars, waiting, cur, dispVars, ran, crashed, disturbed>>

(* while (qsize == 0) *)
Test(w) ==
    /\ At(w, "test")
    /\ Goto(w, IF qsize = 0 THEN "release" ELSE "take")
    /\ UNCHANGED <<qlock, poolVars, waiting, cur, dispVars, ran, crashed, disturbed>>

(* the unlock in front of pthread_cond_wait *)
Release(w) ==
    /\ At(w, "release")
    /\ qlock' = FALSE
    /\ Goto(w, "wait")
    /\ UNCHANGED <<poolVars, waiting, cur, dispVars, ran, crashed, disturbed>>

(* pthread_cond_wait: become a waiter, unlock once more, block *)
CondWait(w) ==
    /\ At(w, "wait")
    /\ waiting' = waiting \cup {w}
    /\ Goto(w, "unlock_again")
    /\ UNCHANGED <<qlock, poolVars, cur, dispVars, ran, crashed, disturbed>>

UnlockAgain(w) ==
    /\ At(w, "unlock_again")
    /\ qlock' = FALSE
    /\ disturbed' = (disturbed \/ qlock)
    /\ Goto(w, "woken")
    /\ UNCHANGED <<poolVars, waiting, cur, dispVars, ran, crashed>>

(* pthread_cond_wait may return without a signal *)
SpuriousWakeup(w) ==
    /\ At(w, "woken") /\ w \in waiting /\ Spurious
    /\ waiting' = waiting \ {w}
    /\ UNCHANGED <<qlock, poolVars, pc, cur, dispVars, ran, crashed, disturbed>>

(* cur = qhead; qsize-- *)
Take(w) ==
    /\ At(w, "take")
    /\ cur' = [cur EXCEPT ![w] = qhead]
    /\ Goto(w, "decrement")
    /\ UNCHANGED <<qlock, poolVars, waiting, dispVars, ran, crashed, disturbed>>

Decrement(w) ==
    /\ At(w, "decrement")
    /\ qsize' = qsize - 1
    /\ Goto(w, "unlink")
    /\ UNCHANGED <<qlock, qhead, qtail, next, waiting, cur, dispVars, ran, crashed, disturbed>>

(* if (qsize == 0) the queue is empty, else qhead = cur->next *)
Unlink(w) ==
    /\ At(w, "unlink")
    /\ qsize = 0 \/ cur[w] # NoJob
    /\ IF qsize = 0 THEN qhead' = NoJob /\ qtail' = NoJob
                    ELSE qhead' = next[cur[w]] /\ UNCHANGED qtail
    /\ Goto(w, "unlock")
    /\ UNCHANGED <<qlock, qsize, next, waiting, cur, dispVars, ran, crashed, disturbed>>

UnlinkNull(w) == At(w, "unlink") /\ qsize # 0 /\ cur[w] = NoJob /\ Crash

Unlock(w) ==
    /\ At(w, "unlock")
    /\ qlock' = FALSE
    /\ Goto(w, "run")
    /\ UNCHANGED <<poolVars, waiting, cur, dispVars, ran, crashed, disturbed>>

(* (cur->routine)(cur->arg) *)
Run(w) ==
    /\ At(w, "run") /\ cur[w] # NoJob
    /\ ran' = Append(ran, cur[w])
    /\ Goto(w, "busy")
    /\ UNCHANGED <<qlock, poolVars, waiting, cur, dispVars, crashed, disturbed>>

RunNull(w) == At(w, "run") /\ cur[w] = NoJob /\ Crash

(* the routine returns, free(cur), round again *)
Return(w) ==
    /\ At(w, "busy") /\ cur[w] \in Returning
    /\ cur' = [cur EXCEPT ![w] = NoJob]
    /\ Goto(w, "lock")
    /\ UNCHANGED <<qlock, poolVars, waiting, dispVars, ran, crashed, disturbed>>
-----------------------------------------------------------------------------
(* dispatch *)

Dispatch ==
    /\ DAt("idle") /\ job \in Job
    /\ dpc' = "lock"
    /\ UNCHANGED <<qlock, poolVars, workVars, job, dispatched, ran, crashed, disturbed>>

DLock ==
    /\ DAt("lock") /\ ~qlock /\ qlock' = TRUE
    /\ dpc' = "test"
    /\ UNCHANGED <<poolVars, workVars, job, dispatched, ran, crashed, disturbed>>

DTest ==
    /\ DAt("test")
    /\ dpc' = IF qsize = 0 THEN "first" ELSE "append"
    /\ UNCHANGED <<qlock, poolVars, workVars, job, dispatched, ran, crashed, disturbed>>

(* Mutant: nobody is signalled. *)
FirstSilent ==
    /\ DAt("first")
    /\ qhead' = job /\ qtail' = job
    /\ dpc' = "increment"
    /\ UNCHANGED <<qlock, qsize, next, workVars, job, dispatched, ran, crashed, disturbed>>

(* qsize == 0: the only place that signals q_not_empty *)
First ==
    /\ DAt("first")
    /\ qhead' = job /\ qtail' = job
    /\ IF waiting = {} THEN UNCHANGED waiting
       ELSE \E w \in waiting : waiting' = waiting \ {w}
    /\ dpc' = "increment"
    /\ UNCHANGED <<qlock, qsize, next, pc, cur, job, dispatched, ran, crashed, disturbed>>

AppendJob ==
    /\ DAt("append") /\ qtail # NoJob
    /\ next' = [next EXCEPT ![qtail] = job]
    /\ qtail' = job
    /\ dpc' = "increment"
    /\ UNCHANGED <<qlock, qsize, qhead, workVars, job, dispatched, ran, crashed, disturbed>>

AppendNull == DAt("append") /\ qtail = NoJob /\ Crash

Increment ==
    /\ DAt("increment")
    /\ qsize' = qsize + 1
    /\ dpc' = "unlock"
    /\ UNCHANGED <<qlock, qhead, qtail, next, workVars, job, dispatched, ran, crashed, disturbed>>

DUnlock ==
    /\ DAt("unlock")
    /\ qlock' = FALSE
    /\ dpc' = "idle" /\ job' = job + 1
    /\ dispatched' = Append(dispatched, job)
    /\ UNCHANGED <<poolVars, workVars, ran, crashed, disturbed>>
-----------------------------------------------------------------------------
Worker(w) ==
    \/ Lock(w) \/ Test(w) \/ Release(w) \/ CondWait(w) \/ UnlockAgain(w)
    \/ Take(w) \/ Decrement(w) \/ Unlink(w) \/ UnlinkNull(w)
    \/ Unlock(w) \/ Run(w) \/ RunNull(w)

Dispatcher ==
    \/ Dispatch \/ DLock \/ DTest \/ First \/ AppendJob \/ AppendNull
    \/ Increment \/ DUnlock

Next == Dispatcher \/ \E w \in Workers : Worker(w) \/ Return(w) \/ SpuriousWakeup(w)

Spec == Init /\ [][Next]_vars

(* Every thread is scheduled and gets the mutex at some time; a job's       *)
(* routine need not return.                                                 *)
FairSpec ==
    /\ Spec
    /\ SF_vars(Dispatcher)
    /\ \A w \in Workers : SF_vars(Worker(w))
-----------------------------------------------------------------------------
(* Every variable keeps its type, and qsize never counts more jobs than     *)
(* were dispatched, even where critical sections overlap (where it may well *)
(* become negative).                                                        *)
TypeOK ==
    /\ qlock \in BOOLEAN /\ crashed \in BOOLEAN /\ disturbed \in BOOLEAN
    /\ qsize \in Int /\ qsize <= Jobs
    /\ qhead \in Job \cup {NoJob} /\ qtail \in Job \cup {NoJob}
    /\ next \in [Job -> Job \cup {NoJob}]
    /\ waiting \subseteq Workers
    /\ pc \in [Workers -> {"lock", "test", "release", "wait", "unlock_again",
                           "woken", "take", "decrement", "unlink", "unlock",
                           "run", "busy"}]
    /\ cur \in [Workers -> Job \cup {NoJob}]
    /\ dpc \in {"idle", "lock", "test", "first", "append", "increment", "unlock"}
    /\ job \in 1 .. Jobs + 1
    /\ dispatched \in Seq(Job) /\ ran \in Seq(Job)

InSection ==
    Cardinality({w \in Workers : pc[w] \in {"test", "release", "take",
                                            "decrement", "unlink", "unlock"}})
      + (IF dpc \in {"test", "first", "append", "increment", "unlock"} THEN 1 ELSE 0)

(* The second unlock is all that is wrong with the locking: until it frees  *)
(* a mutex that somebody holds, at most one thread is between lock and      *)
(* unlock.                                                                  *)
MutualExclusion == ~disturbed => InSection <= 1

(* "dispatch sends a thread off to do some work" (threadpool.h): one thread, *)
(* so no job is started twice.                                              *)
StartedOnce == \A i, j \in DOMAIN ran : ran[i] = ran[j] => i = j

(* Until then the work queue is sound too: nobody in the middle of dispatch *)
(* or do_work follows a null pointer, and no job is started twice.          *)
QueueSound == TypeOK /\ (~disturbed => ~crashed /\ StartedOnce)

Idle(w) == pc[w] \notin {"run", "busy"}

(* "dispatch sends a thread off to do some work" (threadpool.h): a job is   *)
(* started unless all workers are busy.                                     *)
JobStarts ==
    \A j \in Job :
        (\E i \in DOMAIN dispatched : dispatched[i] = j) ~>
            \/ \E i \in DOMAIN ran : ran[i] = j
            \/ \A w \in Workers : ~Idle(w)
            \/ crashed

Quiet == \A w \in Workers : pc[w] = "busy" \/ (pc[w] = "woken" /\ w \in waiting)

(* What does hold: a job that dispatch puts into an empty queue, with the   *)
(* mutex still its own and every worker either in a job or waiting for one, *)
(* is started, unless all are busy, whatever is dispatched behind it and    *)
(* whoever returns or wakes up in between.                                  *)
SignalledStarts ==
    \A j \in Job :
        DAt("first") /\ job = j /\ Quiet /\ qlock ~>
            \/ \E i \in DOMAIN ran : ran[i] = j
            \/ \A w \in Workers : ~Idle(w)
            \/ crashed
=============================================================================
