------------------------- MODULE ThreadPoolProofs --------------------------
(***************************************************************************)
(* Proofs about threadpool.c, for any workers and any number of jobs: that *)
(* the second unlock in do_work is all that is wrong with the locking, and *)
(* that the work queue is sound until that unlock frees a mutex in use.    *)
(*                                                                         *)
(* The invariant about the queue counts: Added jobs were put in the queue  *)
(* (qsize was incremented that often), the first Taken of them were        *)
(* removed, and the list from qhead to qtail is the others in order.  In   *)
(* the middle of dispatch or do_work the list is between two such states,  *)
(* and only the thread that holds the mutex can see it.                    *)
(***************************************************************************)
EXTENDS ThreadPool, FiniteSetTheorems, SequenceTheorems, TLAPS

WorkerSection     == {"test", "release", "take", "decrement", "unlink", "unlock"}
DispatcherSection == {"test", "first", "append", "increment", "unlock"}

Added == IF dpc = "unlock" THEN job ELSE job - 1
Taken == Added - qsize

TypeInv ==
    /\ TypeOK
    /\ dpc # "idle" => job \in Job
    /\ qsize <= Added

(* Following a null pointer moves nothing.                                  *)
LEMMA CrashKeeps ==
    ASSUME TypeInv, Crash
    PROVE  TypeInv' /\ UNCHANGED <<qlock, poolVars, workVars, dispVars, ran, disturbed>>
BY DEF Crash, TypeInv, TypeOK, Added, poolVars, workVars, dispVars

(* A worker that takes a step, or is woken, keeps the types.                *)
LEMMA WorkerKeepsTypes ==
    ASSUME TypeInv, NEW w \in Workers, Worker(w) \/ Return(w) \/ SpuriousWakeup(w)
    PROVE  TypeInv'
<1> USE JobAssumption DEF TypeInv, TypeOK, Added, Job, Goto, At, poolVars, dispVars
<1>1. CASE Lock(w) \/ Test(w) \/ Release(w) \/ CondWait(w) \/ UnlockAgain(w)
             \/ SpuriousWakeup(w)
    BY <1>1 DEF Lock, Test, Release, CondWait, UnlockAgain, SpuriousWakeup
<1>2. CASE Take(w)
    BY <1>2 DEF Take
<1>7. CASE Decrement(w)
    <2>1. /\ qsize' = qsize - 1 /\ pc' \in [Workers -> {"lock", "test", "release", "wait",
                "unlock_again", "woken", "take", "decrement", "unlink", "unlock", "run", "busy"}]
          /\ UNCHANGED <<qlock, qhead, qtail, next, waiting, cur, dispVars, ran, crashed, disturbed>>
        BY <1>7 DEF Decrement
    <2>2. qsize' \in Int /\ qsize' <= Jobs /\ qsize' <= Added
        BY <2>1
    <2> QED BY <2>1, <2>2
<1>3. CASE Unlink(w)
    BY <1>3 DEF Unlink
<1>4. CASE Unlock(w) \/ Return(w)
    BY <1>4 DEF Unlock, Return
<1>5. CASE Run(w)
    <2>1. cur[w] \in Job /\ ran' = Append(ran, cur[w])
        BY <1>5 DEF Run
    <2>2. ran' \in Seq(Job)
        BY <2>1, AppendProperties
    <2> QED BY <1>5, <2>2 DEF Run
<1>6. CASE UnlinkNull(w) \/ RunNull(w)
    BY <1>6, CrashKeeps DEF UnlinkNull, RunNull
<1> QED BY <1>1, <1>2, <1>3, <1>4, <1>5, <1>6, <1>7 DEF Worker

(* So does the dispatcher, which adds each job once.                        *)
LEMMA DispatcherKeepsTypes ==
    ASSUME TypeInv, Dispatcher
    PROVE  TypeInv'
<1> USE JobAssumption DEF TypeInv, TypeOK, Added, Job, DAt, poolVars, workVars
<1>1. CASE Dispatch \/ DLock \/ DTest
    BY <1>1 DEF Dispatch, DLock, DTest
<1>2. CASE First
    BY <1>2 DEF First
<1>3. CASE AppendJob
    BY <1>3 DEF AppendJob
<1>4. CASE AppendNull
    BY <1>4, CrashKeeps DEF AppendNull
<1>5. CASE Increment
    BY <1>5 DEF Increment
<1>6. CASE DUnlock
    <2>1. job \in Job /\ dispatched' = Append(dispatched, job)
        BY <1>6 DEF DUnlock
    <2>2. dispatched' \in Seq(Job)
        BY <2>1, AppendProperties
    <2>3. /\ dpc' = "idle" /\ job' = job + 1 /\ qlock' = FALSE /\ dpc = "unlock"
          /\ UNCHANGED <<poolVars, workVars, ran, crashed, disturbed>>
        BY <1>6 DEF DUnlock
    <2>4. job' \in 1 .. Jobs + 1 /\ job' - 1 = job
        BY <2>1, <2>3
    <2>5. Added' = Added
        BY <2>3, <2>4
    <2>6. TypeOK'
        BY <2>2, <2>3, <2>4
    <2>7. qsize' <= Added'
        BY <2>3, <2>5
    <2> QED BY <2>3, <2>6, <2>7
<1> QED BY <1>1, <1>2, <1>3, <1>4, <1>5, <1>6 DEF Dispatcher

(* create_threadpool gives every field its type.                            *)
LEMMA InitTypes == Init => TypeInv
<1> SUFFICES ASSUME Init PROVE TypeInv
    OBVIOUS
<1> USE JobAssumption DEF Init
<1>1. <<>> \in Seq(Job)
    OBVIOUS
<1>2. 0 \in Int /\ 0 <= Jobs /\ 1 \in 1 .. Jobs + 1
    OBVIOUS
<1>3. /\ next \in [Job -> Job \cup {NoJob}] /\ cur \in [Workers -> Job \cup {NoJob}]
      /\ waiting \subseteq Workers
      /\ pc \in [Workers -> {"lock", "test", "release", "wait", "unlock_again",
                "woken", "take", "decrement", "unlink", "unlock", "run", "busy"}]
    OBVIOUS
<1>4. TypeOK
    BY <1>1, <1>2, <1>3 DEF TypeOK
<1>5. Added = 0 /\ dpc = "idle"
    BY DEF Added
<1> QED BY <1>4, <1>5 DEF TypeInv

(* Every step keeps the types.                                              *)
LEMMA StepTypes == TypeInv /\ [Next]_vars => TypeInv'
<1>1. ASSUME TypeInv, UNCHANGED vars PROVE TypeInv'
    BY <1>1 DEF vars, poolVars, workVars, dispVars, TypeInv, TypeOK, Added
<1> QED BY <1>1, WorkerKeepsTypes, DispatcherKeepsTypes DEF Next
-----------------------------------------------------------------------------
(* The mutex. *)
LockInv ==
    ~disturbed =>
        /\ \A w \in Workers : pc[w] \in WorkerSection => qlock
        /\ dpc \in DispatcherSection => qlock
        /\ \A v, w \in Workers : pc[v] \in WorkerSection /\ pc[w] \in WorkerSection => v = w
        /\ dpc \in DispatcherSection => \A w \in Workers : pc[w] \notin WorkerSection

(* Every thread locks before its section and unlocks once, except that the  *)
(* second unlock frees the mutex for another thread's section: disturbed.   *)
LEMMA StepLock == TypeInv /\ LockInv /\ [Next]_vars => LockInv'
<1> SUFFICES ASSUME TypeInv, LockInv, [Next]_vars, ~disturbed' PROVE LockInv'
    BY DEF LockInv
<1> USE DEF WorkerSection, DispatcherSection, LockInv, poolVars, workVars, dispVars
<1>0. pc = [w \in Workers |-> pc[w]] /\ qlock \in BOOLEAN /\ disturbed \in BOOLEAN
    BY DEF TypeInv, TypeOK
<1>1. CASE UNCHANGED vars
    BY <1>1 DEF vars
<1>2. ASSUME NEW w \in Workers, Worker(w) \/ Return(w) \/ SpuriousWakeup(w)
      PROVE  LockInv'
    <2>1. CASE Lock(w)
        BY <1>0, <2>1 DEF Lock, At, Goto
    <2>2. CASE Test(w)
        BY <1>0, <2>2 DEF Test, At, Goto
    <2>3. CASE Release(w) \/ Unlock(w)
        BY <1>0, <2>3 DEF Release, Unlock, At, Goto
    <2>4. CASE CondWait(w) \/ SpuriousWakeup(w) \/ Run(w) \/ Return(w)
        BY <1>0, <2>4 DEF CondWait, SpuriousWakeup, Run, Return, At, Goto
    <2>5. CASE UnlockAgain(w)
        BY <1>0, <2>5 DEF UnlockAgain, At, Goto
    <2>6. CASE Take(w) \/ Decrement(w) \/ Unlink(w)
        BY <1>0, <2>6 DEF Take, Decrement, Unlink, At, Goto
    <2>7. CASE UnlinkNull(w) \/ RunNull(w)
        BY <2>7 DEF UnlinkNull, RunNull, Crash
    <2> QED BY <1>2, <2>1, <2>2, <2>3, <2>4, <2>5, <2>6, <2>7 DEF Worker
<1>3. CASE Dispatcher
    <2>1. CASE Dispatch \/ DLock
        BY <2>1 DEF Dispatch, DLock, DAt
    <2>2. CASE DTest \/ First \/ AppendJob \/ Increment
        BY <2>2 DEF DTest, First, AppendJob, Increment, DAt
    <2>3. CASE DUnlock
        BY <2>3 DEF DUnlock, DAt
    <2>4. CASE AppendNull
        BY <2>4 DEF AppendNull, Crash
    <2> QED BY <1>3, <2>1, <2>2, <2>3, <2>4 DEF Dispatcher
<1> QED BY <1>1, <1>2, <1>3 DEF Next

(* At most one thread in a section is a cardinality of at most one.         *)
LEMMA LockIsEnough == LockInv => MutualExclusion
<1> SUFFICES ASSUME LockInv, ~disturbed PROVE InSection <= 1
    BY DEF MutualExclusion
<1> DEFINE S == {w \in Workers : pc[w] \in WorkerSection}
           d == IF dpc \in DispatcherSection THEN 1 ELSE 0
<1>1. InSection = Cardinality(S) + d
    BY DEF InSection, WorkerSection, DispatcherSection
<1>2. CASE S = {}
    <2>1. Cardinality(S) = 0
        BY <1>2, FS_EmptySet
    <2> QED BY <1>1, <2>1
<1>3. CASE S # {}
    <2>1. PICK w \in Workers : w \in S
        BY <1>3
    <2>2. S = {w} /\ d = 0
        BY <2>1 DEF LockInv
    <2>3. Cardinality(S) = 1
        BY <2>2, FS_Singleton
    <2> QED BY <1>1, <2>2, <2>3
<1> QED BY <1>2, <1>3

(* Until the second unlock frees a mutex that somebody holds, at most one   *)
(* of the workers and the dispatcher is between lock and unlock.            *)
THEOREM ExclusionCorrect == Spec => []MutualExclusion
<1>1. Init => LockInv
    BY DEF Init, LockInv, WorkerSection, DispatcherSection
<1> QED BY <1>1, InitTypes, StepTypes, StepLock, LockIsEnough, PTL DEF Spec
-----------------------------------------------------------------------------
(* The work queue.                                                          *)

(* The list as dispatch leaves it, and as it is in the middle of dispatch:  *)
(* when the job is linked but not counted, and when a worker has counted    *)
(* its job out but not unlinked it.                                         *)
ListInv ==
    /\ qsize >= 0
    /\ qsize > 0 /\ (\A w \in Workers : pc[w] # "unlink") => qhead = Taken + 1
    /\ qsize > 0 /\ dpc # "increment" => qtail = Added
    /\ \A j \in Taken + 1 .. Added - 1 : next[j] = j + 1
    /\ dpc = "first" => qsize = 0
    /\ dpc = "append" => qsize > 0
    /\ dpc = "increment" =>
          /\ qtail = job
          /\ qsize = 0 => qhead = job
          /\ qsize > 0 => next[Added] = job

(* What a worker in the middle of do_work knows, and the job it has removed *)
(* and not started yet.                                                     *)
HasJob(w) == pc[w] \in {"unlink", "unlock", "run"}

WorkInv ==
    /\ \A w \in Workers :
          /\ pc[w] = "take" => qsize > 0
          /\ pc[w] = "decrement" => qsize > 0 /\ cur[w] = Taken + 1
          /\ pc[w] = "unlink" => cur[w] = Taken /\ (qsize > 0 => next[Taken] = Taken + 1)
          /\ HasJob(w) => cur[w] \in 1 .. Taken /\ \A i \in DOMAIN ran : ran[i] # cur[w]
    /\ \A v, w \in Workers : HasJob(v) /\ HasJob(w) /\ cur[v] = cur[w] => v = w
    /\ \A i \in DOMAIN ran : ran[i] \in 1 .. Taken
    /\ StartedOnce

QueueInv == ~disturbed => ~crashed /\ ListInv /\ WorkInv

(* A worker's steps outside the queue move its pc between places that have  *)
(* nothing to do with it, or from one that has.                             *)
LEMMA PassingKeepsQueue ==
    ASSUME TypeInv, ListInv, WorkInv, NEW w \in Workers, NEW label,
           pc' = [pc EXCEPT ![w] = label],
           UNCHANGED <<poolVars, dispVars, ran>>,
           label \in {"unlock", "run"} => cur'[w] = cur[w] /\ pc[w] \in {"unlock", "run"},
           \A v \in Workers \ {w} : cur'[v] = cur[v],
           pc[w] # "unlink",
           label = "take" => qsize > 0,
           label \notin {"decrement", "unlink"}
    PROVE  ListInv' /\ WorkInv'
<1>1. /\ pc'[w] = label /\ \A v \in Workers \ {w} : pc'[v] = pc[v]
      /\ Taken' = Taken /\ Added' = Added
    BY DEF TypeInv, TypeOK, Taken, Added, poolVars, dispVars
<1>2. UNCHANGED <<qsize, qhead, qtail, next, dpc, job, ran>>
    BY DEF poolVars, dispVars
<1>3. ListInv'
    BY <1>1, <1>2 DEF ListInv
<1>4. \A v \in Workers : HasJob(v)' => HasJob(v) /\ cur'[v] = cur[v]
    BY <1>1 DEF HasJob
<1>5. WorkInv'
    BY <1>1, <1>2, <1>4 DEF WorkInv, StartedOnce
<1> QED BY <1>3, <1>5

(* What holding the mutex means to a worker, and to the dispatcher.         *)
LEMMA Alone ==
    ASSUME LockInv, ~disturbed
    PROVE  /\ \A w \in Workers : pc[w] \in WorkerSection =>
                /\ dpc \notin DispatcherSection
                /\ \A v \in Workers \ {w} : pc[v] \notin WorkerSection
           /\ dpc \in DispatcherSection => \A w \in Workers : pc[w] \notin WorkerSection
BY DEF LockInv

(* The numbers add up.                                                      *)
LEMMA Numbers ==
    ASSUME TypeInv
    PROVE  /\ qsize \in Int /\ Added \in Nat /\ Added <= Jobs /\ Taken \in Int
           /\ Taken = Added - qsize /\ job \in Nat /\ Jobs \in Nat
           /\ dpc # "unlock" => Added = job - 1
           /\ dpc = "unlock" => Added = job
           /\ \A j \in 1 .. Added : j \in Job /\ j # NoJob
BY JobAssumption DEF TypeInv, TypeOK, Added, Taken, Job

(* A worker takes the first job: while it holds the mutex nobody else looks *)
(* at the queue.                                                            *)
LEMMA TakingKeepsQueue ==
    ASSUME TypeInv, LockInv, ~disturbed, ListInv, WorkInv, NEW w \in Workers,
           Take(w) \/ Decrement(w) \/ Unlink(w)
    PROVE  ListInv' /\ WorkInv'
<1>0. /\ pc = [v \in Workers |-> pc[v]] /\ cur = [v \in Workers |-> cur[v]]
      /\ qsize \in Int /\ Added \in Nat /\ Taken = Added - qsize /\ Taken \in Int
    BY Numbers DEF TypeInv, TypeOK
<1>1. /\ dpc \notin DispatcherSection /\ dpc' = dpc /\ job' = job
      /\ \A v \in Workers \ {w} : pc[v] \notin WorkerSection
      /\ Added' = Added /\ UNCHANGED ran
    <2>1. pc[w] \in WorkerSection
        BY DEF Take, Decrement, Unlink, At, WorkerSection
    <2>2. UNCHANGED <<dpc, job, ran>>
        BY DEF Take, Decrement, Unlink, dispVars
    <2> QED BY <2>1, <2>2, Alone DEF Added
<1>2. /\ dpc \notin {"test", "first", "append", "increment", "unlock"}
      /\ \A v \in Workers \ {w} :
            pc[v] \notin {"test", "release", "take", "decrement", "unlink", "unlock"}
    BY <1>1 DEF DispatcherSection, WorkerSection
<1>3. CASE Take(w)
    <2>1. /\ pc[w] = "take" /\ pc'[w] = "decrement" /\ cur'[w] = qhead
          /\ \A v \in Workers \ {w} : pc'[v] = pc[v] /\ cur'[v] = cur[v]
          /\ UNCHANGED <<qsize, qhead, qtail, next>>
        BY <1>0, <1>3 DEF Take, At, Goto, poolVars
    <2>2. Taken' = Taken
        BY <1>1, <2>1 DEF Taken
    <2>3. qsize > 0 /\ qhead = Taken + 1
        BY <1>2, <2>1 DEF WorkInv, ListInv
    <2>4. ListInv'
        BY <1>1, <1>2, <2>1, <2>2, <2>3 DEF ListInv
    <2>5. \A v \in Workers : HasJob(v)' <=> HasJob(v) /\ v # w
        BY <2>1 DEF HasJob
    <2>6. WorkInv'
        BY <1>1, <1>2, <2>1, <2>2, <2>3, <2>5 DEF WorkInv, StartedOnce
    <2> QED BY <2>4, <2>6
<1>4. CASE Decrement(w)
    <2>1. /\ pc[w] = "decrement" /\ pc'[w] = "unlink" /\ qsize' = qsize - 1
          /\ \A v \in Workers \ {w} : pc'[v] = pc[v]
          /\ UNCHANGED <<qhead, qtail, next, cur>>
        BY <1>0, <1>4 DEF Decrement, At, Goto
    <2>2. qsize > 0 /\ cur[w] = Taken + 1 /\ Taken' = Taken + 1
        BY <1>0, <1>1, <2>1 DEF WorkInv, Taken
    <2>3. /\ qsize' >= 0 /\ (qsize' > 0 => qsize > 0)
          /\ \A j : j \in Taken' + 1 .. Added - 1 => j \in Taken + 1 .. Added - 1
        BY <1>0, <2>1, <2>2
    <2>4. ListInv'
        BY <1>1, <1>2, <2>1, <2>3 DEF ListInv
    <2>5. qsize' > 0 => next[Taken'] = Taken' + 1
        <3>1. qsize' > 0 => Taken' \in Taken + 1 .. Added - 1
            BY <1>0, <2>1, <2>2
        <3> QED BY <3>1 DEF ListInv
    <2>6. HasJob(w)' /\ \A v \in Workers \ {w} : HasJob(v)' = HasJob(v)
        BY <2>1 DEF HasJob
    <2>7. \A v \in Workers \ {w} : HasJob(v) => cur[v] \in 1 .. Taken'
        BY <1>0, <2>2 DEF WorkInv
    <2>8. /\ \A i \in DOMAIN ran : ran[i] \in 1 .. Taken /\ ran[i] # cur[w]
          /\ \A i \in DOMAIN ran : ran[i] \in 1 .. Taken'
          /\ \A v \in Workers \ {w} : HasJob(v) => cur[v] # cur[w]
        BY <1>0, <2>2 DEF WorkInv
    <2>9. cur[w] \in 1 .. Taken'
        <3>1. qsize <= Added
            BY DEF TypeInv
        <3> QED BY <1>0, <2>2, <3>1
    <2>10. WorkInv'
        BY <1>1, <1>2, <2>1, <2>2, <2>5, <2>6, <2>7, <2>8, <2>9 DEF WorkInv, StartedOnce
    <2> QED BY <2>4, <2>10
<1>5. CASE Unlink(w)
    <2>1. /\ pc[w] = "unlink" /\ pc'[w] = "unlock"
          /\ \A v \in Workers \ {w} : pc'[v] = pc[v]
          /\ qsize # 0 => qhead' = next[cur[w]] /\ qtail' = qtail
          /\ UNCHANGED <<qsize, next, cur>>
        BY <1>0, <1>5 DEF Unlink, At, Goto
    <2>2. Taken' = Taken
        BY <1>1, <2>1 DEF Taken
    <2>3. qsize > 0 => qhead' = Taken + 1
        BY <1>0, <2>1 DEF WorkInv
    <2>4. ListInv'
        BY <1>0, <1>1, <1>2, <2>1, <2>2, <2>3 DEF ListInv
    <2>5. \A v \in Workers : HasJob(v)' = HasJob(v)
        BY <2>1 DEF HasJob
    <2>6. WorkInv'
        BY <1>1, <1>2, <2>1, <2>2, <2>5 DEF WorkInv, StartedOnce
    <2> QED BY <2>4, <2>6
<1> QED BY <1>3, <1>4, <1>5

(* A job that is started was not started before.                            *)
LEMMA RunKeepsQueue ==
    ASSUME TypeInv, ListInv, WorkInv, NEW w \in Workers, Run(w)
    PROVE  ListInv' /\ WorkInv'
<1> DEFINE j == cur[w]
<1>1. /\ pc[w] = "run" /\ pc'[w] = "busy" /\ cur' = cur /\ j \in Job
      /\ \A v \in Workers \ {w} : pc'[v] = pc[v]
      /\ ran' = Append(ran, j) /\ ran \in Seq(Job)
      /\ UNCHANGED <<qsize, qhead, qtail, next, dpc, job>>
    BY DEF Run, At, Goto, TypeInv, TypeOK, poolVars, dispVars
<1>2. Taken' = Taken /\ Added' = Added
    BY <1>1 DEF Taken, Added
<1>3. ListInv'
    BY <1>1, <1>2 DEF ListInv
<1>4. /\ HasJob(w) /\ ~HasJob(w)'
      /\ \A v \in Workers \ {w} : HasJob(v)' = HasJob(v)
    BY <1>1 DEF HasJob
<1>5. j \in 1 .. Taken /\ \A i \in DOMAIN ran : ran[i] # j
    BY <1>4 DEF WorkInv
<1>6. /\ Len(ran) \in Nat /\ DOMAIN ran = 1 .. Len(ran)
      /\ DOMAIN ran' = 1 .. Len(ran) + 1 /\ ran'[Len(ran) + 1] = j
      /\ \A i \in 1 .. Len(ran) : ran'[i] = ran[i]
    <2> HIDE DEF j
    <2>1. ran' \in Seq(Job) /\ Len(ran') = Len(ran) + 1
        BY <1>1, AppendProperties
    <2> QED BY <1>1, <2>1, AppendProperties
<1>7. \A i \in DOMAIN ran' : ran'[i] = j \/ \E k \in DOMAIN ran : ran'[i] = ran[k]
    <2> HIDE DEF j
    <2> QED BY <1>6
<1>8. StartedOnce'
    <2> HIDE DEF j
    <2> SUFFICES ASSUME NEW a \in DOMAIN ran', NEW b \in DOMAIN ran', ran'[a] = ran'[b]
                 PROVE  a = b
        BY DEF StartedOnce
    <2>1. /\ a \in DOMAIN ran \/ a = Len(ran) + 1
          /\ b \in DOMAIN ran \/ b = Len(ran) + 1
        BY <1>6
    <2> QED BY <1>5, <1>6, <2>1 DEF WorkInv, StartedOnce
<1>9. \A v \in Workers \ {w} : HasJob(v) => cur[v] # j
    BY <1>4 DEF WorkInv
<1>10. WorkInv'
    <2> HIDE DEF j
    <2>1. \A i \in DOMAIN ran' : ran'[i] \in 1 .. Taken
        BY <1>5, <1>7 DEF WorkInv
    <2>2. ASSUME NEW v \in Workers, HasJob(v)'
          PROVE  cur[v] \in 1 .. Taken /\ \A i \in DOMAIN ran' : ran'[i] # cur[v]
        <3>1. v # w /\ HasJob(v)
            BY <1>4, <2>2
        <3> QED BY <1>7, <1>9, <3>1 DEF WorkInv
    <2> QED BY <1>1, <1>2, <1>4, <1>8, <2>1, <2>2 DEF WorkInv
<1> QED BY <1>3, <1>10

(* Every other step of a worker passes the queue by, and none follows a     *)
(* null pointer.                                                            *)
LEMMA WorkerKeepsQueue ==
    ASSUME TypeInv, LockInv, ~disturbed, ~crashed, ListInv, WorkInv, NEW w \in Workers,
           Worker(w) \/ Return(w) \/ SpuriousWakeup(w)
    PROVE  ~crashed' /\ ListInv' /\ WorkInv'
<1>0. /\ pc = [v \in Workers |-> pc[v]] /\ cur = [v \in Workers |-> cur[v]]
      /\ qsize \in Int
    BY DEF TypeInv, TypeOK
<1>1. CASE Lock(w) \/ Test(w) \/ Release(w) \/ CondWait(w) \/ UnlockAgain(w)
    <2>1. /\ \E label \in {"test", "release", "take", "wait", "unlock_again", "woken"} :
                 pc' = [pc EXCEPT ![w] = label] /\ (label = "take" => qsize > 0)
          /\ pc[w] # "unlink" /\ UNCHANGED <<poolVars, dispVars, ran, cur, crashed>>
        <3>1. qsize >= 0
            BY DEF ListInv
        <3> QED BY <1>0, <1>1, <3>1 DEF Lock, Test, Release, CondWait, UnlockAgain, At, Goto
    <2> QED BY <2>1, PassingKeepsQueue
<1>2. CASE Unlock(w)
    <2>1. /\ \E label \in {"run"} : pc' = [pc EXCEPT ![w] = label]
          /\ pc[w] = "unlock"
          /\ UNCHANGED <<poolVars, dispVars, ran, cur, crashed>>
        BY <1>2 DEF Unlock, At, Goto
    <2> QED BY <2>1, PassingKeepsQueue
<1>3. CASE SpuriousWakeup(w)
    <2>1. pc' = [pc EXCEPT ![w] = "woken"] /\ pc[w] = "woken"
        BY <1>0, <1>3 DEF SpuriousWakeup, At
    <2> QED BY <1>3, <2>1, PassingKeepsQueue DEF SpuriousWakeup
<1>4. CASE Return(w)
    <2>1. /\ \E label \in {"lock"} : pc' = [pc EXCEPT ![w] = label]
          /\ pc[w] = "busy"
          /\ \A v \in Workers \ {w} : cur'[v] = cur[v]
          /\ UNCHANGED <<poolVars, dispVars, ran, crashed>>
        BY <1>0, <1>4 DEF Return, At, Goto
    <2> QED BY <2>1, PassingKeepsQueue
<1>5. CASE Take(w) \/ Decrement(w) \/ Unlink(w)
    BY <1>5, TakingKeepsQueue DEF Take, Decrement, Unlink
<1>6. CASE Run(w)
    BY <1>6, RunKeepsQueue DEF Run
<1>7. CASE UnlinkNull(w) \/ RunNull(w)
    <2>1. HasJob(w) /\ cur[w] = NoJob
        BY <1>7 DEF UnlinkNull, RunNull, At, HasJob
    <2>2. cur[w] \in 1 .. Added
        <3>1. cur[w] \in 1 .. Taken /\ qsize >= 0
            BY <2>1 DEF WorkInv, ListInv
        <3> QED BY <3>1, Numbers
    <2> QED BY <2>1, <2>2, Numbers
<1> QED BY <1>1, <1>2, <1>3, <1>4, <1>5, <1>6, <1>7 DEF Worker

(* dispatch puts the job behind the others: nobody takes one meanwhile.     *)
LEMMA DispatcherKeepsQueue ==
    ASSUME TypeInv, LockInv, ~disturbed, ~crashed, ListInv, WorkInv, Dispatcher
    PROVE  ~crashed' /\ ListInv' /\ WorkInv'
<1>0. /\ next = [j \in Job |-> next[j]] /\ Job = 1 .. Jobs /\ Jobs \in Nat
      /\ qsize \in Int /\ Added \in Nat /\ Added <= Jobs
      /\ Taken = Added - qsize /\ Taken \in Int /\ job \in Nat
      /\ dpc # "unlock" => Added = job - 1
      /\ dpc = "unlock" => Added = job
      /\ qsize <= Added
    BY Numbers, JobAssumption DEF TypeInv, TypeOK, Job
<1>1. /\ UNCHANGED <<pc, cur, ran>>
      /\ \A w \in Workers : HasJob(w)' = HasJob(w)
    BY DEF Dispatcher, Dispatch, DLock, DTest, First, AppendJob, AppendNull, Crash,
           Increment, DUnlock, workVars, HasJob
<1>2. dpc \in DispatcherSection =>
        \A w \in Workers : pc[w] \notin {"take", "decrement", "unlink"}
    BY Alone DEF WorkerSection
(* As long as no job is removed the workers' knowledge stays true.          *)
<1>a. ASSUME Taken' = Taken, ~crashed' ,
             (qsize' = qsize /\ next' = next) \/ dpc \in DispatcherSection
      PROVE  ~crashed' /\ WorkInv'
    <2>1. CASE qsize' = qsize /\ next' = next
        BY <1>1, <1>a, <2>1 DEF WorkInv, StartedOnce
    <2>2. CASE dpc \in DispatcherSection
        BY <1>1, <1>2, <1>a, <2>2 DEF WorkInv, StartedOnce
    <2> QED BY <1>a, <2>1, <2>2
<1>3. CASE Dispatch \/ DLock \/ DTest
    <2>1. /\ dpc' \in {"lock", "test", "first", "append"} /\ dpc \in {"idle", "lock", "test"}
          /\ dpc' = "first" => qsize = 0
          /\ dpc' = "append" => qsize # 0
          /\ UNCHANGED <<qsize, qhead, qtail, next, job, crashed>>
        BY <1>3 DEF Dispatch, DLock, DTest, DAt, poolVars
    <2>2. Added' = Added /\ Taken' = Taken
        BY <2>1 DEF Added, Taken
    <2>3. /\ qsize' >= 0 /\ (dpc' = "append" => qsize' > 0)
          /\ \A j \in Taken' + 1 .. Added' - 1 : next'[j] = j + 1
        <3>1. qsize >= 0 /\ \A j \in Taken + 1 .. Added - 1 : next[j] = j + 1
            BY DEF ListInv
        <3>2. qsize # 0 => qsize > 0
            BY <1>0, <3>1
        <3> QED BY <2>1, <2>2, <3>1, <3>2
    <2>4. /\ qsize' > 0 /\ (\A w \in Workers : pc'[w] # "unlink") => qhead' = Taken' + 1
          /\ qsize' > 0 /\ dpc' # "increment" => qtail' = Added'
        BY <1>1, <2>1, <2>2 DEF ListInv
    <2>5. ListInv'
        BY <2>1, <2>3, <2>4 DEF ListInv
    <2> QED BY <1>a, <2>1, <2>2, <2>5
<1>4. CASE First
    <2>1. /\ dpc = "first" /\ dpc' = "increment" /\ qhead' = job /\ qtail' = job
          /\ UNCHANGED <<qsize, next, job, crashed>>
        BY <1>4 DEF First, DAt
    <2>2. Added' = Added /\ Taken' = Taken /\ qsize = 0
        BY <2>1 DEF Added, Taken, ListInv
    <2>3. /\ qsize' = 0 /\ ~(qsize' > 0) /\ qsize' >= 0
          /\ \A j \in Taken' + 1 .. Added' - 1 : next'[j] = j + 1
        BY <2>1, <2>2 DEF ListInv
    <2>4. ListInv'
        BY <2>1, <2>3 DEF ListInv
    <2> QED BY <1>a, <2>1, <2>2, <2>4
<1>5. CASE AppendJob
    <2>1. /\ dpc = "append" /\ dpc' = "increment" /\ qtail' = job
          /\ next' = [next EXCEPT ![qtail] = job]
          /\ UNCHANGED <<qsize, qhead, job, crashed>>
        BY <1>5 DEF AppendJob, DAt
    <2>2. Added' = Added /\ Taken' = Taken /\ qsize > 0 /\ qtail = Added
        BY <2>1 DEF Added, Taken, ListInv
    <2>3. /\ Added \in Job /\ next'[Added] = job
          /\ \A j \in Job : j # Added => next'[j] = next[j]
        BY <1>0, <2>1, <2>2
    <2>4. \A j \in Taken + 1 .. Added - 1 : next'[j] = j + 1
        <3> TAKE j \in Taken + 1 .. Added - 1
        <3>1. j \in Job /\ j # Added
            BY <1>0
        <3> QED BY <2>3, <3>1 DEF ListInv
    <2>5. ListInv'
        BY <1>0, <1>1, <2>1, <2>2, <2>3, <2>4 DEF ListInv
    <2> QED BY <1>a, <2>1, <2>2, <2>5 DEF DispatcherSection
<1>6. CASE AppendNull
    <2>1. dpc = "append" /\ qtail = NoJob
        BY <1>6 DEF AppendNull, DAt
    <2>2. qtail = Added /\ qsize > 0
        BY <2>1 DEF ListInv
    <2>3. Added \in 1 .. Added
        BY <1>0, <2>2
    <2> QED BY <2>1, <2>2, <2>3, Numbers
<1>7. CASE Increment
    <2>1. /\ dpc = "increment" /\ dpc' = "unlock" /\ qsize' = qsize + 1
          /\ UNCHANGED <<qhead, qtail, next, job, crashed>>
        BY <1>7 DEF Increment, DAt
    <2>2. Added' = Added + 1 /\ Added' = job /\ Taken' = Taken
        BY <1>0, <2>1 DEF Added, Taken
    <2>3. /\ qtail = job /\ (qsize = 0 => qhead = job) /\ (qsize > 0 => next[Added] = job)
          /\ qsize >= 0
        BY <2>1 DEF ListInv
    <2>4. \A j \in Taken + 1 .. Added : next[j] = j + 1
        <3> TAKE j \in Taken + 1 .. Added
        <3>1. CASE j = Added
            BY <1>0, <2>2, <2>3, <3>1
        <3>2. CASE j # Added
            <4>1. j \in Taken + 1 .. Added - 1
                BY <1>0, <3>2
            <4> QED BY <4>1 DEF ListInv
        <3> QED BY <3>1, <3>2
    <2>5. \A w \in Workers : pc[w] # "unlink"
        BY <1>2, <2>1 DEF DispatcherSection
    <2>6. qhead = Taken + 1
        <3>1. CASE qsize = 0
            BY <1>0, <2>1, <2>3, <3>1
        <3>2. CASE qsize > 0
            BY <2>5, <3>2 DEF ListInv
        <3> QED BY <1>0, <2>3, <3>1, <3>2
    <2>7. Added' - 1 = Added /\ qsize' >= 0
        BY <1>0, <2>1, <2>2, <2>3
    <2>8. ListInv'
        BY <2>1, <2>2, <2>3, <2>4, <2>6, <2>7 DEF ListInv
    <2> QED BY <1>a, <2>1, <2>2, <2>8 DEF DispatcherSection
<1>8. CASE DUnlock
    <2>1. /\ dpc = "unlock" /\ dpc' = "idle" /\ job' = job + 1
          /\ UNCHANGED <<qsize, qhead, qtail, next, crashed>>
        BY <1>8 DEF DUnlock, DAt, poolVars
    <2>2. Added' = Added /\ Taken' = Taken
        BY <1>0, <2>1 DEF Added, Taken
    <2>3. ListInv'
        BY <1>1, <2>1, <2>2 DEF ListInv
    <2> QED BY <1>a, <2>1, <2>2, <2>3
<1> QED BY <1>3, <1>4, <1>5, <1>6, <1>7, <1>8 DEF Dispatcher

(* Once disturbed, always disturbed: so the invariant need only hold until. *)
LEMMA StepQueue == TypeInv /\ LockInv /\ QueueInv /\ [Next]_vars => QueueInv'
<1> SUFFICES ASSUME TypeInv, LockInv, QueueInv, [Next]_vars, ~disturbed' PROVE QueueInv'
    BY DEF QueueInv
<1>1. CASE UNCHANGED vars
    BY <1>1 DEF vars, poolVars, workVars, dispVars, QueueInv, ListInv, WorkInv,
                StartedOnce, HasJob, Taken, Added
<1>2. CASE Next
    <2>1. ~disturbed
        <3>1. disturbed' = disturbed \/ disturbed' = (disturbed \/ qlock)
            BY <1>2 DEF Next, Dispatcher, Dispatch, DLock, DTest, First, AppendJob,
                    AppendNull, Increment, DUnlock, Worker, Lock, Test, Release,
                    CondWait, UnlockAgain, SpuriousWakeup, Take, Decrement, Unlink,
                    UnlinkNull, Unlock, Run, RunNull, Return, Crash
        <3> QED BY <3>1
    <2> QED BY <1>2, <2>1, WorkerKeepsQueue, DispatcherKeepsQueue DEF Next, QueueInv
<1> QED BY <1>1, <1>2

(* The queue starts empty.                                                  *)
LEMMA InitQueue == Init => QueueInv
<1> SUFFICES ASSUME Init PROVE ~crashed /\ ListInv /\ WorkInv
    BY DEF QueueInv
<1>1. Added = 0 /\ Taken = 0 /\ qsize = 0 /\ dpc = "idle" /\ DOMAIN ran = {} /\ ~crashed
    BY DEF Init, Added, Taken
<1>2. \A w \in Workers : pc[w] \in {"lock", "woken"} /\ ~HasJob(w)
    BY DEF Init, HasJob
<1> QED BY <1>1, <1>2 DEF ListInv, WorkInv, StartedOnce

(* The fields of the pool keep their types; and until the second unlock     *)
(* frees a mutex in use, no thread follows a null pointer and no job is     *)
(* started twice.                                                           *)
THEOREM QueueCorrect == Spec => []QueueSound
<1>1. Init => LockInv
    BY DEF Init, LockInv, WorkerSection, DispatcherSection
<1>2. TypeInv /\ QueueInv => QueueSound
    BY DEF TypeInv, QueueInv, WorkInv, QueueSound
<1> QED BY <1>1, <1>2, InitTypes, StepTypes, StepLock, InitQueue, StepQueue, PTL DEF Spec
=============================================================================
