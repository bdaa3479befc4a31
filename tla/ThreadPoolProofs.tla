-------------------------- MODULE ThreadPoolProofs --------------------------
(***************************************************************************)
(* What ThreadPool promises for every number of threads and every set of   *)
(* jobs.  PoolInv is inductive; the invariants that the runs check follow  *)
(* from it, and with it every step of the pool is a step of JobPool.       *)
(***************************************************************************)
EXTENDS ThreadPool, FiniteSetTheorems, FunctionTheorems, TLAPS

\* The inductive invariant.  TypeOK needs ActiveCount (active - 1 is a
\* natural number because the worker that decrements is counted), ActiveCount
\* needs the types, DestructorDrains needs Lifecycle.
PoolInv ==
    /\ TypeOK
    /\ ActiveCount
    /\ OnePlacePerJob
    /\ Lifecycle
    /\ ShutdownReachesAll

\* The set of workers is a nonempty finite initial segment of the naturals.
LEMMA WorkersFinite ==
    /\ Width \in Nat \ {0}
    /\ IsFiniteSet(Workers)
    /\ Cardinality(Workers) = Width
<1>1. Width \in Nat \ {0}
  BY PoolAssumption DEF Width
<1>2. QED
  BY <1>1, FS_Interval DEF Workers

\* Any set of workers is finite: At(pc), Busy.
LEMMA BusyFinite ==
    ASSUME NEW S \in SUBSET Workers
    PROVE  IsFiniteSet(S) /\ Cardinality(S) \in Nat
BY WorkersFinite, FS_Subset, FS_CardinalityType

\* A worker that moves leaves one set At(...) and joins another.
LEMMA GoMoves ==
    ASSUME TypeOK, NEW w \in Workers, NEW pc \in WorkerPC, Go(w, pc)
    PROVE  /\ wpc' \in [Workers -> WorkerPC]
           /\ wpc'[w] = pc
           /\ \A v \in Workers \ {w} : wpc'[v] = wpc[v]
           /\ At(pc)' = At(pc) \cup {w}
           /\ \A p : p # pc => At(p)' = At(p) \ {w}
BY DEF TypeOK, Go, At

\* Some worker is between its pop and its decrement, so active_ is positive.
LEMMA ActivePositive ==
    ASSUME TypeOK, ActiveCount, NEW w \in Busy
    PROVE  active - 1 \in Nat
<1>1. Busy \in SUBSET Workers
  BY DEF Busy, At
<1>2. IsFiniteSet(Busy) /\ Cardinality(Busy) \in Nat
  BY <1>1, BusyFinite
<1>3. Cardinality(Busy) # 0
  BY <1>2, FS_EmptySet
<1> QED
  BY <1>2, <1>3 DEF ActiveCount
-----------------------------------------------------------------------------
\* Types.

\* The pool starts well typed.
LEMMA InitTypeOK == Init => TypeOK
<1> SUFFICES ASSUME Init PROVE TypeOK
  OBVIOUS
<1>1. q \in Seq(Jobs) /\ active \in Nat /\ done \in SUBSET Jobs
  BY DEF Init
<1>2. wpc \in [Workers -> WorkerPC] /\ job \in [Workers -> Jobs \cup {NoJob}]
  BY DEF Init, WorkerPC
<1>3. stop \in BOOLEAN
  BY DEF Init
<1>4. opc \in OwnerPC
  BY DEF Init, OwnerPC
<1> QED
  BY <1>1, <1>2, <1>3, <1>4 DEF TypeOK

\* Every step keeps the types; Finish needs a positive active_ for it.
LEMMA NextTypeOK == TypeOK /\ ActiveCount /\ OnePlacePerJob /\ [Next]_vars => TypeOK'
<1> SUFFICES ASSUME TypeOK, ActiveCount, OnePlacePerJob, [Next]_vars
             PROVE  TypeOK'
  OBVIOUS
<1> USE DEF TypeOK
<1>1. ASSUME NEW w \in Workers, Sleep(w) \/ Exit(w)
      PROVE  TypeOK'
  BY <1>1, GoMoves DEF Sleep, Exit, WorkerPC
<1>2. ASSUME NEW w \in Workers, Take(w)
      PROVE  TypeOK'
  <2>1. Head(q) \in Jobs /\ Tail(q) \in Seq(Jobs)
    BY <1>2 DEF Take
  <2>2. wpc' \in [Workers -> WorkerPC]
    BY <1>2, GoMoves DEF Take, WorkerPC
  <2>3. job' \in [Workers -> Jobs \cup {NoJob}]
    BY <1>2, <2>1 DEF Take
  <2>4. active' \in Nat
    BY <1>2 DEF Take
  <2> QED
    BY <1>2, <2>1, <2>2, <2>3, <2>4 DEF Take
<1>3. ASSUME NEW w \in Workers, Run(w)
      PROVE  TypeOK'
  <2>1. job[w] \in Jobs
    BY <1>3 DEF Run, OnePlacePerJob, Running, At
  <2>2. wpc' \in [Workers -> WorkerPC]
    BY <1>3, GoMoves DEF Run, WorkerPC
  <2> QED
    BY <1>3, <2>1, <2>2 DEF Run
<1>4. ASSUME NEW w \in Workers, Finish(w)
      PROVE  TypeOK'
  <2>1. active - 1 \in Nat
    BY <1>4, ActivePositive DEF Finish, Busy, At
  <2>2. wpc' \in [Workers -> WorkerPC]
    BY <1>4, GoMoves DEF Finish, WorkerPC
  <2> QED
    BY <1>4, <2>1, <2>2 DEF Finish
<1>5. ASSUME NEW w \in Workers, NotifyDone(w)
      PROVE  TypeOK'
  <2>1. wpc' \in [Workers -> WorkerPC]
    BY <1>5, GoMoves DEF NotifyDone, WorkerPC
  <2> QED
    BY <1>5, <2>1 DEF NotifyDone, OwnerPC
<1>6. ASSUME NEW w \in Workers, Spawn(w)
      PROVE  TypeOK'
  <2>1. wpc' \in [Workers -> WorkerPC]
    BY <1>6, GoMoves DEF Spawn, WorkerPC
  <2> QED
    BY <1>6, <2>1 DEF Spawn, OwnerPC
<1>7. ASSUME NotifyOne
      PROVE  TypeOK'
  <2>1. wpc' \in [Workers -> WorkerPC]
    BY <1>7, GoMoves DEF NotifyOne, At, WorkerPC
  <2> QED
    BY <1>7, <2>1 DEF NotifyOne, OwnerPC
<1>8. CASE WaitIdleSleep \/ WaitIdleReturn \/ Join \/ CallWaitIdle \/ SpuriousOwner
  BY <1>8 DEF WaitIdleSleep, WaitIdleReturn, Join, CallWaitIdle, SpuriousOwner, OwnerPC
<1>9. CASE NotifyAll
  <2>1. wpc' \in [Workers -> WorkerPC]
    BY <1>9 DEF NotifyAll, WorkerPC
  <2> QED
    BY <1>9, <2>1 DEF NotifyAll, OwnerPC
<1>10. ASSUME NEW j \in Jobs, Submit(j)
       PROVE  TypeOK'
  BY <1>10 DEF Submit, OwnerPC
<1>11. CASE Destroy
  <2>1. stop' \in BOOLEAN
    BY <1>11 DEF Destroy
  <2>2. opc' \in OwnerPC
    BY <1>11 DEF Destroy, OwnerPC
  <2> QED
    BY <1>11, <2>1, <2>2 DEF Destroy
<1>12. ASSUME NEW w \in Workers, SpuriousWorker(w)
       PROVE  TypeOK'
  BY <1>12, GoMoves DEF SpuriousWorker, WorkerPC
<1>13. CASE UNCHANGED vars
  BY <1>13 DEF vars
<1> QED
  BY <1>1, <1>2, <1>3, <1>4, <1>5, <1>6, <1>7, <1>8, <1>9, <1>10, <1>11,
     <1>12, <1>13
  DEF Next, WorkerStep, OwnerStep, OwnerCall, Spurious, Gone
-----------------------------------------------------------------------------
\* active_ counts the busy workers.

\* Before any worker is spawned nobody is busy and active_ is 0.
LEMMA InitActiveCount == Init => ActiveCount
<1> SUFFICES ASSUME Init PROVE ActiveCount
  OBVIOUS
<1>1. Busy = {}
  BY DEF Init, Busy, At
<1> QED
  BY <1>1, FS_EmptySet DEF Init, ActiveCount

\* Take counts the worker it makes busy, Finish discounts the one it frees.
LEMMA NextActiveCount == TypeOK /\ ActiveCount /\ [Next]_vars => ActiveCount'
<1> SUFFICES ASSUME TypeOK, ActiveCount, [Next]_vars
             PROVE  ActiveCount'
  OBVIOUS
<1>0. IsFiniteSet(Busy) /\ Cardinality(Busy) \in Nat
  BY BusyFinite DEF Busy, At
<1>1. ASSUME NEW w \in Workers,
             Sleep(w) \/ Exit(w) \/ NotifyDone(w) \/ Spawn(w) \/ SpuriousWorker(w)
      PROVE  ActiveCount'
  <2>1. Busy' = Busy
    <3>1. wpc[w] \notin {"running", "finish"}
      BY <1>1 DEF Sleep, Exit, NotifyDone, Spawn, SpuriousWorker
    <3>2. \E pc \in WorkerPC \ {"running", "finish"} : Go(w, pc)
      BY <1>1 DEF Sleep, Exit, NotifyDone, Spawn, SpuriousWorker, WorkerPC
    <3> QED
      BY <3>1, <3>2, GoMoves DEF Busy, At
  <2> QED
    BY <1>1, <2>1 DEF ActiveCount, Sleep, Exit, NotifyDone, Spawn, SpuriousWorker
<1>2. ASSUME NEW w \in Workers, Take(w)
      PROVE  ActiveCount'
  <2>1. Busy' = Busy \cup {w}
    BY <1>2, GoMoves DEF Take, Busy, WorkerPC
  <2>2. w \notin Busy
    BY <1>2 DEF Take, Busy, At
  <2>3. Cardinality(Busy \cup {w}) = Cardinality(Busy) + 1
    BY <1>0, <2>2, FS_AddElement
  <2> QED
    BY <1>2, <2>1, <2>3 DEF Take, ActiveCount
<1>3. ASSUME NEW w \in Workers, Run(w)
      PROVE  ActiveCount'
  <2>1. Busy' = Busy
    BY <1>3, GoMoves DEF Run, Busy, At, WorkerPC
  <2> QED
    BY <1>3, <2>1 DEF Run, ActiveCount
<1>4. ASSUME NEW w \in Workers, Finish(w)
      PROVE  ActiveCount'
  <2>1. w \in Busy /\ w \notin At("running")
    BY <1>4 DEF Finish, Busy, At
  <2>2. Busy' = Busy \ {w}
    BY <1>4, <2>1, GoMoves DEF Finish, Busy, WorkerPC
  <2>3. Cardinality(Busy \ {w}) = Cardinality(Busy) - 1
    BY <1>0, <2>1, FS_RemoveElement
  <2> QED
    BY <1>4, <2>2, <2>3 DEF Finish, ActiveCount
<1>5. CASE NotifyOne
  <2>1. Busy' = Busy
    <3>1. ASSUME NEW w \in At("asleep"), Go(w, "loop")
          PROVE  Busy' = Busy
      BY <3>1, GoMoves DEF Busy, At, WorkerPC
    <3> QED
      BY <1>5, <3>1 DEF NotifyOne, Busy, At
  <2> QED
    BY <1>5, <2>1 DEF NotifyOne, ActiveCount
<1>6. CASE NotifyAll
  <2>1. Busy' = Busy
    BY <1>6 DEF NotifyAll, Busy, At, TypeOK
  <2> QED
    BY <1>6, <2>1 DEF NotifyAll, ActiveCount
<1>7. ASSUME UNCHANGED <<active, wpc>>
      PROVE  ActiveCount'
  BY <1>7 DEF ActiveCount, Busy, At
<1> QED
  BY <1>1, <1>2, <1>3, <1>4, <1>5, <1>6, <1>7
  DEF Next, vars, WorkerStep, OwnerStep, OwnerCall, Spurious, Gone,
      WaitIdleSleep, WaitIdleReturn, Join, CallWaitIdle, SpuriousOwner, Submit,
      Destroy
-----------------------------------------------------------------------------
\* Every job in one place.

\* Popping the front of a queue without repetitions removes that element and
\* leaves a queue without repetitions.
LEMMA PopFront ==
    ASSUME NEW s \in Seq(Jobs), s # <<>>, IsInjective(s)
    PROVE  /\ IsInjective(Tail(s))
           /\ Range(Tail(s)) = Range(s) \ {Head(s)}
           /\ Head(s) \in Range(s)
<1> DEFINE t == Tail(s)
<1>1. Len(s) \in Nat \ {0} /\ DOMAIN s = 1..Len(s) /\ Head(s) = s[1]
  OBVIOUS
<1>2. t \in Seq(Jobs) /\ Len(t) = Len(s) - 1 /\ DOMAIN t = 1..(Len(s) - 1)
  BY <1>1
<1>3. \A i \in DOMAIN t : t[i] = s[i + 1] /\ i + 1 \in DOMAIN s
  BY <1>1, <1>2
<1>4. IsInjective(t)
  BY <1>1, <1>2, <1>3 DEF IsInjective
<1>5. ASSUME NEW x \in Range(t)
      PROVE  x \in Range(s) \ {Head(s)}
  <2>1. PICK i \in DOMAIN t : x = t[i]
    BY <1>5 DEF Range
  <2>2. x = s[i + 1] /\ i + 1 \in DOMAIN s /\ i + 1 # 1
    BY <1>2, <1>3, <2>1
  <2> QED
    BY <1>1, <2>2 DEF Range, IsInjective
<1>6. ASSUME NEW x \in Range(s) \ {Head(s)}
      PROVE  x \in Range(t)
  <2>1. PICK i \in DOMAIN s : x = s[i]
    BY <1>6 DEF Range
  <2>2. i # 1 /\ i - 1 \in DOMAIN t /\ t[i - 1] = s[i]
    BY <1>1, <1>2, <1>6, <2>1
  <2> QED
    BY <2>1, <2>2 DEF Range
<1>7. Head(s) \in Range(s)
  BY <1>1 DEF Range
<1> QED
  BY <1>4, <1>5, <1>6, <1>7

\* Appending a job the queue does not hold keeps it without repetitions.
LEMMA PushBack ==
    ASSUME NEW s \in Seq(Jobs), NEW j \in Jobs, IsInjective(s), j \notin Range(s)
    PROVE  /\ IsInjective(Append(s, j))
           /\ Range(Append(s, j)) = Range(s) \cup {j}
<1> DEFINE t == Append(s, j)
           n == Len(s)
<1>1. n \in Nat /\ DOMAIN s = 1..n
  OBVIOUS
<1>2. DOMAIN t = 1..(n + 1) /\ t[n + 1] = j /\ \A i \in 1..n : t[i] = s[i]
  BY <1>1
<1>3. \A i \in DOMAIN s : s[i] # j
  BY DEF Range
<1>4. IsInjective(t)
  BY <1>1, <1>2, <1>3 DEF IsInjective
<1>5. Range(t) \subseteq Range(s) \cup {j}
  BY <1>1, <1>2 DEF Range
<1>6. ASSUME NEW i \in DOMAIN s PROVE s[i] \in Range(t)
  <2>1. i \in DOMAIN t /\ t[i] = s[i]
    BY <1>1, <1>2
  <2> QED
    BY <2>1 DEF Range
<1>7. j \in Range(t)
  BY <1>1, <1>2 DEF Range
<1> QED
  BY <1>4, <1>5, <1>6, <1>7 DEF Range

\* At the start there is no job to be in two places.
LEMMA InitOnePlace == Init => OnePlacePerJob
<1> SUFFICES ASSUME Init PROVE OnePlacePerJob
  OBVIOUS
<1>1. At("running") = {} /\ Running = {} /\ Queued = {} /\ DOMAIN q = {}
  BY DEF Init, At, Running, Queued, Range
<1> QED
  BY <1>1 DEF OnePlacePerJob, IsInjective

\* Every step leaves a job in the queue, or at one worker, or done.
LEMMA NextOnePlace == TypeOK /\ OnePlacePerJob /\ [Next]_vars => OnePlacePerJob'
<1> SUFFICES ASSUME TypeOK, OnePlacePerJob, [Next]_vars
             PROVE  OnePlacePerJob'
  OBVIOUS
<1>1. ASSUME At("running")' = At("running"),
             \A w \in At("running") : job'[w] = job[w],
             q' = q, done' = done
      PROVE  OnePlacePerJob'
  <2>1. Running' = Running /\ Queued' = Queued
    BY <1>1 DEF Running, Queued
  <2> QED
    BY <1>1, <2>1 DEF OnePlacePerJob
<1>2. ASSUME NEW w \in Workers,
             Sleep(w) \/ Exit(w) \/ Finish(w) \/ NotifyDone(w) \/ Spawn(w) \/ SpuriousWorker(w)
      PROVE  OnePlacePerJob'
  <2>1. w \notin At("running")
    BY <1>2 DEF Sleep, Exit, Finish, NotifyDone, Spawn, SpuriousWorker, At
  <2>2. \E pc \in WorkerPC \ {"running"} : Go(w, pc)
    BY <1>2 DEF Sleep, Exit, Finish, NotifyDone, Spawn, SpuriousWorker, WorkerPC
  <2>3. At("running")' = At("running")
    BY <2>1, <2>2, GoMoves
  <2>4. \A v \in At("running") : job'[v] = job[v]
    BY <1>2, <2>1 DEF Sleep, Exit, Finish, NotifyDone, Spawn, SpuriousWorker, TypeOK, At
  <2> QED
    BY <1>1, <1>2, <2>3, <2>4 DEF Sleep, Exit, Finish, NotifyDone, Spawn, SpuriousWorker
<1>3. ASSUME NEW w \in Workers, Take(w)
      PROVE  OnePlacePerJob'
  <2>1. At("running")' = At("running") \cup {w} /\ w \notin At("running")
    <3>1. At("running")' = At("running") \cup {w}
      BY <1>3, GoMoves DEF Take, WorkerPC
    <3>2. w \notin At("running")
      BY <1>3 DEF Take, At
    <3> QED
      BY <3>1, <3>2
  <2>2. q \in Seq(Jobs) /\ q # <<>> /\ IsInjective(q)
    BY <1>3 DEF Take, TypeOK, OnePlacePerJob
  <2>3. Queued' = Queued \ {Head(q)} /\ Head(q) \in Queued /\ IsInjective(q')
    BY <1>3, <2>2, PopFront DEF Take, Queued
  <2>4. job'[w] = Head(q) /\ \A v \in Workers \ {w} : job'[v] = job[v]
    BY <1>3 DEF Take, TypeOK
  <2>5. Running' = Running \cup {Head(q)}
    BY <2>1, <2>4 DEF Running, At
  <2>6. Head(q) \in Jobs
    BY <2>2
  <2>7. \A v, u \in At("running")' : job'[v] = job'[u] => v = u
    <3>1. \A v \in At("running") : v \in Workers \ {w} /\ job[v] \in Running
      BY <2>1 DEF At, Running
    <3>2. Head(q) \notin Running
      BY <2>3 DEF OnePlacePerJob
    <3> QED
      BY <2>1, <2>4, <3>1, <3>2 DEF OnePlacePerJob
  <2>8. done' = done
    BY <1>3 DEF Take
  <2> QED
    BY <2>3, <2>5, <2>6, <2>7, <2>8 DEF OnePlacePerJob
<1>4. ASSUME NEW w \in Workers, Run(w)
      PROVE  OnePlacePerJob'
  <2>1. At("running")' = At("running") \ {w} /\ w \in At("running")
    <3>1. At("running")' = At("running") \ {w}
      BY <1>4, GoMoves DEF Run, WorkerPC
    <3>2. w \in At("running")
      BY <1>4 DEF Run, At
    <3> QED
      BY <3>1, <3>2
  <2>2. q' = q /\ job' = job /\ done' = done \cup {job[w]}
    BY <1>4 DEF Run
  <2>3. Running' = Running \ {job[w]} /\ job[w] \in Running
    BY <2>1, <2>2 DEF Running, OnePlacePerJob
  <2>4. Queued' = Queued
    BY <2>2 DEF Queued
  <2> QED
    BY <2>1, <2>2, <2>3, <2>4 DEF OnePlacePerJob
<1>5. ASSUME NEW j \in Jobs, Submit(j)
      PROVE  OnePlacePerJob'
  <2>1. q' = Append(q, j) /\ job' = job /\ wpc' = wpc /\ done' = done
    BY <1>5 DEF Submit
  <2>2. j \notin Queued /\ j \notin Running /\ j \notin done
    BY <1>5 DEF Submit, Submitted
  <2>4. Queued' = Queued \cup {j} /\ IsInjective(q')
    BY <2>1, <2>2, PushBack DEF Queued, OnePlacePerJob, TypeOK
  <2>5. Running' = Running /\ At("running")' = At("running")
    BY <2>1 DEF Running, At
  <2> QED
    BY <2>1, <2>2, <2>4, <2>5 DEF OnePlacePerJob
<1>6. CASE NotifyOne
  <2>1. At("running")' = At("running")
    <3>1. ASSUME NEW w \in At("asleep"), Go(w, "loop")
          PROVE  At("running")' = At("running")
      BY <3>1, GoMoves DEF At, WorkerPC
    <3> QED
      BY <1>6, <3>1 DEF NotifyOne, At
  <2> QED
    BY <1>1, <1>6, <2>1 DEF NotifyOne
<1>7. CASE NotifyAll
  <2>1. At("running")' = At("running")
    BY <1>7 DEF NotifyAll, At, TypeOK
  <2> QED
    BY <1>1, <1>7, <2>1 DEF NotifyAll
<1>8. ASSUME UNCHANGED <<q, wpc, job, done>>
      PROVE  OnePlacePerJob'
  BY <1>1, <1>8 DEF At
<1> QED
  BY <1>2, <1>3, <1>4, <1>5, <1>6, <1>7, <1>8
  DEF Next, vars, WorkerStep, OwnerStep, OwnerCall, Spurious, Gone,
      WaitIdleSleep, WaitIdleReturn, Join, CallWaitIdle, SpuriousOwner, Destroy
-----------------------------------------------------------------------------
\* The order of shutdown.

\* The constructor's first state has stop_ clear and nobody gone.
LEMMA InitLifecycle == Init => Lifecycle /\ ShutdownReachesAll
BY DEF Init, Lifecycle, ShutdownReachesAll, At

\* The order of shutdown survives every step, and so does its notification.
LEMMA NextLifecycle ==
    TypeOK /\ Lifecycle /\ ShutdownReachesAll /\ [Next]_vars
        => Lifecycle' /\ ShutdownReachesAll'
<1> SUFFICES ASSUME TypeOK, Lifecycle, ShutdownReachesAll, [Next]_vars
             PROVE  Lifecycle' /\ ShutdownReachesAll'
  OBVIOUS
<1> DEFINE Down == {"notify_all", "joining", "destroyed"}
<1>0. (stop <=> opc \in Down) /\ (At("exited") # {} => stop /\ q = <<>>)
  BY DEF Lifecycle
<1>1. ASSUME NEW w \in Workers, Sleep(w)
      PROVE  Lifecycle' /\ ShutdownReachesAll'
  <2>1. opc \notin Down /\ UNCHANGED <<stop, opc, q>> /\ At("exited") = {}
    BY <1>0, <1>1 DEF Sleep
  <2>2. At("exited")' = At("exited") \ {w}
    BY <1>1, GoMoves DEF Sleep, WorkerPC
  <2> QED
    BY <1>0, <2>1, <2>2 DEF Lifecycle, ShutdownReachesAll
<1>2. ASSUME NEW w \in Workers, Exit(w)
      PROVE  Lifecycle' /\ ShutdownReachesAll'
  <2>1. stop /\ q = <<>> /\ UNCHANGED <<stop, opc, q>>
    BY <1>2 DEF Exit
  <2>2. /\ At("exited")' = At("exited") \cup {w}
        /\ At("asleep")' = At("asleep") \ {w}
    BY <1>2, GoMoves DEF Exit, WorkerPC
  <2>3. opc = "destroyed" => At("exited")' = Workers
    BY <2>2 DEF Lifecycle
  <2> QED
    BY <2>1, <2>2, <2>3 DEF Lifecycle, ShutdownReachesAll
<1>3. ASSUME NEW w \in Workers, Take(w)
      PROVE  Lifecycle' /\ ShutdownReachesAll'
  <2>1. UNCHANGED <<stop, opc>> /\ At("exited") = {}
    BY <1>0, <1>3 DEF Take
  <2>2. /\ At("exited")' = At("exited") \ {w}
        /\ At("asleep")' = At("asleep") \ {w}
    BY <1>3, GoMoves DEF Take, WorkerPC
  <2>3. w \in Workers /\ opc # "destroyed"
    BY <2>1 DEF Lifecycle
  <2> QED
    BY <1>0, <2>1, <2>2, <2>3 DEF Lifecycle, ShutdownReachesAll
<1>4. ASSUME NEW w \in Workers, Run(w) \/ Finish(w)
      PROVE  Lifecycle' /\ ShutdownReachesAll'
  <2>1. UNCHANGED <<stop, opc, q>> /\ w \notin At("exited")
    BY <1>4 DEF Run, Finish, At
  <2>2. /\ At("exited")' = At("exited") \ {w}
        /\ At("asleep")' = At("asleep") \ {w}
    BY <1>4, GoMoves DEF Run, Finish, WorkerPC
  <2>3. At("exited")' = At("exited")
    BY <2>1, <2>2
  <2> QED
    BY <1>0, <2>1, <2>2, <2>3 DEF Lifecycle, ShutdownReachesAll
<1>5. ASSUME NEW w \in Workers, NotifyDone(w)
      PROVE  Lifecycle' /\ ShutdownReachesAll'
  <2>1. UNCHANGED <<stop, q>> /\ w \notin At("exited")
    BY <1>5 DEF NotifyDone, At
  <2>2. /\ At("exited")' = At("exited") \ {w}
        /\ At("asleep")' = At("asleep") \ {w}
    BY <1>5, GoMoves DEF NotifyDone, WorkerPC
  <2>3. At("exited")' = At("exited")
    BY <2>1, <2>2
  <2>4. opc' = opc \/ (opc = "asleep" /\ opc' = "test")
    BY <1>5 DEF NotifyDone
  <2> QED
    BY <1>0, <2>1, <2>2, <2>3, <2>4 DEF Lifecycle, ShutdownReachesAll
<1>6. ASSUME NEW w \in Workers, Spawn(w)
      PROVE  Lifecycle' /\ ShutdownReachesAll'
  <2>1. UNCHANGED <<stop, q>> /\ opc = "constructing" /\ opc' \in {"constructing", "ready"}
    BY <1>6 DEF Spawn
  <2>2. At("exited")' = At("exited") \ {w}
    BY <1>6, GoMoves DEF Spawn, WorkerPC
  <2> QED
    BY <1>0, <2>1, <2>2 DEF Lifecycle, ShutdownReachesAll
<1>7. CASE NotifyOne
  <2>1. UNCHANGED <<stop, q>> /\ opc = "notify_one" /\ opc' = "ready"
    BY <1>7 DEF NotifyOne
  <2>2. At("exited")' \subseteq At("exited")
    <3>1. ASSUME NEW w \in At("asleep"), Go(w, "loop")
          PROVE  At("exited")' \subseteq At("exited")
      BY <3>1, GoMoves DEF At, WorkerPC
    <3> QED
      BY <1>7, <3>1 DEF NotifyOne, At
  <2> QED
    BY <1>0, <2>1, <2>2 DEF Lifecycle, ShutdownReachesAll
<1>8. CASE WaitIdleSleep \/ WaitIdleReturn \/ CallWaitIdle \/ SpuriousOwner
  <2>1. UNCHANGED <<stop, q, wpc>> /\ opc \notin Down /\ opc' \notin Down
    BY <1>8 DEF WaitIdleSleep, WaitIdleReturn, CallWaitIdle, SpuriousOwner
  <2> QED
    BY <1>0, <2>1 DEF Lifecycle, ShutdownReachesAll, At
<1>9. CASE Join
  <2>1. /\ UNCHANGED <<stop, q, wpc>> /\ opc = "joining" /\ opc' = "destroyed"
        /\ At("exited") = Workers
    BY <1>9 DEF Join
  <2> QED
    BY <1>0, <2>1 DEF Lifecycle, ShutdownReachesAll, At
<1>10. CASE NotifyAll
  <2>1. UNCHANGED <<stop, q>> /\ opc = "notify_all" /\ opc' = "joining"
    BY <1>10 DEF NotifyAll
  <2>2. At("asleep")' = {} /\ At("exited")' = At("exited")
    BY <1>10 DEF NotifyAll, At, TypeOK
  <2> QED
    BY <1>0, <2>1, <2>2 DEF Lifecycle, ShutdownReachesAll
<1>11. ASSUME NEW j \in Jobs, Submit(j)
       PROVE  Lifecycle' /\ ShutdownReachesAll'
  <2>1. UNCHANGED <<stop, wpc>> /\ opc = "ready" /\ opc' = "notify_one"
    BY <1>11 DEF Submit
  <2>2. At("exited") = {}
    BY <1>0, <2>1
  <2> QED
    BY <1>0, <2>1, <2>2 DEF Lifecycle, ShutdownReachesAll, At
<1>12. CASE Destroy
  <2>1. UNCHANGED <<q, wpc>> /\ stop' /\ opc' = "notify_all" /\ opc = "ready"
    BY <1>12 DEF Destroy
  <2>2. At("exited") = {}
    BY <1>0, <2>1
  <2> QED
    BY <2>1, <2>2 DEF Lifecycle, ShutdownReachesAll, At
<1>13. ASSUME NEW w \in Workers, SpuriousWorker(w)
       PROVE  Lifecycle' /\ ShutdownReachesAll'
  <2>1. UNCHANGED <<stop, opc, q>> /\ w \notin At("exited")
    BY <1>13 DEF SpuriousWorker, At
  <2>2. /\ At("exited")' = At("exited") \ {w}
        /\ At("asleep")' = At("asleep") \ {w}
    BY <1>13, GoMoves DEF SpuriousWorker, WorkerPC
  <2>3. At("exited")' = At("exited")
    BY <2>1, <2>2
  <2> QED
    BY <1>0, <2>1, <2>2, <2>3 DEF Lifecycle, ShutdownReachesAll
<1>14. CASE UNCHANGED vars
  BY <1>14 DEF vars, Lifecycle, ShutdownReachesAll, At
<1> QED
  BY <1>1, <1>2, <1>3, <1>4, <1>5, <1>6, <1>7, <1>8, <1>9, <1>10, <1>11,
     <1>12, <1>13, <1>14
  DEF Next, WorkerStep, OwnerStep, OwnerCall, Spurious, Gone
-----------------------------------------------------------------------------
\* The theorems of the invariants.

\* PoolInv is an invariant of the pool.
THEOREM PoolInvariant == Spec => []PoolInv
<1>1. Init => PoolInv
  BY InitTypeOK, InitActiveCount, InitOnePlace, InitLifecycle DEF PoolInv
<1>2. PoolInv /\ [Next]_vars => PoolInv'
  BY NextTypeOK, NextActiveCount, NextOnePlace, NextLifecycle DEF PoolInv
<1> QED
  BY <1>1, <1>2, PTL DEF Spec, Safe

\* Type correctness, for every number of threads and every set of jobs.
THEOREM TypeCorrect == Spec => []TypeOK
<1>1. PoolInv => TypeOK
  BY DEF PoolInv
<1> QED
  BY <1>1, PoolInvariant, PTL

\* active_ is the number of workers between pop and decrement (thread_pool.h
\* 53 and 58), which is what makes wait_idle's test of it mean anything.
THEOREM ActiveCountHolds == Spec => []ActiveCount
<1>1. PoolInv => ActiveCount
  BY DEF PoolInv
<1> QED
  BY <1>1, PoolInvariant, PTL

\* No job is lost, duplicated or run twice.
THEOREM OnePlaceHolds == Spec => []OnePlacePerJob
<1>1. PoolInv => OnePlacePerJob
  BY DEF PoolInv
<1> QED
  BY <1>1, PoolInvariant, PTL

\* stop_, the queue and the exits of the workers keep their order.
THEOREM LifecycleHolds == Spec => []Lifecycle
<1>1. PoolInv => Lifecycle
  BY DEF PoolInv
<1> QED
  BY <1>1, PoolInvariant, PTL

\* No worker sleeps once the destructor has notified.
THEOREM ShutdownHolds == Spec => []ShutdownReachesAll
<1>1. PoolInv => ShutdownReachesAll
  BY DEF PoolInv
<1> QED
  BY <1>1, PoolInvariant, PTL

\* The destructor returns with every submitted job done.
THEOREM DestructorDrainsHolds == Spec => []DestructorDrains
<1>1. PoolInv => DestructorDrains
  <2> SUFFICES ASSUME PoolInv, opc = "destroyed"
               PROVE  Submitted = done
    BY DEF DestructorDrains
  <2>1. At("exited") = Workers
    BY DEF PoolInv, Lifecycle
  <2>2. At("exited") # {} /\ q = <<>>
    <3>1. 1 \in Workers
      BY WorkersFinite DEF Workers
    <3>2. At("exited") # {}
      BY <2>1, <3>1
    <3> QED
      BY <3>2 DEF PoolInv, Lifecycle
  <2>3. Queued = {} /\ Running = {}
    BY <2>1, <2>2 DEF Queued, Range, Running, At
  <2> QED
    BY <2>3 DEF Submitted
<1> QED
  BY <1>1, PoolInvariant, PTL

\* With nothing queued and active_ at zero, nothing is running.
LEMMA IdleMeansDone ==
    ASSUME PoolInv, q = <<>>, active = 0
    PROVE  Running = {} /\ Submitted = done
<1>1. IsFiniteSet(Busy) /\ Cardinality(Busy) = 0
  BY BusyFinite DEF Busy, At, PoolInv, ActiveCount
<1>2. Busy = {}
  BY <1>1, FS_EmptySet
<1>3. Running = {} /\ Queued = {}
  BY <1>2 DEF Busy, Running, Queued, Range
<1> QED
  BY <1>3 DEF Submitted

\* wait_idle returns only when every job submitted so far is done: the fact
\* main.cpp's comment on the captured blob relies on (main.cpp 445-446).
THEOREM WaitReturnsQuietHolds == Spec => WaitReturnsQuiet
<1>1. PoolInv /\ [Next]_vars => [opc = "test" /\ opc' = "ready" => Submitted = done]_vars
  <2> SUFFICES ASSUME PoolInv, Next, opc = "test", opc' = "ready"
               PROVE  Submitted = done
    OBVIOUS
  <2>1. WaitIdleReturn
    BY DEF Next, WorkerStep, OwnerStep, OwnerCall, Spurious, Gone, Sleep, Exit,
           Take, Run, Finish, NotifyDone, Spawn, NotifyOne, WaitIdleSleep,
           NotifyAll, Join, Submit, CallWaitIdle, Destroy, SpuriousOwner,
           SpuriousWorker, vars
  <2> QED
    BY <2>1, IdleMeansDone DEF WaitIdleReturn
<1> QED
  BY <1>1, PoolInvariant, PTL DEF Spec, Safe, WaitReturnsQuiet
-----------------------------------------------------------------------------
\* No lost wakeup.

\* The notification of cv_ that submit still owes.
Owed == IF opc = "notify_one" THEN 1 ELSE 0

\* A worker other than an awake one moves, or one joins the awake ones: the
\* bound of NoLostWakeup does not get worse.
LEMMA MoreAwake ==
    ASSUME TypeOK, NoLostWakeup, q' = q, Owed' = Owed,
           At("asleep")' \subseteq At("asleep"),
           At("loop") \subseteq At("loop")'
    PROVE  NoLostWakeup'
<1>1. At("loop")' \in SUBSET Workers
  BY DEF At
<1>2. IsFiniteSet(At("loop")') /\ Cardinality(At("loop")') \in Nat
  BY <1>1, BusyFinite
<1>3. Cardinality(At("loop")) <= Cardinality(At("loop")')
  BY <1>2, FS_Subset
<1>4. Cardinality(At("loop")) \in Nat
  BY BusyFinite DEF At
<1>5. At("asleep")' # {} => At("asleep") # {}
  OBVIOUS
<1>6. Len(q) \in Nat /\ Owed \in Nat
  BY DEF TypeOK, Owed
<1>7. At("asleep") # {} => Len(q) <= Cardinality(At("loop")) + Owed
  BY DEF NoLostWakeup, Owed
<1>8. At("asleep")' # {} => Len(q') <= Cardinality(At("loop")') + Owed'
  BY <1>2, <1>3, <1>4, <1>5, <1>6, <1>7
<1> QED
  BY <1>8 DEF NoLostWakeup, Owed

\* Nobody sleeps at the start.
LEMMA InitNoLostWakeup == Init => NoLostWakeup
BY DEF Init, NoLostWakeup, At

\* Whoever takes or adds a job keeps the awake workers ahead of the queue.
LEMMA NextNoLostWakeup == TypeOK /\ NoLostWakeup /\ [Next]_vars => NoLostWakeup'
<1> SUFFICES ASSUME TypeOK, NoLostWakeup, [Next]_vars
             PROVE  NoLostWakeup'
  OBVIOUS
<1>a. /\ Cardinality(At("loop")) \in Nat
      /\ IsFiniteSet(At("loop"))
      /\ Len(q) \in Nat
      /\ Owed \in {0, 1}
  BY BusyFinite DEF At, TypeOK, Owed
<1>b. At("asleep") # {} => Len(q) <= Cardinality(At("loop")) + Owed
  BY DEF NoLostWakeup, Owed
<1>c. ASSUME At("asleep")' # {} => Len(q') <= Cardinality(At("loop")') + Owed'
      PROVE  NoLostWakeup'
  BY <1>c DEF NoLostWakeup, Owed
<1>1. ASSUME NEW w \in Workers, Sleep(w) \/ Exit(w)
      PROVE  NoLostWakeup'
  <2>1. Len(q') = 0 /\ Owed' \in Nat
    BY <1>1 DEF Sleep, Exit, Owed
  <2>2. Cardinality(At("loop")') \in Nat
    <3>1. At("loop")' \in SUBSET Workers
      BY DEF At
    <3> QED
      BY <3>1, BusyFinite
  <2> QED
    BY <1>c, <2>1, <2>2
<1>2. ASSUME NEW w \in Workers, Take(w)
      PROVE  NoLostWakeup'
  <2>1. At("loop")' = At("loop") \ {w} /\ At("asleep")' = At("asleep") \ {w}
    BY <1>2, GoMoves DEF Take, WorkerPC
  <2>2. w \in At("loop")
    BY <1>2 DEF Take, At
  <2>3. Cardinality(At("loop")') = Cardinality(At("loop")) - 1
    BY <1>a, <2>1, <2>2, FS_RemoveElement
  <2>4. Len(q') = Len(q) - 1 /\ Owed' = Owed
    BY <1>2 DEF Take, TypeOK, Owed
  <2> QED
    BY <1>a, <1>b, <1>c, <2>1, <2>3, <2>4
<1>3. ASSUME NEW w \in Workers, Run(w) \/ Finish(w)
      PROVE  NoLostWakeup'
  <2>1. w \notin At("loop") /\ q' = q /\ Owed' = Owed
    BY <1>3 DEF Run, Finish, At, Owed
  <2>2. At("loop")' = At("loop") \ {w} /\ At("asleep")' = At("asleep") \ {w}
    BY <1>3, GoMoves DEF Run, Finish, WorkerPC
  <2> QED
    BY <2>1, <2>2, MoreAwake
<1>4. ASSUME NEW w \in Workers,
             NotifyDone(w) \/ Spawn(w) \/ SpuriousWorker(w)
      PROVE  NoLostWakeup'
  <2>1. At("loop")' = At("loop") \cup {w} /\ At("asleep")' = At("asleep") \ {w}
    BY <1>4, GoMoves DEF NotifyDone, Spawn, SpuriousWorker, WorkerPC
  <2>2. q' = q /\ Owed' = Owed
    BY <1>4 DEF NotifyDone, Spawn, SpuriousWorker, Owed
  <2> QED
    BY <2>1, <2>2, MoreAwake
<1>5. ASSUME NotifyOne, NEW w \in At("asleep"), Go(w, "loop")
      PROVE  NoLostWakeup'
  <2>1. At("loop")' = At("loop") \cup {w} /\ At("asleep")' = At("asleep") \ {w}
    BY <1>5, GoMoves DEF At, WorkerPC
  <2>2. w \notin At("loop") /\ At("asleep") # {}
    BY <1>5 DEF At
  <2>3. Cardinality(At("loop")') = Cardinality(At("loop")) + 1
    BY <1>a, <2>1, <2>2, FS_AddElement
  <2>4. q' = q /\ Owed = 1 /\ Owed' = 0
    BY <1>5 DEF NotifyOne, Owed
  <2> QED
    BY <1>a, <1>b, <1>c, <2>2, <2>3, <2>4
<1>6. ASSUME NotifyOne, At("asleep") = {}, UNCHANGED wpc
      PROVE  NoLostWakeup'
  BY <1>6 DEF NoLostWakeup, At
<1>7. CASE NotifyAll
  BY <1>7 DEF NotifyAll, NoLostWakeup, At, TypeOK
<1>8. ASSUME NEW j \in Jobs, Submit(j)
      PROVE  NoLostWakeup'
  <2>1. Len(q') = Len(q) + 1 /\ Owed = 0 /\ Owed' = 1 /\ wpc' = wpc
    BY <1>8 DEF Submit, TypeOK, Owed
  <2>2. At("loop")' = At("loop") /\ At("asleep")' = At("asleep")
    BY <2>1 DEF At
  <2> QED
    BY <1>a, <1>b, <1>c, <2>1, <2>2
<1>9. CASE WaitIdleSleep \/ WaitIdleReturn \/ Join \/ CallWaitIdle
           \/ SpuriousOwner \/ Destroy \/ UNCHANGED vars
  <2>1. q' = q /\ wpc' = wpc /\ Owed' = Owed
    BY <1>9 DEF WaitIdleSleep, WaitIdleReturn, Join, CallWaitIdle,
                SpuriousOwner, Destroy, vars, Owed
  <2> QED
    BY <2>1, MoreAwake DEF At
<1> QED
  BY <1>1, <1>2, <1>3, <1>4, <1>5, <1>6, <1>7, <1>8, <1>9
  DEF Next, WorkerStep, OwnerStep, OwnerCall, Spurious, Gone, NotifyOne

\* However the notifications interleave with the workers, no queued job is
\* left beside a sleeping worker that nobody is about to wake.
THEOREM NoLostWakeupHolds == Spec => []NoLostWakeup
BY InitNoLostWakeup, NextNoLostWakeup, TypeCorrect, PTL DEF Spec, Safe

\* An owner asleep in wait_idle always has a notification coming.
THEOREM OwnerHasWakerHolds == Spec => []OwnerHasWaker
<1>1. Init => OwnerHasWaker
  BY DEF Init, OwnerHasWaker
<1>2. TypeOK /\ OwnerHasWaker /\ [Next]_vars => OwnerHasWaker'
  <2> SUFFICES ASSUME TypeOK, OwnerHasWaker, [Next]_vars, opc' = "asleep"
               PROVE  q' # <<>> \/ active' > 0 \/ At("notify")' # {}
    BY DEF OwnerHasWaker
  <2>1. ASSUME NEW w \in Workers, Sleep(w) \/ Exit(w) \/ Run(w) \/ SpuriousWorker(w)
        PROVE  q' # <<>> \/ active' > 0 \/ At("notify")' # {}
    <3>1. w \notin At("notify") /\ UNCHANGED <<q, active, opc>>
      BY <2>1 DEF Sleep, Exit, Run, SpuriousWorker, At
    <3>2. At("notify")' = At("notify") \ {w}
      BY <2>1, GoMoves DEF Sleep, Exit, Run, SpuriousWorker, WorkerPC
    <3> QED
      BY <3>1, <3>2 DEF OwnerHasWaker
  <2>2. ASSUME NEW w \in Workers, Take(w)
        PROVE  active' > 0
    BY <2>2 DEF Take, TypeOK
  <2>3. ASSUME NEW w \in Workers, Finish(w)
        PROVE  At("notify")' # {}
    BY <2>3, GoMoves DEF Finish, WorkerPC
  <2>4. ASSUME NEW w \in Workers, NotifyDone(w) \/ Spawn(w)
        PROVE  FALSE
    BY <2>4 DEF NotifyDone, Spawn
  <2>5. CASE WaitIdleSleep
    BY <2>5 DEF WaitIdleSleep, TypeOK
  <2>6. CASE \/ NotifyOne \/ WaitIdleReturn \/ NotifyAll \/ Join \/ CallWaitIdle
             \/ Destroy \/ SpuriousOwner \/ \E j \in Jobs : Submit(j)
    BY <2>6 DEF NotifyOne, WaitIdleReturn, NotifyAll, Join, CallWaitIdle,
                Destroy, SpuriousOwner, Submit
  <2>7. CASE UNCHANGED vars
    BY <2>7 DEF vars, OwnerHasWaker, At
  <2> QED
    BY <2>1, <2>2, <2>3, <2>4, <2>5, <2>6, <2>7
    DEF Next, WorkerStep, OwnerStep, OwnerCall, Spurious, Gone
<1> QED
  BY <1>1, <1>2, TypeCorrect, PTL DEF Spec, Safe
-----------------------------------------------------------------------------
\* Refinement: every step of the pool is a step of JobPool or a stutter.

\* A worker about to take a job is not running one, and running workers hold
\* different jobs, so fewer than Width jobs run.
LEMMA RoomForOne ==
    ASSUME PoolInv, NEW w \in Workers, wpc[w] = "loop"
    PROVE  Cardinality(Running) < Width
<1> DEFINE R == At("running")
           holds == [v \in R |-> job[v]]
<1>1. R \in SUBSET (Workers \ {w})
  BY DEF At
<1>2. IsFiniteSet(Workers \ {w}) /\ Cardinality(Workers \ {w}) = Width - 1
  BY WorkersFinite, FS_RemoveElement
<1>3. IsFiniteSet(R) /\ Cardinality(R) <= Width - 1
  BY <1>1, <1>2, FS_Subset
<1>4. holds \in Surjection(R, Running)
  BY DEF Surjection, Running
<1>5. IsFiniteSet(Running) /\ Cardinality(Running) <= Cardinality(R)
  BY <1>3, <1>4, FS_Surjection
<1>6. Cardinality(R) \in Nat /\ Cardinality(Running) \in Nat /\ Width \in Nat
  BY <1>3, <1>5, FS_CardinalityType, WorkersFinite
<1> QED
  BY <1>3, <1>5, <1>6

\* If the queue, the running workers, their jobs and the phase stay, JobPool
\* stutters.
LEMMA Stutter ==
    ASSUME q' = q, done' = done, At("running")' = At("running"),
           \A w \in At("running") : job'[w] = job[w],
           Phase' = Phase
    PROVE  UNCHANGED Abstract!vars
<1>1. Running' = Running
  BY DEF Running
<1> QED
  BY <1>1 DEF Abstract!vars

\* The pool's initial state is JobPool's.
LEMMA InitImplements == Init => Abstract!Init
<1> SUFFICES ASSUME Init PROVE Abstract!Init
  OBVIOUS
<1>1. Running = {}
  BY DEF Init, Running, At
<1>2. Phase = "open"
  BY DEF Init, Phase
<1> QED
  BY <1>1, <1>2 DEF Init, Abstract!Init

\* Every step of the pool is a step of JobPool or leaves its variables alone.
LEMMA NextImplements == PoolInv /\ [Next]_vars => [Abstract!Next]_(Abstract!vars)
<1> SUFFICES ASSUME PoolInv, [Next]_vars
             PROVE  Abstract!Next \/ UNCHANGED Abstract!vars
  BY DEF Abstract!Next, Abstract!vars
<1>0. TypeOK /\ OnePlacePerJob /\ Lifecycle
  BY DEF PoolInv
<1>1. ASSUME NEW w \in Workers,
             Sleep(w) \/ Exit(w) \/ Finish(w) \/ NotifyDone(w) \/ Spawn(w)
             \/ SpuriousWorker(w)
      PROVE  UNCHANGED Abstract!vars
  <2>1. w \notin At("running")
    BY <1>1 DEF Sleep, Exit, Finish, NotifyDone, Spawn, SpuriousWorker, At
  <2>2. \E pc \in WorkerPC \ {"running"} : Go(w, pc)
    BY <1>1 DEF Sleep, Exit, Finish, NotifyDone, Spawn, SpuriousWorker, WorkerPC
  <2>3. At("running")' = At("running")
    BY <1>0, <2>1, <2>2, GoMoves
  <2>4. \A v \in At("running") : job'[v] = job[v]
    BY <1>0, <1>1, <2>1 DEF Sleep, Exit, Finish, NotifyDone, Spawn,
                            SpuriousWorker, TypeOK, At
  <2>5. Phase' = Phase
    BY <1>1 DEF Sleep, Exit, Finish, NotifyDone, Spawn, SpuriousWorker, Phase
  <2>6. q' = q /\ done' = done
    BY <1>1 DEF Sleep, Exit, Finish, NotifyDone, Spawn, SpuriousWorker
  <2> QED
    BY <2>3, <2>4, <2>5, <2>6, Stutter
<1>2. ASSUME NEW w \in Workers, Take(w)
      PROVE  Abstract!Start
  <2>1. /\ q # <<>> /\ q' = Tail(q) /\ done' = done /\ opc' = opc
        /\ wpc[w] = "loop"
    BY <1>2 DEF Take
  <2>2. Cardinality(Running) < Width
    BY <2>1, RoomForOne
  <2>3. At("running")' = At("running") \cup {w} /\ w \notin At("running")
    <3>1. At("running")' = At("running") \cup {w}
      BY <1>0, <1>2, GoMoves DEF Take, WorkerPC
    <3>2. w \notin At("running")
      BY <2>1 DEF At
    <3> QED
      BY <3>1, <3>2
  <2>4. job'[w] = Head(q) /\ \A v \in Workers \ {w} : job'[v] = job[v]
    BY <1>0, <1>2 DEF Take, TypeOK
  <2>5. Running' = Running \cup {Head(q)}
    BY <2>3, <2>4 DEF Running, At
  <2>6. Phase' = Phase
    BY <2>1 DEF Phase
  <2> QED
    BY <2>1, <2>2, <2>5, <2>6 DEF Abstract!Start, Abstract!Cardinality, Cardinality
<1>3. ASSUME NEW w \in Workers, Run(w)
      PROVE  \E j \in Jobs : Abstract!Finish(j)
  <2>1. At("running")' = At("running") \ {w} /\ w \in At("running")
    <3>1. At("running")' = At("running") \ {w}
      BY <1>0, <1>3, GoMoves DEF Run, WorkerPC
    <3>2. w \in At("running")
      BY <1>3 DEF Run, At
    <3> QED
      BY <3>1, <3>2
  <2>2. q' = q /\ job' = job /\ done' = done \cup {job[w]} /\ opc' = opc
    BY <1>3 DEF Run
  <2>3. Running' = Running \ {job[w]} /\ job[w] \in Running /\ job[w] \in Jobs
    BY <1>0, <2>1, <2>2 DEF Running, OnePlacePerJob
  <2>4. Phase' = Phase
    BY <2>2 DEF Phase
  <2> QED
    BY <2>2, <2>3, <2>4 DEF Abstract!Finish
<1>4. CASE NotifyOne
  <2>1. At("running")' = At("running")
    <3>1. ASSUME NEW w \in At("asleep"), Go(w, "loop")
          PROVE  At("running")' = At("running")
      BY <1>0, <3>1, GoMoves DEF At, WorkerPC
    <3> QED
      BY <1>4, <3>1 DEF NotifyOne, At
  <2>2. Phase' = Phase
    BY <1>4 DEF NotifyOne, Phase
  <2> QED
    BY <1>4, <2>1, <2>2, Stutter DEF NotifyOne
<1>5. CASE NotifyAll
  <2>1. At("running")' = At("running")
    BY <1>0, <1>5 DEF NotifyAll, At, TypeOK
  <2>2. Phase' = Phase
    BY <1>5 DEF NotifyAll, Phase
  <2> QED
    BY <1>5, <2>1, <2>2, Stutter DEF NotifyAll
<1>6. ASSUME NEW j \in Jobs, Submit(j)
      PROVE  Abstract!Submit(j)
  <2>1. /\ q' = Append(q, j) /\ UNCHANGED <<wpc, job, done>>
        /\ opc = "ready" /\ opc' = "notify_one"
    BY <1>6 DEF Submit
  <2>2. Running' = Running
    BY <2>1 DEF Running, At
  <2>3. Phase = "open" /\ Phase' = "open"
    BY <2>1 DEF Phase
  <2>4. j \notin Abstract!Submitted
    BY <1>6 DEF Submit, Submitted, Queued, Range, Abstract!Submitted,
                 Abstract!Queued, Abstract!Range
  <2> QED
    BY <2>1, <2>2, <2>3, <2>4 DEF Abstract!Submit
<1>7. ASSUME UNCHANGED <<q, wpc, job, done>>
      PROVE  UNCHANGED <<q, Running, done>>
  BY <1>7 DEF Running, At
<1>8. CASE CallWaitIdle
  <2>1. Phase = "open" /\ Phase' = "waiting"
    BY <1>8 DEF CallWaitIdle, Phase
  <2>2. UNCHANGED <<q, Running, done>>
    BY <1>7, <1>8 DEF CallWaitIdle
  <2>3. Abstract!CallWait
    BY <2>1, <2>2 DEF Abstract!CallWait
  <2> QED
    BY <2>3 DEF Abstract!Next
<1>9. CASE WaitIdleSleep \/ SpuriousOwner
  <2>1. Phase' = Phase
    BY <1>9 DEF WaitIdleSleep, SpuriousOwner, Phase
  <2>2. UNCHANGED <<q, Running, done>>
    BY <1>7, <1>9 DEF WaitIdleSleep, SpuriousOwner
  <2> QED
    BY <2>1, <2>2 DEF Abstract!vars
<1>10. CASE WaitIdleReturn
  <2>1. Phase = "waiting" /\ Phase' = "open"
    BY <1>10 DEF WaitIdleReturn, Phase
  <2>2. UNCHANGED <<q, Running, done>>
    BY <1>7, <1>10 DEF WaitIdleReturn
  <2>3. Abstract!Quiet
    BY <1>10, IdleMeansDone DEF WaitIdleReturn, Abstract!Quiet
  <2>4. Abstract!ReturnFromWait
    BY <2>1, <2>2, <2>3 DEF Abstract!ReturnFromWait
  <2> QED
    BY <2>4 DEF Abstract!Next
<1>11. CASE Destroy
  <2>1. Phase = "open" /\ Phase' = "closing"
    BY <1>11 DEF Destroy, Phase
  <2>2. UNCHANGED <<q, Running, done>>
    BY <1>7, <1>11 DEF Destroy
  <2>3. Abstract!BeginClose
    BY <2>1, <2>2 DEF Abstract!BeginClose
  <2> QED
    BY <2>3 DEF Abstract!Next
<1>12. CASE Join
  <2>1. Phase = "closing" /\ Phase' = "closed"
    BY <1>12 DEF Join, Phase
  <2>2. UNCHANGED <<q, Running, done>>
    BY <1>7, <1>12 DEF Join
  <2>3. Abstract!Quiet
    <3>1. At("exited") = Workers
      BY <1>12 DEF Join
    <3>2. 1 \in Workers
      BY WorkersFinite DEF Workers
    <3>3. q = <<>>
      BY <1>0, <3>1, <3>2 DEF Lifecycle
    <3>4. Running = {}
      BY <3>1 DEF Running, At
    <3> QED
      BY <3>3, <3>4 DEF Abstract!Quiet
  <2>4. Abstract!EndClose
    BY <2>1, <2>2, <2>3 DEF Abstract!EndClose
  <2> QED
    BY <2>4 DEF Abstract!Next
<1>13. CASE UNCHANGED vars
  <2>1. UNCHANGED <<q, Running, done>> /\ Phase' = Phase
    BY <1>7, <1>13 DEF vars, Phase
  <2> QED
    BY <2>1 DEF Abstract!vars
<1> QED
  BY <1>1, <1>2, <1>3, <1>4, <1>5, <1>6, <1>8, <1>9, <1>10, <1>11, <1>12, <1>13
  DEF Next, WorkerStep, OwnerStep, OwnerCall, Spurious, Gone, Abstract!Next

\* The pool implements the safety part of JobPool: first in, first out, at
\* most Width jobs at once, a wait that returns and a destructor that ends
\* only when the pool is quiet.
THEOREM PoolImplements == Spec => Abstract!Safe
<1>1. Init => Abstract!Init
  BY InitImplements
<1>2. PoolInv /\ [Next]_vars => [Abstract!Next]_(Abstract!vars)
  BY NextImplements
<1> QED
  BY <1>1, <1>2, PoolInvariant, PTL DEF Spec, Safe, Abstract!Safe
=============================================================================
